--------------------------- MODULE ChainDatabase ---------------------------
(***************************************************************************)
(* The block-handling half of chain::database (db_block.cpp,               *)
(* db_management.cpp, db_with.hpp) on top of the fork database, the block  *)
(* database and the undo database.                                         *)
(*                                                                         *)
(* A block extends exactly one parent, so the object database is given by  *)
(* the head block and the pending transactions on top of it.  UndoDatabase *)
(* shows that undoing a block brings the state of its parent back; here    *)
(* only the number of blocks that can still be undone is kept.             *)
(*                                                                         *)
(* A fork switch takes one step per block popped or applied, so that the   *)
(* process can stop between any two writes to the block database.          *)
(***************************************************************************)
EXTENDS Integers, Sequences, FiniteSetsExt, SequencesExt

CONSTANTS
    Blocks, Genesis, NoBlock, Torn, Parent, Num,
    TxsOf,         \* the transactions of a block
    Lib,           \* last_irreversible_block_num after applying a block
    Invalid,       \* blocks that do not apply (signature, witness, operations)
    Txs,           \* the transactions of the run
    Conflicts,     \* pairs {t, u} that cannot both be applied
    ProposalTxs,   \* transactions that execute a proposal (push_proposal)
    InitMaxSize,   \* the _max_size of both databases before the first block
    MaxUndo,       \* database::max_undo
    InOrder,       \* a block 1 is offered exactly to a node without blocks
    MaxNum,        \* bound: the highest block number
    MaxPending,    \* bound: the number of pending transactions
    MaxRestarts    \* bound: how often the process stops

ASSUME BlocksAssumption ==
    /\ {Genesis, NoBlock, Torn} \cap Blocks = {}
    /\ Genesis # NoBlock /\ Torn # NoBlock
    /\ Parent \in [Blocks -> Blocks \cup {Genesis}]
    /\ Num \in [Blocks \cup {Genesis} -> 0 .. MaxNum]
    /\ Num[Genesis] = 0
    /\ \A b \in Blocks : Num[b] = Num[Parent[b]] + 1

ASSUME LibAssumption ==
    /\ Lib \in [Blocks \cup {Genesis} -> 0 .. MaxNum]
    /\ Lib[Genesis] = 0
    /\ \A b \in Blocks : Lib[Parent[b]] <= Lib[b] /\ Lib[b] <= Num[b]

ASSUME TxsAssumption ==
    /\ TxsOf \in [Blocks -> Seq(Txs)]
    /\ Invalid \subseteq Blocks /\ ProposalTxs \subseteq Txs
    /\ InOrder \in BOOLEAN

ASSUME SizesAssumption ==
    /\ InitMaxSize \in Nat \ {0, 1}
    /\ {MaxUndo, MaxNum, MaxPending, MaxRestarts} \subseteq Nat

fork_db == INSTANCE ForkDatabase
block_db == INSTANCE BlockDatabase

VARIABLES
    head,       \* head_block_id()
    undo_size,  \* committed undo states: the blocks that can be popped
    max_size,   \* _max_size of the undo and of the fork database
    fork,       \* _fork_db
    file,       \* _block_id_to_block as the running process sees it
    unflushed,  \* what the streams still buffer: the last write to the index
                \* (the entry it replaced) and the last block stored
    pending,    \* _pending_tx
    unapplied,  \* how many of these, the oldest, _pending_tx_session has lost
    popped,     \* _popped_tx
    stash,      \* pending_transactions_restorer::_pending_transactions
    job,        \* the call in progress
    flushed,    \* the head block in the object database on disk
    restarts,
    final       \* history: the highest block this node called irreversible, and
                \* NoBlock once the block database has been damaged

vars == <<head, undo_size, max_size, fork, file, unflushed, pending, unapplied,
          popped, stash, job, flushed, restarts, final>>

\* first and second are the branches of a fork switch, lowest block first.
Job == [stage : {"idle", "pop", "apply", "unwind", "restore", "close", "down"},
        new : Blocks \cup {NoBlock}, cutoff : 0 .. MaxNum,
        first : Seq(Blocks), second : Seq(Blocks)]

Idle == [stage |-> "idle", new |-> NoBlock, cutoff |-> 0,
         first |-> << >>, second |-> << >>]
Down == [Idle EXCEPT !.stage = "down"]

-----------------------------------------------------------------------------
(* Transactions *)

TxsOn(b) == UNION {Range(TxsOf[c]) : c \in Range(fork_db!Path[b])}

\* _apply_transaction: not a duplicate, and its operations evaluate.
Applies(tx, applied) ==
    tx \notin applied /\ \A u \in applied : {tx, u} \notin Conflicts

\* ~pending_transactions_restorer: the popped and then the stashed ones are
\* pushed again, those that no longer apply are dropped.
Repushed(b, txs) ==
    LET after[i \in 0 .. Len(txs)] ==
            IF i = 0 THEN << >>
            ELSE LET before == after[i - 1]
                 IN IF Applies(txs[i], TxsOn(b) \cup Range(before))
                    THEN Append(before, txs[i]) ELSE before
    IN  after[Len(txs)]

\* Each start_undo_session first trims the stack to max_size.  While a
\* transaction is pushed the pending session is open, and the session of a
\* proposal is started inside that of its transaction.
Depth(tx) == IF tx \in ProposalTxs THEN 2 ELSE 1
TrimmedFor(n, size, txs) ==
    Min({n} \cup {size - Depth(tx) : tx \in txs})

-----------------------------------------------------------------------------
(* Effects shared by the actions *)

\* Mutant: the transactions are put back without being applied again.
ReturnWith_unchecked(b, n, size, list) ==
    /\ pending' = list /\ unapplied' = 0
    /\ undo_size' = TrimmedFor(n, size, Range(list) \ TxsOn(b))
    /\ popped' = << >> /\ stash' = << >>
    /\ job' = Idle

\* push_block returns or throws: its restorer runs on the block it leaves.
\* size and n are the final _max_size and number of undo states.
ReturnWith(b, n, size, list) ==
    /\ pending' = Repushed(b, list) /\ unapplied' = 0
    /\ undo_size' = TrimmedFor(n, size, Range(list) \ TxsOn(b))
    /\ popped' = << >> /\ stash' = << >>
    /\ job' = Idle

NothingUnflushed == [num |-> 0, entry |-> block_db!NoEntry, data |-> NoBlock]

Finalised(b) == IF Lib[b] = 0 THEN Genesis ELSE fork_db!Path[b][Lib[b]]

\* The highest irreversible block after b was applied and stored under id.
\* Under the id of another block it damages the block database.
FinalAfter(id, b) ==
    IF id # b \/ final = NoBlock THEN NoBlock
    ELSE IF Num[Finalised(b)] > Num[final] THEN Finalised(b) ELSE final

\* Mutant: an entry that was used before is not written again.
StoreBlock_once(id, b) ==
    /\ file' = IF file[Num[id]] # block_db!NoEntry THEN file
               ELSE block_db!store(file, id, b)
    /\ unflushed' = [num |-> Num[id], entry |-> file[Num[id]], data |-> b]
    /\ final' = FinalAfter(id, b)

StoreBlock(id, b) ==
    /\ file' = block_db!store(file, id, b)
    /\ unflushed' = [num |-> Num[id], entry |-> file[Num[id]], data |-> b]
    /\ final' = FinalAfter(id, b)

RemoveBlock(id) ==
    /\ file' = block_db!remove(file, id)
    /\ unflushed' = IF file' = file THEN unflushed
                    ELSE [unflushed EXCEPT !.num = Num[id], !.entry = file[Num[id]]]

KeepFile == UNCHANGED <<file, unflushed>>

\* _apply_block succeeds; update_global_dynamic_data sizes both databases from
\* the irreversible block of the state before b.  An invalid block fails in its
\* header or transactions, before the sizes are set.
Valid(b) == b \notin Invalid /\ Num[b] - Lib[Parent[b]] < MaxUndo
CanApply(b) == Parent[b] = head /\ Valid(b)

\* A block has a session of its own, and a proposal it executes one inside.
UndoAfterApply(b) ==
    Min({undo_size, max_size} \cup
        {max_size - 1 : tx \in Range(TxsOf[b]) \cap ProposalTxs}) + 1
\* Mutant: without the extra state.
SizeAfter_tight(b) == Num[b] - Lib[Parent[b]]

SizeAfter(b) == Num[b] - Lib[Parent[b]] + 1

ApplyBlock(b, f) ==
    /\ head' = b
    /\ max_size' = SizeAfter(b)
    /\ fork' = fork_db!set_max_size(f, SizeAfter(b))

\* pop_block: the fork database moves its own head, the block leaves the disk
\* and the newest undo state is applied.  It throws before any of this when
\* the block is nowhere to be found or the fork database has no parent, and
\* after the first two when there is no undo state left.
PopThrowsEarly ==
    \/ head = Genesis
    \/ head \notin fork.index /\ block_db!fetch_optional(file, head) = NoBlock
    \/ fork_db!PopThrows(fork)

\* Mutant: the transactions of the popped block are not kept.
PopBlock_forgets ==
    /\ ~PopThrowsEarly /\ undo_size > 0
    /\ head' = Parent[head]
    /\ undo_size' = undo_size - 1
    /\ RemoveBlock(head)
    /\ popped' = popped

PopBlock ==
    /\ ~PopThrowsEarly /\ undo_size > 0
    /\ head' = Parent[head]
    /\ undo_size' = undo_size - 1
    /\ RemoveBlock(head)
    /\ popped' = TxsOf[head] \o popped

PopFails ==
    /\ PopThrowsEarly \/ undo_size = 0
    /\ IF PopThrowsEarly THEN KeepFile /\ UNCHANGED <<fork, final>>
       ELSE /\ fork' = fork_db!pop_block(fork)
            /\ RemoveBlock(head) /\ final' = NoBlock
    /\ UNCHANGED <<head, max_size>>

-----------------------------------------------------------------------------
(* Transactions and blocks arrive *)

Init ==
    /\ head = Genesis /\ undo_size = 0 /\ max_size = InitMaxSize
    /\ fork = fork_db!reset
    /\ file = block_db!EmptyFile
    /\ unflushed = NothingUnflushed
    /\ pending = << >> /\ unapplied = 0 /\ popped = << >> /\ stash = << >>
    /\ job = Idle
    /\ flushed = NoBlock /\ restarts = 0 /\ final = Genesis

\* What is applied on top of the head block in _pending_tx_session.
InSession == {pending[i] : i \in unapplied + 1 .. Len(pending)}

push_transaction(tx) ==
    /\ job = Idle /\ Len(pending) < MaxPending
    /\ pending' = IF Applies(tx, TxsOn(head) \cup InSession)
                  THEN Append(pending, tx) ELSE pending
    /\ undo_size' = TrimmedFor(undo_size, max_size, {tx})
    /\ UNCHANGED <<head, max_size, fork, file, unflushed, unapplied, popped, stash,
                   job, flushed, restarts, final>>

\* push_block(b): the fork database refuses the block.
push_rejected(b) ==
    /\ job = Idle
    /\ fork_db!PushThrows(fork, b, max_size)
    /\ ReturnWith(head, undo_size, max_size, pending)
    /\ KeepFile
    /\ UNCHANGED <<head, max_size, fork, flushed, restarts, final>>

\* The block is in the fork database, and f is what it left there.
Pushed(b, f) ==
    /\ job = Idle
    /\ ~fork_db!PushThrows(fork, b, max_size)
    /\ f = fork_db!push_block(fork, b, max_size)

\* Mutant: a fork has to be two blocks ahead.
push_cached_late(b) ==
    \E f \in {fork_db!push_block(fork, b, max_size)} :
        /\ Pushed(b, f)
        /\ Parent[f.head] # head /\ Num[f.head] <= Num[head] + 1
        /\ fork' = f
        /\ ReturnWith(head, undo_size, max_size, pending)
        /\ KeepFile
        /\ UNCHANGED <<head, max_size, flushed, restarts, final>>

\* The highest fork is not higher than the head.
push_cached(b) ==
    \E f \in {fork_db!push_block(fork, b, max_size)} :
        /\ Pushed(b, f)
        /\ Parent[f.head] # head /\ Num[f.head] <= Num[head]
        /\ fork' = f
        /\ ReturnWith(head, undo_size, max_size, pending)
        /\ KeepFile
        /\ UNCHANGED <<head, max_size, flushed, restarts, final>>

\* The highest fork builds on the head: the new block is applied, whichever
\* block it is that the fork database returned.
push_applied(b) ==
    \E f \in {fork_db!push_block(fork, b, max_size)} :
        /\ Pushed(b, f)
        /\ Parent[f.head] = head
        /\ CanApply(b)
        /\ ApplyBlock(b, f)
        /\ StoreBlock(b, b)
        /\ ReturnWith(b, UndoAfterApply(b), SizeAfter(b), pending)
        /\ UNCHANGED <<flushed, restarts>>

push_failed(b) ==
    \E f \in {fork_db!push_block(fork, b, max_size)} :
        /\ Pushed(b, f)
        /\ Parent[f.head] = head
        /\ ~CanApply(b)
        /\ fork' = fork_db!remove(f, b)
        /\ ReturnWith(head, Min({undo_size, max_size}), max_size, pending)
        /\ KeepFile
        /\ UNCHANGED <<head, max_size, flushed, restarts, final>>

\* The highest fork is elsewhere: switch to it.
push_switch(b) ==
    \E f \in {fork_db!push_block(fork, b, max_size)} :
        /\ Pushed(b, f)
        /\ Parent[f.head] # head /\ Num[f.head] > Num[head]
        /\ ~fork_db!FetchThrows(f, f.head, head)
        /\ fork' = f
        /\ job' = [Idle EXCEPT !.stage = "pop", !.new = b,
                               !.first = fork_db!Branch(f.head, head),
                               !.second = fork_db!Branch(head, f.head)]
        /\ stash' = pending /\ pending' = << >> /\ unapplied' = 0
        /\ UNCHANGED <<head, undo_size, max_size, file, unflushed, popped,
                       flushed, restarts, final>>

push_unfetchable(b) ==
    \E f \in {fork_db!push_block(fork, b, max_size)} :
        /\ Pushed(b, f)
        /\ Parent[f.head] # head /\ Num[f.head] > Num[head]
        /\ fork_db!FetchThrows(f, f.head, head)
        /\ fork' = f
        /\ ReturnWith(head, undo_size, max_size, pending)
        /\ KeepFile
        /\ UNCHANGED <<head, max_size, flushed, restarts, final>>

push_block(b) ==
    /\ InOrder => (Parent[b] = Genesis <=> fork.head = NoBlock)
    /\ \/ push_rejected(b) \/ push_cached(b) \/ push_applied(b)
       \/ push_failed(b) \/ push_switch(b) \/ push_unfetchable(b)

\* generate_block builds a block on the head out of the pending transactions,
\* leaving out those that are too big, and pushes it.
generate_block(b) ==
    /\ job = Idle
    /\ Parent[b] = head /\ b \notin Invalid
    /\ TxsOf[b] \in {SelectSeq(pending, LAMBDA tx : tx \in S) :
                        S \in SUBSET Range(pending)}
    /\ push_block(b)

\* It has discarded the pending session when it finds its block too big after
\* all and throws, and the session is not rebuilt before the next block.
generate_block_throws ==
    /\ job = Idle /\ pending # << >>
    /\ unapplied' = Len(pending)
    /\ undo_size' = TrimmedFor(undo_size, max_size, Range(pending))
    /\ UNCHANGED <<head, max_size, fork, file, unflushed, pending, popped, stash,
                   job, flushed, restarts, final>>

-----------------------------------------------------------------------------
(* A fork switch, block by block *)

Base == Parent[job.second[1]]
ForkedAt == Num[Base]

\* The next block of branch s that has to be applied on the head.
NextOf(s) == s[Num[head] - ForkedAt + 1]

switch_pop ==
    /\ job.stage \in {"pop", "unwind"}
    /\ head # Base
    /\ PopBlock
    /\ fork' = fork_db!pop_block(fork)
    /\ UNCHANGED <<max_size, pending, unapplied, stash, job, flushed, restarts, final>>

\* An exception that nobody catches ends the switch half way.
switch_pop_throws ==
    /\ job.stage \in {"pop", "unwind"}
    /\ head # Base
    /\ PopFails
    /\ ReturnWith(head, undo_size, max_size, popped \o stash)
    /\ UNCHANGED <<flushed, restarts>>

switch_popped ==
    /\ job.stage \in {"pop", "unwind"}
    /\ head = Base
    /\ job' = [job EXCEPT !.stage = IF @ = "pop" THEN "apply" ELSE "restore"]
    /\ UNCHANGED <<head, undo_size, max_size, fork, file, unflushed, pending,
                   unapplied, popped, stash, flushed, restarts, final>>

\* Apply block b of the switch, store it under id, and return after the last.
SwitchTo(b, id, top) ==
    /\ CanApply(b)
    /\ ApplyBlock(b, fork)
    /\ StoreBlock(id, b)
    /\ IF b = top
       THEN ReturnWith(b, UndoAfterApply(b), SizeAfter(b), popped \o stash)
       ELSE /\ undo_size' = UndoAfterApply(b)
            /\ UNCHANGED <<pending, unapplied, popped, stash, job>>
    /\ UNCHANGED <<flushed, restarts>>

switch_apply ==
    /\ job.stage = "apply"
    /\ SwitchTo(NextOf(job.first), NextOf(job.first), Last(job.first))

\* The rest of the new branch is invalid: it is forgotten, and the fork
\* database goes back to the old head before the applied part is popped.
switch_apply_fails ==
    /\ job.stage = "apply"
    /\ ~CanApply(NextOf(job.first))
    /\ fork' = fork_db!set_head(
                   fork_db!Erase(fork, {b \in Range(job.first) : Num[b] > Num[head]}),
                   Last(job.second))
    /\ undo_size' = Min({undo_size, max_size})
    /\ job' = [job EXCEPT !.stage = "unwind"]
    /\ UNCHANGED <<head, max_size, file, unflushed, pending, unapplied, popped,
                   stash, flushed, restarts, final>>

\* Mutant: only the lowest block of the old branch is restored.
switch_restore_one ==
    /\ job.stage = "restore"
    /\ SwitchTo(NextOf(job.second), job.new, job.second[1])

\* The blocks of the old branch are stored under the id of the new block.
switch_restore ==
    /\ job.stage = "restore"
    /\ SwitchTo(NextOf(job.second), job.new, Last(job.second))

-----------------------------------------------------------------------------
(* The process stops and starts *)

\* Mutant: the irreversible block is popped too.
close_below ==
    /\ job = Idle /\ restarts < MaxRestarts
    /\ job' = [Idle EXCEPT !.stage = "close", !.cutoff = Max({0, Lib[head] - 1})]
    /\ restarts' = restarts + 1
    /\ pending' = << >> /\ unapplied' = 0
    /\ UNCHANGED <<head, undo_size, max_size, fork, file, unflushed, popped,
                   stash, flushed, final>>

\* close( rewind = true ) pops back to the last irreversible block.
close ==
    /\ job = Idle /\ restarts < MaxRestarts
    /\ job' = [Idle EXCEPT !.stage = "close", !.cutoff = Lib[head]]
    /\ restarts' = restarts + 1
    /\ pending' = << >> /\ unapplied' = 0
    /\ UNCHANGED <<head, undo_size, max_size, fork, file, unflushed, popped,
                   stash, flushed, final>>

close_pop ==
    /\ job.stage = "close" /\ Num[head] > job.cutoff
    /\ PopBlock
    /\ fork' = fork_db!remove(fork_db!pop_block(fork), head)
    /\ UNCHANGED <<max_size, pending, unapplied, stash, job, flushed, restarts, final>>

\* The process is gone: only the disk and the history remain.
Stopped(new_file, on_disk, new_final) ==
    /\ head' = Genesis /\ undo_size' = 0 /\ max_size' = InitMaxSize
    /\ fork' = fork_db!reset
    /\ file' = new_file
    /\ unflushed' = NothingUnflushed
    /\ pending' = << >> /\ unapplied' = 0 /\ popped' = << >> /\ stash' = << >>
    /\ job' = Down
    /\ flushed' = on_disk
    /\ final' = new_final

\* The objects are flushed; the exception of a failing pop is caught.
close_flush ==
    /\ job.stage = "close"
    /\ \/ Num[head] <= job.cutoff /\ Stopped(file, head, final)
       \/ /\ Num[head] > job.cutoff
          /\ IF PopThrowsEarly THEN Stopped(file, head, final)
             ELSE undo_size = 0 /\ Stopped(block_db!remove(file, head), head, NoBlock)
    /\ UNCHANGED restarts

\* A crash: the objects on disk are stale.  The last write of the index file
\* may be lost in its buffer, and so may the data of the last block stored,
\* whose entry was flushed by a later seek.
AfterCrash ==
    LET indexes == {file} \cup
            IF unflushed.num = 0 THEN {}
            ELSE {[file EXCEPT ![unflushed.num] = unflushed.entry]}
    IN indexes \cup {block_db!Tear(f, unflushed.data) : f \in indexes}

crash ==
    /\ job.stage # "down" /\ restarts < MaxRestarts
    /\ \E f \in AfterCrash :
           Stopped(f, NoBlock, IF block_db!IsTorn(f) THEN NoBlock ELSE final)
    /\ restarts' = restarts + 1

StartFork == IF block_db!last(file) = NoBlock THEN fork_db!reset
             ELSE fork_db!start_block(block_db!last(file))

\* open() after a clean shutdown.
Opens == /\ flushed # NoBlock
         /\ \/ block_db!last(file) \in {NoBlock, flushed}
            \/ flushed = Genesis

open ==
    /\ job = Down
    /\ Opens
    /\ head' = flushed
    /\ fork' = StartFork
    /\ job' = Idle
    /\ flushed' = NoBlock
    /\ UNCHANGED <<undo_size, max_size, file, unflushed, pending, unapplied, popped,
                   stash, restarts, final>>

\* reindex() after a crash or an exception in open(): the blocks on disk are
\* applied up to the first gap, and what is above the gap is removed.
LastBlockNum == IF block_db!last(file) = NoBlock THEN 0
                ELSE Num[block_db!last(file)]

ReplayEnd == Max({n \in 0 .. LastBlockNum :
                     \A i \in 1 .. n : block_db!Readable(file, i)})

Replays(n) == \A i \in 1 .. n :
    /\ Parent[file[i].data] = IF i = 1 THEN Genesis ELSE file[i - 1].data
    /\ Valid(file[i].data)

AboveGap(n) == ReplayEnd < LastBlockNum /\ n > ReplayEnd + 1

reindex ==
    /\ job = Down
    /\ ~Opens
    /\ Replays(ReplayEnd)
    /\ head' = IF ReplayEnd = 0 THEN Genesis ELSE file[ReplayEnd].data
    /\ max_size' = IF ReplayEnd = 0 THEN InitMaxSize ELSE SizeAfter(head')
    /\ fork' = StartFork
    /\ file' = [n \in 1 .. MaxNum |->
                   IF AboveGap(n) THEN [file[n] EXCEPT !.data = NoBlock]
                   ELSE file[n]]
    /\ job' = Idle
    /\ flushed' = NoBlock
    /\ UNCHANGED <<undo_size, unflushed, pending, unapplied, popped, stash,
                   restarts, final>>

Switch == switch_pop \/ switch_pop_throws \/ switch_popped
          \/ switch_apply \/ switch_apply_fails \/ switch_restore

Next ==
    \/ \E tx \in Txs : push_transaction(tx)
    \/ \E b \in Blocks : push_block(b) \/ generate_block(b)
    \/ generate_block_throws
    \/ Switch
    \/ close \/ close_pop \/ close_flush \/ crash
    \/ open \/ reindex

Spec == Init /\ [][Next]_vars

\* A longest branch of blocks that all apply.
ValidBlocks == {b \in Blocks : Range(fork_db!Path[b]) \cap Invalid = {}}
LongestBranch ==
    fork_db!Path[CHOOSE b \in ValidBlocks : \A c \in ValidBlocks : Num[c] <= Num[b]]

\* Peers offer the blocks of the longest branch again and again, and a switch
\* that has been started goes on.
Fairness ==
    /\ \A b \in Range(LongestBranch) : SF_vars(push_block(b))
    /\ WF_vars(Switch)

FairSpec == Spec /\ Fairness

-----------------------------------------------------------------------------
(* Properties *)

TypeOK ==
    /\ head \in Blocks \cup {Genesis} /\ final \in Blocks \cup {Genesis, NoBlock}
    /\ undo_size \in Nat /\ max_size \in Nat
    /\ fork \in fork_db!ForkDb
    /\ file \in block_db!IndexFile
    /\ unflushed \in [num : 0 .. MaxNum, entry : block_db!Entry,
                      data : Blocks \cup {NoBlock}]
    /\ pending \in Seq(Txs) /\ unapplied \in 0 .. Len(pending)
    /\ popped \in Seq(Txs) /\ stash \in Seq(Txs)
    /\ job \in Job
    /\ flushed \in Blocks \cup {Genesis, NoBlock}
    /\ restarts \in 0 .. MaxRestarts

\* The block database has not been damaged.  Three things damage it: a crash
\* that keeps the index entry of a block and loses the block, after which
\* last() finds nothing and all is forgotten (block_database.cpp last); a fork
\* switch that fails and stores the old branch under the id of the new block;
\* and a pop_block that throws after it has removed the block (db_block.cpp).
Intact == final # NoBlock

\* Between two calls the block database holds exactly the blocks of the
\* current chain, each under its own id: "After push block is successful the
\* block is appended to the chain database on disk", and a push that fails
\* is unwound (db_block.cpp push_block).
ChainOnDisk ==
    job = Idle =>
        /\ block_db!LastNum(file) = Num[head]
        /\ \A n \in 1 .. Num[head] :
               block_db!fetch_by_number(file, n) = fork_db!Path[head][n]

\* As long as it is not damaged, the block database holds exactly the blocks
\* of the chain between two calls, over fork switches, clean restarts, and
\* crashes in the middle of a switch (block_database store and remove,
\* _push_block, pop_block, close, reindex).
ChainKeptOnDisk == Intact => ChainOnDisk

\* Whenever the process stops, in the middle of a fork switch and with the
\* last write lost too, the irreversible blocks can be read back from disk
\* in order (block_database store and remove, reindex).
IrreversibleOnDisk ==
    \A n \in 1 .. Num[final] :
        /\ block_db!fetch_by_number(file, n) = fork_db!Path[final][n]
        /\ unflushed.num = n => unflushed.entry.data = fork_db!Path[final][n]

\* No fork switch, clean restart or replay takes back a block that this node
\* has called irreversible (update_last_irreversible_block, the sizes set in
\* update_global_dynamic_data, close, open, reindex).
IrreversibleStays ==
    job = Idle => final = Genesis \/ final \in Range(fork_db!Path[head])

\* What this node has called irreversible is kept, on the chain of its head
\* between two calls and on disk at every moment, with two exceptions: the
\* block database has been damaged, or there is a block that makes itself
\* irreversible (a checkpoint, a single witness), the last one written.
IrreversibleKept ==
    Intact /\ (\A b \in Blocks : Lib[b] < Num[b])
        => IrreversibleOnDisk /\ IrreversibleStays

\* A fork switch that has been started can pop every block it needs to pop:
\* the undo history and the parent links of the fork database reach down to
\* the block where the branches part.  Otherwise pop_block throws between two
\* pops, nobody unwinds, and the node is left half way between two forks.
PopsSucceed ==
    job.stage \in {"pop", "unwind"} /\ head # Base
        => ~PopThrowsEarly /\ undo_size > 0

\* The only blocks that it may be unable to pop are the first above the last
\* irreversible block and those below, and only where transactions execute
\* proposals, whose sessions take undo states from the same budget
\* (update_global_dynamic_data, undo_database start_undo_session).
SwitchCanPop ==
    Intact => \/ PopsSucceed
              \/ /\ ~PopThrowsEarly /\ ProposalTxs # {}
                 /\ Num[head] <= Lib[Last(job.second)] + 1

\* Between two calls no known block is higher than the head: each push that
\* completes a longer fork also switches to it, unless the block database has
\* been damaged (_push_block).
FollowsLongest ==
    job = Idle /\ Intact => \A b \in fork.index : Num[b] <= Num[head]

\* The transactions in _pending_tx_session are a sequence that applies on the
\* head block: none is in the chain already, none twice, none in conflict,
\* however blocks, fork switches and failed pushes took turns.  They are all
\* the pending ones unless generate_block threw since the last block
\* (without_pending_transactions, _push_transaction).
PendingApplies ==
    job = Idle =>
        \A i \in unapplied + 1 .. Len(pending) :
            Applies(pending[i], TxsOn(head) \cup {pending[j] : j \in unapplied + 1 .. i - 1})

\* A transaction the node has accepted is only ever dropped because it no
\* longer applies: what was pending, and what was in a block that a fork
\* switch popped, is pending or in the chain afterwards
\* (pending_transactions_restorer, _popped_tx).
Held == TxsOn(head) \cup Range(pending) \cup Range(popped) \cup Range(stash)

NoTxDropped ==
    [][job'.stage \notin {"close", "down"} /\ job.stage \notin {"close", "down"}
         => \A tx \in Held : tx \in Held' \/ ~Applies(tx, Held')]_vars

\* A fork switch that fails leaves the node on the block it was on before:
\* "Push block may fail in which case every partial change is unwound".
FailedSwitchUnwinds ==
    [][job.stage = "unwind" \/ job.stage = "restore"
         => (job' = Idle => head' = Last(job.second))]_vars

\* As long as peers keep offering its blocks and the process runs, the node
\* ends up on the longest fork of valid blocks and stays there, whichever branch
\* it heard of first (_push_block, fork_database push_block and
\* fetch_branch_from).  It may get stuck when a block on its head does not apply:
\* the fork database drops that block but keeps it as its head, and takes the
\* next known block that is pushed again for one that does not apply either.
Running == restarts = 0 /\ job.stage \notin {"close", "down"}
Longest == Num[head] >= Len(LongestBranch)
EventuallyLongest ==
    [](Running /\ Intact /\ fork.head \in fork.index \cup {NoBlock})
        => <>[]Longest
=============================================================================
