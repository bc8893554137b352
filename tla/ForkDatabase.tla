---------------------------- MODULE ForkDatabase ----------------------------
(***************************************************************************)
(* fork_database: the recent blocks of every fork.  A value of ForkDb is   *)
(* the whole object; each operator is one of its methods.                  *)
(*                                                                         *)
(* fork_items hold weak pointers to their parents.  links are the indexed  *)
(* items whose prev pointer can still be locked: erasing an item expires   *)
(* the pointers of its children, and pushing the parent again makes a new  *)
(* item that they do not point to.  The head is a shared pointer of its    *)
(* own and may outlive its place in the index, hence head_linked.          *)
(***************************************************************************)
EXTENDS Integers, Sequences, FiniteSetsExt

CONSTANTS Blocks,   \* the signed blocks that exist on the network
          Genesis,  \* block_id_type(): the previous of the first blocks
          NoBlock,  \* a null item_ptr
          Parent,   \* signed_block::previous
          Num       \* signed_block::block_num()

ForkDb == [index : SUBSET Blocks, links : SUBSET Blocks,
           head : Blocks \cup {NoBlock}, head_linked : BOOLEAN]

reset == [index |-> {}, links |-> {}, head |-> NoBlock, head_linked |-> FALSE]

start_block(b) ==
    [index |-> {b}, links |-> {}, head |-> b, head_linked |-> FALSE]

\* The items S leave the index.
Erase(f, S) ==
    [f EXCEPT !.index = @ \ S,
              !.links = {b \in @ \ S : Parent[b] \notin S},
              !.head_linked = @ /\ Parent[f.head] \notin S]

remove(f, b) == Erase(f, {b})

EraseBelow(f, min_num) == Erase(f, {b \in f.index : Num[b] < min_num})

set_max_size(f, max_size) ==
    IF f.head = NoBlock THEN f ELSE EraseBelow(f, Num[f.head] - max_size)

\* Mutant: a block that is not above the head counts as too old.
PushThrows_not_above(f, b, max_size) ==
    /\ f.head # NoBlock
    /\ \/ Num[b] <= Num[f.head]
       \/ Parent[b] # Genesis /\ Parent[b] \notin f.index

\* _push_block throws: too old, or not linking to a known block.
PushThrows(f, b, max_size) ==
    /\ f.head # NoBlock
    /\ \/ Num[b] <= Max({0, Num[f.head] - max_size})
       \/ Parent[b] # Genesis /\ Parent[b] \notin f.index

\* A block that is already indexed does not replace its item, but the new item
\* still becomes the head when it is higher than the head.
push_block(f, b, max_size) ==
    LET linked == f.head # NoBlock /\ Parent[b] \in f.index
        g == IF b \in f.index THEN f
             ELSE [f EXCEPT !.index = @ \cup {b},
                            !.links = IF linked THEN @ \cup {b} ELSE @]
    IN IF f.head = NoBlock
       THEN [g EXCEPT !.head = b, !.head_linked = FALSE]
       ELSE IF Num[b] > Num[f.head]
       THEN EraseBelow([g EXCEPT !.head = b, !.head_linked = linked],
                       Num[b] - max_size)
       ELSE g

set_head(f, b) == [f EXCEPT !.head = b, !.head_linked = b \in f.links]

\* pop_block: the head moves to its parent, whichever branch it is on.
PopThrows(f) == f.head = NoBlock \/ ~f.head_linked
pop_block(f) == set_head(f, Parent[f.head])

-----------------------------------------------------------------------------
(* Branches *)

\* The blocks from number 1 up to b.
Path[b \in Blocks \cup {Genesis}] ==
    IF b = Genesis THEN << >> ELSE Append(Path[Parent[b]], b)

\* Number of the last blocks at which fetch_branch_from stops: the highest
\* ones, on the two paths, that have the same previous block.
Meet(a, b) ==
    LET p == Path[a]
        q == Path[b]
    IN Max({n \in 1 .. Min({Num[a], Num[b]}) : Parent[p[n]] = Parent[q[n]]})

\* One of the two branches of fetch_branch_from(a, b), lowest block first.
Branch(a, b) == SubSeq(Path[a], Meet(a, b), Num[a])

\* It asserts that both tops are known and that every parent it steps to can
\* be locked.
FetchThrows(f, a, b) ==
    {a, b} \subseteq f.index =>
        \E c \in {a, b} :
            \E n \in Meet(a, b) + 1 .. Num[c] : Path[c][n] \notin f.links
=============================================================================
