# TLA+ verification of FinChain-core

FinChain-core is a blockchain node of the Graphene family: a replicated ledger
whose blocks are signed by elected witnesses in turn (delegated proof of stake).
This directory holds TLA+ models of the core of the node, the TLC configurations
that check them, and proofs for TLAPS. All paths below are relative to `src/`.

Contents: [inventory](#inventory) · [plan](#plan) · [modules](#modules-and-the-code)
· [runs](#runs) · [proofs](#proofs) · [findings](#findings) · [limits](#what-is-not-modelled)

## Inventory

### Parts, state and operations

| Part | Where | State | Operations that change it |
| --- | --- | --- | --- |
| Object database | `libraries/db` (object_database, index, generic_index) | typed objects under ids, the next id of each index, secondary indices with unique keys | create, modify, remove, insert; open, flush |
| Undo database | `libraries/db/undo_database.*` | a stack of undo states, the number of active sessions, the size limit, whether tracking is on | start_undo_session, undo, merge, commit, pop_commit, set_max_size, enable, disable |
| Fork database | `libraries/chain/fork_database.*` | recent blocks of all branches with weak links to their parents, a head | push_block, pop_block, remove, set_head, set_max_size, start_block, fetch_branch_from |
| Block database | `libraries/chain/block_database.*` | an index file and a block file, both buffered streams | store, remove, fetch, last |
| Block handling | `libraries/chain/db_block.cpp`, `db_management.cpp`, `db_with.hpp` | head, pending transactions and their session, popped transactions | push_block, push_transaction, generate_block, pop_block, open, close, reindex |
| Witness schedule | `db_witness_schedule.cpp`, `db_update.cpp`, `plugins/witness` | shuffled witnesses, slots, participation, missed counts, last irreversible block | the updates of each applied block; the production loop |
| Maintenance | `db_maint.cpp` | votes, active witnesses and committee, parameters, budgets, workers, next maintenance time | once per maintenance interval, at the end of a block |
| Lock balances | `lock_balance_evaluator.cpp`, `locked_balance_object.hpp`, `asset_object.cpp` | locks, interest pools, locked supply | lock, unlock, set lock data, donate |
| Market | `db_market.cpp`, `market_evaluator.cpp`, `asset_evaluator.cpp`, `db_update.cpp` | limit orders, call orders, settlements, feeds, total_core_in_orders | place, match, fill, cancel, margin call, settle, publish, expire |
| Ledger | `evaluator.*`, `transfer_evaluator.cpp`, `asset_evaluator.cpp`, `account_object.cpp`, `db_balance.cpp`, vesting, balance and permission evaluators, budget of `db_maint.cpp` | balances, supplies, fee pools, pending and vested fees, vesting balances, permissions, genesis balances | one evaluator per operation; fees, pay and budgets at maintenance |
| Authorities, proposals | `protocol/transaction.cpp`, `proposal_evaluator.cpp`, `proposal_object.cpp` | authorities of accounts, proposals with their approvals | create, update, delete, execute, expire |
| Votes, elections | `db_maint.cpp`, `vote_count.hpp`, account, witness and committee evaluators | options of accounts, votables, active witnesses and committee, committee authority | change votes, elect |
| Network | `libraries/net/node.cpp`, `peer_connection.cpp` | connections and their state, inventories, requests in flight, the backlog of sync blocks | handshake, advertise, fetch, sync, time out, disconnect |
| Application, plugins | `libraries/app`, `libraries/plugins` | wiring, block production, derived history indices | startup, handle_block, handle_transaction, shutdown |
| Wallet and tools | `libraries/wallet`, `programs` | keys of a user | clients of the API, not part of the node |

`PROJECT.json` lists them all as components, with what is modelled of each.
Half of the lines of the repository (49,783 of about 101,000) are the word list
`libraries/utilities/words.cpp`; most of the rest that is not modelled are the
wallet, the API and the declarations of types.

### How they interact

The network runs cooperative tasks in a thread of its own. It passes blocks and
transactions to the application, waits for the answer while its other tasks go
on, and draws its conclusions about the peers afterwards. The application runs
`push_block` and `push_transaction` of the chain database in one thread. There is
no parallelism inside the chain database: what makes it hard is that one call
nests many calls that can throw. `push_block` takes the pending transactions away,
asks the fork database which block is highest, pops and applies blocks (each in
an undo session, each with nested sessions of its transactions and proposals),
writes and erases blocks on disk, and puts the pending and the popped
transactions back. Applying a block runs the evaluators of its operations, moves
the schedule and the irreversible block (and, through it, the sizes of the undo
and of the fork database), expires proposals, orders, settlements and feeds, and
once per interval counts the votes, pays the budget and changes the parameters.
A restart loads what `close` flushed, or replays the block file when nothing was
flushed.

### What is hard here, and what has to hold

| Hard behaviour | Properties that make it correct |
| --- | --- |
| Sessions nest, merge, are committed and trimmed; only differences are recorded | a rollback restores exactly the version the session started on, next ids included; it cannot throw half way; trimming takes no state of a live session |
| Branches overtake each other; any block of a switch can fail; pops can run out of history | the node is on the longest branch it knows, unwinds a failed switch, and can pop whatever is above the irreversible block while the undo history reaches that far |
| Transactions move between pending, chain and popped | what is pending applies on the head; nothing accepted is lost while it still applies |
| The process stops between any two writes | irreversible blocks can be read back and are not given up as long as the block file is whole |
| Blocks are missed, intervals and witnesses change at maintenance | slots and times convert into each other, a witness never signs a block its node refuses, the irreversible block only advances and only with the threshold |
| Locks are paid out by two ways from one pool, and their objects are saved in part | supply is conserved whatever the pools do, an owner can redeem once |
| Matching rounds, margin calls, settlements and expiry interleave | money is accounted for, the book is left uncrossed, `total_core_in_orders` is exact, the end of a block never throws |
| Fees, budgets and vesting round and move money between many places | the supply is the sum of all units up to what `asset_create` mints, nothing vests early, permissions keep their limit |
| Authorities are nested and cyclic; elections rewrite them while proposals wait | nothing is executed without consent, twice or by halves; the committee acts only after its review |
| Sync and inventory run at once over peers that time out and disconnect | one request per block, blocks handed over in order, no rest before the node has the chain |
| Two nodes connect to each other at once and close at any moment | one connection each, accepted by both unless it became active before the hello, within the maximum, given up by both |

The `hazards` of `PROJECT.json` give each of these at the line where it bites,
with the properties aimed at it. Known hazards without a property are listed
[below](#hazards-without-a-property).

## Plan

The parts were modelled in the order of what rests on them: `UndoDatabase` over `VersionStore`,
`ForkDatabase`, `BlockDatabase` and their composition `ChainDatabase`, `WitnessSchedule`,
`LockBalance`, `Market`, `NodeSync`, `PeerConnections`, `Vesting` and `Ledger`, `Authority`
and `Governance`; then theorems about all of them but `Market`, `NodeSync` and `Authority`.

What is left, in the order of its worth:

1. `NodeSync`: proofs of `RequestsTracked` and `BlocksAwaited`, by the correspondence of
   `active` and `requested` and of the messages under way; its loops have to become
   recursive functions, as those of `Ledger` are.
2. `Authority`: the half of `AuthorizedByConsent` that says that nothing is made up, which
   needs an induction over the depth of `check_authority` with its folds as recursive functions.
3. `Market`: `MoneyAccounted` by the argument of the ledger, once its matching loop is a
   recursive function.
4. In the models: the interest formula of the locks with its 32-bit products,
   transactions and forks in `NodeSync`, the files of the object database.

## Modules and the code

| Module | Models | Composition |
| --- | --- | --- |
| `VersionStore` | what an undo database promises: a stack of whole versions | abstract specification |
| `UndoDatabase` | `undo_database.cpp/.hpp` with the index operations that feed it | implements `VersionStore` |
| `UndoDatabaseProofs` | theorems about `UndoDatabase` | extends it |
| `ForkDatabase` | `fork_database.cpp/.hpp`; operators on a record | instantiated by `ChainDatabase` |
| `BlockDatabase` | `block_database.cpp`; operators on the index file | instantiated by `ChainDatabase` |
| `ChainDatabase` | `db_block.cpp`, `db_management.cpp`, `db_with.hpp`, the sizing in `db_update.cpp`, startup and shutdown in `application.cpp` | composes the two above |
| `ChainDatabaseProofs` | theorems about `ChainDatabase` | extends it |
| `WitnessSchedule` | `db_witness_schedule.cpp`, the witness and irreversibility parts of `db_update.cpp`, the clock of `db_maint.cpp`, `maybe_produce_block` of the witness plugin | stand-alone |
| `WitnessScheduleProofs` | theorems about `WitnessSchedule` | extends it |
| `Sums` | sums of amounts, as a count of single units | extended by `WitnessSchedule`, `LockBalance`, `Ledger` |
| `FoldTheorems` | induction up to a number and over subsets, loops as recursive functions, lemmas about sums | extended by the proofs below |
| `LockBalance` | `lock_balance_evaluator.cpp`, what is saved of `locked_balance_object.hpp` | stand-alone |
| `LockBalanceProofs` | theorems about `LockBalance` | extends it and `FoldTheorems` |
| `Market` | `db_market.cpp`, `market_evaluator.cpp`, the evaluators of market-issued assets, expiry in `db_update.cpp`, prices of `protocol/asset.cpp` | stand-alone |
| `NodeSync` | sync and inventory protocols of `node.cpp`, synopsis and ids of `application.cpp` | stand-alone |
| `PeerConnections` | connections and handshakes of `node.cpp` and `peer_connection.cpp` | stand-alone |
| `PeerConnectionsProofs` | theorems about `PeerConnections` | extends it |
| `Vesting` | `vesting_balance_object.cpp`; operators on a balance | extended by `Ledger` |
| `Ledger` | fees, transfers, assets, vesting and genesis balances, permissions, fees and budget at maintenance | composes the evaluators over one database |
| `LedgerProofs` | theorems about supplies, vesting balances and withdraw permissions | extends `Ledger` and `FoldTheorems` |
| `Authority` | `sign_state` and `verify_authority` of `protocol/transaction.cpp`, next to what consent means | extended by `Governance` |
| `Governance` | proposals, votes, elections, parameters | extends `Authority` |
| `GovernanceProofs` | theorems about proposals | extends `Governance`, instantiates `FoldTheorems` |
| `MC*` | small instances for TLC | extend the module they check |

### UndoDatabase

One index is modelled: objects with a unique secondary key that is fixed when
the object is created, and a payload. `stack` is `_stack`, an element is an
`undo_state` with the fields of the code; `sessions` are the live `session`
objects, each with its `_disable_on_exit`. `create`, `modify` and `remove` are the
operations of the index with `on_create`, `on_modify` and `on_remove`; the rest of
the actions are the methods of the undo database. The history variable `saved`
holds the version at the start of each undo state. `MergedStates` is the table of
cases in `merge()`. A session that is not started because tracking is off is an
inert object in the code; no caller makes one, and the model has none.

### ChainDatabase

A block has one parent, so the object database is given by the head block and
the pending transactions; `UndoDatabase` justifies this, and only the number of
states that can be undone (`undo_size`) is kept. What applying a block depends on
is constant: `Invalid` blocks do not apply, `Conflicts` are pairs of transactions
that exclude each other, `Lib` gives the irreversible number after each block.
`push_block(b)` is the disjunction of the outcomes of `_push_block`; those that
switch forks continue in steps, one per block popped or applied (`switch_*`), so
that a crash can come between any two writes. While a call is in progress (`job`)
no other call begins. `ReturnWith` is the destructor of
`pending_transactions_restorer` and belongs to every action that leaves
`push_block`. The streams of the block database buffer: `unflushed` remembers the
last index entry and the last block, which a crash may lose.

`generate_block` that throws because its block is too big has thrown the session of the
pending transactions away and not rebuilt it (`db_block.cpp:405-408`): `_pending_tx` still
lists them, and `unapplied` counts those of which the object database knows nothing. The
next call that takes the restorer's way sets this right.

`final` is history: the highest block that the node has called irreversible, and `NoBlock`
once the block database has been damaged. Three things damage it, all of them in
the code and all reached in the run: a crash that keeps the index entry of a
block and loses the block (`block_database.cpp:231`), a failed switch, which
stores the old branch under the id of the new block (`db_block.cpp:185`), and a `pop_block`
that throws after it has removed the block (`db_block.cpp:428`). Properties that cannot hold
afterwards say so (`Intact`).

In `ForkDatabase` the `prev` pointers are weak: `links` are the items whose
pointer can still be locked, because erasing an item expires the pointers of its
children for good, and the head is a pointer that can outlive its place in the
index.

### WitnessSchedule

`apply_block(ts, w, p)` is the part of `_apply_block` that reads or moves slots,
in the order of the code: header check, `update_global_dynamic_data`,
`update_signing_witness`, `update_last_irreversible_block`, maintenance,
maintenance flag, `update_witness_schedule`. The votes, the parameters the
committee decides on and the shuffle are inputs. `ProducesAt` is the decision of
`maybe_produce_block`.

### LockBalance

One action per operation of the evaluator, a clock of days and `restart`, which
saves and loads each lock by the fields that `FC_REFLECT_DERIVED` lists. The
interest formula is the parameter `Profit`; the instance uses one that grows with
each argument and can ask for more than the pool holds. Fees are left out. The sign of a
donation is not checked (`protocol/lock_balance.cpp:83-86`), so donations are integers: a negative
one pays out of the pool, which is therefore an integer too, and the profit on a pool
below zero is a loss.

### Market

One market-issued asset and the asset that backs it. A handler is a function of
the whole market, a record; `ok` becomes FALSE where the code throws, and the
operation then leaves nothing behind. Orders and positions are sequences in the
order of their ids, and the operators `BestLimit`, `FirstCall` and `LeastCollateral` read
them by the order of the multi-indices. Prices are pairs and `Times` rounds down
as `asset * price` does; `CallPrice` and `max_short_squeeze_price` keep their
roundings. `apply_block` is the work of a block that no operation asks for: expired
orders, settlements and feeds, and the reset of the settlement volume. Where the
code uses an iterator that designates no object, `undefined` is set and nothing
is claimed of what follows.

### NodeSync

One node and its peers on one chain, so that a block is its number. A connection
holds the fields of `peer_connection` that the protocol uses and the messages under
way in both directions, which a lost connection drops. Each message handler and
each loop (`fetch_sync_items_loop`, `fetch_items_loop`, `advertise_inventory_loop`,
`process_backlog_of_sync_blocks`) is an action; `wanted` holds the loops that have been
triggered. `calls` are the calls of `handle_block` that the application has not
answered, the one yield that is kept; its answer is that the block was accepted, does not
link or is rejected. A connection ends in steps: it is active, closing (we have asked for it),
terminating (`terminate_inactive_connections_loop` has closed the socket, and what was
requested of the peer still counts as requested) and closed (`on_connection_closed`). Faults,
`MaxFaults` of them, are answers that do not come, broken connections, rejected blocks and blocks that a
peer turns out to lack.

### PeerConnections

Several nodes and the connections between them, each with two ends. An end is
on one of the lists of the code (handshaking, active, closing, terminating), and
has the states `our_state` and `their_state` of the handshake. Messages of an end
arrive in order; each end may time out or see the socket close at any moment.
Nodes learn addresses from each other.

The read loop runs as soon as the keys are exchanged, but the hello is sent only
after calls of the application (`node.cpp:1845`, `hello_due`): an end can handle the hello of the other, and
its answer, before its own hello is out. There are two ways to the active list, the answer to an
address request (`node.cpp:2193`) and a request for block ids on an inbound connection
(`node.cpp:2317`). `early` is history: the connections that were active at an end that had no hello yet.

### Ledger and Vesting

`accounts`, `assets` and `vestings` are the objects that hold units of an asset.
`Evaluate` is `evaluator::apply`: the fee is converted through the fee pool and booked
before the operation, and taken from the payer after it. `perform_chain_maintenance` pays
fees out (`process_fees` with `cut_fee`), computes the budget, pays workers and returns
what is left, in the order of the code; its two loops, over the accounts by name and over the
workers by votes, are recursive functions. `Vesting` holds both policies as functions
of a balance and the time, with history fields for what was paid in and when.

Claims of genesis balances have either sign, since `balance_claim_operation::validate` does not look at
it (`protocol/operations.cpp:35-39`), and the amount of a genesis balance need not be its
`begin_balance`. Registrars and referrers may be accounts of the chain, whose cashback goes back to
the reserve. `minted` is history: the core units that `asset_create` has made out of nothing.

### Authority and Governance

`Authority` translates the recursive check with its cache, its early return and
its depth as a recursive function, and defines `Reaches`, the consent it is to find.
`Governance` has one action per operation and `apply_block`, which in the order of
the code elects (votes with proxies, histograms, the committee authority), takes
over pending parameters, and executes or expires proposals. `moved`, `executed` and
`reviewed` are history for the properties.

## Runs

| Run | Configuration | Shows | Distinct states |
| --- | --- | --- | --- |
| `undo` | `MCUndoDatabase.cfg` | nested, merged, committed, undone and popped sessions restore exact versions, never throw, keep their states, and implement `VersionStore` | 463,322 |
| `chain` | `MCChainDatabase.cfg` | two branches overtaking each other, one with a block that does not apply, an irreversible block that stands still, conflicting transactions, proposals, a clean restart or a crash between any two writes that may lose what is not flushed; without a restart the node ends up on the longest branch | 11,661 |
| `chain_disk` | `MCChainDisk.cfg` | a counterexample, see [findings](#findings) | |
| `schedule` | `MCWitnessSchedule.cfg` | slots, maintenance, missed counts and the irreversible block under gaps, elections, changing intervals, a checkpoint and a block of the hard-coded range | 139,310 |
| `schedule_rounds` | `MCWitnessRounds.cfg` | after any gaps, two rounds without one bring the irreversible block within two rounds of the head | 46,237 |
| `lock` | `MCLockBalance.cfg` | supply is conserved with donations of either sign, core locks stay redeemable once, across restarts | 1,666,468 |
| `market` | `MCMarket.cfg` | trades, positions, margin calls, black swan, settlements and feeds: no unit is created or lost, the book is left uncrossed, `total_core_in_orders` is exact, the end of a block never throws | 209,362 |
| `sync` | `MCNodeSync.cfg` | requests, backlog and lists stay consistent; the node does not come to rest too early but for four known stalls | 1,313,168 |
| `peers` | `MCPeerConnections.cfg` | simultaneous connections, late hellos, rejections, time-outs: one connection each, active connections accepted by both unless active early, within the maximum, given up by both | 1,104,203 |
| `ledger` | `MCLedger.cfg` | the supply of each asset is within its maximum and, up to what `asset_create` mints, the sum of its units; nothing vests early, permissions keep their limit | 519,384 |
| `governance` | `MCGovernance.cfg` | execution only by consent, once and whole, after the review; as many witnesses as the majority wants | 26,639 |
| `governance_review` | `MCGovernanceReview.cfg` | a counterexample, see [findings](#findings) | |

The type invariants `TypeOK` are proved for the undo database and the schedule; of
the other modules they document the shape of the state, and TLC confirms them on
the instances above when they are added to a configuration.

### Bounds, and why they are enough

* `undo`: two object ids, two keys, two payloads, sessions up to three deep, stack
  sizes 2 and 3. The chain nests block, transaction and proposal, which is three.
  Each cell of the merge table concerns one object; the second object is there for
  keys that move from one to another. Keys and payloads are only compared, so
  they are symmetric; the refinement is a safety property and the symmetry leaves
  it unchanged. The theorems lift all these bounds but the relation between nesting
  and stack size.
* `chain`: one common block and two branches of three blocks. That is the smallest tree in which
  each branch is left and returned to and the irreversible block moves above the fork; one branch
  ends in a block that does not apply, so that a switch fails after it has applied two
  blocks. The irreversible block stands still but for the last block of the other branch
  (`LibStalled`), which is where the undo history is shortest for what it has to cover. Two
  transactions conflict across the branches, one is in both and executes a proposal; two may be
  pending at a time (`MaxPending`). One stop of the process, at any moment. Block 1 comes first and
  once (`InOrder`), as a sync delivers it: a fork database that starts with another block
  takes it for its root, and `FollowsLongest` fails when it does.
* `chain_disk`: the same tree, without proposals and stops.
* `schedule`: four witnesses, two elections that share only one witness, two sets
  of parameters whose intervals do not divide each other, 18 seconds, which is
  several maintenance intervals of either. `MaxUndo` is 4, so that the limit on
  the undo history is reached.
* `schedule_rounds`: three witnesses in one election and 15 seconds, which
  is a gap followed by two full rounds in every alignment.
* `lock`: two accounts, the core asset and another one, two locks, two days, a lock
  for one day and one that is too long, donations of one unit in both directions, pools
  between -2 and 2 units (`MaxPool`).
* `market`: two accounts with twelve units, five operations and three seconds. Two
  operations open positions, one moves the feed below a call price or under water,
  two trade or settle. The prices 2, 5/2 and 1/2 and the ratios of collateral
  round in both directions; one order lives for one second, and feeds for two.
* `sync`: the node has one of three blocks, one peer has all, the other gets the
  last one during the run. Lists of two ids, one block per peer and one prefetched
  block bring every limit into play; one fault, at any moment, is a lost connection,
  an answer that does not come, a missing block or a rejected one.
* `peers`: two connections among four nodes, of which one cannot share its
  listening endpoint, one knows itself and one is on another chain. Two connections
  are what a simultaneous connect needs; the maximum of one node is 1. `Openers` says
  who may open which, and `MaxFaults` that one end gives up on its own; messages,
  hellos and socket calls may come at any time.
* `ledger`: two user accounts and the null account, the core asset, one asset that
  exists and one that is created; three operations, four seconds and two
  maintenances. A fee is either below or above the threshold of vesting, in the core asset
  or through a fee pool; a creation fee is even, odd or in another asset. One user was registered by
  an account of the chain, genesis balances hold more and less than their
  `begin_balance` and are claimed in negative, partial and whole amounts, and the budget rounds.
* `governance`: the committee account and three accounts; authorities with a
  cycle of length two after an update, one proposal with or without review, one
  direct operation, six seconds with gaps of 1 and 3, of which the second skips a review
  period. The number of witnesses can be lowered below what was voted for.

Deadlock is checked in the runs of the undo and the chain database. Elsewhere a
clock, the operations or the connections are bounded, or the protocol may rest:
there the run ends with its bound, not the system.

### Fairness

Two properties need it. `EventuallyLongest`: `SF(push_block(b))` for the blocks of one longest branch of
valid blocks, since a peer that has them keeps advertising them, and a push that the fork database refuses
because the parent is unknown is offered again when the node syncs; `WF` of the steps of a
switch, since a call that has begun runs to its end in one thread. Nothing is assumed of the
other branch. The property is about behaviours without a restart, with a whole block
database and with a fork database whose head is indexed. The last is lost when a block on top of the head
does not apply: the fork database drops it but keeps it as its head, takes the next push of a block
that it knows for another one that fails, and may drop the head of the chain itself; the node is
then stuck until it is restarted.
`Released`: one `WF`, of the loop over the connections, which runs every few seconds, and the notice
of a closed socket; not of the arrival of messages nor of the return of socket calls. No
fairness is assumed for transactions, block production or crashes.
That a node gets the chain is stated without fairness: `RestsInSync` says that it
does not come to rest before.

### Mutants

Each property of a passing run has a definition marked *Mutant* in its module, a
plausible mistake in one mapped definition (a dropped guard, a wrong bound, a
forgotten reset) under which the property fails. They show that a property
depends on the code it is about; no specification uses them.

## Proofs

| Module | Obligations | Theorems |
| --- | --- | --- |
| `UndoDatabaseProofs` | 1021 | `TypeCorrect`, `RestoresVersions`, `NeverThrows`, `SessionsKept`, `DisabledHasNoHistory`, `UndoRefinesVersionStore` |
| `WitnessScheduleProofs` | 547 | `TypeCorrect`, `SlotsFit`, `ProducedValid`, `MaintenanceScheduled`, `IrreversibleAdvances`, `SlotsAccountedFor` |
| `ChainDatabaseProofs` | 1679 | `TypeCorrect`, `PendingApply`, `NoneDropped`, `FailedUnwinds` |
| `LockBalanceProofs` | 668 | `TypeCorrect`, `Conserved`, `CoreRedeemable` |
| `PeerConnectionsProofs` | 734 | `TypeCorrect`, `OneEach`, `MaximumKept` |
| `LedgerProofs` | 5587 | `VestingKept`, `SupplyKept`, `SupplyWithinMaximum`, `OtherSuppliesKept`, `LedgerTypes`, `LimitKept` |
| `GovernanceProofs` | 1011 | `ExecutedOnceAndWhole`, `CommitteeReviews` |
| `FoldTheorems` | 293 | the lemmas that the others share |

**Undo database.** The constants are arbitrary but for `BoundsAssumption` (naturals),
`NoObjectAssumption`, and `NestingAssumption`: sessions nest at most one deeper
than the least stack size. That is what the code relies on, since
`start_undo_session` trims before it pushes. `UndoRestoresVersions` is not inductive,
because it says what undoing gives but not which undo state does so after further
changes or a merge. The inductive invariant is

    IInv == TypeOK /\ SessionsHaveUndoStates /\ Len(sessions) <= MaxNesting
            /\ ForcedSessions /\ NoHistoryWhileDisabled /\ Chained(saved, stack, Current)

where `Chained` relates neighbouring versions through the undo state between
them, object by object (`LinkAt`): an object is new, changed, removed or untouched, and the
undo state says which. The lemmas `LinkCreate`, `LinkModify`, `LinkRemove` and
`LinkMerge` show that each operation keeps the relation, `ChainBegin`, `ChainFront`, `ChainMerge`
and `ChainTrack` lift it to the stack, `LinkUndone` and `LinkAsserts` read the
properties off. Theorems: `TypeCorrect`, `RestoresVersions`, `NeverThrows`, `SessionsKept`,
`DisabledHasNoHistory`, and `UndoRefinesVersionStore`, the refinement.

**Witness schedule.** Assumptions: finitely many witnesses, no empty election, a threshold between 1
and 100 percent, and for the parameters what `chain_parameters::validate` checks (a
positive block interval that divides a longer maintenance interval). The
invariant is

    IInv == TypeOK /\ ConfirmedBelowHead /\ FirstMaintenance /\ MaintenanceAhead

The slot lemmas `SlotTimeFacts` and `SlotAtTimeFacts` reduce the division of
times to two facts on quotients and remainders; `ThresholdConfirmed` shows by counting that the
element `nth_element` puts at the offset is confirmed by the threshold.
Theorems: `TypeCorrect`, `SlotsFit`, `ProducedValid`, `MaintenanceScheduled` and `IrreversibleAdvances`.

`SlotsAccountedFor` adds `SlotsInv == SlotsBehind /\ SlotsAccounted` on top of it: the filled
slots are not ahead of `aslot`, and the step of a block splits the slots since the
last one into its own and those that are added to the counters of their witnesses
(`MissedOnce`, a sum of disjoint sets of slots).

**Sums and loops.** `Sums` counts single units, `Sum(f, S) = Cardinality(Units(f, S))`, so
that no recursion is needed; `FoldTheorems` derives from the theorems on
cardinality what adding, removing or changing one holder does (`SumAdd`, `SumRemove`,
`SumChange`), and by induction over the subsets of a finite set (`Subsets`) that sums
add up (`SumPlus`, `SumDisjoint`). `LeastNat` gives induction up to a number (`UpTo`) and the
existence of what a loop computes (`Iteration`), which is how `Path` and `Repushed` of
`ChainDatabase` are reasoned about.

**Chain database.** Assumptions: blocks form a tree by `Parent` and `Num`, `Lib` does not fall
along it, the undo database keeps at least two states (`SizesAssumption`); conflicts,
invalid blocks and the number of restarts are arbitrary. The invariant is

    IInv == DbOK /\ WorkOK /\ SwitchOnBranches /\ TxsInPlace /\ PendingApplies

`SwitchOnBranches` says that during a fork switch the head is on one of the two
branches that `fetch_branch_from` returned, both of which grow out of the same block, and
`TxsInPlace` that transactions are in `_pending_tx` between two calls and in `_popped_tx` or
with the restorer during one. `PathBlocks` and `TxsOnBlock` say what popping and
applying a block does to the transactions of the chain; `RepushedFacts` is the loop
of the restorer: it keeps exactly what applies in turn. One lemma per action
(`push_block_step`, `switch_pop_step`, ...) proves the invariant and the step that `NoTxDropped`
allows together. `PendingApplies` is about what is in the session, so a `generate_block` that threw
leaves nothing to show. `FailedUnwinds` is proved from `[]PopsSucceed`, that no `pop_block` of a switch
throws. Whether one can depends on the sizes of the databases and on the irreversible
blocks: `SwitchCanPop` says when, and is checked by TLC in the run `chain`.

**Locks.** `LockAssumption`: finitely many accounts and assets, donations of either sign, and an interest formula
`Profit` that for every amount, period and pool that can occur takes at most the amount. The
invariant is

    IInv == TypeOK /\ HeldUnfinished /\ HeldOnce /\ CoreNamed /\ SupplyConserved

An unfinished lock is in exactly one set of one account, so that
`SupplyConserved` follows operation by operation: each moves units between a
balance, one lock and one pool. Balances and locks stay natural numbers; pools are
integers. After a restart a lock has lost `finish` and its asset;
`HeldUnfinished` and `CoreNamed` are what survives, and why locks of other assets are
not covered (see the findings).

**Connections.** `NodesAssumption`: any set of nodes, finitely many connections, any maximum.
The invariant is

    IInv == TypeOK /\ Fresh /\ Routed /\ Known /\ OneConnectionEach /\ WithinMaximum

Both properties are decided when a hello is handled: `is_already_connected_to_id` looks for the id
of the sender among the peers and `is_accepting_new_connections` counts them. They need to know that a
peer that was accepted is known by its id (`Known`), that a connection has a route once one of its ends is
used (`Routed`), and that an unused end is as it was made (`Fresh`). Nothing about the order of
messages is needed, so they hold with hellos that are late and with both ways to the active list.

**Supplies and vesting balances.** Assumptions: finitely many accounts and assets, the types of the
inputs, shares of a fee that add up to at most a hundred percent, and a genesis state within the
maximum supplies (`LedgerAssumption`, `GenesisAssumption`, `InputsAssumption`); rates, fees, the signs of
claims, policies, workers and block times are arbitrary. The invariant is

    LedgerInv == Good(Db) /\ GenesisIs(genesis, now) /\ witness_budget \in Nat
                 /\ last_budget \in Nat /\ last_budget <= now /\ cashback_period \in Periods
                 /\ minted \in Nat /\ (permit # NoPermit => permit.asset \in DOMAIN assets)

`Good(d)` is about the database that every operation is a function of: types, no
supply above its maximum, nothing held of assets that do not exist, ids in accounts
that are ids of core balances, and `Vests` for every vesting balance. `VestingSound`
is not inductive as it stands: what may be withdrawn later depends on the coin
seconds that are earned but not drawn, so `Vests` bounds the sum of what was drawn and
of `earned`. `DepositVests`, `WithdrawVests` and `VestsLater` are the three things that happen to
a balance, `VestsIsSound` reads the property off. Of the balances of the genesis state `GenesisIs`
keeps `Covered`, that what has not vested of `begin_balance` is still there, for those that are
used up as well; `GenesisDraw` shows that a claim of either sign keeps it.

`SupplyExact` is about sums over five kinds of places. `Gap(d, x)` is how much of the supply nobody
holds. One lemma per helper says by how much it changes the gap: `adjust_balance`,
`convert_fee`, `pay_fee`, `deposit_lazy_vesting`, `deposit_cashback`, `pay_out_fees` (whose rounded parts add up
to the whole, `FeeParts`), `process_fees`, `pay_worker`; `ProcessAllFees`, `PayWorkers` and
`ProcessBudget` lift this to the loops and the budget of a maintenance. Operations then add up to no
change at all (`OperationKeeps` and one lemma for each evaluator). What nobody holds is

    Balanced == \A x \in DOMAIN assets :
        Gap(Db, x) = IF x = Core THEN Unclaimed(genesis) + witness_budget - minted ELSE 0

`minted` counts what `asset_create` makes in the two cases under the findings; no other operation and
no maintenance changes it, so all theorems hold for all fees. `OtherSuppliesKept` is the part
about the other assets, which `minted` does not enter. `ProcessBudget` is where the maximum matters: what is
budgeted is at most the reserve that was never issued, the fees and what the witnesses left over.

**Withdraw permissions.** `TermsAssumption` is what `withdraw_permission_create_operation::validate`
checks. The limit of a period is not inductive: `claimed_this_period` has to stand for
the claims that were made. The invariant is

    PermitInv == PermitTypes /\ ClaimedStands /\ ClaimsWithinLimit

where `ClaimedStands` says that the claims since `period_start_time` add up to at most
`claimed_this_period`, that before the start of the first period all claims do, and
that no claim lies after the period. `QuotientIs` states what the truncating division
does within a period, after it and before the start; `PeriodsShift` that moving the
start by whole periods moves claims from period to period together; `ClaimFits` that
what `available_this_period` lets through fits in every one of these cases.

**Proposals.** `GovernanceAssumption` and `InputsAssumption` give the types of the inputs;
accounts, operations, authorities, approvals and block times are arbitrary. The
invariant is

    IInv == Types /\ CommitteeReviewed /\ ApprovedBefore /\ AppliedOnceAndWhole

`CommitteeReviewed` says that a proposal that needs the committee has a review
period, which is why `proposal_update` never executes it; `ApprovedBefore` that a proposal
whose review period was seen by a block has no approvals of accounts since. `ApplyAllFacts` is
the loop over the operations of a transaction (all of them, with the sum of their transfers, or none),
`ClearingFacts` the loop over the proposals that expire. `CommitteeReviews` is an
action property: transactions do not touch the committee, because `verify_authority`
refuses it first (`CommitteeSignsNothing`) and because of `CommitteeReviewed`; blocks
rest on `ApprovedBefore`. What else `verify_authority` decides is left open in these proofs, and so is what
an election computes: it keeps balances and replaces one authority (`MaintainedFacts`).

**Only model-checked.** In `ChainDatabase`, `SwitchCanPop`, `ChainKeptOnDisk`, `IrreversibleKept` and
`FollowsLongest` depend on the sizes and on where blocks become irreversible, and hold
for the instance, not for all constants. `ActiveIsMutual` of `PeerConnections` is about the order of
messages on two wires. `RecoversAfterGap` is about whole rounds of
shuffles. `Market` uses RECURSIVE operators, which the prover cannot handle. The properties of
`NodeSync` are about loops over peers and messages that are folds with operators,
and so are `AuthorizedByConsent` and `WitnessesByMajority` of `Governance`, with
sums on top. Liveness and fairness are out of reach of the prover.

## Findings

* `governance_review`: in the review period of a proposal only new approvals of accounts are
  refused (`proposal_evaluator.cpp:116-118`); approvals by key are accepted, and count for the
  authority of the committee. The assertion says that "No new approvals may be added".
* `chain_disk`: after a failed fork switch the blocks of the restored branch are stored under
  the id of the block that failed (`db_block.cpp:185`), so that they cannot be read back. The comment
  at `db_block.cpp:110-111` says that the block database holds what was pushed and that "Push block may
  fail in which case every partial change is unwound". The run checks `ChainOnDisk`.

### Met while modelling

Without a run of their own. Where a constant is named, the configuration with
that constant, checking the property alone, shows it.

Chain:
* A crash can lose the data of the last block and keep its index entry; `last()` then
  finds nothing and the replay replays nothing (`block_database.cpp:231`): the irreversible blocks are
  gone from the chain of the head until the node has synced again. `ChainKeptOnDisk` and `IrreversibleKept`
  except this case by name (`Intact`), since no document promises otherwise.
* A transaction that executes a proposal nests one session deeper than the undo history has
  room for when the irreversible block stands still (`db_update.cpp:99`): a switch then
  cannot pop the first block above the irreversible one, throws, and leaves the node half way
  between two branches. `SwitchCanPop` names the case.
* A block that makes itself irreversible (a checkpoint, a single witness) is the last one that was
  written, and a crash may lose it: `IrreversibleKept` is about blocks with `Lib[b] < Num[b]`.
* `generate_block` that throws loses the session of the pending transactions (`db_block.cpp:405-408`): until
  the next block a transaction that conflicts with them is accepted.
* A block that fails to apply leaves the index of the fork database but stays its
  head (`db_block.cpp:204`), which can leave the node stuck, see [fairness](#fairness). `push_block` of the fork database throws before it inserts
  into its unlinked index, which stays empty.
* The rewind in `close()` stops early after a fork switch whose pops left the fork
  database behind (`db_management.cpp:159`).
* `recently_missed_count` is compared with nothing, although the comment at
  `global_property_object.hpp:87` describes a limit.

Locks:
* `asset_id` and `finish` of a lock are not saved (`locked_balance_object.hpp:89`), while
  `object_database.hpp:50` speaks of the complete state: after a restart a lock in
  another asset than the core asset cannot be redeemed.
* The `locked_balance` of an asset only grows (`asset_object.hpp:71`).
* A donation may be negative (`protocol/lock_balance.cpp:83-86`, `lock_balance_evaluator.cpp:232`): it pays units out
  of the interest pool, also below zero, while `set_lock_data` asks for a pool that is not negative. The supply is
  conserved all the same.

Market:
* `asset_settle` demands a feed even after a global settlement (`asset_evaluator.cpp:422-424`),
  so that holders cannot redeem until somebody publishes; `asset_object.hpp:242-245`
  describes the fund as what they redeem from.
* `filled_limit` is never reset in `check_call_orders` (`db_market.cpp:464`): after one
  order was filled, a bid that is filled in part
  is passed over as well, and the next call order is matched at a worse price.
* `limit_itr` can be past the end when it is used again (`db_market.cpp:540-542`), and a
  global settlement without any position reads `end()` (`asset_evaluator.cpp:395-399`): `undefined`.
* A black swan can be missed: `check_for_blackswan` reads the first position by its
  stored call price, which after a partial fill need not be "the least collateralized
  call order" of the comment (`db_update.cpp:205-212`).
* `total_core_in_orders` is reduced by the freed collateral whatever its asset
  (`db_market.cpp:374-378`); the instance has core collateral only.

Network:
* Four stalls, named in `RestsInSync`: a block that its peer lacks is never asked of
  another one (`node.cpp:2805`); a received block that no task hands over after its
  connection was lost; a block that came twice and keeps the lists it is on from being
  done (`node.cpp:3270`); the node takes itself to be in sync while the peer takes it to be
  behind (`node.cpp:2525-2540`). Further connections or blocks end some of them.
* A second request for ids replaces the synopsis of the first (`node.cpp:2432`), whose
  answer is then checked against the wrong one: a correct peer is disconnected.
* An inbound connection whose key exchange fails stays in `_terminating_connections`;
  `Released` is about connections with exchanged keys for that reason.
* Nodes that connect to each other at the same moment can both reject, and try again.
* A hello is sent after calls of the application while the read loop runs (`node.cpp:4226-4236`), so that a connection
  can be active at an end that has not had the hello of the other; the same happens when the other end asks for
  block ids (`node.cpp:2317`). A rejection of that hello then comes too late, and the connection counts as active
  without having been checked against the maximum: `ActiveIsMutual` excepts it by name (`early`), and `WithinMaximum`
  counts the connections that were accepted.

Ledger:
* The fee for the creation of an asset can create core units. `do_evaluate` leaves the
  larger half in `core_fee_paid` (`asset_evaluator.cpp:67`), which is then both booked as the fee and
  put into the pool of the new asset (`asset_evaluator.cpp:100`): an odd fee creates one unit.
  And since `convert_fee` comes after it (`evaluator.hpp:167`), a fee in another asset takes
  only that half from its fee pool (`evaluator.cpp:89`), so that as much is created as is
  booked. `SupplyMatches` therefore holds up to `minted`; the supply check of the tests
  (`tests/common/database_fixture.cpp:228`), which knows of no such units, only meets even fees in core units.
* A claim of a genesis balance may be negative (`protocol/operations.cpp:35-39`, `balance_evaluator.cpp:80-89`): it pays
  into a balance, above its `begin_balance`, so that the assertion that `withdrawn_already` is not
  negative (`vesting_balance_object.cpp:60`) would fail in a debug build. What has not vested stays out of reach.
* A claim of a permission before its first period counts against no period; the fee pool of the core asset can
  be funded and never used.

Governance:
* A key approval that is not needed makes a proposal unauthorized, as an
  irrelevant signature does.
* Missed blocks can swallow a review period: transactions are evaluated at the
  time of the block before.
* The target for the number of committee members is computed from the histogram of
  the witnesses (`db_maint.cpp:247`).
* `add_authority` assigns the weight of an account that has two elected committee
  members, while the total adds it up (`vote_count.hpp:49`): the threshold can be out of reach.
* Without any vote the old committee authority stays, while the active members change.
* Deleting a proposal with `using_owner_authority` needs the active authority only.

That two nodes never disagree on an irreversible block is not a property of this
protocol, since a witness that changes branches confirms both; no document claims it.

### Hazards without a property

* `db_management.cpp:136`: after a replay there is no undo history, and a node that
  crashed on a minority branch cannot leave it. The code has no way out.
* `plugins/witness/witness.cpp:268`: after a gap of more than two thirds of the last 128 slots
  the participation is too low for any witness to sign; an operator has to step in.
* `db_market.cpp:374`: the sum of core in orders drifts when the collateral of a position is
  another asset; the positions of the instance are in the core asset.
* `db_update.cpp:48`: without the schedule check a block before its first slot makes the
  missed blocks wrap around; only blocks that passed the check reach it in the model.
* `asset_object.cpp:58` and `:86`: the interest formula multiplies in 32 bits and divides by what
  can be zero; the formula is a parameter of `LockBalance`.
* `db_balance.cpp:131`: the product of an amount and vesting seconds is a 64-bit one; amounts
  have no width in `Ledger`.

## What is not modelled

* The content of blocks (signatures, merkle roots, sizes) except as
  *applies* or *does not apply*; the size limit that postpones transactions is a free choice in
  `generate_block`.
* Market: prediction markets, whitelists, fees other than those of orders. Ledger: blinded
  transfers and FBA accumulators, buybacks, whitelists, memberships that expire,
  which workers are voted in, registration of accounts.
* Network: forks, invalid blocks and transactions in `NodeSync`, hard-fork
  disconnects, the expiry of old inventory; firewall checks, retry delays, rejections of outdated
  clients and shutdown in `PeerConnections`; sockets and encryption.
* Governance: proposals of proposals, addresses in authorities, special (top holder)
  authorities, votes for workers, the authority of the witness account, fees.
* The interest formula: a parameter of `LockBalance`.
* The files of the object database, except for what a lock saves.
* Wallet, API servers, serialisation, the list of words, generated genesis code
  and the tools: clients, I/O, data or pure conversions with no state of the node.
* History plugins: derived indices that follow the undo database.
