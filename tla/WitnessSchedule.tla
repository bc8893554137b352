--------------------------- MODULE WitnessSchedule ---------------------------
(***************************************************************************)
(* Slots, the witness schedule and the last irreversible block: what       *)
(* applying a block does to the dynamic global properties and to the       *)
(* witness objects (db_witness_schedule.cpp, db_update.cpp and the parts   *)
(* of db_block.cpp and db_maint.cpp that read or move the slots).          *)
(*                                                                         *)
(* Time counts seconds.  The votes that elect the witnesses, the parameters *)
(* that the committee decides on and the pseudo-random shuffle are inputs; *)
(* the pay of the witnesses is left out.                                   *)
(***************************************************************************)
EXTENDS Integers, FiniteSets, Sums

CONSTANTS
    Witnesses,     \* every witness object
    Elections,     \* the sets of witnesses that a vote can make active
    Params,        \* chain_parameters: [interval, skip, maint]
    NoParams,      \* no pending_parameters
    GenesisTime,   \* genesis_state.initial_timestamp
    Threshold,     \* GRAPHENE_IRREVERSIBLE_THRESHOLD, in percent
    MaxUndo,       \* max_undo
    Checkpoints,   \* the block numbers of _checkpoints
    StuckBlocks,   \* the block numbers that update_last_irreversible_block treats apart
    StuckDepth,    \* how far below such a block the irreversible one is put
    Width,         \* the bits of recent_slots_filled
    Participation, \* _required_witness_participation, in percent
    MaxTime        \* bound: the last second of a run

ASSUME WitnessAssumption ==
    /\ IsFiniteSet(Witnesses)
    /\ Elections \subseteq SUBSET Witnesses /\ {} \notin Elections
    /\ Threshold \in 1 .. 100

\* chain_parameters::validate
ASSUME ParamsAssumption ==
    /\ NoParams \notin Params
    /\ \A p \in Params :
        /\ p.interval \in Nat \ {0} /\ p.skip \in Nat
        /\ p.maint \in Nat /\ p.maint > p.interval /\ p.maint % p.interval = 0

ASSUME BoundAssumption ==
    /\ GenesisTime \in Nat /\ MaxTime \in Nat /\ MaxUndo \in Nat
    /\ Checkpoints \subseteq Nat /\ StuckDepth \in Nat
    /\ StuckBlocks \subseteq {n \in Nat : n >= StuckDepth}
    /\ Width \in Nat \ {0} /\ Participation \in 0 .. 100

Increment == 4   \* GRAPHENE_RECENTLY_MISSED_COUNT_INCREMENT
Decrement == 3   \* GRAPHENE_RECENTLY_MISSED_COUNT_DECREMENT

VARIABLES
    head,       \* head_block_number
    time,       \* the time of the head block
    aslot,      \* current_aslot
    maintFlag,  \* maintenance_flag: the head block performed maintenance
    nextMaint,  \* next_maintenance_time
    filled,     \* recent_slots_filled, as the set of the bits that are 1
    recent,     \* recently_missed_count
    lib,        \* last_irreversible_block_num
    active,     \* active_witnesses
    params,     \* parameters
    pending,    \* pending_parameters
    shuffled,   \* current_shuffled_witnesses
    confirmed,  \* witness_object::last_confirmed_block_num
    lastAslot,  \* witness_object::last_aslot
    missed      \* witness_object::total_missed

dynamicVars == <<head, time, aslot, maintFlag, nextMaint, filled, recent, lib>>
vars == <<dynamicVars, active, params, pending, shuffled, confirmed, lastAslot, missed>>

-----------------------------------------------------------------------------
(* The clock of the chain *)

\* The Nth time slot after the head block, n > 0.
SlotTime(h, t, flag, p, n) ==
    IF h = 0 THEN t + n * p.interval
    ELSE (t \div p.interval) * p.interval
         + (n + (IF flag THEN p.skip ELSE 0)) * p.interval

get_slot_time(n) == IF n = 0 THEN 0 ELSE SlotTime(head, time, maintFlag, params, n)

\* Mutant: forgets the slots that maintenance skips.
SlotAtTime_no_skip(h, t, flag, p, when) ==
    LET first == SlotTime(h, t, FALSE, p, 1)
    IN IF when < first THEN 0 ELSE (when - first) \div p.interval + 1

SlotAtTime(h, t, flag, p, when) ==
    LET first == SlotTime(h, t, flag, p, 1)
    IN IF when < first THEN 0 ELSE (when - first) \div p.interval + 1

get_slot_at_time(when) == SlotAtTime(head, time, maintFlag, params, when)

\* With forMissBlock the first block follows no missed slots.
SlotForMissBlock(when) ==
    IF get_slot_at_time(when) > 0 /\ head = 0 THEN 1 ELSE get_slot_at_time(when)

Size(f) == Cardinality(DOMAIN f)
get_scheduled_witness(n) == shuffled[(aslot + n) % Size(shuffled)]

witness_participation_rate == (100 * Cardinality(filled)) \div Width

\* The orders of a set of witnesses; the shuffle picks one from the block time.
Orders(A) ==
    {f \in [0 .. Cardinality(A) - 1 -> A] : \A w \in A : \E i \in DOMAIN f : f[i] = w}

-----------------------------------------------------------------------------
(* The steps of _apply_block *)

\* Mutant: takes the slot as for the missed blocks.
validate_block_header_miss(ts, w) ==
    /\ time < ts
    /\ SlotForMissBlock(ts) > 0
    /\ w = get_scheduled_witness(SlotForMissBlock(ts))

validate_block_header(ts, w) ==
    /\ time < ts
    /\ get_slot_at_time(ts) > 0
    /\ w = get_scheduled_witness(get_slot_at_time(ts))

\* A block up to the last checkpoint is applied with every check skipped.  It
\* was made under the checks of its header, which so hold for it all the same.
BeforeLastCheckpoint == \E c \in Checkpoints : c > head

\* Mutant: begins with the slot of the head block.
MissedBy_from_head(ts, w, v) ==
    {i \in 0 .. SlotForMissBlock(ts) - 1 : v # w /\ get_scheduled_witness(i) = v}

\* Each scheduled witness of a slot before the block, but never its own one.
MissedBy(ts, w, v) ==
    {i \in 1 .. SlotForMissBlock(ts) - 1 : v # w /\ get_scheduled_witness(i) = v}

RecentlyMissed(gap) ==
    CASE head = 0                          -> 0
      [] head > 0 /\ BeforeLastCheckpoint -> 0
      [] OTHER ->
            IF gap > 0 THEN recent + Increment * gap
            ELSE IF recent > Increment THEN recent - Decrement
            ELSE IF recent > 0 THEN recent - 1 ELSE 0

Shifted(gap) == ({i + 1 + gap : i \in filled} \cup {gap}) \cap 0 .. Width - 1

update_global_dynamic_data(ts, w) ==
    LET gap == get_slot_at_time(ts) - 1
    IN /\ missed' = [v \in Witnesses |-> missed[v] + Cardinality(MissedBy(ts, w, v))]
       /\ recent' = RecentlyMissed(gap)
       /\ head' = head + 1
       /\ time' = ts
       /\ filled' = Shifted(gap)
       /\ aslot' = aslot + gap + 1
       /\ BeforeLastCheckpoint \/ head + 1 - lib < MaxUndo

\* The head block is already the new one when the slot of its time is taken.
update_signing_witness(ts, w) ==
    /\ lastAslot' = [lastAslot EXCEPT ![w] =
                        aslot' + SlotAtTime(head', time', maintFlag, params, ts)]
    /\ confirmed' = [confirmed EXCEPT ![w] = head']

\* Mutant: rounds up.
Offset_up == ((100 - Threshold) * Cardinality(active) + 99) \div 100

Offset == ((100 - Threshold) * Cardinality(active)) \div 100

\* The values that can be at the offset after nth_element.
NthElement(c) ==
    {c[w] : w \in {v \in active :
        /\ Cardinality({u \in active : c[u] < c[v]}) <= Offset
        /\ Cardinality({u \in active : c[u] <= c[v]}) > Offset}}

update_last_irreversible_block ==
    \E n \in NthElement(confirmed') :
        LET num == IF head' \in StuckBlocks THEN head' - StuckDepth
                   ELSE IF head' \in Checkpoints THEN head' ELSE n
        IN lib' = IF num > lib THEN num ELSE lib

\* Mutant: one maintenance interval later, however late the block is.
NextMaintenance_one(ts, p) ==
    IF head = 0 THEN (ts \div p.maint + 1) * p.maint ELSE nextMaint + p.maint

\* perform_chain_maintenance, with the set A that the votes elect.
NextMaintenance(ts, p) ==
    IF head = 0 THEN (ts \div p.maint + 1) * p.maint
    ELSE nextMaint + ((ts - nextMaint) \div p.maint + 1) * p.maint

perform_chain_maintenance(ts, pend, A) ==
    /\ active' = A
    /\ params' = IF pend # NoParams THEN pend ELSE params
    /\ pending' = NoParams
    /\ nextMaint' = NextMaintenance(ts, params')

no_maintenance(pend) ==
    /\ pending' = pend
    /\ UNCHANGED <<active, params, nextMaint>>

\* Mutant: shuffles after every block.
update_witness_schedule_always == shuffled' \in Orders(active')

update_witness_schedule ==
    IF head' % Cardinality(active') = 0
    THEN shuffled' \in Orders(active')
    ELSE UNCHANGED shuffled

-----------------------------------------------------------------------------
Init ==
    /\ head = 0 /\ time = GenesisTime /\ aslot = 0
    /\ maintFlag = FALSE /\ nextMaint = 0
    /\ filled = 0 .. Width - 1
    /\ recent = 0 /\ lib = 0
    /\ active \in Elections
    /\ params \in Params /\ pending = NoParams
    /\ shuffled \in Orders(active)
    /\ confirmed = [w \in Witnesses |-> 0]
    /\ lastAslot = [w \in Witnesses |-> 0]
    /\ missed = [w \in Witnesses |-> 0]

\* A block of witness w and time ts, whose transactions may have the
\* committee decide on the parameters p.
apply_block(ts, w, p) ==
    LET pend == IF p # NoParams THEN p ELSE pending
        maint_needed == nextMaint <= ts
    IN /\ validate_block_header(ts, w)
       /\ update_global_dynamic_data(ts, w)
       /\ update_signing_witness(ts, w)
       /\ update_last_irreversible_block
       /\ \/ /\ maint_needed
             /\ \E A \in Elections : perform_chain_maintenance(ts, pend, A)
          \/ ~maint_needed /\ no_maintenance(pend)
       /\ maintFlag' = maint_needed
       /\ update_witness_schedule

Next ==
    \E ts \in 0 .. MaxTime, w \in Witnesses, p \in Params \cup {NoParams} :
        apply_block(ts, w, p)

Spec == Init /\ [][Next]_vars

-----------------------------------------------------------------------------
(* maybe_produce_block: whether a node with the keys of w signs a block in *)
(* second now, on the head block of this state.                            *)

ProducesAt(now, w) ==
    LET n == get_slot_at_time(now)
    IN /\ n > 0
       /\ w = get_scheduled_witness(n)
       /\ witness_participation_rate >= Participation
       /\ get_slot_time(n) = now
-----------------------------------------------------------------------------
(* Properties *)

TypeOK ==
    /\ head \in Nat /\ time \in Nat /\ aslot \in Nat
    /\ maintFlag \in BOOLEAN /\ nextMaint \in Nat
    /\ filled \subseteq 0 .. Width - 1
    /\ recent \in Nat /\ lib \in Nat
    /\ active \in Elections
    /\ params \in Params /\ pending \in Params \cup {NoParams}
    /\ \E A \in Elections : shuffled \in Orders(A)
    /\ confirmed \in [Witnesses -> Nat]
    /\ lastAslot \in [Witnesses -> Nat]
    /\ missed \in [Witnesses -> Nat]

\* get_slot_at_time returns the last slot that is not after the given time, and
\* every slot is after the head block, whatever the block interval was when the
\* head block was made and whether it performed maintenance.
SlotOfTime ==
    \A when \in 0 .. MaxTime :
        LET n == get_slot_at_time(when)
        IN /\ n > 0 => get_slot_time(n) <= when
           /\ when < get_slot_time(n + 1)
           /\ time < get_slot_time(n + 1)

\* A block that maybe_produce_block makes passes the checks of its header, and
\* so does not throw in the node of the witness itself.
ProducedBlocksValid ==
    \A now \in 0 .. MaxTime, w \in Witnesses :
        ProducesAt(now, w) => validate_block_header(get_slot_time(get_slot_at_time(now)), w)

\* perform_chain_maintenance finds the first maintenance time after the block:
\* none is due again in the next block and none is left out, also when the
\* maintenance interval has just been changed or blocks were missed.
MaintenanceAhead ==
    head > 0 => nextMaint > time /\ nextMaint - params.maint <= time

\* The irreversible block never goes back and never passes the head; when it
\* moves without a checkpoint or the hard-coded range, the threshold of the
\* witnesses that were active has confirmed it, also across elections.
LibAdvances ==
    [][ /\ lib <= lib' /\ lib' <= head'
        /\ lib' > lib =>
            \/ head' \in Checkpoints \cup StuckBlocks
            \/ 100 * Cardinality({w \in active : confirmed'[w] >= lib'})
                    >= Threshold * Cardinality(active) ]_vars

\* The slot that update_signing_witness records is the slot of the block, so no
\* two witnesses ever have the same one.
SlotsAreUnique ==
    /\ head > 0 => \E w \in Witnesses : lastAslot[w] = aslot /\ confirmed[w] = head
    /\ \A v, w \in Witnesses : lastAslot[v] = lastAslot[w] => v = w \/ lastAslot[v] = 0

\* No slot is counted as missed twice, and none that has a block.
MissedAtMostOnce ==
    Sum(missed, Witnesses) <= aslot - head

\* A slot is the slot of one block, recorded with the witness that signed it, or
\* a missed one, counted once (update_global_dynamic_data, update_signing_witness).
SlotsAccounted == SlotsAreUnique /\ MissedAtMostOnce

\* Once two rounds less one slot went without a gap, every active witness has
\* signed in them, although shuffles count blocks and the schedule counts slots,
\* and the irreversible block is at most two rounds behind: the undo history
\* recovers from any number of missed blocks.
RecoversAfterGap ==
    LET N == Cardinality(active)
    IN Elections = {active} /\ head >= 2 * N - 1 /\ 0 .. 2 * N - 2 \subseteq filled
        => /\ \A w \in active : confirmed[w] > head - (2 * N - 1)
           /\ head - lib < 2 * N - 1
=============================================================================
