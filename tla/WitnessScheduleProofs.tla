------------------------ MODULE WitnessScheduleProofs ------------------------
(***************************************************************************)
(* For every set of witnesses, every election, all parameters and any      *)
(* history of blocks: the types, the slot arithmetic, the maintenance time,*)
(* the irreversible block and the account of the slots of WitnessSchedule. *)
(***************************************************************************)
EXTENDS WitnessSchedule, FoldTheorems

(* What \div returns, for the slot and maintenance arithmetic. *)
LEMMA DivFacts ==
    ASSUME NEW a \in Nat, NEW d \in Nat \ {0}
    PROVE  /\ a \div d \in Nat
           /\ (a \div d) * d <= a
           /\ a < (a \div d) * d + d
  OBVIOUS

(* Multiplication by an interval keeps products in Nat and in order. *)
LEMMA MulFacts ==
    ASSUME NEW a \in Nat, NEW b \in Nat, NEW d \in Nat
    PROVE  /\ a * d \in Nat
           /\ (a + b) * d = a * d + b * d
           /\ (a + 1) * d = a * d + d
  OBVIOUS

(* get_slot_time of slot n is n - 1 intervals after that of slot 1, which is *)
(* after the head block.                                                     *)
LEMMA SlotTimeFacts ==
    ASSUME NEW h \in Nat, NEW t \in Nat, NEW flag \in BOOLEAN, NEW p \in Params, NEW n \in Nat
    PROVE  /\ SlotTime(h, t, flag, p, 1) \in Nat
           /\ t < SlotTime(h, t, flag, p, 1)
           /\ SlotTime(h, t, flag, p, n + 1) = SlotTime(h, t, flag, p, 1) + n * p.interval
  <1> DEFINE i == p.interval
             s == IF flag THEN p.skip ELSE 0
             q == t \div i
  <1>1. i \in Nat \ {0} /\ s \in Nat
    BY ParamsAssumption
  <1>2. q \in Nat /\ q * i <= t /\ t < q * i + i
    BY <1>1, DivFacts
  <1>3. CASE h = 0
    <2>1. /\ SlotTime(h, t, flag, p, 1) = t + 1 * i
          /\ SlotTime(h, t, flag, p, n + 1) = t + (n + 1) * i
      BY <1>3 DEF SlotTime
    <2> HIDE DEF i
    <2>2. (n + 1) * i = n * i + i /\ n * i \in Nat /\ 1 * i = i
      BY <1>1, MulFacts
    <2>3. QED
      BY <1>1, <2>1, <2>2 DEF i
  <1>4. CASE h # 0
    <2>1. /\ SlotTime(h, t, flag, p, 1) = q * i + (1 + s) * i
          /\ SlotTime(h, t, flag, p, n + 1) = q * i + (n + 1 + s) * i
      BY <1>4 DEF SlotTime
    <2> HIDE DEF i, s, q
    <2>2. /\ (s + 1) * i = s * i + i /\ s * i \in Nat /\ q * i \in Nat
          /\ (n + (s + 1)) * i = n * i + (s + 1) * i /\ n * i \in Nat
      BY <1>1, <1>2, MulFacts
    <2>3. 1 + s = s + 1 /\ n + 1 + s = n + (s + 1)
      BY <1>1
    <2>4. /\ SlotTime(h, t, flag, p, 1) = q * i + (s * i + i)
          /\ SlotTime(h, t, flag, p, n + 1) = q * i + (n * i + (s * i + i))
      BY <2>1, <2>2, <2>3
    <2>5. QED
      BY <1>1, <1>2, <2>2, <2>4 DEF i
  <1>5. QED
    BY <1>3, <1>4

LEMMA SlotAtTimeFacts ==
    ASSUME NEW h \in Nat, NEW t \in Nat, NEW flag \in BOOLEAN, NEW p \in Params, NEW when \in Nat
    PROVE  LET n == SlotAtTime(h, t, flag, p, when)
           IN /\ n \in Nat
              /\ n > 0 => SlotTime(h, t, flag, p, n) <= when
              /\ when < SlotTime(h, t, flag, p, n + 1)
              /\ t < SlotTime(h, t, flag, p, n + 1)
  <1> DEFINE i == p.interval
             first == SlotTime(h, t, flag, p, 1)
             k == (when - first) \div i
  <1>1. i \in Nat \ {0}
    BY ParamsAssumption
  <1>2. first \in Nat /\ t < first
    BY SlotTimeFacts, 0 \in Nat
  <1>3. CASE when < first
    <2>1. SlotAtTime(h, t, flag, p, when) = 0
      BY <1>3 DEF SlotAtTime
    <2>2. QED
      BY <1>2, <1>3, <2>1
  <1>4. CASE ~(when < first)
    <2>1. SlotAtTime(h, t, flag, p, when) = k + 1
      BY <1>4 DEF SlotAtTime
    <2>2. when - first \in Nat
      BY <1>2, <1>4
    <2>3. k \in Nat /\ k * i <= when - first /\ when - first < k * i + i
      BY <1>1, <2>2, DivFacts
    <2> HIDE DEF k
    <2>4. /\ SlotTime(h, t, flag, p, k + 1) = first + k * i
          /\ SlotTime(h, t, flag, p, (k + 1) + 1) = first + (k + 1) * i
      <3>1. k + 1 \in Nat
        BY <2>3
      <3>2. QED
        BY <2>3, <3>1, SlotTimeFacts
    <2>5. (k + 1) * i = k * i + i /\ k * i \in Nat
      BY <1>1, <2>3, MulFacts
    <2> HIDE DEF first, i
    <2>6. QED
      BY <1>1, <1>2, <2>1, <2>3, <2>4, <2>5
  <1>5. QED
    BY <1>3, <1>4
-----------------------------------------------------------------------------
(* Of the witnesses in A at least the threshold has confirmed block n when no *)
(* more of them than the offset are below n: the arithmetic of the offset of  *)
(* update_last_irreversible_block.                                            *)
LEMMA ThresholdConfirmed ==
    ASSUME NEW A \in SUBSET Witnesses, NEW c \in [Witnesses -> Nat], NEW n \in Nat,
           Cardinality({u \in A : c[u] < n}) <= ((100 - Threshold) * Cardinality(A)) \div 100
    PROVE  100 * Cardinality({u \in A : c[u] >= n}) >= Threshold * Cardinality(A)
  <1> DEFINE Low == {u \in A : c[u] < n}
             High == {u \in A : c[u] >= n}
  <1>1. IsFiniteSet(A)
    BY WitnessAssumption, FS_Subset
  <1>2. IsFiniteSet(Low) /\ IsFiniteSet(High)
    BY <1>1, FS_Subset, Low \subseteq A, High \subseteq A
  <1>3. High = A \ Low
    OBVIOUS
  <1>4. Cardinality(High) = Cardinality(A) - Cardinality(Low)
    <2>1. A \cap Low = Low
      OBVIOUS
    <2> HIDE DEF Low, High
    <2>2. Cardinality(A \ Low) = Cardinality(A) - Cardinality(A \cap Low)
      BY <1>1, FS_Difference
    <2>3. QED
      BY <1>3, <2>1, <2>2
  <1>5. Cardinality(A) \in Nat /\ Cardinality(Low) \in Nat
    BY <1>1, <1>2, FS_CardinalityType
  <1>6. Threshold \in 1 .. 100
    BY WitnessAssumption
  <1> HIDE DEF Low, High
  <1> DEFINE N == Cardinality(A)
             L == Cardinality(Low)
             m == (100 - Threshold) * N
  <1>7. m \in Nat
    BY <1>5, <1>6
  <1>8. 100 * (m \div 100) <= m
    BY <1>7, DivFacts
  <1>9. L <= m \div 100 /\ m \div 100 \in Nat
    BY <1>7, DivFacts DEF Low
  <1>10. m = 100 * N - Threshold * N
    BY <1>5, <1>6
  <1>11. Threshold * N \in Nat
    BY <1>5, <1>6
  <1>12. 100 * (N - L) >= Threshold * N
    <2> HIDE DEF N, L, m
    <2>1. QED
      BY <1>5, <1>8, <1>9, <1>10, <1>11 DEF N, L
  <1>13. QED
    BY <1>4, <1>12 DEF High

(* MaintenanceAhead does not hold by itself in the step of the first block, *)
(* and the irreversible block is below the head because the confirmations   *)
(* are.                                                                     *)
ConfirmedBelowHead == lib <= head /\ \A w \in Witnesses : confirmed[w] <= head

FirstMaintenance == head = 0 => nextMaint = 0

IInv == TypeOK /\ ConfirmedBelowHead /\ FirstMaintenance /\ MaintenanceAhead

(* The initial state of init_genesis satisfies the invariant. *)
LEMMA InitIInv == Init => IInv
  <1> SUFFICES ASSUME Init PROVE IInv
    OBVIOUS
  <1>1. TypeOK
    BY BoundAssumption DEF Init, TypeOK
  <1>2. ConfirmedBelowHead /\ FirstMaintenance /\ MaintenanceAhead
    BY DEF Init, ConfirmedBelowHead, FirstMaintenance, MaintenanceAhead
  <1>3. QED
    BY <1>1, <1>2 DEF IInv

(* The slot of a valid block, and what the clock is after it. *)
LEMMA BlockSlot ==
    ASSUME TypeOK, NEW ts \in Nat, NEW w \in Witnesses, validate_block_header(ts, w)
    PROVE  /\ get_slot_at_time(ts) \in Nat /\ get_slot_at_time(ts) > 0
           /\ time < ts
           /\ SlotForMissBlock(ts) \in Nat
  <1>1. get_slot_at_time(ts) \in Nat
    BY SlotAtTimeFacts DEF TypeOK, get_slot_at_time
  <1>2. QED
    BY <1>1 DEF validate_block_header, SlotForMissBlock

(* The block numbers that update_last_irreversible_block can put into lib. *)
LEMMA LibStep ==
    ASSUME IInv, NEW ts \in Nat, NEW w \in Witnesses,
           update_global_dynamic_data(ts, w), update_signing_witness(ts, w),
           update_last_irreversible_block
    PROVE  /\ confirmed' \in [Witnesses -> Nat]
           /\ \A u \in Witnesses : confirmed'[u] <= head'
           /\ lib' \in Nat /\ lib <= lib' /\ lib' <= head'
           /\ lib' > lib =>
                \/ head' \in Checkpoints \cup StuckBlocks
                \/ 100 * Cardinality({u \in active : confirmed'[u] >= lib'})
                        >= Threshold * Cardinality(active)
  <1> USE DEF IInv
  <1>1. head \in Nat /\ head' = head + 1 /\ lib \in Nat /\ lib <= head
    BY DEF TypeOK, update_global_dynamic_data, ConfirmedBelowHead
  <1>2. /\ confirmed' \in [Witnesses -> Nat]
        /\ \A u \in Witnesses : confirmed'[u] <= head'
    BY <1>1 DEF TypeOK, update_signing_witness, ConfirmedBelowHead
  <1>3. active \in SUBSET Witnesses
    BY WitnessAssumption DEF TypeOK
  <1>4. PICK v \in active :
            /\ Cardinality({u \in active : confirmed'[u] < confirmed'[v]}) <= Offset
            /\ LET num == IF head' \in StuckBlocks THEN head' - StuckDepth
                          ELSE IF head' \in Checkpoints THEN head' ELSE confirmed'[v]
               IN lib' = IF num > lib THEN num ELSE lib
    BY DEF update_last_irreversible_block, NthElement
  <1>5. confirmed'[v] \in Nat /\ confirmed'[v] <= head'
    BY <1>2, <1>3
  <1>6. head' \in StuckBlocks => head' - StuckDepth \in Nat /\ head' - StuckDepth <= head'
    BY <1>1, BoundAssumption
  <1>7. lib' \in Nat /\ lib <= lib' /\ lib' <= head'
    BY <1>1, <1>4, <1>5, <1>6
  <1>8. ASSUME lib' > lib, head' \notin Checkpoints \cup StuckBlocks
        PROVE  100 * Cardinality({u \in active : confirmed'[u] >= lib'})
                    >= Threshold * Cardinality(active)
    <2>1. lib' = confirmed'[v]
      BY <1>1, <1>4, <1>5, <1>8
    <2>2. Cardinality({u \in active : confirmed'[u] < lib'})
            <= ((100 - Threshold) * Cardinality(active)) \div 100
      BY <1>4, <2>1 DEF Offset
    <2>3. QED
      BY <1>2, <1>3, <1>7, <2>2, ThresholdConfirmed
  <1>9. QED
    BY <1>2, <1>7, <1>8
(* The time that perform_chain_maintenance computes is the first one after a *)
(* block that is not before the last.                                        *)
LEMMA NextMaintenanceFacts ==
    ASSUME NEW ts \in Nat, NEW p \in Params, nextMaint \in Nat, nextMaint <= ts
    PROVE  /\ NextMaintenance(ts, p) \in Nat
           /\ NextMaintenance(ts, p) > ts
           /\ NextMaintenance(ts, p) - p.maint <= ts
  <1> DEFINE m == p.maint
             late == ts - nextMaint
             y == late \div m
             z == ts \div m
  <1>1. m \in Nat \ {0}
    BY ParamsAssumption
  <1>2. late \in Nat
    OBVIOUS
  <1>3. /\ y \in Nat /\ y * m <= late /\ late < y * m + m
        /\ z \in Nat /\ z * m <= ts /\ ts < z * m + m
    BY <1>1, <1>2, DivFacts
  <1>4. NextMaintenance(ts, p) = IF head = 0 THEN (z + 1) * m ELSE nextMaint + (y + 1) * m
    BY DEF NextMaintenance
  <1> HIDE DEF m, y, z
  <1>5. /\ (y + 1) * m = y * m + m /\ y * m \in Nat
        /\ (z + 1) * m = z * m + m /\ z * m \in Nat
    BY <1>1, <1>3, MulFacts
  <1>6. QED
    BY <1>1, <1>3, <1>4, <1>5 DEF m

(* Every block keeps the types. *)
LEMMA TypeStep ==
    ASSUME IInv, NEW ts \in Nat, NEW w \in Witnesses, NEW p \in Params \cup {NoParams},
           apply_block(ts, w, p)
    PROVE  TypeOK'
  <1> DEFINE pend == IF p # NoParams THEN p ELSE pending
  <1>1. /\ validate_block_header(ts, w)
        /\ update_global_dynamic_data(ts, w)
        /\ update_signing_witness(ts, w)
        /\ update_last_irreversible_block
        /\ maintFlag' = (nextMaint <= ts)
        /\ update_witness_schedule
    BY DEF apply_block
  <1>2. TypeOK
    BY DEF IInv
  <1>3. get_slot_at_time(ts) \in Nat /\ get_slot_at_time(ts) > 0 /\ SlotForMissBlock(ts) \in Nat
    BY <1>1, <1>2, BlockSlot
  <1>4. head' \in Nat /\ head' = head + 1 /\ time' = ts /\ time' \in Nat /\ aslot' \in Nat
    BY <1>1, <1>2, <1>3 DEF update_global_dynamic_data, TypeOK
  <1>5. filled' \subseteq 0 .. Width - 1
    BY <1>1 DEF update_global_dynamic_data, Shifted
  <1>6. recent' \in Nat
    <2>1. recent' = RecentlyMissed(get_slot_at_time(ts) - 1)
      BY <1>1 DEF update_global_dynamic_data
    <2>2. recent \in Nat /\ head \in Nat /\ get_slot_at_time(ts) - 1 \in Nat
      BY <1>2, <1>3 DEF TypeOK
    <2>3. QED
      BY <2>1, <2>2 DEF RecentlyMissed, Increment, Decrement
  <1>7. missed' \in [Witnesses -> Nat]
    <2>1. ASSUME NEW v \in Witnesses PROVE Cardinality(MissedBy(ts, w, v)) \in Nat
      <3>1. IsFiniteSet(1 .. SlotForMissBlock(ts) - 1)
        BY <1>3, FS_Interval
      <3>2. IsFiniteSet(MissedBy(ts, w, v))
        BY <3>1, FS_Subset DEF MissedBy
      <3>3. QED
        BY <3>2, FS_CardinalityType
    <2>2. QED
      BY <1>1, <1>2, <2>1 DEF update_global_dynamic_data, TypeOK
  <1>8. lastAslot' \in [Witnesses -> Nat]
    <2>1. SlotAtTime(head', time', maintFlag, params, ts) \in Nat
      BY <1>2, <1>4, SlotAtTimeFacts DEF TypeOK
    <2>2. QED
      BY <1>1, <1>2, <1>4, <2>1 DEF update_signing_witness, TypeOK
  <1>9. lib' \in Nat /\ confirmed' \in [Witnesses -> Nat]
    BY <1>1, LibStep
  <1>10. pend \in Params \cup {NoParams}
    BY <1>2 DEF TypeOK
  <1>11. /\ active' \in Elections /\ params' \in Params
         /\ pending' \in Params \cup {NoParams} /\ nextMaint' \in Nat
    <2>1. CASE nextMaint <= ts
      <3>1. PICK A \in Elections : perform_chain_maintenance(ts, pend, A)
        BY <2>1 DEF apply_block
      <3>2. active' \in Elections /\ params' \in Params /\ pending' = NoParams
        BY <1>2, <1>10, <3>1 DEF perform_chain_maintenance, TypeOK
      <3>3. nextMaint' \in Nat
        BY <1>2, <2>1, <3>1, <3>2, NextMaintenanceFacts DEF perform_chain_maintenance, TypeOK
      <3>4. QED
        BY <3>2, <3>3
    <2>2. CASE ~(nextMaint <= ts)
      BY <1>2, <1>10, <2>2 DEF apply_block, no_maintenance, TypeOK
    <2>3. QED
      BY <2>1, <2>2
  <1>12. \E A \in Elections : shuffled' \in Orders(A)
    BY <1>1, <1>2, <1>11 DEF update_witness_schedule, TypeOK
  <1>13. maintFlag' \in BOOLEAN
    BY <1>1
  <1>14. QED
    BY <1>4, <1>5, <1>6, <1>7, <1>8, <1>9, <1>11, <1>12, <1>13 DEF TypeOK

(* Every block leaves the next maintenance ahead of it. *)
LEMMA MaintenanceStep ==
    ASSUME IInv, NEW ts \in Nat, NEW w \in Witnesses, NEW p \in Params \cup {NoParams},
           apply_block(ts, w, p)
    PROVE  FirstMaintenance' /\ MaintenanceAhead'
  <1> DEFINE pend == IF p # NoParams THEN p ELSE pending
  <1>1. TypeOK /\ TypeOK' /\ FirstMaintenance /\ MaintenanceAhead
    BY TypeStep DEF IInv
  <1>2. head' = head + 1 /\ time' = ts /\ time < ts
    BY DEF apply_block, update_global_dynamic_data, validate_block_header
  <1>3. head' > 0
    BY <1>1, <1>2 DEF TypeOK
  <1>4. nextMaint' > ts /\ nextMaint' - params'.maint <= ts
    <2>1. CASE nextMaint <= ts
      <3>1. nextMaint' = NextMaintenance(ts, params')
        BY <2>1 DEF apply_block, perform_chain_maintenance
      <3>2. QED
        BY <1>1, <2>1, <3>1, NextMaintenanceFacts DEF TypeOK
    <2>2. CASE ~(nextMaint <= ts)
      <3>1. nextMaint' = nextMaint /\ params' = params
        BY <2>2 DEF apply_block, no_maintenance
      <3>2. head # 0
        BY <1>1, <2>2 DEF FirstMaintenance, TypeOK
      <3>3. params.maint \in Nat
        BY <1>1, ParamsAssumption DEF TypeOK
      <3>4. QED
        BY <1>1, <1>2, <2>2, <3>1, <3>2, <3>3 DEF MaintenanceAhead, TypeOK
    <2>3. QED
      BY <2>1, <2>2
  <1>5. QED
    BY <1>2, <1>3, <1>4 DEF FirstMaintenance, MaintenanceAhead

LEMMA NextIInv == IInv /\ [Next]_vars => IInv'
  <1> SUFFICES ASSUME IInv, [Next]_vars PROVE IInv'
    OBVIOUS
  <1>1. CASE Next
    <2>1. PICK ts \in 0 .. MaxTime, w \in Witnesses, p \in Params \cup {NoParams} :
                apply_block(ts, w, p)
      BY <1>1 DEF Next
    <2>2. ts \in Nat
      BY BoundAssumption
    <2>3. ConfirmedBelowHead'
      BY <2>1, <2>2, LibStep DEF apply_block, ConfirmedBelowHead
    <2>4. QED
      BY <2>1, <2>2, <2>3, TypeStep, MaintenanceStep DEF IInv
  <1>2. CASE UNCHANGED vars
    BY <1>2 DEF IInv, TypeOK, ConfirmedBelowHead, FirstMaintenance, MaintenanceAhead,
                vars, dynamicVars
  <1>3. QED
    BY <1>1, <1>2

(* The invariant holds in every state of every chain. *)
THEOREM Invariance == Spec => []IInv
  <1>1. QED
    BY InitIInv, NextIInv, PTL DEF Spec

(* Type correctness of the dynamic properties and the witness objects. *)
THEOREM TypeCorrect == Spec => []TypeOK
  <1>1. IInv => TypeOK
    BY DEF IInv
  <1>2. QED
    BY Invariance, <1>1, PTL

(* For all block intervals, maintenance skips and histories of their changes, *)
(* get_slot_at_time and get_slot_time fit each other and every slot is after  *)
(* the head block.                                                            *)
THEOREM SlotsFit == Spec => []SlotOfTime
  <1>1. IInv => SlotOfTime
    <2> SUFFICES ASSUME IInv, NEW when \in 0 .. MaxTime
                 PROVE  LET n == get_slot_at_time(when)
                        IN /\ n > 0 => get_slot_time(n) <= when
                           /\ when < get_slot_time(n + 1)
                           /\ time < get_slot_time(n + 1)
      BY DEF SlotOfTime
    <2> DEFINE n == get_slot_at_time(when)
    <2>1. when \in Nat
      BY BoundAssumption
    <2>2. /\ n \in Nat
          /\ n > 0 => SlotTime(head, time, maintFlag, params, n) <= when
          /\ when < SlotTime(head, time, maintFlag, params, n + 1)
          /\ time < SlotTime(head, time, maintFlag, params, n + 1)
      BY <2>1, SlotAtTimeFacts DEF IInv, TypeOK, get_slot_at_time
    <2>3. n > 0 => n # 0
      BY <2>2
    <2>4. n + 1 # 0
      BY <2>2
    <2> HIDE DEF n
    <2>5. /\ n > 0 => get_slot_time(n) <= when
          /\ when < get_slot_time(n + 1)
          /\ time < get_slot_time(n + 1)
      BY <2>2, <2>3, <2>4 DEF get_slot_time
    <2>6. QED
      BY <2>5 DEF n
  <1>2. QED
    BY Invariance, <1>1, PTL

(* Whatever the clock says, maybe_produce_block never signs a block that the *)
(* node of its witness would refuse for its time, its slot or its witness.   *)
THEOREM ProducedValid == Spec => []ProducedBlocksValid
  <1>1. IInv => ProducedBlocksValid
    <2> SUFFICES ASSUME IInv, NEW now \in 0 .. MaxTime, NEW w \in Witnesses, ProducesAt(now, w)
                 PROVE  validate_block_header(get_slot_time(get_slot_at_time(now)), w)
      BY DEF ProducedBlocksValid
    <2>1. /\ get_slot_at_time(now) > 0
          /\ w = get_scheduled_witness(get_slot_at_time(now))
          /\ get_slot_time(get_slot_at_time(now)) = now
      BY DEF ProducesAt
    <2>2. now \in Nat
      BY BoundAssumption
    <2>3. /\ SlotTime(head, time, maintFlag, params, 1) \in Nat
          /\ time < SlotTime(head, time, maintFlag, params, 1)
      BY SlotTimeFacts, 0 \in Nat DEF IInv, TypeOK
    <2>4. ~(now < SlotTime(head, time, maintFlag, params, 1))
      BY <2>1 DEF get_slot_at_time, SlotAtTime
    <2>5. time < now
      BY <2>2, <2>3, <2>4 DEF IInv, TypeOK
    <2>6. QED
      BY <2>1, <2>5 DEF validate_block_header
  <1>2. QED
    BY Invariance, <1>1, PTL

(* perform_chain_maintenance always finds the first maintenance time after the *)
(* block, for all maintenance intervals and gaps.                              *)
THEOREM MaintenanceScheduled == Spec => []MaintenanceAhead
  <1>1. IInv => MaintenanceAhead
    BY DEF IInv
  <1>2. QED
    BY Invariance, <1>1, PTL

(* The irreversible block never goes back, never passes the head and moves only *)
(* with the confirmations of the threshold, for every number of witnesses and   *)
(* every sequence of elections, missed blocks and checkpoints.                  *)
THEOREM IrreversibleAdvances == Spec => LibAdvances
  <1> DEFINE A == /\ lib <= lib' /\ lib' <= head'
                  /\ lib' > lib =>
                      \/ head' \in Checkpoints \cup StuckBlocks
                      \/ 100 * Cardinality({w \in active : confirmed'[w] >= lib'})
                            >= Threshold * Cardinality(active)
  <1>1. IInv /\ [Next]_vars => [A]_vars
    <2> SUFFICES ASSUME IInv, Next PROVE A
      OBVIOUS
    <2>1. PICK ts \in 0 .. MaxTime, w \in Witnesses, p \in Params \cup {NoParams} :
                apply_block(ts, w, p)
      BY DEF Next
    <2>2. ts \in Nat
      BY BoundAssumption
    <2>3. QED
      BY <2>1, <2>2, LibStep DEF apply_block
  <1>2. QED
    BY Invariance, <1>1, PTL DEF Spec, LibAdvances

-----------------------------------------------------------------------------
(* The account of the slots *)

\* No witness has signed a later slot than the one of the head block.
SlotsBehind == \A w \in Witnesses : lastAslot[w] <= aslot

SlotsInv == SlotsBehind /\ SlotsAccounted

(* The slots that a block finds missed belong to one witness each. *)
LEMMA MissedOnce ==
    ASSUME TypeOK, NEW ts \in Nat, NEW w \in Witnesses, validate_block_header(ts, w)
    PROVE  LET f == [v \in Witnesses |-> Cardinality(MissedBy(ts, w, v))]
           IN  f \in [Witnesses -> Nat] /\ Sum(f, Witnesses) <= get_slot_at_time(ts) - 1
  <1> DEFINE M == [v \in Witnesses |-> MissedBy(ts, w, v)]
             U == 1 .. SlotForMissBlock(ts) - 1
             f == [v \in Witnesses |-> Cardinality(MissedBy(ts, w, v))]
  <1>1. /\ get_slot_at_time(ts) \in Nat /\ get_slot_at_time(ts) > 0
        /\ SlotForMissBlock(ts) \in {1, get_slot_at_time(ts)}
    BY BlockSlot DEF SlotForMissBlock
  <1>2. SlotForMissBlock(ts) - 1 \in Nat /\ SlotForMissBlock(ts) - 1 <= get_slot_at_time(ts) - 1
    BY <1>1
  <1>3. IsFiniteSet(U) /\ Cardinality(U) = SlotForMissBlock(ts) - 1
    BY <1>2, FS_Interval
  <1>4. M \in [Witnesses -> SUBSET U] /\ \A u, v \in Witnesses : u # v => M[u] \cap M[v] = {}
    BY DEF MissedBy
  <1>5. \A v \in Witnesses : f[v] = Cardinality(M[v]) /\ f[v] \in Nat
    BY <1>3, <1>4, FS_Subset, FS_CardinalityType
  <1>6. f \in [Witnesses -> Nat]
    BY <1>5
  <1> HIDE DEF M, U, f
  <1>7. Sum(f, Witnesses) <= Cardinality(U)
    BY <1>3, <1>4, <1>5, WitnessAssumption, SumDisjoint
  <1>8. Sum(f, Witnesses) \in Nat
    BY <1>6, WitnessAssumption, SumType
  <1>9. Sum(f, Witnesses) <= get_slot_at_time(ts) - 1
    BY <1>1, <1>2, <1>3, <1>7, <1>8
  <1> QED
    BY <1>6, <1>9 DEF f

(* A block keeps the account. *)
LEMMA SlotsStep ==
    ASSUME IInv, SlotsInv, NEW ts \in Nat, NEW w \in Witnesses,
           NEW p \in Params \cup {NoParams}, apply_block(ts, w, p)
    PROVE  SlotsInv'
  <1> DEFINE gap == get_slot_at_time(ts) - 1
             f == [v \in Witnesses |-> Cardinality(MissedBy(ts, w, v))]
  <1>1. /\ validate_block_header(ts, w)
        /\ update_global_dynamic_data(ts, w)
        /\ update_signing_witness(ts, w)
    BY DEF apply_block
  <1>2. TypeOK
    BY DEF IInv
  <1>3. get_slot_at_time(ts) \in Nat /\ gap \in Nat
    BY <1>1, <1>2, BlockSlot
  <1>4. /\ head \in Nat /\ aslot \in Nat /\ head' = head + 1 /\ aslot' = aslot + gap + 1
        /\ time' = ts /\ missed' = [v \in Witnesses |-> missed[v] + f[v]]
        /\ missed \in [Witnesses -> Nat] /\ lastAslot \in [Witnesses -> Nat]
        /\ confirmed \in [Witnesses -> Nat] /\ maintFlag \in BOOLEAN /\ params \in Params
    BY <1>1, <1>2 DEF update_global_dynamic_data, TypeOK
  <1>5. f \in [Witnesses -> Nat] /\ Sum(f, Witnesses) <= gap
    BY <1>1, <1>2, MissedOnce
  <1> HIDE DEF gap, f
  <1>6. SlotAtTime(head', time', maintFlag, params, ts) = 0
    <2>1. head' \in Nat /\ time' \in Nat
      BY <1>4
    <2>2. ts < SlotTime(head', time', maintFlag, params, 1)
      BY <1>4, <2>1, SlotTimeFacts, 0 \in Nat
    <2> QED
      BY <2>2 DEF SlotAtTime
  <1>7. /\ lastAslot' = [lastAslot EXCEPT ![w] = aslot']
        /\ confirmed' = [confirmed EXCEPT ![w] = head']
    <2> DEFINE slot == SlotAtTime(head', time', maintFlag, params, ts)
    <2>1. /\ lastAslot' = [lastAslot EXCEPT ![w] = aslot' + slot]
          /\ confirmed' = [confirmed EXCEPT ![w] = head']
      BY <1>1 DEF update_signing_witness
    <2>2. slot = 0 /\ aslot' \in Nat
      BY <1>3, <1>4, <1>6
    <2> HIDE DEF slot
    <2>3. aslot' + 0 = aslot'
      <3>1. \A n \in Nat : n + 0 = n
        OBVIOUS
      <3> QED
        BY <2>2, <3>1, Zenon
    <2> QED
      BY <2>1, <2>2, <2>3, Zenon
  <1>8. \A v \in Witnesses : lastAslot[v] <= aslot
    BY DEF SlotsInv, SlotsBehind
  <1>9. SlotsBehind'
    BY <1>3, <1>4, <1>7, <1>8 DEF SlotsBehind
  <1>10. SlotsAreUnique'
    <2>1. lastAslot'[w] = aslot' /\ confirmed'[w] = head'
      BY <1>4, <1>7
    <2>2. \A v \in Witnesses : v # w => lastAslot'[v] = lastAslot[v] /\ lastAslot'[v] # aslot'
      BY <1>3, <1>4, <1>7, <1>8
    <2>3. \A u, v \in Witnesses : lastAslot[u] = lastAslot[v] => u = v \/ lastAslot[u] = 0
      BY DEF SlotsInv, SlotsAccounted, SlotsAreUnique
    <2>4. ASSUME NEW u \in Witnesses, NEW v \in Witnesses, lastAslot'[u] = lastAslot'[v], u # v
          PROVE  lastAslot'[u] = 0
      <3>1. u # w /\ v # w
        BY <2>1, <2>2, <2>4
      <3> QED
        BY <2>2, <2>3, <2>4, <3>1
    <2> QED
      BY <2>1, <2>4 DEF SlotsAreUnique
  <1>11. MissedAtMostOnce'
    <2>1. Sum(missed', Witnesses) = Sum(missed, Witnesses) + Sum(f, Witnesses)
      <3>1. \A v \in Witnesses : /\ missed[v] \in Nat /\ f[v] \in Nat
                                 /\ missed'[v] = missed[v] + f[v]
        BY <1>4, <1>5
      <3> QED
        BY <3>1, WitnessAssumption, SumPlus
    <2>2. Sum(missed, Witnesses) \in Nat /\ Sum(f, Witnesses) \in Nat
      BY <1>4, <1>5, WitnessAssumption, SumType
    <2>3. Sum(missed, Witnesses) <= aslot - head
      BY DEF SlotsInv, SlotsAccounted, MissedAtMostOnce
    <2>4. Sum(missed', Witnesses) <= aslot' - head'
      BY <1>3, <1>4, <1>5, <2>1, <2>2, <2>3
    <2> QED
      BY <2>4 DEF MissedAtMostOnce
  <1> QED
    BY <1>9, <1>10, <1>11 DEF SlotsInv, SlotsAccounted

(* For every number of witnesses, all parameters, elections and gaps: a slot *)
(* is the one of a block, and recorded with its witness only, or is counted   *)
(* as missed at most once, with the witness that was scheduled for it.        *)
THEOREM SlotsAccountedFor == Spec => []SlotsAccounted
  <1>1. Init => SlotsInv
    <2> SUFFICES ASSUME Init
                 PROVE  SlotsInv
      OBVIOUS
    <2>1. Units(missed, Witnesses) = {}
      <3>1. \A v \in Witnesses : 1 .. missed[v] = {}
        BY DEF Init
      <3> QED
        BY <3>1 DEF Units
    <2>2. Sum(missed, Witnesses) = 0
      BY <2>1, FS_EmptySet DEF Sum
    <2> QED
      BY <2>2 DEF Init, SlotsInv, SlotsBehind, SlotsAccounted, SlotsAreUnique, MissedAtMostOnce
  <1>2. IInv /\ SlotsInv /\ [Next]_vars => SlotsInv'
    <2> SUFFICES ASSUME IInv, SlotsInv, [Next]_vars
                 PROVE  SlotsInv'
      OBVIOUS
    <2>1. CASE Next
      <3>1. PICK ts \in 0 .. MaxTime, w \in Witnesses, p \in Params \cup {NoParams} :
                  apply_block(ts, w, p)
        BY <2>1 DEF Next
      <3>2. ts \in Nat
        BY BoundAssumption
      <3> QED
        BY <3>1, <3>2, SlotsStep
    <2>2. CASE UNCHANGED vars
      BY <2>2 DEF vars, dynamicVars, SlotsInv, SlotsBehind, SlotsAccounted, SlotsAreUnique,
                  MissedAtMostOnce
    <2> QED
      BY <2>1, <2>2
  <1>3. SlotsInv => SlotsAccounted
    BY DEF SlotsInv
  <1> QED
    BY <1>1, <1>2, <1>3, Invariance, PTL DEF Spec
=============================================================================
