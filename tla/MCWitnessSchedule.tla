-------------------------- MODULE MCWitnessSchedule --------------------------
(* Small instances of WitnessSchedule. *)
EXTENDS WitnessSchedule, TLC

CONSTANTS w1, w2, w3, w4

Three == {w1, w2, w3}
Four == Three \cup {w4}
OneElection == {Three}
TwoElections == {Three, {w1, w4}}

\* Intervals that change, do not divide each other and are longer than the gap.
Changing == {[interval |-> 2, skip |-> 1, maint |-> 4], [interval |-> 3, skip |-> 0, maint |-> 6]}
Steady == {[interval |-> 1, skip |-> 1, maint |-> 6]}
AllSymmetric == Permutations(Witnesses)
=============================================================================
