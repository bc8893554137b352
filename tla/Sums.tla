-------------------------------- MODULE Sums --------------------------------
(***************************************************************************)
(* Sums of amounts, as a count of the single units: share_type amounts are *)
(* whole numbers of units, and a unit is somewhere or it is not.  Stated   *)
(* this way a sum needs no recursion, and FoldTheorems can prove what      *)
(* putting in, taking out and moving units does to it.                     *)
(***************************************************************************)
EXTENDS Naturals, FiniteSets

\* The units that the holders in S have, when holder s has f[s] of them.
Units(f, S) == UNION {{s} \X (1 .. f[s]) : s \in S}

Sum(f, S) == Cardinality(Units(f, S))
=============================================================================
