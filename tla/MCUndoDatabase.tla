--------------------------- MODULE MCUndoDatabase ---------------------------
(* Small instance of UndoDatabase for TLC. *)
EXTENDS UndoDatabase, TLC

\* Keys and payloads are only compared for equality.
Symmetry == Permutations(Keys) \cup Permutations(Payloads)
=============================================================================
