-------------------------- MODULE MCChainDatabase --------------------------
(***************************************************************************)
(* A block tree for TLC.  The branches a and b part after r1 and overtake  *)
(* each other: a3 is higher than b2, b3 than a2, b4 than a3, and a4 than   *)
(* b3, but a4 does not apply.                                              *)
(***************************************************************************)
EXTENDS ChainDatabase, TLC

CONSTANTS r1, a2, a3, a4, b2, b3, b4, t, u, w

MCBlocks == {r1, a2, a3, a4, b2, b3, b4}

MCParent == (r1 :> Genesis) @@ (a2 :> r1) @@ (a3 :> a2) @@ (a4 :> a3)
            @@ (b2 :> r1) @@ (b3 :> b2) @@ (b4 :> b3)

MCNum == (Genesis :> 0) @@ (r1 :> 1) @@ (a2 :> 2) @@ (a3 :> 3) @@ (a4 :> 4)
         @@ (b2 :> 2) @@ (b3 :> 3) @@ (b4 :> 4)

\* r1 becomes irreversible and then, as witnesses go missing, stays the last one.
LibStalled == [b \in MCBlocks \cup {Genesis} |-> 
                  CASE MCNum[b] < 2 -> 0 [] b = b4 -> 2 [] OTHER -> 1]

MCTxsOf == (r1 :> << >>) @@ (a2 :> <<t>>) @@ (a3 :> <<w>>) @@ (a4 :> << >>)
           @@ (b2 :> << >>) @@ (b3 :> <<u>>) @@ (b4 :> <<w>>)

MCTxs == {t, u, w}
MCConflicts == {{t, u}}

Invalid_a4 == {a4}
Proposal_w == {w}
=============================================================================
