------------------------- MODULE MCPeerConnections -------------------------
(* Small instances of PeerConnections. *)
EXTENDS PeerConnections, TLC

CONSTANTS a, b, d, x

\* a and b know each other, d knows itself and x, which is on another chain.
MCSeeds == (a :> {b}) @@ (b :> {a}) @@ (d :> {a, d, x}) @@ (x :> {})
MCOpeners == (1 :> {a, d}) @@ (2 :> {a, b})
MCMaximum == [n \in Nodes |-> IF n = a THEN 1 ELSE 2]
MCCanBind == [n \in Nodes |-> n # b]
MCChainId == [n \in Nodes |-> IF n = x THEN 1 ELSE 0]
=============================================================================
