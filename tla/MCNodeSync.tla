----------------------------- MODULE MCNodeSync -----------------------------
EXTENDS NodeSync, TLC

CONSTANTS p1, p2

\* The second peer is one block behind and gets it during the run.
MCPeerHead == (p1 :> N) @@ (p2 :> N - 1)
=============================================================================
