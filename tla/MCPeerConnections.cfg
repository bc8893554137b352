CONSTANTS
    a = a
    b = b
    d = d
    x = x
    NoNode = NoNode
    Nodes = {a, b, d, x}
    ChainId <- MCChainId
    Seeds <- MCSeeds
    CanBind <- MCCanBind
    Desired = 1
    Maximum <- MCMaximum
    Conns = {1, 2}
    Openers <- MCOpeners
    MaxFaults = 1
SPECIFICATION FairSpec
INVARIANTS OneConnectionEach ActiveIsMutual WithinMaximum
PROPERTIES Released
CHECK_DEADLOCK FALSE
