CONSTANTS
    p1 = p1
    p2 = p2
    NoPeer = NoPeer
    Peers = {p1, p2}
    N = 3
    Start = 1
    PeerHead <- MCPeerHead
    IdLimit = 2
    MinPrefetch = 4
    MaxPerPeer = 1
    MaxHandled = 2
    MaxPrefetched = 1
    UndoDepth = 2
    MaxFaults = 1
SPECIFICATION Spec
INVARIANTS RequestsTracked HandedInOrder BlocksAwaited RestsInSync
CHECK_DEADLOCK FALSE
