\* a4 does not apply; the process never stops.
CONSTANTS
    Genesis = Genesis
    NoBlock = NoBlock
    Torn = Torn
    r1 = r1
    a2 = a2
    a3 = a3
    b2 = b2
    b3 = b3
    b4 = b4
    a4 = a4
    t = t
    u = u
    w = w
    Blocks <- MCBlocks
    Parent <- MCParent
    Num <- MCNum
    Lib <- LibStalled
    TxsOf <- MCTxsOf
    Txs <- MCTxs
    Conflicts <- MCConflicts
    Invalid <- Invalid_a4
    ProposalTxs = {}
    InitMaxSize = 9
    MaxUndo = 9
    InOrder = TRUE
    MaxNum = 4
    MaxPending = 2
    MaxRestarts = 0
SPECIFICATION Spec
INVARIANT ChainOnDisk
