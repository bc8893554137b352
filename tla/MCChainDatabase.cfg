\* a4 does not apply and w executes a proposal; the process stops once, by itself or in
\* a crash that may lose what is not flushed.
CONSTANTS
    Genesis = Genesis
    NoBlock = NoBlock
    Torn = Torn
    r1 = r1
    a2 = a2
    a3 = a3
    b2 = b2
    b3 = b3
    b4 = b4
    a4 = a4
    t = t
    u = u
    w = w
    Blocks <- MCBlocks
    Parent <- MCParent
    Num <- MCNum
    Lib <- LibStalled
    TxsOf <- MCTxsOf
    Txs <- MCTxs
    Conflicts <- MCConflicts
    Invalid <- Invalid_a4
    ProposalTxs <- Proposal_w
    InitMaxSize = 9
    MaxUndo = 9
    InOrder = TRUE
    MaxNum = 4
    MaxPending = 2
    MaxRestarts = 1
SPECIFICATION FairSpec
INVARIANTS
    ChainKeptOnDisk
    IrreversibleKept
    SwitchCanPop
    FollowsLongest
    PendingApplies
PROPERTIES
    NoTxDropped
    FailedSwitchUnwinds
    EventuallyLongest
