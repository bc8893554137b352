CONSTANTS
    w1 = w1
    w2 = w2
    w3 = w3
    w4 = w4
    NoParams = NoParams
    Witnesses <- Three
    Elections <- OneElection
    Params <- Steady
    GenesisTime = 1
    Threshold = 70
    MaxUndo = 20
    Checkpoints = {}
    StuckBlocks = {}
    StuckDepth = 0
    Width = 8
    Participation = 33
    MaxTime = 15
SPECIFICATION Spec
INVARIANTS RecoversAfterGap
SYMMETRY AllSymmetric
CHECK_DEADLOCK FALSE
