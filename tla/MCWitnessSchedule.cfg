CONSTANTS
    w1 = w1
    w2 = w2
    w3 = w3
    w4 = w4
    NoParams = NoParams
    Witnesses <- Four
    Elections <- TwoElections
    Params <- Changing
    GenesisTime = 3
    Threshold = 70
    MaxUndo = 4
    Checkpoints = {2}
    StuckBlocks = {5}
    StuckDepth = 2
    Width = 6
    Participation = 33
    MaxTime = 18
SPECIFICATION Spec
INVARIANTS
    SlotOfTime
    ProducedBlocksValid
    MaintenanceAhead
    SlotsAccounted
PROPERTIES LibAdvances
CHECK_DEADLOCK FALSE
