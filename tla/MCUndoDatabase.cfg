CONSTANTS
    MaxId = 1
    Keys = {k1, k2}
    Payloads = {p1, p2}
    NoObject = NoObject
    MaxNesting = 3
    MinMaxSize = 2
    MaxMaxSize = 3
SPECIFICATION Spec
SYMMETRY Symmetry
INVARIANTS
    UndoRestoresVersions
    UndoNeverThrows
    SessionsHaveUndoStates
PROPERTY ImplementsVersionStore
