CONSTANTS
    RunAhead = 2
    Chunk = 3
    Window = 2
    NearEdge = 1
    MaxFrame = 1
    MaxGeneration = 2
SPECIFICATION Spec
INVARIANTS
    JoinNamed
CHECK_DEADLOCK FALSE
