CONSTANTS
    RunAhead = 2
    Chunk = 3
    Window = 2
    NearEdge = 1
    MaxFrame = 1
    MaxGeneration = 1
SPECIFICATION FairSpec
INVARIANTS
    LogPrefix
    InStep
    JoinNamed
PROPERTIES
    RejoinEnds
    GameGoesOn
CHECK_DEADLOCK FALSE
