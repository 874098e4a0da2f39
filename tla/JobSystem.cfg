SPECIFICATION FairSpec
CONSTANTS
    t1 = t1
    t2 = t2
    w1 = w1
    w2 = w2
    None = None
    Caller <- MCCaller
    Worker <- MCWorker
    Crew <- MCCrew
    Job <- MCJob
    Simulation = TRUE
    MaxCalls = 2
    MaxResizes = 1
INVARIANTS
    TypeOK
    BodyAlive
    ChunkOnce
    SameAsSequential
PROPERTIES
    CallsReturn
CHECK_DEADLOCK FALSE
