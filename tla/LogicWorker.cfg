\* Two inputs, three frames, one switch of the worker, with and without a
\* frame driver; a frame may throw.
CONSTANTS
    Driven = {TRUE, FALSE}
    MaxBatches = 2
    MaxDue = 2
    MaxFrames = 3
    MaxInputs = 2
    MaxSwitches = 1
    MayThrow = TRUE
SPECIFICATION FairSpec
INVARIANTS
    TypeOK
    LogicExclusive
    InputInItsFrame
PROPERTIES
    RenderThreadReturns
    RequestedFramesRun
