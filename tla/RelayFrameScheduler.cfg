SPECIFICATION Spec
CONSTANTS
    Slot <- MCSlot
    SlotMask <- MCSlotMask
    Unsteady <- MCUnsteady
    Policies <- MCPolicies
    Sizes <- MCSizes
    PlayerFrameBytes = 2
    MaxOrderBytes = 3
    MaxPendingOrders = 3
    MaxPendingBytes = 5
    OriginMs = 1
    FirstFrame = 1
    FrameMs = 2
    MaxFrame = 4
    MaxMs = 11
    MaxNow <- MCMaxNow
    MaxId <- MCMaxId
    MaxBeat <- MCMaxBeat
INVARIANTS
    TypeOK
    AdmissionInOrder
    IdsAccounted
    RunsInOrder
    DelayExplained
    FrameAlwaysValid
    ByteAccounting
    WindowsLandTogether
    ReceiptFrameOpen
CHECK_DEADLOCK FALSE
