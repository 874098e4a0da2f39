SPECIFICATION FairSpec
CONSTANTS
    Slot <- MCSlot
    SlotMask <- MCSlotMask
    OriginMs = 0
    FirstFrame = 1
    FrameMs = 1
    MaxFrame = 5
    MaxMs = 100
    ChannelWindow = 3
    Games <- MCGames
INVARIANTS
    TypeOK
    LogReplays
    ClientsFollowLog
    DepartsOnce
    IdsAreDense
PROPERTIES
    OrdersRun
CHECK_DEADLOCK FALSE
