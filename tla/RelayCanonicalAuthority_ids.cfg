SPECIFICATION Spec
CONSTANTS
    Slot <- MCSlot
    SlotMask <- MCSlotMask
    OriginMs = 0
    FirstFrame = 1
    FrameMs = 2
    MaxFrame = 5
    MaxMs = 100
    ChannelWindow = 1
    Games <- MCBusy
INVARIANTS
    IdsAreDense
CHECK_DEADLOCK FALSE
