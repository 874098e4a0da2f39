SPECIFICATION Spec
CONSTANTS
    Slot <- MCSlot
    SlotMask <- MCSlotMask
    OriginMs = 0
    FirstFrame = 1
    FrameMs = 2
    MaxFrame = 5
    MaxMs = 100
    ChannelWindow = 8
    Games <- MCSilent
INVARIANTS
    MembershipCommits
CHECK_DEADLOCK FALSE
