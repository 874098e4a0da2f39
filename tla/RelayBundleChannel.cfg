SPECIFICATION FairSpec
CONSTANTS
    Small = Small
    Large = Large
    Message = {Small, Large}
    Fragments <- MCFragments
    Accounted <- MCAccounted
    Window = 2
    MaxQueuedBytes = 3
    MaxBufferedBytes = 3
    Reservation = 2
    MaxSequence = 3
    RetryMs = 1
    MaxDatagrams = 1
    Receiver = "relay"
    Loads <- MCBoth
INVARIANTS
    TypeOK
    LiveDataAnswered
    ExpectedFits
PROPERTIES
    ImplementsFifo
    Delivery
    WindowReopens
CHECK_DEADLOCK FALSE
