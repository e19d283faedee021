CONSTANTS
    Worker = worker
    Nobody = nobody
    l1 = l1
    l2 = l2
    Loops = {l1, l2}
    Depth = 1
    MayBreak = FALSE
    MaxItems = 3
SPECIFICATION FairSpec
INVARIANTS
    TypeOK
    Handshake
    NoOwnEscape
    NothingOutlivesWork
    EndMeansComplete
PROPERTIES
    BothSidesFinish
    ImplementsIterable
CHECK_DEADLOCK FALSE
