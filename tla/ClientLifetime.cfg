CONSTANTS
    k1 = k1
    k2 = k2
    Clients = {k1, k2}
    NoCall = NoCall
    Targets <- OneShared
    Methods <- OneOfEachKind
    Threads = 2
    MaxOpen = 1
    MaxItems = 1
    MayBreak = TRUE
    MayForget = TRUE
    DisposePolicy = "idle"
    c1 = c1
    c2 = c2
    c3 = c3
    Calls = {c1, c2, c3}
SPECIFICATION FairSpec
INVARIANTS
    TypeOK
    ClientOutlivesCalls
    NoClientLeak
    NoMutualWait
    ThreadAvailable
PROPERTY EveryCallAnswered
CHECK_DEADLOCK FALSE
