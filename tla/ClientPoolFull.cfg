CONSTANTS
    k1 = k1
    k2 = k2
    k3 = k3
    k4 = k4
    Clients = {k1, k2, k3, k4}
    NoCall = NoCall
    Targets <- OwnClient
    Methods <- LoopAndPromise
    Threads = 2
    MaxOpen = 2
    MaxItems = 1
    MayBreak = FALSE
    MayForget = FALSE
    DisposePolicy = "never"
    c1 = c1
    c2 = c2
    c3 = c3
    c4 = c4
    Calls = {c1, c2, c3, c4}
SPECIFICATION FairSpec
PROPERTY EveryCallAnswered
CHECK_DEADLOCK FALSE
