CONSTANTS
    k1 = k1
    c1 = c1
    c2 = c2
    Clients = {k1}
    Calls = {c1, c2}
    NoCall = NoCall
    Targets <- AnyClient
    Methods <- OnlyCheckout
    Threads = 1
    MaxOpen = 1
    MaxItems = 1
    MayBreak = FALSE
    MayForget = TRUE
    DisposePolicy = "never"
SPECIFICATION Spec
INVARIANT CheckoutNeverCrashes
CHECK_DEADLOCK FALSE
