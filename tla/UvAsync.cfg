CONSTANTS
    c1 = c1
    c2 = c2
    c3 = c3
    Callers = {c1, c2, c3}
    NoCaller = NoCaller
SPECIFICATION FairSpec
INVARIANTS
    CallbackSound
    NoLostWakeup
    OneCallAtATime
    HandleOutlivesCalls
PROPERTIES
    CallReturns
    ImplementsCall
