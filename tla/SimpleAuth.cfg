SPECIFICATION FairSpec
CONSTANTS
    Workers = {w1, w2}
    Nobody = Nobody
    Providers = {f1, f2}
    MaxPrompts = 2
    MaxEdits = 3
INVARIANTS
    EveryFunctionAsked
    NeverRefused
PROPERTIES
    BlockedForGood
    CallSettles
    ImplementsAsync
