CONSTANTS
    l1 = l1
    l2 = l2
    Loops = {l1, l2}
    Depth = 1
    MayBreak = TRUE
    MaxItems = 4
SPECIFICATION Spec
INVARIANTS
    SlotSound
    NoOrphanedPromise
    Conservation
PROPERTIES
    ImplementsStream
CHECK_DEADLOCK FALSE
