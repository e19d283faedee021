CONSTANTS
    o1 = o1
    o2 = o2
    o3 = o3
    Ops = {o1, o2, o3}
    NoOp = NoOp
    Kinds <- OneOfEachKind
SYMMETRY Symmetry
SPECIFICATION Spec
INVARIANTS
    BatonsSound
    LeavingExplains
    
CHECK_DEADLOCK FALSE
