CONSTANTS
    Callers = {c1, c2}
    InitFails = FALSE
    MaxStarts = 2
SPECIFICATION Spec
SYMMETRY MCSymmetry
INVARIANT
    NoJoinDeadlock
CHECK_DEADLOCK FALSE
