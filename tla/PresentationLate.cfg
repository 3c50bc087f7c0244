CONSTANTS
    CAPACITY = 2
    Windows = {w1}
    NoWindow = NoWindow
    Sizes = {s1, s2}
    Renderer = "PIXMAN"
    DrainTimeouts = TRUE
    Faults = TRUE
    MaxPools = 2
SPECIFICATION Spec
INVARIANTS
    TypeOK
    NoUseAfterFree
    SubmittedIsInFlight
PROPERTY
    TeardownCompletes
CHECK_DEADLOCK FALSE
