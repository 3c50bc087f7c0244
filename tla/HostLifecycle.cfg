CONSTANTS
    Callers = {c1, c2, c3}
    InitFails = TRUE
    MaxStarts = 3
SPECIFICATION Spec
INVARIANTS
    TypeOK
    RunningIsServed
    NoForgottenWaiter
PROPERTIES
    StartReturnsEventually
    StopTerminates
CHECK_DEADLOCK FALSE
