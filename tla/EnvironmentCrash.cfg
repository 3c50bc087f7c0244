SPECIFICATION FairSpec
CONSTANTS
    e1 = e1  e2 = e2  c1 = c1  c2 = c2
    Ids = {e1, e2}
    Callers = {c1, c2}
    Faults = TRUE
    Cancels = FALSE
    MaxVersions = 2
    MaxGens = 2
    MaxCrashes = 2
INVARIANTS ReadyIsVerified InterruptedIsOwned
PROPERTIES ImplementsStore RestartCompletes
CHECK_DEADLOCK FALSE
