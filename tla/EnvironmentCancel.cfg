SPECIFICATION FairSpec
CONSTANTS
    e1 = e1  e2 = e2  c1 = c1  c2 = c2
    Ids = {e1, e2}
    Callers = {c1, c2}
    Faults = FALSE
    Cancels = TRUE
    MaxVersions = 1
    MaxGens = 2
    MaxCrashes = 0
INVARIANTS OneOwner
PROPERTY CallsReturn
CHECK_DEADLOCK FALSE
