CONSTANTS
    CAPACITY = 3
    Windows = {w1, w2}
    NoWindow = NoWindow
    Sizes = {s1, s2}
    Renderer = "GLES"
    DrainTimeouts = FALSE
    Faults = FALSE
    MaxPools = 4
SPECIFICATION Spec
SYMMETRY MCSymmetry
INVARIANTS
    NoPaintBeforeCallback
    CountIsExact
    NoLeakedSlot
    ReleaseFreesItsOwnSlot
    AttachResumesUnlessDetached
CHECK_DEADLOCK FALSE
