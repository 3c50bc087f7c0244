CONSTANTS
    windowKey = windowKey
    metaLeft = metaLeft
    KEY_LEFTMETA = KEY_LEFTMETA
    KEY_RESERVED = KEY_RESERVED
    Keycodes = {}
    LinuxKeys = {KEY_LEFTMETA}
    AndroidToLinux <- MCAndroidToLinux
    Pointers = {f1, f2}
    Buttons = {}
    Positions = {x1, x2}
    Nowhere = Nowhere
    MAX_QUEUE_SIZE = 2
SPECIFICATION Spec
SYMMETRY MCSymmetry
INVARIANTS
    NoStuckInput
    LatestMotionKept
CHECK_DEADLOCK FALSE
