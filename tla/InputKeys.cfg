CONSTANTS
    windowKey = windowKey
    metaLeft = metaLeft
    KEY_LEFTMETA = KEY_LEFTMETA
    KEY_RESERVED = KEY_RESERVED
    Keycodes = {windowKey, metaLeft, unmapped}
    LinuxKeys = {KEY_LEFTMETA}
    AndroidToLinux <- MCAndroidToLinux
    Pointers = {}
    Buttons = {b1}
    Positions = {x1}
    Nowhere = Nowhere
    MAX_QUEUE_SIZE = 2
SPECIFICATION Spec
INVARIANTS
    TypeOK
    NoLostWakeup
    NoStuckInput
PROPERTY
    PendingInputDrained
CHECK_DEADLOCK FALSE
