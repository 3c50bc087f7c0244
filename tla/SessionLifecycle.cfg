SPECIFICATION Spec
CONSTANTS
    Callers = {c1, c2}
    Envs = {e1}
    Sids = {s1, s2}
    Pids = {p1, p2}
    MaxCalls = 3
    NoSession = NoSession
    NoProcess = NoProcess
    GuestReports = {"GRAPHICAL_SESSION_FAILED", "GUI_READY"}
SYMMETRY AnyCaller
INVARIANTS LiveIsTracked TransientIsOwned SupervisedWhileUp LauncherConnected
PROPERTIES EndedStaysEnded
CHECK_DEADLOCK FALSE
