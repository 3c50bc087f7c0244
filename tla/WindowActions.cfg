SPECIFICATION Spec
CONSTANTS
    Handles = {h1, h2, h3}
    NoHandle = NoHandle
    UiActions = {"minimize", "maximize"}
    MaxId = 3
    MaxRequests = 2
    MaxStops = 1
CHECK_DEADLOCK FALSE
INVARIANTS ActiveIsTop TablesAreLive ScreenMatchesModel NoLostWake
SYMMETRY Symmetry
