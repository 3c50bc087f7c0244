SPECIFICATION Spec
INVARIANTS TypeOK NoLostCompletion IdleIsQuiet
PROPERTIES FrameCompletes BridgeCallsReturn
