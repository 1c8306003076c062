SPECIFICATION Spec
CHECK_DEADLOCK FALSE
CONSTANTS
    Conn = {"office", "home", "service"}
    Persistent = {"service"}
    HasPre = {"office"}
    AutoRestart = TRUE
    MaxCommands = 3
    MaxFrames = 3
    MaxSessions = 1
INVARIANTS TypeOK OneThreadEach IconShown
PROPERTIES RestartsWhatRan Leaves
