SPECIFICATION Spec
CHECK_DEADLOCK FALSE
CONSTANTS
    Conn = {"office", "home", "service"}
    Persistent = {"service"}
    HasPre = {"office"}
    AutoRestart = TRUE
    MaxCommands = 2
    MaxFrames = 3
    MaxSessions = 0
INVARIANTS LeavesNothing
