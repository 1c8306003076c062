SPECIFICATION Spec
CONSTANTS
    Persistent = TRUE
    AutoAttach = TRUE
    Scripts = FALSE
    KillMayFail = FALSE
    MaxPosted = 2
    MaxOut = 2
    MaxLines = 2
    MaxFrames = 2
    MaxFaults = 1
INVARIANT OneThread
INVARIANT HoldIsShown
INVARIANT AlwaysStoppable
