SPECIFICATION Spec
CONSTANTS
    Persistent = FALSE
    AutoAttach = FALSE
    Scripts = TRUE
    KillMayFail = FALSE
    MaxPosted = 1
    MaxOut = 1
    MaxLines = 2
    MaxFrames = 2
    MaxFaults = 1
INVARIANT IdleWithoutThread
