SPECIFICATION Spec
CONSTANTS
    Persistent = TRUE
    AutoAttach = TRUE
    Scripts = FALSE
    KillMayFail = FALSE
    MaxPosted = 2
    MaxOut = 2
    MaxLines = 3
    MaxFrames = 1
    MaxFaults = 0
PROPERTY HoldRetained
