SPECIFICATION Spec
CONSTANTS
    Persistent = FALSE
    AutoAttach = FALSE
    Scripts = FALSE
    KillMayFail = FALSE
    MaxPosted = 2
    MaxOut = 2
    MaxLines = 3
    MaxFrames = 2
    MaxFaults = 1
INVARIANT TypeOK
INVARIANT IdleWithoutThread
INVARIANT StopHasDeadline
INVARIANT ConnectedIsTrue
