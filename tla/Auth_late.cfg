SPECIFICATION Spec
CHECK_DEADLOCK FALSE
CONSTANTS
    Options <- LoudOnly
    Asks = {"Auth"}
    Seconds = {"none"}
    Malformed = FALSE
    MaxAsked = 2
    MaxLines = 3
    MaxOther = 2
INVARIANT EndedDialogsAreSilent
