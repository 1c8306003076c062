SPECIFICATION Spec
CHECK_DEADLOCK FALSE
CONSTANTS
    Options <- AllOptions
    Asks = {"Auth", "Key", "CrText"}
    Seconds = {"none", "concat"}
    Malformed = TRUE
    MaxAsked = 2
    MaxLines = 3
    MaxOther = 2
INVARIANTS TypeOK RequestShown SavedIsBare NothingSavedIfDisabled
PROPERTIES AutoNotAfterRefusal StaysWanted
