SPECIFICATION FairSpec
CONSTANTS
    Command = {state_on, log_on_all, state}
    Combined = {log_on_all}
    Size = 2
    PartialSends = TRUE
    CombinedErrors = FALSE
    MaxIssued = 4
INVARIANTS ReplyToHead NeverStuck
PROPERTIES IsChannel Delivered
