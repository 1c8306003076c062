SPECIFICATION FairSpec
CONSTANT MaxStarts = 2
CHECK_DEADLOCK FALSE
PROPERTY DeadDaemonNoticed
