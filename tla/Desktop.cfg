SPECIFICATION MCSpec
CONSTANTS
    Profiles = {"p1", "p2"}
    Startable = {"p1"}
    MaxPosted = 1
    MaxOut = 2
    MaxLines = 1
    MaxFaults = 1
    Providers = {v1, v2}
    MaxRefs = 1
    Names = {"a", "x"}
    SubDirs = {"a", "b"}
    ParentDir <- MCParentDir
    Walk <- MCWalk
    MaxFileEdits = 1
    MaxStarts = 2
    MaxCerts = 2
    MaxAsks = 2
    MaxChanges = 1
    MaxRetries = 1
    Lines = {"a"}
    Titles = {"t"}
    MaxText = 1
    Mute = 1
    MaxHistory = 2
    MaxTime = 1
    MaxShown = 3
    MaxName = 2
    Cases = {"upper", "lower"}
    Values = {"1", "2"}
    MaxEcho = 3
    Fields = {"", "h1", "bad"}
    Usable = {"h1"}
    WinLists <- MCWinLists
    MaxPageEdits = 6
    MaxTold = 1
    Jobs = {"j1", "j2"}
    Files = {"n"}
    MaxDiskEdits = 2
    MaxUnread = 3
    MaxDepth = 3
    MaxOpens = 2
CHECK_DEADLOCK FALSE
INVARIANT TypeOK
INVARIANT LogonAttended
INVARIANT ObjectsAreCounted
 
 
INVARIANT LaunchIsClean
INVARIANT AnswerIsChosen
INVARIANT NotTwice
INVARIANT ProxyUsable
INVARIANT ImportIsCareful
INVARIANT ReadsLines
PROPERTY CancelReturns
PROPERTY DialogCloses
PROPERTY DirectEndNoticed
PROPERTY ConnectEnvironment
