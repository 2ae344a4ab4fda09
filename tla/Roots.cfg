CONSTANTS
    v1 = v1
    v2 = v2
    Viewers <- Tabs
    Limit = 1
    MaxPresses <- Presses
    MaxLosses = 1
    MaxSessions = 3
SPECIFICATION LiveSpec
CHECK_DEADLOCK FALSE
INVARIANTS
    TypeOK
    RootAgrees
    ClosureReleases
PROPERTIES
    StoppedFreesSession
    ReconnectsAgain
