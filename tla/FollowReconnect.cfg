CONSTANTS
    MaxLen = 1
    MaxVersions = 2
    Connections = 2
    MaxPresses = 1
    Chunk = 1
    Snapshot = 1
    Anchor = 1
    MaxBytes = 1
    Renames = TRUE
    Overlap = FALSE
SPECIFICATION FairSpec
CHECK_DEADLOCK FALSE
PROPERTIES
    EventuallyShown
