CONSTANTS
    MaxLen = 3
    MaxVersions = 2
    Connections = 1
    MaxPresses = 2
    Chunk = 1
    Snapshot = 1
    Anchor = 1
    MaxBytes = 2
    Renames = FALSE
    Overlap = FALSE
SPECIFICATION Spec
CHECK_DEADLOCK FALSE
INVARIANTS
    TypeOK
    WindowNeverMerges
    OneUnacknowledged
    NewerIsTold
