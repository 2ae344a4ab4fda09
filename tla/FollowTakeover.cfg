CONSTANTS
    MaxLen = 1
    MaxVersions = 1
    Connections = 2
    MaxPresses = 1
    Chunk = 1
    Snapshot = 1
    Anchor = 1
    MaxBytes = 1
    Renames = TRUE
    Overlap = TRUE
SPECIFICATION Spec
CHECK_DEADLOCK FALSE
INVARIANTS
    LiveIsObserved
