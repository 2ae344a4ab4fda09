CONSTANTS
    Mutators = {m1, m2}
    Kickers = {k1}
    Scanners = {s1, s2}
    MaxVersion = 2
SPECIFICATION LiveSpec
CHECK_DEADLOCK FALSE
INVARIANTS
    TypeOK
    OneScan
PROPERTIES
    SnapshotAdvances
    MutationShown
