CONSTANTS
    Sessions = {s1, s2}
    Deleters = {s1}
    Downloaders = {s2}
    Dirs = {"top", "a", "b"}
    Files = {"f"}
    Top = "top"
    Parent <- MCParent
    Above <- MCAbove
    Roots = {"top", "b"}
    Permits = 1
    MaxEpoch = 3
    MaxChanges = 1
SPECIFICATION LiveSpec
CHECK_DEADLOCK FALSE
INVARIANTS
    TypeOK
PROPERTIES
    TransferKept
    ChangedFilesSurvive
    OwnRemovalsNeverStop
    ClosureReleases
