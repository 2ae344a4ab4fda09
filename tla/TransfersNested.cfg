CONSTANTS
    Sessions = {s1, s2}
    Deleters = {s1}
    Downloaders = {s2}
    Dirs = {"top", "a", "b", "c"}
    Files = {"f"}
    Top = "top"
    Parent <- MCParent
    Above <- MCAbove
    Roots = {"top", "b"}
    Permits = 1
    MaxEpoch = 2
    MaxChanges = 0
SPECIFICATION Spec
CHECK_DEADLOCK FALSE
PROPERTIES
    SubtreeKept
