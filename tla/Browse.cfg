CONSTANTS
    Top = Top
    Directory = Directory
    Active = Active
    Final = Final
    Inner = Inner
    NodeLimit = 4
    RequestLimit = 2
    MaxChanges = 2
    MaxPresses = 2
    MaxCuts = 1
    MaxEvents = 4
SPECIFICATION Spec
CHECK_DEADLOCK FALSE
INVARIANTS
    TypeOK
    IndexMatchesNodes
    TreeCatchesUp
