CONSTANTS
    Producers = {p1, p2}
    Clients = {c1}
    NumInstances = 1
    Destinations = {d1}
    MainDestination = d1
    Contents = {A}
    Hours = {0}
    MaxEvents = 3
    MaxBytes = 5
    MaxEventBytes = 2
    Worker = worker
    TracingLayer = FALSE
    Faults = TRUE
    MaxCalls = 4
    MaxBarriers = 1
CHECK_DEADLOCK FALSE
SPECIFICATION Spec
SYMMETRY Symmetry
INVARIANTS
    TypeOK
    PermitsAccounted
    NoLineSpansRefusal
    NothingLost
    ConfirmedIsDurable
    FlushCoversAdmitted
PROPERTIES
    FailStop
    KeepsContract
