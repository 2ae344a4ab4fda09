CONSTANTS
    Producers = {p1}
    Clients = {c1}
    NumInstances = 2
    Destinations = {d1, d2}
    MainDestination = d1
    Contents = {A}
    Hours = {0, 1}
    MaxEvents = 2
    MaxBytes = 4
    MaxEventBytes = 2
    Worker = worker
    TracingLayer = TRUE
    Faults = FALSE
    MaxCalls = 3
    MaxBarriers = 0
CHECK_DEADLOCK FALSE
SPECIFICATION Spec
INVARIANTS
    FilesInOrder
    OverloadsAccounted
