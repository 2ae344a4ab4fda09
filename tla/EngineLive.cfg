CONSTANTS
    Producers = {p1}
    Clients = {c1}
    NumInstances = 1
    Destinations = {d1}
    MainDestination = d1
    Contents = {A}
    Hours = {0, 1}
    MaxEvents = 1
    MaxBytes = 2
    MaxEventBytes = 2
    Worker = worker
    TracingLayer = TRUE
    Faults = TRUE
    MaxCalls = 2
    MaxBarriers = 1
CHECK_DEADLOCK FALSE
SPECIFICATION LiveSpec
PROPERTIES
    CallsReturn
    AcceptedConfirmed
    OverloadReported
