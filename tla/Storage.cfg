CONSTANTS
    Runs = {r1}
    Destinations = {d1, d2}
    Companions = {c1}
    Users = {u1}
    MaxWriters = 1
    LastHour = 1
    MaxSegments = 3
    MaxLines = 3
    NoGate = free
SPECIFICATION LiveSpec
CHECK_DEADLOCK FALSE
INVARIANTS
    TypeOK
    OnlyUsersFailRuns
    PublishedComplete
PROPERTIES
    FinalisedStable
    EndedHoursPublished
