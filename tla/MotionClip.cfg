SPECIFICATION FairSpec
CONSTANTS
    Grace = 2
    Cap = 3
    FirstDelay = 1
    MaxDelay = 4
    RecordOnAlert = TRUE
    MaxFailures = 3
    MaxPanics = 2
INVARIANTS
    TypeOK
    DemandKept
PROPERTIES
    ClosesAfterGrace
    SessionKept
    EventuallyOpens
