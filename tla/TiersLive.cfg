SPECIFICATION FairSpec
CONSTANTS
    Clip = {c1}
    NoClip = NoClip
    Camera <- OneCamera
    Eligible = {c1}
    Defective = {}
    Announces = TRUE
    Batch = 1
    MaxColdAttempts = 2
    MaxInflight = 1
    MaxFaults = 0
    MaxCrashes = 1
CHECK_DEADLOCK FALSE
PROPERTIES
    QueueDrains
    OrphansReaped
