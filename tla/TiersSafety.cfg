SPECIFICATION Spec
CONSTANTS
    Clip = {c1}
    NoClip = NoClip
    Camera <- OneCamera
    Eligible = {c1}
    Defective = {c1}
    Announces = FALSE
    Batch = 1
    MaxColdAttempts = 2
    MaxInflight = 1
    MaxFaults = 1
    MaxCrashes = 1
CHECK_DEADLOCK FALSE
INVARIANTS
    TypeOK
    FootageSurvives
    RecorderKeepsRow
    RowsMatchFiles
PROPERTIES
    KeepsFootage
