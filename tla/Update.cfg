SPECIFICATION FairSpec
CONSTANTS
    Version = {v1, v2, v3}
    Factory = v1
    Dark = {v3}
    NoVersion = NoVersion
    Slot = {s1, s2}
    MaxAssignments = 2
    MaxRollbacks = 1
    MaxCrashes = 3
    MaxMishaps = 1
    MaxOutages = 1
CHECK_DEADLOCK FALSE
INVARIANTS
    TypeOK
    SafetyNet
    UnprovenIsJudged
    SettledMatches
    BlessedIsGood
PROPERTIES
    GoDarkRecovers
