SPECIFICATION FairSpec
CONSTANTS
    MaxPct = 5
    LowPct = 2
    PanicPct = 1
    Hysteresis = 2
    MaxSteps = 3
    ReprobeEvery = 2
    BusCapacity = 2
PROPERTIES
    LevelTracksDisk
    CloudLearnsRecovery
INVARIANTS
    TypeOK
    FlagFollowsLevel
    CloudConverged
