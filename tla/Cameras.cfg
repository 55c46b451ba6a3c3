SPECIFICATION FairSpec
CONSTANTS
    Camera = {c1}
    Config = {k1, k2}
    Substream = {k2}
    NoConfig = NoConfig
    Slot = {s1, s2}
    Clip = {m1, m2}
    NoClip = NoClip
    MaxEdits = 2
    MaxExits = 1
    MaxRefusals = 1
CHECK_DEADLOCK FALSE
INVARIANTS
    TypeOK
    SweepReachesAll
    ClipsOwned
PROPERTIES
    IngesterOutlives
    SessionKept
    Converges
