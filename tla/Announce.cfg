SPECIFICATION Spec
CONSTANTS
    Clip = {m1}
    AlertClip = {m1}
    Core = {A, B}
    NoCore = NoCore
    NoClip = NoClip
    Stuck = {}
    Batch = 1
    Base = 1
    Cap = 1
    MaxShift = 1
    MaxLate = 0
    MaxEnroll = 2
    MaxDetach = 1
    MaxCrashes = 1
    MaxFaults = 1
INVARIANTS
    TypeOK
    ColdIsAnnounceable
    ListedPlays
