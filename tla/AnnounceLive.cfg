SPECIFICATION FairSpec
CONSTANTS
    Clip = {m1, m2}
    AlertClip = {}
    Core = {A}
    NoCore = NoCore
    NoClip = NoClip
    Stuck = {m1}
    Batch = 1
    Base = 1
    Cap = 1
    MaxShift = 0
    MaxLate = 2
    MaxEnroll = 1
    MaxDetach = 0
    MaxCrashes = 0
    MaxFaults = 0
PROPERTIES
    NeverStarved
