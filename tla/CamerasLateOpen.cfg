SPECIFICATION Spec
CONSTANTS
    Camera = {c1}
    Config = {k1, k2}
    Substream = {k2}
    NoConfig = NoConfig
    Slot = {s1, s2}
    Clip = {m1, m2}
    NoClip = NoClip
    MaxEdits = 0
    MaxExits = 0
    MaxRefusals = 0
CHECK_DEADLOCK FALSE
INVARIANT
    NoLateOpen
