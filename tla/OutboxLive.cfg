SPECIFICATION FairSpec
CONSTANTS
    Event = {e1}
    Sink = {mail, cloud}
    ClipSink = {mail}
    Reserved = {mail, cloud}
    NoEvent = NoEvent
    MaxAttempts = 2
    Base = 1
    Cap = 1
    LinkGrace = 1
    BuildGrace = 1
    PollWait = 1
    BatchSize = 2
    MaxFaults = 0
    MaxCrashes = 0
    MaxEdits = 0
    AlertClips = TRUE
    MotionClips = TRUE
    Pressure = FALSE
CHECK_DEADLOCK FALSE
INVARIANTS
    SnapshotOutlivesPending
PROPERTIES
    EveryAlertSettles
