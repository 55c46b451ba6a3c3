SPECIFICATION FairSpec
CONSTANTS
    Event = {e1}
    Sink = {mail}
    ClipSink = {mail}
    Reserved = {mail}
    NoEvent = NoEvent
    MaxAttempts = 2
    Base = 1
    Cap = 1
    LinkGrace = 1
    BuildGrace = 2
    PollWait = 1
    BatchSize = 1
    MaxFaults = 0
    MaxCrashes = 1
    MaxEdits = 0
    AlertClips = FALSE
    MotionClips = TRUE
    Pressure = FALSE
CHECK_DEADLOCK FALSE
PROPERTIES
    EveryAlertSettles
