SPECIFICATION Spec
CONSTANTS
    Event = {e1}
    Sink = {mail}
    ClipSink = {mail}
    Reserved = {}
    NoEvent = NoEvent
    MaxAttempts = 2
    Base = 1
    Cap = 1
    LinkGrace = 1
    BuildGrace = 2
    PollWait = 1
    BatchSize = 1
    MaxFaults = 1
    MaxCrashes = 1
    MaxEdits = 1
    AlertClips = TRUE
    MotionClips = TRUE
    Pressure = TRUE
CHECK_DEADLOCK FALSE
INVARIANTS
    TypeOK
    AttemptBudget
    OutcomesTrue
    BareOnlyAfterGrace
PROPERTIES
    Contract
