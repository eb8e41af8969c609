SPECIFICATION FairSpec
CONSTANTS
    Spans = 1
    Joints = {j1, j2}
    LeaseTicks = 2
    FeedHoldConfigured = TRUE
    Troubles = {"None", "Generation", "Limit", "Join", "Retiming"}
    Operations = {"Program", "Homing", "Jogging"}
    Kinds <- OperationKinds
    JogKinds = {"Continuous", "Incremental", "Bounded"}
    DemandModes = {"Disabled", "Idle", "Run", "FeedHold", "Stop", "Jog"}
    MaxGeneration = 4
    MaxItems = 1
    MaxRequests = 3
INVARIANTS
    HeldMeansStationary
PROPERTIES
    DemandConverges
    LeaseEndsJog
\* Demands, items and requests run out, and faulted I/O stops the servo thread.
CHECK_DEADLOCK FALSE
