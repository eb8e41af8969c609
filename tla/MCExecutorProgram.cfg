SPECIFICATION Spec
CONSTANTS
    Spans = 2
    Joints = {j1, j2}
    LeaseTicks = 2
    FeedHoldConfigured = TRUE
    Troubles = {"None", "Generation", "Limit", "Join", "Retiming"}
    Operations = {"Program"}
    Kinds <- ProgramKinds
    JogKinds = {"Continuous", "Incremental", "Bounded"}
    DemandModes = {"Disabled", "Idle", "Run", "FeedHold", "Stop", "Jog"}
    MaxGeneration = 4
    MaxItems = 2
    MaxRequests = 3
INVARIANTS
    ItemsRunInOrder
    MarkersFireOnceInOrder
PROPERTIES
    StoppedEpochStaysStopped
    EmergencyStopAbandonsWork
\* Demands, items and requests run out, and faulted I/O stops the servo thread.
CHECK_DEADLOCK FALSE
