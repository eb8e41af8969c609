SPECIFICATION FairSpec
CONSTANTS
    Items = {1, 2}
    RingCapacity = 1
    QueueCapacity = 1
    SnapshotCapacity = 1
    MaxDemand = 3
    MaxStarts = 1
    MaxDisasters = 2
INVARIANTS
    BridgeLosesNoItem
    OrderlyExitCutsNoMotion
PROPERTIES
    FrontLossStopsTheMachine
\* Connections, demands and items run out, and a process that is gone stays gone.
CHECK_DEADLOCK FALSE
