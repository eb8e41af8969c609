SPECIFICATION FairSpec
CONSTANTS
    Spans = 1
    Joints = {j1}
    LeaseTicks = 1
    FeedHoldConfigured = TRUE
    Programs <- AllPrograms
    Homing = TRUE
    RequireHoming = FALSE
    Jogs = {"Continuous"}
    ForwardCapacity = 1
    PlanCapacity = 2
    ControlCapacity = 1
    Troubles = {"None"}
    MaxEpochs = 1
    MaxCommands = 1
    MaxDisasters = 1
    MaxPowers = 1
INVARIANT
    ServicedMotionEndsAtRest
PROPERTIES
    BarriersAnsweredAtRest
    CompletedMeansExecuted
    LivesAsPromised
    CleanupEnds
    OperationsEnd
\* A session that is off, or paused, waits for an operator whose requests are bounded.
CHECK_DEADLOCK FALSE
