SPECIFICATION Spec
CONSTANTS
    Spans = 1
    Joints = {j1}
    LeaseTicks = 1
    FeedHoldConfigured = TRUE
    Programs <- OneProgram
    Homing = FALSE
    RequireHoming = FALSE
    Jogs = {}
    ForwardCapacity = 1
    PlanCapacity = 2
    ControlCapacity = 1
    Troubles = {"None"}
    MaxEpochs = 1
    MaxCommands = 1
    MaxDisasters = 0
    MaxPowers = 1
PROPERTY
    StopAbandonsAtRest
\* What the operator asks for runs out.
CHECK_DEADLOCK FALSE
