SPECIFICATION Spec
CONSTANTS
    Motions <- AllMotions
    MaxEvents = 4
    ExecutorCapacity = 2
    PublishDuration = 3
    LookaheadDuration = 4
INVARIANTS
    PathIsWhole
    CommandsActivateWithTheirMotion
    StreamIsWellFormed
    NothingIsStranded
PROPERTIES
    BarriersAreAnsweredAtTheirPlace
\* The program runs out, or the driver reports an error.
CHECK_DEADLOCK FALSE
