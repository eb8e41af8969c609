SPECIFICATION Spec
CONSTANTS
    Motions <- AllMotions
    MaxEvents = 4
    ExecutorCapacity = 2
    PublishDuration = 3
    LookaheadDuration = 4
INVARIANT ModesAreKept
CHECK_DEADLOCK FALSE
