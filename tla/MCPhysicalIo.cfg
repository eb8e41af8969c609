SPECIFICATION Spec
CONSTANTS
    CommandCapacity = 2
    ConvergenceCycles = 2
    SequenceModulus = 2
    Travel = 1
    QuickHost = FALSE
INVARIANTS
    SafeStoppedMeansStopped
    InputsAreCurrent
    FollowingErrorMeansSlip
PROPERTIES
    SpindleStopIsAnswered
    DisabledStopsTheAxes
\* The servo loop is shut down, and its runtime is not started again.
CHECK_DEADLOCK FALSE
