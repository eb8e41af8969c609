SPECIFICATION Spec
CONSTANTS
    RemoteSources = {Gui}
    LocalSources = {PhysicalExternalEnable}
    MaxResets = 2
    MaxUpdates = 2
INVARIANTS
    StatusIsNotTorn
    HeldSourceStaysLatched
    ResetsAreAnswered
\* The updates run out.
CHECK_DEADLOCK FALSE
