SPECIFICATION IngressSpec
CONSTANTS
    PlanCapacity = 2
    ControlCapacity = 2
    Capacity = 2
    MaxItems = 2
    MaxControls = 3
    MaxPublications = 2
    Values <- IngressRecords
    NoValue = NoValue
INVARIANTS
    NoDataRace
    CreditsMatchWork
    DemandsFindTheirItems
PROPERTIES
    ImplementsFifo
    ImplementsLatestValue
CHECK_DEADLOCK FALSE
