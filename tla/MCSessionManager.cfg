SPECIFICATION Spec
CONSTANTS
    Configured <- BothSessions
    MaxRequests = 5
    MaxTransfers = 3
    MaxDisasters = 3
INVARIANTS
    GuiLatchKeepsSessionsOff
    OnlyControlledSessionWorks
PROPERTIES
    StaleRequestsActOnNothing
    SessionsLiveAsPromised
