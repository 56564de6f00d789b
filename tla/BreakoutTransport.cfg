\* Everything may happen.
CONSTANTS
    NSTART = 2
    RETRIES = 1
    Alerts <- AllAlerts
    SocketResults = {TRUE, FALSE}
    Registrations = {"not_registered", "registered", "denied"}
    PowerCycles = TRUE
    MaxDepth = 3
SPECIFICATION FairSpec
CHECK_DEADLOCK FALSE
INVARIANT TransportConsistent
INVARIANT ToldLatest
PROPERTY RecoversUnlessAlerted
