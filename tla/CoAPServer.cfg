\* De-duplication, with ids that come back and more ids than slots.
CONSTANTS
    NSYNC = 2
    RemoteId = {m1, m2, m3}
    MAX_TRANSMIT_SPAN = 1
    MAX_LATENCY = 1
    PROCESSING_DELAY = 0
    MS = 1
    NonWindow = 3
    ReusesIds = TRUE
SYMMETRY SymIds
SPECIFICATION Spec
INVARIANT HandledOnceUnlessEvicted
INVARIANT ServerConsistent
