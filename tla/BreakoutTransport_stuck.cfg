\* A fatal alert other than close_notify.
CONSTANTS
    NSTART = 2
    RETRIES = 1
    Alerts <- FatalOther
    SocketResults = {TRUE}
    Registrations = {}
    PowerCycles = FALSE
    MaxDepth = 3
SPECIFICATION FairSpec
CHECK_DEADLOCK FALSE
PROPERTY Recovers
