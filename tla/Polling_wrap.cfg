\* The clock wraps.
CONSTANTS
    MINIMUM = 2
    REINIT = 4
    BACKOFF = 1
    DEFAULT = 3
    WIDTH = 8
    WAIT = 3
    LIFE = 2
    Intervals = {}
    Losses = {}
    MaxTime = 8
SPECIFICATION PollingFairSpec
CHECK_DEADLOCK FALSE
PROPERTY KeepsPolling
