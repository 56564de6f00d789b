\* Everything may be lost.
CONSTANTS
    MINIMUM = 2
    REINIT = 4
    BACKOFF = 1
    DEFAULT = 3
    WIDTH = 32
    WAIT = 3
    LIFE = 2
    Intervals = {0, 1, 2, 4}
    Losses <- Everything
    MaxTime = 9
SPECIFICATION PollingSpec
CHECK_DEADLOCK FALSE
INVARIANT TimerRight
INVARIANT NotTooFar
