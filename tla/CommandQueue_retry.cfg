\* Memory runs out once.
CONSTANTS
    c1 = c1  c2 = c2  c3 = c3  c4 = c4
    Commands = {c1, c2}
    Size <- SizesOfTwo
    BufferSizes = {2}
    MAX_PENDING_COMMANDS = 2
    Memory = {TRUE, FALSE}
    HandlerMayChange = FALSE
SPECIFICATION QueueFairSpec
CHECK_DEADLOCK FALSE
PROPERTY EveryCommandAcked
