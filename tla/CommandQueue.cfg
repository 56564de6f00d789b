\* Four Commands and two slots; memory may run out, the handler may change.
CONSTANTS
    c1 = c1  c2 = c2  c3 = c3  c4 = c4
    Commands = {c1, c2, c3, c4}
    Size <- Sizes
    BufferSizes = {1, 2}
    MAX_PENDING_COMMANDS = 2
    Memory = {TRUE, FALSE}
    HandlerMayChange = TRUE
SPECIFICATION QueueFairSpec
CHECK_DEADLOCK FALSE
INVARIANT QueueConsistent
INVARIANT DeliveredInOrderOnce
PROPERTY CommandsGetThrough
