\* Callbacks that use the SDK again: the list and its slots.
CONSTANTS
    Nodes = {n1, n2, n3}
    Null = Null
    NSTART = 2
    Life = {1, 2}
    MaxTime = 3
    MaxDepth = 5
    Reenters = {"Timeout", "ACK"}
SYMMETRY SymNodes
SPECIFICATION Spec
CHECK_DEADLOCK FALSE
INVARIANT SafeUnlessReentered
INVARIANT ListConsistent
