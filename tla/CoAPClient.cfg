\* Safety of the client table, with handleTx allowed to fail.
CONSTANTS
    NSTART = 2
    MAX_RETRANSMIT = 1
    ACK_TIMEOUT = 1
    Jitter = {0, 1}
    ID_MODULUS = 3
    NonInterval = {1}
    NonSpan = {0, 1}
    Requests = {r1, r2, r3}
    MaxSends = 4
    TxResults = {TRUE, FALSE}
    NoParam = NoParam
SYMMETRY SymRequests
SPECIFICATION Spec
INVARIANT SpaceAccounting
INVARIANT UniqueIds
INVARIANT AtMostOneReceipt
