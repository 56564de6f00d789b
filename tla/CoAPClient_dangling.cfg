CONSTANTS
    NSTART = 2
    MAX_RETRANSMIT = 1
    ACK_TIMEOUT = 1
    Jitter = {0, 1}
    ID_MODULUS = 5
    NonInterval = {1}
    NonSpan = {0, 1}
    Requests = {r1, r2}
    MaxSends = 4
    TxResults = {TRUE, FALSE}
    NoParam = NoParam
SPECIFICATION Spec
INVARIANT NoDanglingReceipt
