\* handleTx succeeds and ids are not reused: the promise to the application.
CONSTANTS
    NSTART = 2
    MAX_RETRANSMIT = 2
    ACK_TIMEOUT = 1
    Jitter = {0, 1}
    ID_MODULUS = 4
    NonInterval = {1}
    NonSpan = {1}
    Requests = {r1, r2}
    MaxSends = 3
    TxResults = {TRUE}
    NoParam = NoParam
SPECIFICATION FairSpec
INVARIANT ReceiptsSettled
PROPERTY KeepsPromise
PROPERTY EveryCommandSettles
