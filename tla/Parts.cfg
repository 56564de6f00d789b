\* Nine components, one at a time.
CONSTANTS
    Headers <- SomeHeaders
    Options <- SomeOptions
    Payloads <- SomePayloads
    Rooms = {30, 1024}
    Damages = {0, 209, 255}
    MaxOptions = 2
    MaxDamage = 1
    Span = 14

    WINDOW = 7
    INT_BITS = 4
    MAX_SEQ = 10

    Sockets = {0, 1}
    Plans = {"listenConnectUDP", "acceptTCP"}
    Skies <- SomeSkies
    MaxOpens = 3
    MaxUnits = 2
    LateOnce = TRUE

    HISTORY = 2
    CMD_LEN = 3
    Letters = {"a", "q"}
    Executors <- SomeExecutors
    MaxEntered = 3
    Entries <- SomeEntries

    TextLines <- SomeLines
    LineEnds <- SomeLineEnds
    Answers <- SomeAnswers
    TextSources <- SomeTexts
    ExitWord <- SomeWord
    Keyboard = {"e", "x", "t", "z"}
    MaxTyped = 6

    Stream <- SomeStream
    PORT_SIZE = 4
    GNSS_BUFFER = 12
    MaxWaits = 1
    MaxLost = 1

    WORD = 1
    PRIME = 167
    ORDER = 151
    CURVE_B = 7
    G <- SomeBase
    Scalars = {0, 1, 150, 250}
    Junk = {0, 1}

    DIGEST = 3
    HMAC_BLOCK = 5
    BLOCK = 5
    NONCE = 3
    EXPLICIT = 2
    TAG = 2
    Lengths = {0, 1, 5, 6, 11}
    Changes = {2, 128}
    MaxRecords = 2

    COOKIE = 2
    Offers <- SomeOffers
    Handlers <- SomeHandlers
    Addresses <- SomeAddresses
SPECIFICATION PartsSpec
CHECK_DEADLOCK FALSE
INVARIANT PartsTypeOK
INVARIANT PacketsRight
INVARIANT ReplayRefused
INVARIANT FreshPasses
INVARIANT SocketsConsistent
INVARIANT NoDataForgotten
INVARIANT ConsoleConsistent
INVARIANT AnswersRight
INVARIANT PositionsRight
INVARIANT SignaturesRight
INVARIANT RecordsRight
INVARIANT HellosRight
