\* Two commands and two URCs of two pieces each, and room for five pieces.
CONSTANTS
    RX_SIZE = 5
    MaxCommands = 2
    MaxUrcs = 2
    Weathers <- AllWeathers
SPECIFICATION ATFairSpec
CHECK_DEADLOCK FALSE
INVARIANT LinesConsistent
INVARIANT AnswersAreOwn
PROPERTY ATProgress
