\* Three pairs of suites, eight kinds of weather with up to two faults each.
CONSTANTS
    MAX_RETRANSMIT = 2
    Suites <- AllSuites
    Weathers <- AllWeathers
    MaxFaults = 2
    MaxWrites = 2
    MaxConnects = 2
SPECIFICATION LinkFairSpec
CHECK_DEADLOCK FALSE
INVARIANT PeersConsistent
INVARIANT KeysConsistent
INVARIANT DataOnce
PROPERTY Completes
