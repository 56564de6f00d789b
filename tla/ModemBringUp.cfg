\* Two domains, roaming, denials, a modem with the wrong profile or not, two faults.
CONSTANTS
    Domains = {"CGREG", "CEREG"}
    Statuses = {0, 3, 5}
    Variants = {FALSE}
    ATTEMPTS = 2
    MaxFaults = 2
    MaxChanges = 2
SPECIFICATION BringUpFairSpec
CHECK_DEADLOCK FALSE
INVARIANT Configured
INVARIANT RegistrationTrue
PROPERTY ComesUp
