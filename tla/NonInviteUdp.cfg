SPECIFICATION FairSpec
CONSTANTS
    Codes = {100, 200, 503}
    Reliable = FALSE
    Register = FALSE
    Reactions = {"none", "terminate", "close"}
    MaxDeliveries = 2
INVARIANTS
    TypeOK
    NoNullChannelUse
    OneOutcome
    ConsistentAnswer
PROPERTIES
    ClientEnds
CHECK_DEADLOCK FALSE
