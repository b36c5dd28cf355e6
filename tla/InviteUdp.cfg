SPECIFICATION FairSpec
CONSTANTS
    Codes = {180, 200, 486}
    Reliable = FALSE
    Forking = FALSE
    Reactions = {"none"}
    MaxFailures = 1
    MaxDeliveries = 2
INVARIANTS
    TypeOK
    NeverStranded
    OneOutcome
    AgreedAnswer
PROPERTIES
    ServerReleased
CHECK_DEADLOCK FALSE
