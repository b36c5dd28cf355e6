SPECIFICATION FairSpec
CONSTANTS
    Codes = {180, 200, 486}
    Reliable = TRUE
    Forking = TRUE
    Reactions = {"none", "terminate", "close"}
    MaxFailures = 2
    MaxDeliveries = 2
PROPERTIES
    NoFailureAfterSuccess
    ClientEnds
CHECK_DEADLOCK FALSE
