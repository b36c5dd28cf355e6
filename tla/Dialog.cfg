SPECIFICATION FairSpec
CONSTANTS
    Codes = {180, 200, 481, 486}
    MaxRequests = 3
    MaxByes = 1
INVARIANTS
    TypeOK
    NoLostWakeup
    InSubmissionOrder
PROPERTIES
    ByeEnds
    QueueDrains
CHECK_DEADLOCK FALSE
