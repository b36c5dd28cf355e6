SPECIFICATION FairSpec
CONSTANTS
    Peers = {A, B}
    HelloMax = 1
    OtherMax = 0
    MaxLoss = 1
    MaxCalls = 3
    MultCalls = {1}
    ResetCalls = {1}
INVARIANTS
    TypeOK
    SameKeys
    OneHalfIsHarmless
    VerifiedMeansContinuity
PROPERTIES
    HandshakeCompletes
CHECK_DEADLOCK FALSE
