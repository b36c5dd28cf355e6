SPECIFICATION Spec
CONSTANTS
    Codes = {200, 503}
    Reliable = FALSE
    Register = TRUE
    Reactions = {"none", "close"}
    MaxDeliveries = 1
CHECK_DEADLOCK FALSE
INVARIANT
    NoNullChannelUse
