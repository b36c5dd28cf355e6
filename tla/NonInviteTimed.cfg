SPECIFICATION TimedSpec
CONSTANTS
    Codes = {100, 200}
    Reliable = FALSE
    Register = FALSE
    Reactions = {"none"}
    MaxDeliveries = 2
    T1 = 1
    T2 = 8
    T4 = 10
    Delay = 0
INVARIANTS
    AtMostOnceDelivery
    BoundedEffort
CHECK_DEADLOCK FALSE
