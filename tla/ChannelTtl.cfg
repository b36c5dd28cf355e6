SPECIFICATION Spec
CONSTANTS
    MaxPeers = 2
    MaxMessages = 3
    MaxExpiries = 2
    Oversized = {2}
INVARIANTS
    TypeOK
    NeverStuck
    InOrderOnce
CHECK_DEADLOCK FALSE
