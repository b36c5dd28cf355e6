SPECIFICATION FairSpec
CONSTANTS
    MaxPeers = 3
    MaxMessages = 3
    MaxExpiries = 0
    Oversized = {2}
INVARIANTS
    NoSilentLoss
PROPERTIES
    ImplementsView
    Settles
CHECK_DEADLOCK FALSE
