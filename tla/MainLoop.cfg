SPECIFICATION FairSpec
CONSTANTS
    Timers = {t1}
    Fds = {f1}
    Tasks = {k1, k2}
    Timeouts = {1}
    MaxTime = 2
    MaxCalls = 1
INVARIANTS
    TypeOK
    SourcesSound
    PollTableFits
    NoLostWakeup
PROPERTIES
    TasksServed
CHECK_DEADLOCK FALSE
