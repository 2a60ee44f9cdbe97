SPECIFICATION MCSpec
CONSTANTS
    User = {u1, u2}
    Worker = {w1}
    MaxTasks = 3
    Fails = {2}
    MaxArgs = 1
    MaxEvicts = 1
    Waits <- MCWaits
    Timeouts = FALSE
    MayShutdown = TRUE
    Collector = Collector
    Nothing = Nothing
INVARIANTS
    ReadyArgsInStore
    WaitCountsOnce
PROPERTIES
    FuturesLive
    CallsReturn
\* The runtime stops when it is shut down, and a call may wait for ever for an
\* object that was evicted.
CHECK_DEADLOCK FALSE
