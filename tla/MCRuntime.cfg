SPECIFICATION Spec
CONSTANTS
    User = {u1, u2}
    Worker = {w1}
    MaxTasks = 3
    Fails = {3}
    MaxArgs = 1
    MaxEvicts = 1
    Waits <- MCWaits
    Timeouts = TRUE
    MayShutdown = TRUE
    Collector = Collector
    Nothing = Nothing
CONSTRAINT Focus
SYMMETRY Symmetry
INVARIANTS
    TypeOK
    NoMissedTrigger
    StatusFollowsValue
PROPERTY
    FuturesSafety
\* An eviction may block or end the collector, and the runtime stops.
CHECK_DEADLOCK FALSE
