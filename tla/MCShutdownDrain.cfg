SPECIFICATION Spec
CONSTANTS
    User = {u1}
    Worker = {w1}
    MaxTasks = 1
    Fails = {}
    MaxArgs = 1
    MaxEvicts = 0
    Waits = {}
    Timeouts = FALSE
    MayShutdown = TRUE
    Collector = Collector
    Nothing = Nothing
INVARIANT CollectorDrains
CHECK_DEADLOCK FALSE
