SPECIFICATION Spec
CONSTANTS
    c1 = c1
    n1 = n1
    Client <- MCClient
    User = {u1}
    Node <- MCNode
    Local = Local
    HasLocal = TRUE
    Slots = 1
    MaxTasks = 3
    Fails = {2}
    MaxArgs = 2
    MaxStops = 1
    Nothing = Nothing
INVARIANTS
    TypeOK
    OneCopy
    ReadyArgsInStore
    NoMissedTrigger
    CallersGetTheirReply
PROPERTY
    FuturesSafety
\* A client waits for ever for a task a stopped node has lost.
CHECK_DEADLOCK FALSE
