SPECIFICATION MCSpec
CONSTANTS
    n1 = n1
    c1 = c1
    Node = {n1}
    Client = {c1}
    MaxTasks = 2
    Fails = {2}
    MaxLeaves = 2
    Nothing = Nothing
    Base = 2
    HeaderSize = 2
    MaxMessage = 2
    Message <- MCMessage
    MaxSends = 4
    Asking = Asking
    Ended = Ended
    Raised = Raised
INVARIANTS
    RegisteredAreListed
    MetricsAddUp
    OneMoreRequest
PROPERTIES
    EveryRequestEnds
    ShutdownStops
    ImplementsChannel
CHECK_DEADLOCK FALSE
