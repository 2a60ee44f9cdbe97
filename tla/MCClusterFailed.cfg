SPECIFICATION Spec
CONSTANTS
    c1 = c1
    n1 = n1
    Client <- MCClient
    User = {u1}
    Node <- MCNode
    Local = Local
    HasLocal = FALSE
    Slots = 1
    MaxTasks = 2
    Fails = {1}
    MaxArgs = 1
    MaxStops = 0
    Nothing = Nothing
PROPERTY
    CallsReturn
