SPECIFICATION Spec
CONSTANTS
    Caller <- MCCaller
    MaxCalls = 4
    Raises <- MCRaises
    Unresolved = Unresolved
    Nothing = Nothing
    Error = Error
INVARIANTS
    OneChain
PROPERTIES
    ActorIsSequential
    CallsAnswered
\* All calls are made and answered.
CHECK_DEADLOCK FALSE
