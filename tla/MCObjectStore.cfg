SPECIFICATION Spec
CONSTANTS
    Kept = Kept
    Dropped = Dropped
    v1 = v1
    v2 = v2
    KeyError = KeyError
    Absent = Absent
    Nothing = Nothing
    Object <- MCObject
    Deletable <- MCDeletable
    Value <- MCValue
    Thread = {a, b, c}
INVARIANTS
    TypeOK
    NoLostWakeup
    AvailableWhenWoken
PROPERTIES
    BlockingMapSafety
    BlockingMapLive
