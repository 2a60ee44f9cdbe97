SPECIFICATION Spec
CONSTANTS
    kept = kept
    evicted = evicted
    v1 = v1
    Object <- MCObject
    Deletable <- MCDeletable
    Value <- MCValue
    Thread = {t1, t2, t3}
    Absent = Absent
    Nothing = Nothing
    Failed = Failed
SYMMETRY Symmetry
INVARIANTS
    TypeOK
    NoMissedNotification
PROPERTY
    BlockingMapSafety
