SPECIFICATION MCSpec
CONSTANTS
    Ref = {r1, r2}
    Width = 2
    Depth = 2
    Call <- MCCall
    Task = {t1, t2, t3}
    Object = {x, y}
    Deps <- MCDeps
    RustTask = {t1, t2}
    Caller = {c1, c2}
    Nothing = Nothing
INVARIANTS
    OnePlace
    PendingIffMissing
    IndexComplete
    RustOnePlace
    RustReleasedOnTime
    ResolvesWhatItExtracts
PROPERTIES
    CompleteTasksAreHanded
