SPECIFICATION Spec
CONSTANTS
    c1 = c1
    c2 = c2
    c3 = c3
    Callers = {c1, c2, c3}
    MayDie = {c1}
    MayStall = {}
    StampFails = FALSE
    UnlinkDenied = FALSE
    NoFile = NoFile
    Orphan = Orphan
    Deleters = {}
    ReadErrors = "none"
    SaveFails = FALSE
CHECK_DEADLOCK FALSE
INVARIANTS NoLostUpdate
