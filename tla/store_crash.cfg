SPECIFICATION FairSpec
CONSTANTS
    c1 = c1
    c2 = c2
    c3 = c3
    Callers = {c1, c2}
    MayDie = {c1, c2}
    MayStall = {}
    StampFails = TRUE
    UnlinkDenied = FALSE
    NoFile = NoFile
    Orphan = Orphan
    Deleters = {}
    ReadErrors = "thrown"
    SaveFails = TRUE
CHECK_DEADLOCK FALSE
INVARIANTS MutualExclusion NoLostUpdate
PROPERTIES ImplementsAtomicStore EveryCallEnds
