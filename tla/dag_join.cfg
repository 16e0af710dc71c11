SPECIFICATION FairSpec
CONSTANTS
    Nodes = {n1, n2, n3, n4}
    MaxDeps = 3
    Skippable = {}
    Removable = {}
    Failable = {n1, n2}
    LateDeps = TRUE
    Repeats = TRUE
    AnyReport = FALSE
CHECK_DEADLOCK FALSE
INVARIANTS ReadyIsEarned
PROPERTIES DoneAnnounced 
