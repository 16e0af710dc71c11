SPECIFICATION Spec
CONSTANTS
    Nodes = {n1, n2, n3}
    MaxDeps = 2
    Skippable = {n1, n2, n3}
    Removable = {n1, n2, n3}
    Failable = {n1, n2, n3}
    LateDeps = TRUE
    Repeats = FALSE
    AnyReport = TRUE
CHECK_DEADLOCK FALSE
SYMMETRY Alike
INVARIANTS DagTypeOK Acyclic
PROPERTIES NoRestart NotStranded
