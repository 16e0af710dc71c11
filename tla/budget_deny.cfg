SPECIFICATION Spec
CONSTANTS
    NumRuns = 1
    Counted <- MCCounted
    FirstLimit = 1
    Ceiling = 5
    MaxExtensions = 1
    MaxUse = 5
    Brain = FALSE
INVARIANTS
    DeniedStops
