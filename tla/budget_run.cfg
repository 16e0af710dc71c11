SPECIFICATION FairSpec
CONSTANTS
    NumRuns = 2
    Counted <- MCToolCalls
    FirstLimit = 1
    Ceiling = 4
    MaxExtensions = 1
    MaxUse = 3
    Brain = TRUE
INVARIANTS SignalAnswered AbortIsLate FailureIsRefusal
PROPERTIES EveryRunEnds
