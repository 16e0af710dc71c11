SPECIFICATION Spec
CONSTANTS
    w1 = w1
    w2 = w2
    t1 = t1
    t2 = t2
    Workers = {w1, w2}
    Tasks = {t1, t2}
    NoWorker = NoWorker
    Pins <- AnyPin
    Stoppable = {w1, w2}
    Removable = {w1, w2}
    Reusable = {w1, w2}
    SpawnFirst = FALSE
    Caps <- OneOrTwo
    MaxResults = 2
    MaxSpawns = 3
    MaxReports = 1
    RunnerAtStart <- EitherWay
SYMMETRY Symmetry
CHECK_DEADLOCK FALSE
INVARIANTS SlotAccounting BusyMeansOneRun FreshSignal
PROPERTIES StopIsFinal NoOvertaking ImplementsLedger
