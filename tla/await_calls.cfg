SPECIFICATION FairAwaitSpec
CONSTANTS
    w1 = w1
    w2 = w2
    t1 = t1
    t2 = t2
    Workers = {w1, w2}
    Tasks = {t1, t2}
    NoWorker = NoWorker
    Pins = {NoWorker, w1}
    Stoppable = {w2}
    Removable = {w2}
    Reusable = {}
    SpawnFirst = TRUE
    Caps <- OneOrTwo
    MaxResults = 2
    MaxSpawns = 2
    MaxReports = 0
    RunnerAtStart <- Wired
    Waiters = {k1}
    Asks <- OneOrBoth
CHECK_DEADLOCK FALSE
INVARIANTS WorkConserving
PROPERTIES AnswersComplete EveryTaskSettles EveryAwaitEnds
