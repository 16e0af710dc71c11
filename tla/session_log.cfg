SPECIFICATION FairSpec
CONSTANTS
    FlushSize = 2
    MaxEvents = 3
    MaxBatch = 2
    Prompts = {1}
    DiskErrors = TRUE
    LongLog = FALSE
    MaxUpsets = 2
CHECK_DEADLOCK FALSE
INVARIANTS LogOrder FlushDurable CloseComplete
PROPERTIES NoSilentLoss RewindCuts AllSettles
