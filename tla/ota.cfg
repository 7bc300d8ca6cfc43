SPECIFICATION FairSpec
CONSTANTS
    LEN = 5
    CHUNK = 4
    WORD = 2
    SYNC_TRIES = 2
    ASK_TRIES = 1
    MaxRuns = 3
    MaxResets = 2
    MayStop = TRUE
INVARIANTS Inv SuccessIsWhole
PROPERTIES ImageStays RunEnds LineComesBack
CHECK_DEADLOCK FALSE
