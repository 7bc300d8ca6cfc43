SPECIFICATION TimeFairSpec
CONSTANTS
    WRAP = 5
    THRESHOLD = 2
    SLOW = 5
    Offset = 60
    StartErrs <- Starts
    MaxSlow = 1
    MaxResets = 2
    MaxStarts = 1
INVARIANTS OffsetIsDue
PROPERTIES OffsetSettles ClocksMeet EngineGetsTime
CHECK_DEADLOCK FALSE
