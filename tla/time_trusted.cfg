SPECIFICATION TimeSpec
CONSTANTS
    WRAP = 5
    THRESHOLD = 2
    SLOW = 5
    Offset = 60
    StartErrs <- Starts
    MaxSlow = 0
    MaxResets = 0
    MaxStarts = 0

PROPERTIES TrustedIsKept
CHECK_DEADLOCK FALSE
