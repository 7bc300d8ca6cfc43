SPECIFICATION Spec
CONSTANTS
    Parts = {1, 2}
    Middle = {2}
    Areas = {{1}, {1, 2}}
    LongVersion = FALSE
    LastDay = 1
    MaxRequests = 2
    OnePanel = TRUE
INVARIANTS Inv DayIsShown
CHECK_DEADLOCK FALSE
