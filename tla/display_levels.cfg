SPECIFICATION FairSpec
CONSTANTS
    DAY = 4
    Levels = {0, 1, 2}
    Periods <- MCPeriods
    Offsets = {0, 1}
    MaxRequests = 3
INVARIANTS AsleepIsDark AwakeIsBright SleepIsArc
PROPERTIES PeriodIsFollowed
CHECK_DEADLOCK FALSE
