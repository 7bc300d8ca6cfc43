SPECIFICATION HomeFairSpec
CONSTANTS
    TOP = 2
    IDS = 2
    Wanted <- Sets
    Posted <- Posts
    MaxCmds = 2
    MaxRest = 1
    MaxLate = 1
    MaxDrops = 1
    MaxResets = 1
INVARIANTS HomeTypeOK
PROPERTIES ReadBackWasHeld PartnerWasHeld ReadBacksSettle
CHECK_DEADLOCK FALSE
