SPECIFICATION FilesSpec
CONSTANTS
    Paths = {1, 2}
    Targets = {1, 2}
    t1 = t1
    t2 = t2
    Transfers <- MCTransfers
    PARTS = 3
    REPLY_ROOM = 1
    BODY_ROOM = 1
    REPLY_TRIES = 2
    MaxAsks = 4
    MaxRestarts = 0
    Mixes = {{}}
INVARIANT RepeatChangesNothing
SYMMETRY MCSymmetry
CHECK_DEADLOCK FALSE
