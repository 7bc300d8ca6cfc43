SPECIFICATION FilesSpec
CONSTANTS
    Paths = {1, 2, 3}
    Targets = {1, 2}
    t1 = t1
    t2 = t2
    Transfers <- MCTransfers
    PARTS = 2
    REPLY_ROOM = 2
    BODY_ROOM = 1
    REPLY_TRIES = 2
    MaxAsks = 4
    MaxRestarts = 0
    Mixes = {{"list", "old"}}
INVARIANT ListIsWhole
SYMMETRY MCSymmetry
CHECK_DEADLOCK FALSE
