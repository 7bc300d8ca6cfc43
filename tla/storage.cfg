SPECIFICATION FilesSpec
CONSTANTS
    Paths = {1, 2, 3}
    Targets = {1, 2}
    t1 = t1
    t2 = t2
    Transfers <- MCTransfers
    PARTS = 3
    REPLY_ROOM = 2
    BODY_ROOM = 1
    REPLY_TRIES = 2
    MaxAsks = 4
    MaxRestarts = 1
    Mixes = {{"read"}, {"list", "old"}, {"change"}}
INVARIANTS Inv ReadIsFile ListIsDirectory
SYMMETRY MCSymmetry
CHECK_DEADLOCK FALSE
