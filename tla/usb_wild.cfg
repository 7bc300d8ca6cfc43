SPECIFICATION Spec
CONSTANTS
    CallersRepeat = FALSE
    Resubscribes = TRUE
    LongBodies = TRUE
    Hasty = TRUE
    MayRestart = TRUE
    MaxOps = 2
    MaxAsks = 3
    REPLY_TRIES = 2
    SEQ_MOD = 2
    Channels = {"tty0", "tty1"}
INVARIANTS AttemptsTakeOnce
CHECK_DEADLOCK FALSE
