SPECIFICATION Spec
CONSTANTS
    CallersRepeat = TRUE
    Resubscribes = FALSE
    LongBodies = FALSE
    Hasty = FALSE
    MayRestart = FALSE
    MaxOps = 3
    MaxAsks = 4
    REPLY_TRIES = 2
    SEQ_MOD = 2
    Channels = {"tty0", "tty1"}
INVARIANTS AckedWriteReached
PROPERTIES DeviceSpec
CHECK_DEADLOCK FALSE
