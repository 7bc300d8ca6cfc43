SPECIFICATION Spec
CONSTANTS
    Channels = {"tty0", "tty1"}
    RING = 3
    CHUNK = 2
    READ_MAX = 2
    DRAIN = 1
    CHANNEL_BUF = 2
    MaxBytes = 3
    MaxAsks = 2
    REPLY_TRIES = 2
    LINE = 1
INVARIANTS PushIsOfChannel
CHECK_DEADLOCK FALSE
