CONSTANTS
    NPeers = 2
    MaxReqs = 1
    Once <- None
    REPLY_TRIES = 3
    LINK_IDS = 65536
    RspCap = 1
    LineCap = 2
    MaxPush = 0
    RawPeers <- None
    Impatient <- None
    Slow <- None
    Followers <- None
SPECIFICATION Spec
PROPERTIES BusyIsForRawMode
