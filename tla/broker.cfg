CONSTANTS
    NPeers = 2
    MaxReqs = 2
    Once <- First
    REPLY_TRIES = 2
    LINK_IDS = 3
    RspCap = 1
    LineCap = 1
    MaxPush = 1
    RawPeers <- Last
    Impatient <- Last
    Slow <- Last
    Followers <- First
SPECIFICATION FairSpec
INVARIANTS ReplyIsOwn OneAnswer RunsBounded
PROPERTIES RawOwnership ServiceSpec EveryPeerAnswered
