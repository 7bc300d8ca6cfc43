SPECIFICATION FairSpec
CONSTANTS
    Bytes = {0, 1, 2}
    SOF = 2
    HEADER = 2
    MAX_PAYLOAD = 1
    Crc <- SumOf
    MaxBytes = 7
INVARIANTS NothingSkipped EncodedIsTaken
PROPERTIES LineRecovers
CHECK_DEADLOCK FALSE
