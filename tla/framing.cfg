SPECIFICATION FairSpec
CONSTANTS
    None = None
    BASE = 2
    LEN_PREFIX = 2
    RECV_MAX = 2
    Payloads <- Frames
    MaxFrames <- Few
    CommandLines <- Tampering
INVARIANTS TypeOK FramesIntact NothingPastCutoff
PROPERTIES FramesArrive LossIsNoticed
CHECK_DEADLOCK FALSE
