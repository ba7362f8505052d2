SPECIFICATION FairSpec
CONSTANTS
    None = None
    t1 = t1
    t2 = t2
    Outs = {o1}
    Sent <- One
    Rogue <- Nobody
    Ages <- Fresh
    FRESHNESS_WINDOW_S = 2
    CLOCK_SKEW_S = 1
    FSYNC_EVERY_CHUNKS = 64
    OneAtATime = TRUE
    CrashKinds = {"kill"}
    MaxCrashes = 1
PROPERTY EventuallyDelivered
