SPECIFICATION FairSpec
CONSTANTS
    None = None
    t1 = t1
    t2 = t2
    Outs = {o1, o2}
    Sent <- Uneven
    Rogue <- Nobody
    Ages <- EdgeAges
    FRESHNESS_WINDOW_S = 2
    CLOCK_SKEW_S = 1
    FSYNC_EVERY_CHUNKS = 2
    OneAtATime = TRUE
    CrashKinds = {}
    MaxCrashes = 0
INVARIANTS LedgerRemembers ResumesExactly
PROPERTIES AtMostOnce EventuallyDelivered
