SPECIFICATION Spec
CONSTANTS
    None = None
    t1 = t1
    t2 = t2
    Outs = {o1, o2}
    Sent <- Two
    Rogue <- Nobody
    Ages <- Fresh
    FRESHNESS_WINDOW_S = 2
    CLOCK_SKEW_S = 1
    FSYNC_EVERY_CHUNKS = 64
    OneAtATime = FALSE
    CrashKinds = {}
    MaxCrashes = 0
INVARIANT LedgerRemembers
