SPECIFICATION Spec
CONSTANTS
    None = None
    t1 = t1
    t2 = t2
    Outs = {o1}
    Sent <- Two
    Rogue <- Impostor
    Ages <- EdgeAges
    FRESHNESS_WINDOW_S = 2
    CLOCK_SKEW_S = 1
    FSYNC_EVERY_CHUNKS = 2
    OneAtATime = FALSE
    CrashKinds = {"kill", "power"}
    MaxCrashes = 2
INVARIANTS TypeOK FailClosed PartIsGenuine
PROPERTY DeliversWhatWasAsked
