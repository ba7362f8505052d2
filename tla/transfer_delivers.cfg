SPECIFICATION TransferFairSpec
CONSTANTS
    None = None
    Torn = Torn
    Senders = {p1}
    Versions <- Rewritten
    EditsWhileReading = TRUE
    MaxTransfers = 2
    MaxEdits = 1
    MaxKills = 0
    Original <- A
    Outs = {o1}
    FRESHNESS_WINDOW_S = 0
    CLOCK_SKEW_S = 0
    FSYNC_EVERY_CHUNKS = 64
    CrashKinds = {"kill", "power"}
    MaxCrashes = 1
    MaxFaults = 1
PROPERTIES ImplementsDelivery EventuallyReceived
CHECK_DEADLOCK FALSE
