SPECIFICATION FairSpec
CONSTANTS
    None = None
    Versions <- OrEmpty
    CHUNK_SIZE = 2
    SilentLoss = TRUE
    CrashKinds = {"kill", "power"}
    MaxEdits = 1
    MaxCrashes = 1
    MaxCuts = 2
INVARIANTS TypeOK HashCoversPart FailClosed
PROPERTIES ImplementsDelivery EventuallyPromoted ReceiverRunEnds
CHECK_DEADLOCK FALSE
