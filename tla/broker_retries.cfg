SPECIFICATION FairSpec
CONSTANTS
    None = None
    Dead = Dead
    w = w
    r = r
    k1 = k1
    k2 = k2
    bad = bad
    b1 = b1
    b2 = b2
    h1 = h1
    h2 = h2
    h3 = h3
    Clients = {w}
    Writers = {w}
    Threads = {h1, h2}
    Keys = {k1, bad}
    Ops = {"PUT", "GET", "STAT"}
    Illegal = {bad}
    Namespace <- Places
    Prefixes = {}
    Payload <- OneBlob
    MAX_ATTEMPTS = 2
    FailAfterPuts = 0
    Timeouts = TRUE
    MaxCrashes = 0
INVARIANTS TornOnlyWhileWriting RepliesMatch
PROPERTY CallsEnd
