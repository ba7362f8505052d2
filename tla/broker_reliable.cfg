SPECIFICATION Spec
CONSTANTS
    None = None
    Dead = Dead
    w = w
    r = r
    k1 = k1
    k2 = k2
    bad = bad
    b1 = b1
    b2 = b2
    h1 = h1
    h2 = h2
    h3 = h3
    Clients = {w, r}
    Writers = {w}
    Threads = {h1, h2}
    Keys = {k1, k2}
    Ops = {"PUT", "GET", "LIST"}
    Illegal = {}
    Namespace <- Places
    Prefixes <- AllOrOne
    Payload <- TwoBlobs
    MAX_ATTEMPTS = 2
    FailAfterPuts = 2
    Timeouts = FALSE
    MaxCrashes = 1
VIEW Numberless
INVARIANTS TypeOK GetSeesWholeBlobs AckedIsStored
PROPERTY ImplementsStore
