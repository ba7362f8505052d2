SPECIFICATION Spec
CONSTANTS
    None = None
    Torn = Torn
    Senders = {p1, p2}
    Versions <- OfOtherSize
    EditsWhileReading = FALSE
    MaxTransfers = 2
    MaxEdits = 1
    MaxKills = 1
INVARIANTS TypeOK NonceNeverRepeats PublishedIsDeliverable PublishedKeyIsWiped
CHECK_DEADLOCK FALSE
