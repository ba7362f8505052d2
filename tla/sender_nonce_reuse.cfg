SPECIFICATION Spec
CONSTANTS
    None = None
    Torn = Torn
    Senders = {p1}
    Versions <- OfSameSize
    EditsWhileReading = FALSE
    MaxTransfers = 2
    MaxEdits = 1
    MaxKills = 0
INVARIANT NonceNeverRepeats
CHECK_DEADLOCK FALSE
