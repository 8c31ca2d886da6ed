\* Connect, senders, Cancel, Close and the read loop against the sidecar.
SPECIFICATION LoopSpec
CONSTANTS
    Sender = {s1}
    QueueCap = 1
    QuarantineFor = 1
    MaxDials = 2
    MaxMessages = 3
    MaxGen = 1
    MaxNow = 1
INVARIANTS
    BargeInCuts
PROPERTIES
    QuarantineHolds
    OneReadLoop
    CloseStopsLoop
CHECK_DEADLOCK FALSE
