\* Limits and deadlines of the code: 60 and 60 s of the cloud layers in 90 s.
SPECIFICATION ChainSpec
CONSTANTS
    Timeout <- MCTimeout
    Deadline <- MCDeadline
    MaxClock = 9
INVARIANTS
    NeverSilent
CHECK_DEADLOCK FALSE
