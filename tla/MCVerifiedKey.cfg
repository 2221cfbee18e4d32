CONSTANTS
    MaxRound = 1
    MaxOutage = 2
    Retries = 2
    PushMax = 2
    Faults <- NoFaults
SPECIFICATION Spec
INVARIANT VerifiedKeyOnly
CHECK_DEADLOCK FALSE
