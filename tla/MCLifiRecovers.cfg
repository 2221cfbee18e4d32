CONSTANTS
    MaxRound = 1
    MaxOutage = 1
    Retries = 2
    PushMax = 1
    Faults <- NoFaults
SPECIFICATION FairSpec
PROPERTY LifiRecovers
CHECK_DEADLOCK FALSE
