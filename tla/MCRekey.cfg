CONSTANTS
    MaxRound = 2
    MaxOutage = 2
    Retries = 2
    PushMax = 2
    Faults <- ApFileFaults
SPECIFICATION FairSpec
INVARIANTS TypeOK AckMeansSet UndisturbedRekeyVerifies
PROPERTIES NoRoundUncovered RoundCovered RekeySucceeds
CHECK_DEADLOCK FALSE
