CONSTANTS
    k1 = k1
    k2 = k2
    PTK <- OnePtk
    Default = Default
    NoKey = NoKey
    Short = Short
    Faults <- NoIw
    TimerSides <- ApTimer
    MaxSess = 1
    QMax = 1
SPECIFICATION FairSpec
INVARIANTS TypeOK ApNeverAhead SyncAgreement
PROPERTIES SyncEnds StaServesAgain AcceptedOrDropped DaemonsResume
