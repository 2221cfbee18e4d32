CONSTANTS
    k1 = k1
    k2 = k2
    PTK <- TwoPtks
    Default = Default
    NoKey = NoKey
    Short = Short
    Faults <- IwFaults
    TimerSides <- NoTimers
    MaxSess = 2
    QMax = 1
SYMMETRY PtkSymmetry
SPECIFICATION Spec
INVARIANTS ApNeverAhead SessionAgreement OneMessageInFlight SyncAgreement EachPtkOnce LatestInstalled
PROPERTY ImplementsTwoPhase
