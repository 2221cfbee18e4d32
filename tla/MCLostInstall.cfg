CONSTANTS
    k1 = k1
    k2 = k2
    PTK <- TwoPtks
    Default = Default
    NoKey = NoKey
    Short = Short
    Faults <- SenderFaults
    TimerSides <- NoTimers
    MaxSess = 2
    QMax = 1
SYMMETRY PtkSymmetry
SPECIFICATION Spec
INVARIANT SyncedInstalled
