CONSTANTS
    k1 = k1
    k2 = k2
    PTK <- OnePtk
    Default = Default
    NoKey = NoKey
    Short = Short
    Faults <- NoFaults
    TimerSides <- NoTimers
    MaxSess = 1
    QMax = 1
SPECIFICATION Spec
INVARIANT SyncedMeansSameKey
