CONSTANTS
    MaxRound = 1
    MaxAssoc = 1
    MaxLoss = 1
    Retries = 1
    Nonces = 2
    MaxSess = 2
    QMax = 1
    WifiStays = TRUE
    PTK <- Ptks
    Default = Default
    Short = Short
    Faults <- NoFaults
    TimerSides <- NoTimers
SPECIFICATION SystemSpec
INVARIANT KeyInUse
PROPERTY CarriesKeys
CHECK_DEADLOCK FALSE
