CONSTANTS
    Timeout = 2
    Period = 1
    Gap = 5
    MaxTime = 14
    IwFails = TRUE
SPECIFICATION Spec
INVARIANTS TypeOK NoTriggerLost InstallPreventsDrop StaleTriggerHarmless RoundSettled
