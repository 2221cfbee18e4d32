CONSTANTS
    MaxRound = 1
    MaxAssoc = 2
    MaxLoss = 2
    Retries = 2
SPECIFICATION FairSpec
INVARIANTS TypeOK NoReinstall WifiKeyIsLifiKey
PROPERTIES OnePtkPerANonce HandsKeysOver KeysMeet HandshakeEnds
CHECK_DEADLOCK FALSE
