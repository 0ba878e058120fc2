SPECIFICATION KeysSpec
CONSTANTS
    Nil = Nil
    Miners = {m1}
    Phrases = {a, b}
    nKeyPool = 1
    MaxKeys = 5
    MaxMasters = 2
    MaxCrashes = 1
INVARIANTS
    KeyPoolSound
    EncryptionSound
PROPERTIES
    EncryptEnds
CHECK_DEADLOCK FALSE
