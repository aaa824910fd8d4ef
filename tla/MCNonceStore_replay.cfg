SPECIFICATION NonceSpec
CONSTANTS
    w1 = w1
    w2 = w2
    a = a
    b = b
    c = c
    b2 = b2
    l1 = l1
    l2 = l2
    Worker = {w1, w2}
    Sig = {a, b, b2, c}
    Key = {a, b, c}
    Location = {l1, l2}
    NonceOf <- MCNonceOf
    CreatedOf <- MCCreatedOf
    ExpiresOf <- MCExpiresOf
    MaxSkew <- SameSkew
    Fits <- TwoNodes
    Batch = 2
    MaxTime = 7
INVARIANTS
    NonceTypeOK
    NoReplay
    AbortOnlyWhenLive
PROPERTIES
    LiveRecordKept
    ZoneKeepsPromise
CHECK_DEADLOCK FALSE
