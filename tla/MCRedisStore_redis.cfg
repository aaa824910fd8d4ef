SPECIFICATION RedisSpec
CONSTANTS
    w1 = w1
    w2 = w2
    a = a
    b = b
    k1 = k1
    l1 = l1
    Worker = {w1, w2}
    Sig = {a, b}
    Key = {k1}
    Location = {l1}
    NonceOf <- SharedNonce
    CreatedOf <- MCCreatedOf
    ExpiresOf <- MCExpiresOf
    MaxSkew <- MCSkew
    BackoffMax = 2
    MaxLate = 1
    MaxTime = 4
SYMMETRY WorkerSymmetry
INVARIANTS
    RedisTypeOK
    NoSelfReplay
PROPERTIES
    BackoffObserved
    ServerKeepsPromise
CHECK_DEADLOCK FALSE
