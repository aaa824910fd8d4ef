SPECIFICATION AccessSpec
CONSTANTS
    w1 = w1
    r1 = r1
    r2 = r2
    k1 = k1
    k2 = k2
    l1 = l1
    l2 = l2
    Worker = {w1}
    Request = {r1, r2}
    Sig = {"unsigned", "forged", "valid", "bare", "long", "named", "borrowed",
           "static"}
    Key = {k1, k2}
    Location = {l1, l2}
    Conf <- MCConf
    EarlyReads = FALSE
    MaxJwksKeys = 2
    Published <- MCPublished
    StaticKeys <- OneStatic
    WorkerOf <- OneWorker
    Msg <- MCMsg
    NonceLen <- MCNonceLen
    NonceOf <- MCNonceOf
    CreatedOf <- MCCreatedOf
    ExpiresOf <- MCExpiresOf
    MaxSkew <- NoSkew
    Fits <- OneNode
    Batch = 1
    MaxTime = 2
    MaxShown <- TwoOfOne
SYMMETRY RequestSymmetry
VIEW WithoutHistory
INVARIANTS
    AccessTypeOK
    OkMeansVerified
    ValidNotRejected
    ClosedMeansChecked
    SilentMeansChecked
    AdmittedOnce
PROPERTIES
    NonceSpentByVerified
    FetchOnlyProfiled
CHECK_DEADLOCK FALSE
