SPECIFICATION AccessSpec
CONSTANTS
    w1 = w1
    r1 = r1
    r2 = r2
    k1 = k1
    k2 = k2
    l1 = l1
    l2 = l2
    Worker = {w1}
    Request = {r1, r2}
    Sig = {"valid"}
    Key = {k1, k2}
    Location = {l1, l2}
    Conf <- OpenConf
    EarlyReads = TRUE
    MaxJwksKeys = 2
    Published <- MCPublished
    StaticKeys <- NoStatic
    WorkerOf <- OneWorker
    Msg <- MCMsg
    NonceLen <- MCNonceLen
    NonceOf <- MCNonceOf
    CreatedOf <- MCCreatedOf
    ExpiresOf <- MCExpiresOf
    MaxSkew <- NoSkew
    Fits <- OneNode
    Batch = 1
    MaxTime = 2
    MaxShown <- OneOfEach
SYMMETRY RequestSymmetry
INVARIANT ValidNotRejected
CHECK_DEADLOCK FALSE
