SPECIFICATION FairSpec
CONSTANTS
    w1 = w1
    w2 = w2
    Host = {h1}
    Worker = {w1, w2}
    Request = {w1, w2}
    WorkerOf <- OneSlotEach
    Responses <- MCResponses
    KeySlots = 1
    FetchTimeout = 1
    MinTtl = 1
    MaxTtl = 1
    RetryTtl = 4
    MaxLag = 0
    MaxFetch = 2
    MaxTime = 3
    MaxVersion = 1
    MaxCrashes = 1
    CrashBy = 1
INVARIANTS
    NoLeakedClaim
    UnavailableMeansNoDocument
PROPERTIES
    ClaimEnds
    StrandedClaimRecovers
CHECK_DEADLOCK FALSE
