SPECIFICATION Spec
CONSTANTS
    w1 = w1
    w2 = w2
    Host = {h1, h2, h3}
    Worker = {w1}
    Request = {r1}
    WorkerOf <- OneWorker
    Responses <- MCResponses
    KeySlots = 2
    FetchTimeout = 3
    MinTtl = 2
    MaxTtl = 2
    RetryTtl = 2
    MaxLag = 0
    MaxFetch = 1
    MaxTime = 3
    MaxVersion = 2
    MaxCrashes = 0
    CrashBy = 0
SYMMETRY HostSymmetry
CONSTRAINTS
    FewStores
    OneRotates
INVARIANTS
    SlotsRanked
    KeysMatchDocument
PROPERTIES
    RescueSpacing
    FetchSpacing
CHECK_DEADLOCK FALSE
