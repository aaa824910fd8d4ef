SPECIFICATION Spec
CONSTANTS
    w1 = w1
    w2 = w2
    Host = {h1, h2}
    Worker = {w1}
    Request = {r1}
    WorkerOf <- OneWorker
    Responses <- MCResponses
    KeySlots = 1
    FetchTimeout = 3
    MinTtl = 1
    MaxTtl = 1
    RetryTtl = 3
    MaxLag = 0
    MaxFetch = 1
    MaxTime = 5
    MaxVersion = 1
    MaxCrashes = 0
    CrashBy = 0
PROPERTY RescueSpacing
CHECK_DEADLOCK FALSE
