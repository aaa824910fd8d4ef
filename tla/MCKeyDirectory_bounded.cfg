SPECIFICATION Spec
CONSTANTS
    w1 = w1
    w2 = w2
    Host = {h1}
    Worker = {w1, w2}
    Request = {w1, w2}
    WorkerOf <- OneSlotEach
    Responses <- MCResponses
    KeySlots = 1
    FetchTimeout = 3
    MinTtl = 2
    MaxTtl = 3
    RetryTtl = 3
    MaxLag = 1
    MaxFetch = 1
    MaxTime = 5
    MaxVersion = 2
    MaxCrashes = 0
    CrashBy = 0
SYMMETRY WorkerSymmetry
INVARIANTS
    TypeOK
    SingleFlight
PROPERTIES
    NoRollback
    ImplementsSource
CHECK_DEADLOCK FALSE
