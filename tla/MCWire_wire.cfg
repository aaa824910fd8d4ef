SPECIFICATION WireSpec
CONSTANTS
    MaxLength = 48
    MaxItems = 2
    MaxParams = 2
    IntegerDigits = 2
    DecimalDigits = 1
    FractionDigits = 2
    MaxBase = 100
    Chunk <- MCChunk
    MaxChunks <- MCMaxChunks
    ParamName = {"y", "%79", "2", "%26"}
    AllowList = {"a", "A:8443", "[a]:443"}
    SigLabel = {"a", "b"}
    RawRequest <- MCRawRequest
INVARIANTS
    CanonicalForm
    LinesMerge
    QueryParamExact
    AllowListExact
    AgentVouched
    BaseBinds
CHECK_DEADLOCK FALSE
