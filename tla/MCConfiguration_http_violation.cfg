SPECIFICATION ConfSpec
CONSTANTS
    Block = {"http", "server"}
    Http = "http"
    Parent <- MCParent
    Values <- DirectoryValues
    AllowAt = {"http", "server"}
    RedisBuilt = TRUE
    MaxDirectives <- ThreeEach
INVARIANT DirectoryHasZone
CHECK_DEADLOCK FALSE
