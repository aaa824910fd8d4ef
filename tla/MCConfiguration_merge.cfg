SPECIFICATION ConfSpec
CONSTANTS
    Block = {"http", "server", "location"}
    Http = "http"
    Parent <- MCParent
    Values <- MCValues
    AllowAt = {"server", "location"}
    RedisBuilt = TRUE
    MaxDirectives <- Few
INVARIANTS
    ConfTypeOK
    DirectoryHasZone
    OneNonceBackend
    VerifierHasKeys
    DemandsAreEnforced
CHECK_DEADLOCK FALSE
