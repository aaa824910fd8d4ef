--------------------------- MODULE Configuration ----------------------------
(***************************************************************************)
(* How a configuration becomes the one requests are served with: the       *)
(* directives of http, server and location blocks are parsed, then         *)
(* merge_loc_conf() gives every server and location what it leaves unset   *)
(* and refuses what cannot work, and the handlers that are needed are      *)
(* registered.  The http block's own directives are only ever merged into  *)
(* its children, never checked as such.                                    *)
(***************************************************************************)
EXTENDS Integers, FiniteSets

CONSTANTS
    Block,          \* configuration blocks
    Http,           \* the outermost one
    Parent,         \* Parent[b]: the block around b
    Values,         \* Values[f]: what directive f may be set to
    AllowAt,        \* blocks with auth_httpsig_agent_allow
    RedisBuilt,     \* built with hiredis?
    MaxDirectives   \* MaxDirectives[b]: bound on the directives of block b

\* The directives of a block that merge_loc_conf() decides on.  jwks is a
\* static key file; allow (agent_allow) is a list of hosts or an explicit
\* "off"; request is the location of the directory fetch.
Defaults == [mode |-> "off", require |-> "off", jwks |-> "none",
             allow |-> "none", request |-> "none", min_ttl |-> 300,
             max_ttl |-> 3600, retry_ttl |-> 300, max_size |-> "fits",
             nonce_store |-> "off", nonce_required |-> "off",
             nonce_store_failure |-> "open"]

Directives == DOMAIN Defaults

\* The directives of http that declare a resource of the whole process.
Resource == {"key_cache_zone", "nonce_zone", "nonce_redis"}

\* What nonce_store may name.
NonceBackend == {"off", "shm", "redis"}

ASSUME ConfigurationAssumption ==
    /\ Http \in Block
    /\ Parent \in [Block \ {Http} -> Block]
    /\ DOMAIN Values \subseteq Directives
    /\ "nonce_store" \in DOMAIN Values =>
          Values["nonce_store"] \subseteq NonceBackend
    /\ AllowAt \subseteq Block
    /\ RedisBuilt \in BOOLEAN
    /\ MaxDirectives \in [Block -> Nat]

VARIABLES
    decl,         \* decl[b]: the directives block b declares
    resources,    \* the process-wide resources declared
    conf,         \* conf[b]: b's configuration; for http what it declares
    merged,       \* the blocks merge_loc_conf() has been through
    backend,      \* mcf->nonce_store_backend
    access_used,  \* mcf->access_used
    phase         \* "parsing", "merging", then "refused" or "started"

confVars == <<decl, resources, conf, merged, backend, access_used, phase>>

Nothing == [f \in {} |-> "unset"]

ConfInit ==
    /\ decl = [b \in Block |-> Nothing]
    /\ resources = {}
    /\ conf = [b \in Block |-> Nothing]
    /\ merged = {}
    /\ backend = "off"
    /\ access_used = FALSE
    /\ phase = "parsing"

-----------------------------------------------------------------------------
(* Parsing. *)

\* A block declares a directive (the setters refuse a duplicate).
Declare(b, f, v) ==
    /\ phase = "parsing"
    /\ Cardinality(DOMAIN decl[b]) < MaxDirectives[b]
    /\ f \notin DOMAIN decl[b]
    /\ f = "allow" => b \in AllowAt
    /\ decl' = [decl EXCEPT ![b] =
                  [g \in DOMAIN @ \cup {f} |-> IF g = f THEN v ELSE @[g]]]
    /\ UNCHANGED <<resources, conf, merged, backend, access_used, phase>>

DeclareResource(x) ==
    /\ phase = "parsing"
    /\ x \notin resources
    /\ resources' = resources \cup {x}
    /\ UNCHANGED <<decl, conf, merged, backend, access_used, phase>>

\* mcf->dynamic: some block lists hosts.
Dynamic == \E b \in Block : "allow" \in DOMAIN decl[b] /\ decl[b].allow = "list"

\* All blocks are read; http has no parent to be merged with.
ParseEnds ==
    /\ phase = "parsing"
    /\ phase' = "merging"
    /\ conf' = [conf EXCEPT ![Http] = decl[Http]]
    /\ UNCHANGED <<decl, resources, merged, backend, access_used>>

-----------------------------------------------------------------------------
(* merge_loc_conf() *)

Declares(b, f) == f \in DOMAIN decl[b]

\* What b declares, else what the block around it has, else the default.
Merged(b) ==
    [f \in Directives |->
        IF Declares(b, f) THEN decl[b][f]
        ELSE IF f \in DOMAIN conf[Parent[b]] THEN conf[Parent[b]][f]
        ELSE Defaults[f]]

\* directory.enabled
Enabled(c) == c.allow = "list" /\ c.request # "none"

TtlsUsable(c) ==
    /\ c.min_ttl # 0 /\ c.min_ttl <= c.max_ttl
    /\ c.retry_ttl # 0
    /\ c.max_size = "fits"

\* Faulty variant of AllowUsable: the zone is not looked for.
AllowUsableZoneless(b, c) ==
    Declares(b, "allow") /\ c.allow = "list" => c.request # "none"

\* A block with a list of hosts of its own needs somewhere to fetch and to
\* cache.
AllowUsable(b, c) ==
    Declares(b, "allow") /\ c.allow = "list" =>
        c.request # "none" /\ "key_cache_zone" \in resources

\* Faulty variant of ModeUsable: only a block that enforces needs keys.
ModeUsableEnforcing(c) ==
    /\ c.mode = "enforce" => c.jwks # "none" \/ Enabled(c)
    /\ c.require = "on" => c.mode # "off"

\* A block that verifies needs keys, a block that requires has to verify.
ModeUsable(c) ==
    /\ c.mode # "off" => c.jwks # "none" \/ Enabled(c)
    /\ c.require = "on" => c.mode # "off"

\* Faulty variant of NonceUsable: like the list of hosts, only a block's own
\* nonce_store is checked.
NonceUsableDeclared(b, c) ==
    Declares(b, "nonce_store") /\ c.nonce_store # "off" =>
        /\ c.mode # "off"
        /\ backend \in {"off", c.nonce_store}
        /\ c.nonce_store = "redis" => RedisBuilt /\ "nonce_redis" \in resources
        /\ c.nonce_store = "shm" => "nonce_zone" \in resources

\* What a block declares of nonces must make sense there; the store it ends up
\* with must exist and be the only one of the configuration.
NonceUsable(b, c) ==
    /\ Declares(b, "nonce_store") /\ c.nonce_store # "off" => c.mode # "off"
    /\ Declares(b, "nonce_required") /\ c.nonce_required = "on"
       => c.nonce_store # "off"
    /\ c.nonce_store # "off" =>
          /\ backend \in {"off", c.nonce_store}
          /\ c.nonce_store = "redis" => RedisBuilt /\ "nonce_redis" \in resources
          /\ c.nonce_store = "shm" => "nonce_zone" \in resources

Usable(b, c) ==
    TtlsUsable(c) /\ AllowUsable(b, c) /\ ModeUsable(c) /\ NonceUsable(b, c)

\* Faulty variant of Due: blocks are merged in any order.
DueAnyOrder(b) == phase = "merging" /\ b \in Block \ (merged \cup {Http})

\* A server or location is merged after the block around it.
Due(b) ==
    /\ phase = "merging"
    /\ b \in Block \ (merged \cup {Http})
    /\ Parent[b] \in merged \cup {Http}

\* Faulty variant of UsesAccess: "require" alone is forgotten.
UsesAccessEnforcing(c) == c.mode = "enforce"

UsesAccess(c) == c.mode = "enforce" \/ c.require = "on"

Merge(b) ==
    LET c == Merged(b) IN
    /\ Due(b)
    /\ Usable(b, c)
    /\ conf' = [conf EXCEPT ![b] = c]
    /\ merged' = merged \cup {b}
    /\ backend' = IF c.nonce_store = "off" THEN backend ELSE c.nonce_store
    /\ access_used' = (access_used \/ UsesAccess(c))
    /\ UNCHANGED <<decl, resources, phase>>

\* NGX_CONF_ERROR: nginx does not start.
Refuse(b) ==
    /\ Due(b)
    /\ ~Usable(b, Merged(b))
    /\ phase' = "refused"
    /\ UNCHANGED <<decl, resources, conf, merged, backend, access_used>>

\* Everything is merged; init() registers the handlers.
Start ==
    /\ phase = "merging"
    /\ merged = Block \ {Http}
    /\ phase' = "started"
    /\ UNCHANGED <<decl, resources, conf, merged, backend, access_used>>

\* init() registers directory_handler() and access_handler() for everyone, if
\* anyone needs them.
PreaccessRegistered == phase = "started" /\ Dynamic
AccessRegistered == phase = "started" /\ access_used

ConfNext ==
    \/ \E b \in Block : \E f \in DOMAIN Values : \E v \in Values[f] : Declare(b, f, v)
    \/ \E x \in Resource : DeclareResource(x)
    \/ ParseEnds
    \/ \E b \in Block : Merge(b) \/ Refuse(b)
    \/ Start

ConfSpec == ConfInit /\ [][ConfNext]_confVars

-----------------------------------------------------------------------------
(* Properties: what a request may rely on once nginx has started. *)

Serving == {b \in Block \ {Http} : phase = "started" /\ conf[b].mode # "off"}

\* The type invariant; blocks are merged from the outside in.
ConfTypeOK ==
    /\ \A b \in Block : DOMAIN decl[b] \subseteq Directives
    /\ resources \subseteq Resource
    /\ \A b \in merged : DOMAIN conf[b] = Directives
    /\ merged \subseteq Block \ {Http}
    /\ \A b \in merged : Parent[b] \in merged \cup {Http}
    /\ backend \in NonceBackend
    /\ access_used \in BOOLEAN
    /\ phase \in {"parsing", "merging", "refused", "started"}

\* directory_handler() and directory_done() use mcf->shm_zone->data wherever the
\* directory is enabled: there is a zone.
DirectoryHasZone ==
    \A b \in Serving : Enabled(conf[b]) => "key_cache_zone" \in resources

\* check_nonce() asks the backend the block selected, wherever it inherited it
\* from: it exists, and no other block of the configuration uses another, so
\* that a signature shown to two blocks meets one store.
OneNonceBackend ==
    \A b \in Serving : conf[b].nonce_store # "off" =>
        /\ conf[b].nonce_store = "shm" => "nonce_zone" \in resources
        /\ conf[b].nonce_store = "redis" => "nonce_redis" \in resources
        /\ \A c \in Serving :
              conf[c].nonce_store \in {"off", conf[b].nonce_store}

\* A block that verifies has keys to verify with: static ones, or a directory
\* whose handler is registered.
VerifierHasKeys ==
    \A b \in Serving :
        \/ conf[b].jwks # "none"
        \/ Enabled(conf[b]) /\ PreaccessRegistered

\* A block that enforces or requires signatures never lets a request by
\* because access_handler() was not registered or evaluate() had nothing to do.
DemandsAreEnforced ==
    phase = "started" =>
        \A b \in Block \ {Http} :
            conf[b].mode = "enforce" \/ conf[b].require = "on" =>
                AccessRegistered /\ conf[b].mode # "off"
=============================================================================
