------------------------------ MODULE KeyCache ------------------------------
(***************************************************************************)
(* The shared-memory key-directory cache (ngx_auth_httpsig_cache.c): one   *)
(* node per key-directory host in a slab zone shared by every worker.      *)
(* Each operator below is one critical section, entered and left with      *)
(* shpool->mutex held, so it is one atomic step of the zone.               *)
(*                                                                         *)
(* A JWKS document is abstracted to the version of it the origin had       *)
(* published when it was read; 0 stands for jwks.len == 0.  The zone-wide  *)
(* generation is a machine word that is never reused in practice and is    *)
(* kept as a natural number.  The red-black tree is the set of hosts that  *)
(* have a node.                                                            *)
(***************************************************************************)
EXTENDS Integers, FiniteSets

CONSTANTS
    Host,          \* key-directory authorities (host[:port])
    FetchTimeout,  \* NGX_AUTH_HTTPSIG_CACHE_FETCH_TIMEOUT
    MinTtl,        \* auth_httpsig_key_cache_min_ttl
    MaxTtl,        \* auth_httpsig_key_cache_max_ttl
    RetryTtl       \* auth_httpsig_key_rotation_retry_ttl

\* merge_loc_conf() rejects a zero min_ttl, max_ttl < min_ttl and a zero
\* rotation_retry_ttl.
ASSUME TtlAssumption ==
    /\ FetchTimeout \in Nat \ {0}
    /\ MinTtl \in Nat \ {0}
    /\ MaxTtl \in Nat
    /\ MinTtl <= MaxTtl
    /\ RetryTtl \in Nat \ {0}

VARIABLES
    tree,       \* hosts that have a node
    node,       \* node[h], meaningful for h \in tree
    generation  \* sh->generation: successful stores so far

zoneVars == <<tree, node, generation>>

Node == [jwks : Nat, expires_at : Nat, fetching : BOOLEAN,
         fetching_since : Nat, forced_refetch_at : Nat, generation : Nat]

\* ngx_memzero() of a fresh node.
ZeroNode == [jwks |-> 0, expires_at |-> 0, fetching |-> FALSE,
             fetching_since |-> 0, forced_refetch_at |-> 0, generation |-> 0]

ZoneTypeOK ==
    /\ tree \subseteq Host
    /\ node \in [Host -> Node]
    /\ generation \in Nat

\* A fresh zone; a reload re-attaches the existing one and changes nothing.
ZoneInit ==
    /\ tree = {}
    /\ node = [h \in Host |-> ZeroNode]
    /\ generation = 0

-----------------------------------------------------------------------------
(* Node allocation. *)

\* find_victim(): an expired node nobody is fetching.  Which one the tree
\* walk meets first depends on the hashes of the hosts.
Victims(t) == {v \in tree : ~node[v].fetching /\ node[v].expires_at <= t}

\* alloc_node(): slab allocation, and when it fails one eviction and one
\* retry.  The slab allocator is free to fail as soon as the zone holds
\* anything (documents of up to max_size share it with the nodes).
AllocOutcomes(t) ==
    {[evicted |-> {}, ok |-> TRUE]}
      \cup {[evicted |-> {v}, ok |-> b] : v \in Victims(t), b \in BOOLEAN}
      \cup (IF tree # {} /\ Victims(t) = {}
            THEN {[evicted |-> {}, ok |-> FALSE]} ELSE {})

TreeAfter(a, h) == (tree \ a.evicted) \cup (IF a.ok THEN {h} ELSE {})

\* The nodes after an allocation for h with outcome a, h's own being n.
NodesAfter(a, h, n) ==
    [x \in Host |-> IF x = h /\ a.ok THEN n
                    ELSE IF x \in a.evicted THEN ZeroNode ELSE node[x]]

-----------------------------------------------------------------------------
(* lookup() *)

Fresh(h, t) == h \in tree /\ node[h].expires_at > t

\* Faulty variant of Busy: the fetch right never times out.
BusyForever(h, t) == h \in tree /\ node[h].fetching

\* The right to fetch h is held and its holder is not presumed dead.
Busy(h, t) ==
    /\ h \in tree
    /\ node[h].fetching
    /\ t - node[h].fetching_since < FetchTimeout

LookupStatus(h, t) ==
    IF Fresh(h, t)
    THEN IF node[h].jwks # 0 THEN "HIT" ELSE "NEGATIVE"
    ELSE IF Busy(h, t) THEN "BUSY"
    ELSE IF h \in tree THEN "CLAIMED" ELSE "ABSENT"

\* What a claim does to the node it is made on.  fetching_since is read only
\* while fetching is set, so the model drops it when the flag is cleared.
ClaimedNode(n, t) == [n EXCEPT !.fetching = TRUE, !.fetching_since = t]

\* The claiming tail of lookup(), on an existing node.
LookupClaim(h, t) ==
    /\ node' = [node EXCEPT ![h] = ClaimedNode(@, t)]
    /\ UNCHANGED <<tree, generation>>

\* The claiming tail of lookup() when h has no node: outcome a of alloc_node().
LookupAlloc(h, t, a) ==
    /\ tree' = TreeAfter(a, h)
    /\ node' = NodesAfter(a, h, ClaimedNode(ZeroNode, t))
    /\ UNCHANGED generation

-----------------------------------------------------------------------------
(* claim_rotation_refetch() *)

\* Faulty variants of MayRotate: the fetch in flight, or the retry limit, is
\* not looked at.
MayRotateInFlight(h, t) ==
    /\ h \in tree
    /\ \/ node[h].forced_refetch_at = 0
       \/ t - node[h].forced_refetch_at >= RetryTtl

MayRotateUnlimited(h, t) == h \in tree /\ ~node[h].fetching

MayRotate(h, t) ==
    /\ h \in tree
    /\ ~node[h].fetching
    /\ \/ node[h].forced_refetch_at = 0
       \/ t - node[h].forced_refetch_at >= RetryTtl

\* Faulty variant of RotationClaim: the stamp is backdated by the retry ttl.
RotationClaimBackdated(h, t) ==
    /\ node' = [node EXCEPT ![h] = [ClaimedNode(@, t) EXCEPT
                                       !.forced_refetch_at = t - RetryTtl]]
    /\ UNCHANGED <<tree, generation>>

RotationClaim(h, t) ==
    /\ node' = [node EXCEPT ![h] = [ClaimedNode(@, t) EXCEPT
                                       !.forced_refetch_at = t]]
    /\ UNCHANGED <<tree, generation>>

-----------------------------------------------------------------------------
(* store() and release() *)

\* Faulty variant of NextGeneration: the node counts its own stores.
NextGenerationPerNode(h) == IF h \in tree THEN node[h].generation + 1 ELSE 1

\* sh->generation is zone-wide: a node's own counter would restart at 0 when
\* the node is evicted and allocated again.
NextGeneration(h) == generation + 1

\* The node store() writes to: the one found, or the one just allocated.
TargetNode(h) == IF h \in tree THEN node[h] ELSE ZeroNode

\* The slab allocation of the document succeeded.
StoreNode(h, doc, expiry) ==
    [TargetNode(h) EXCEPT !.jwks = doc, !.expires_at = expiry,
                          !.fetching = FALSE, !.fetching_since = 0,
                          !.generation = NextGeneration(h)]

\* Faulty variant of StoreNoRoomNode: no back-off.
StoreNoRoomNodeEager(h, t) ==
    [TargetNode(h) EXCEPT !.fetching = FALSE, !.fetching_since = 0]

\* It failed: back off like a failed fetch, keep whatever document is there.
StoreNoRoomNode(h, t) ==
    [TargetNode(h) EXCEPT !.fetching = FALSE, !.fetching_since = 0,
                          !.expires_at = t + MinTtl]

\* store() with its two allocations: the node (outcome a, needed only when h
\* has none) and the document (ok).
Store(h, doc, expiry, t, a, ok) ==
    /\ tree' = TreeAfter(a, h)
    /\ node' = NodesAfter(a, h, IF ok THEN StoreNode(h, doc, expiry)
                                      ELSE StoreNoRoomNode(h, t))
    /\ generation' = IF ok /\ a.ok THEN NextGeneration(h) ELSE generation

\* The generation store() hands back to its caller: 0 unless it stored.
StoredGeneration(h, a, ok) == IF ok /\ a.ok THEN NextGeneration(h) ELSE 0

\* The allocation outcomes store() can meet: none is made for a known host.
StoreAllocs(h, t) ==
    IF h \in tree THEN {[evicted |-> {}, ok |-> TRUE]} ELSE AllocOutcomes(t)

\* Faulty variant of Release: a failed fetch drops the document that others
\* are still served.
ReleaseDropping(h, retry_at) ==
    /\ node' = IF h \in tree
               THEN [node EXCEPT ![h].fetching = FALSE,
                                 ![h].fetching_since = 0,
                                 ![h].expires_at = retry_at,
                                 ![h].jwks = 0]
               ELSE node
    /\ UNCHANGED <<tree, generation>>

\* release() is unconditional: it does not look at who holds the right.
Release(h, retry_at) ==
    /\ node' = IF h \in tree
               THEN [node EXCEPT ![h].fetching = FALSE,
                                 ![h].fetching_since = 0,
                                 ![h].expires_at = retry_at]
               ELSE node
    /\ UNCHANGED <<tree, generation>>
=============================================================================
