---------------------------- MODULE KeyDirectory ----------------------------
(***************************************************************************)
(* The dynamic key directory: what the PREACCESS handler, the fetch        *)
(* subrequest's completion handler, the pool-cleanup backstop and the key  *)
(* resolution of ngx_http_auth_httpsig_module.c do with the shared cache   *)
(* (KeyCache) and with each worker's parsed-key cache (KeysCache).         *)
(*                                                                         *)
(* Workers are processes: between two critical sections of one handler any *)
(* other worker may run.  Each worker reads its own cached clock           *)
(* (ngx_time()), which lags real time by at most MaxLag.                   *)
(***************************************************************************)
EXTENDS KeyCache, KeysCache, Directory

CONSTANTS
    Worker,
    Request,     \* request slots; a slot is reused once its request ended
    WorkerOf,    \* the worker that serves a slot
    Responses,   \* the answers a key directory gives to a fetch
    MaxLag,      \* bound on how far a cached clock lags real time
    MaxFetch,    \* bound on the life of a fetch (the upstream's timeouts)
    MaxTime,     \* bound on real time
    MaxVersion,  \* bound on the documents an origin publishes
    MaxCrashes,  \* bound on worker crashes
    CrashBy      \* bound on the time of the last crash

ASSUME DirectoryAssumption ==
    /\ Host # {}
    /\ WorkerOf \in [Request -> Worker]
    /\ Responses \subseteq Response
    /\ MaxLag \in Nat
    /\ MaxFetch \in Nat
    /\ MaxTime \in Nat /\ MaxVersion \in Nat \ {0}
    /\ MaxCrashes \in Nat /\ CrashBy \in Nat

VARIABLES
    now,         \* real time
    clock,       \* clock[w]: worker w's ngx_time()
    origin,      \* origin[h]: version of the document h publishes
    req,         \* req[r]: the request in slot r
    local,       \* local[w]: worker w's parsed-key cache
    lastRescue,  \* history: clock value of h's last rotation rescue, 0 if none
    lastEnd,     \* history: clock value when h's last fetch ended, 0 if none
    crashes      \* worker crashes so far

history == <<lastRescue, lastEnd>>
reqVars == <<req, local, lastRescue, lastEnd>>
envVars == <<now, clock, origin, crashes>>
vars    == <<tree, node, generation, now, clock, origin, req, local,
             lastRescue, lastEnd, crashes>>

\* Where a request is.  "uncovered": its HIT did not cover the keyid, the
\* rotation claim is next.  "claimed": it holds the fetch right and its
\* subrequest is about to be posted or in flight (posting it touches nothing
\* that others see).  "answered": the origin has produced its answer.
\* "ready": directory_done, evaluate() is next.
Phase == {"idle", "uncovered", "claimed", "answered", "ready"}

\* ctx->claimed.
Holding == {"claimed", "answered"}

Req == [pc : Phase, host : Host, jwks : Nat, generation : Nat,
        keys_unavailable : BOOLEAN, since : Nat, answer : Nat]

\* A fresh ctx: ngx_pcalloc().
FreshReq(h) == [pc |-> "idle", host |-> h, jwks |-> 0, generation |-> 0,
                keys_unavailable |-> FALSE, since |-> 0, answer |-> 0]

\* A slot without a request; its host says nothing.
IdleReq == FreshReq(CHOOSE h \in Host : TRUE)

TypeOK ==
    /\ ZoneTypeOK
    /\ now \in Nat
    /\ clock \in [Worker -> Nat]
    /\ origin \in [Host -> Nat]
    /\ req \in [Request -> Req]
    /\ local \in [Worker -> [Host -> Slot]]
    /\ lastRescue \in [Host -> Nat]
    /\ lastEnd \in [Host -> Nat]
    /\ crashes \in Nat

Init ==
    /\ ZoneInit
    /\ now = 1
    /\ clock = [w \in Worker |-> 1]
    /\ origin = [h \in Host |-> 1]
    /\ req = [r \in Request |-> IdleReq]
    /\ local = [w \in Worker |-> EmptyKeysCache(Host)]
    /\ lastRescue = [h \in Host |-> 0]
    /\ lastEnd = [h \in Host |-> 0]
    /\ crashes = 0

-----------------------------------------------------------------------------
(* Time and the outside world. *)

Time(r) == clock[WorkerOf[r]]

\* Worker w is between the two critical sections of one handler: it runs
\* nothing else and does not refresh its clock (a worker held up there for
\* longer than MaxLag is beyond that bound), while other workers go on.
MidHandler(w) == \E r \in Request : WorkerOf[r] = w /\ req[r].pc = "uncovered"

\* The worker of r is free to run a handler for r.
Scheduled(r) == req[r].pc = "uncovered" \/ ~MidHandler(WorkerOf[r])

\* A second passes.  A worker MaxLag behind refreshes its clock, and the
\* upstream's own timeouts end a fetch within MaxFetch.
Tick ==
    /\ now < MaxTime
    /\ \A r \in Request : req[r].pc \in Holding => now + 1 - req[r].since <= MaxFetch
    /\ now' = now + 1
    /\ clock' = [w \in Worker |-> IF now + 1 - clock[w] > MaxLag
                                  THEN now + 1 - MaxLag ELSE clock[w]]
    /\ UNCHANGED <<origin, crashes, zoneVars, reqVars>>

\* A worker's event loop refreshes its cached clock.
UpdateTime(w) ==
    /\ clock[w] < now
    /\ ~MidHandler(w)
    /\ clock' = [clock EXCEPT ![w] = now]
    /\ UNCHANGED <<now, origin, crashes, zoneVars, reqVars>>

\* The signer rotates its key: its directory publishes a new document.
Publish(h) ==
    /\ origin[h] < MaxVersion
    /\ origin' = [origin EXCEPT ![h] = @ + 1]
    /\ UNCHANGED <<now, clock, crashes, zoneVars, reqVars>>

\* A worker dies: its requests and its parsed keys are gone, no pool cleanup
\* runs, and whatever it wrote to the zone stays.
Crash(w) ==
    /\ crashes < MaxCrashes
    /\ now <= CrashBy
    /\ crashes' = crashes + 1
    /\ req' = [r \in Request |-> IF WorkerOf[r] = w THEN IdleReq ELSE req[r]]
    /\ local' = [local EXCEPT ![w] = EmptyKeysCache(Host)]
    /\ UNCHANGED <<now, clock, origin, history, zoneVars>>

-----------------------------------------------------------------------------
(* resolve_keys(): the key sets a request can end up with, each with the   *)
(* worker's parsed-key cache afterwards.  keys = 0 is the NULL result.     *)

Resolutions(kc, h, doc, gen) ==
    LET direct == {[keys |-> doc, kc |-> kc], [keys |-> 0, kc |-> kc]}
    IN IF doc = 0 THEN {[keys |-> 0, kc |-> kc]}
       ELSE IF CacheHolds(kc, h, gen)
       THEN {[keys |-> kc[h].keys, kc |-> CacheGet(kc, h)]}
       ELSE IF gen # 0
       THEN {[keys |-> doc, kc |-> CachePut(kc, h, gen, doc)]} \cup direct
       ELSE direct

-----------------------------------------------------------------------------
(* directory_handler(), one critical section at a time. *)

\* Faulty variant of FailOpen: the document at hand is not looked at.
FailOpenAlways(q) ==
    [q EXCEPT !.pc = "ready", !.keys_unavailable = TRUE,
              !.since = 0, !.answer = 0]

\* directory_fail_open(): a request that already has a document keeps it.
FailOpen(q) ==
    [q EXCEPT !.pc = "ready",
              !.keys_unavailable = @ \/ q.jwks = 0,
              !.since = 0, !.answer = 0]

\* History: a fetch of h has ended, for whatever reason.
Ends(h, t) ==
    /\ lastEnd' = [lastEnd EXCEPT ![h] = t]
    /\ UNCHANGED lastRescue

Serve(h, doc, gen, pc) ==
    [FreshReq(h) EXCEPT !.pc = pc, !.jwks = doc, !.generation = gen]

\* HIT: the cached keys are resolved at once (unless the label has no keyid),
\* to see whether they cover the keyid; when they do not (and neither does the
\* static JWKS) the rotation claim follows.
LookupHit(r, h) ==
    /\ req[r].pc = "idle"
    /\ LookupStatus(h, Time(r)) = "HIT"
    /\ \E res \in Resolutions(local[WorkerOf[r]], h, node[h].jwks,
                              node[h].generation)
                  \cup {[keys |-> 0, kc |-> local[WorkerOf[r]]]},
          covered \in BOOLEAN :
          /\ local' = [local EXCEPT ![WorkerOf[r]] = res.kc]
          /\ req' = [req EXCEPT ![r] =
                        Serve(h, node[h].jwks, node[h].generation,
                              IF covered \/ res.keys = 0 THEN "ready"
                              ELSE "uncovered")]
    /\ UNCHANGED <<zoneVars, envVars, history>>

\* BUSY with a document left by an earlier fetch: serve it.
LookupStale(r, h) ==
    /\ req[r].pc = "idle"
    /\ LookupStatus(h, Time(r)) = "BUSY"
    /\ node[h].jwks # 0
    /\ req' = [req EXCEPT ![r] = Serve(h, node[h].jwks,
                                       node[h].generation, "ready")]
    /\ UNCHANGED <<zoneVars, envVars, local, history>>

\* BUSY without a document, NEGATIVE, or a document that could not be copied
\* out of the zone (pool allocation failure).
LookupFailOpen(r, h) ==
    /\ req[r].pc = "idle"
    /\ LookupStatus(h, Time(r)) \in {"HIT", "BUSY", "NEGATIVE"}
    /\ req' = [req EXCEPT ![r] = FailOpen(FreshReq(h))]
    /\ UNCHANGED <<zoneVars, envVars, local, history>>

\* CLAIMED on an existing node: no document, an expired one, or a holder
\* presumed dead.
LookupClaims(r, h) ==
    /\ req[r].pc = "idle"
    /\ LookupStatus(h, Time(r)) = "CLAIMED"
    /\ LookupClaim(h, Time(r))
    /\ req' = [req EXCEPT ![r] = [FreshReq(h) EXCEPT !.pc = "claimed",
                                                     !.since = now]]
    /\ UNCHANGED <<envVars, local, history>>

\* The host has no node: CLAIMED on a new one, or UNAVAILABLE.
LookupAllocates(r, h) ==
    /\ req[r].pc = "idle"
    /\ LookupStatus(h, Time(r)) = "ABSENT"
    /\ \E a \in AllocOutcomes(Time(r)) :
          /\ LookupAlloc(h, Time(r), a)
          /\ req' = [req EXCEPT ![r] =
                        IF a.ok THEN [FreshReq(h) EXCEPT !.pc = "claimed",
                                                         !.since = now]
                        ELSE FailOpen(FreshReq(h))]
    /\ UNCHANGED <<envVars, local, history>>

RotationGranted(r) ==
    /\ req[r].pc = "uncovered"
    /\ MayRotate(req[r].host, Time(r))
    /\ RotationClaim(req[r].host, Time(r))
    /\ req' = [req EXCEPT ![r].pc = "claimed", ![r].since = now]
    /\ lastRescue' = [lastRescue EXCEPT ![req[r].host] = Time(r)]
    /\ UNCHANGED <<envVars, local, lastEnd>>

RotationDeclined(r) ==
    /\ req[r].pc = "uncovered"
    /\ ~MayRotate(req[r].host, Time(r))
    /\ req' = [req EXCEPT ![r].pc = "ready"]
    /\ UNCHANGED <<zoneVars, envVars, local, history>>

\* Faulty variant of PostFails: directory_fail_open() without the release.
PostFailsSilently(r) ==
    /\ req[r].pc = "claimed"
    /\ req' = [req EXCEPT ![r] = FailOpen(@)]
    /\ Ends(req[r].host, Time(r))
    /\ UNCHANGED <<zoneVars, envVars, local>>

\* Something failed between the claim and the subrequest:
\* directory_fail_open_release().
PostFails(r) ==
    /\ req[r].pc = "claimed"
    /\ Release(req[r].host, Time(r) + MinTtl)
    /\ req' = [req EXCEPT ![r] = FailOpen(@)]
    /\ Ends(req[r].host, Time(r))
    /\ UNCHANGED <<envVars, local>>

-----------------------------------------------------------------------------
(* The fetch and its completion. *)

\* The origin answers with the document it publishes now, or the fetch is
\* going to fail whatever its answer says (answer 0: transport failure,
\* malformed document, no memory).
OriginAnswers(r) ==
    /\ req[r].pc = "claimed"
    /\ \E doc \in {0, origin[req[r].host]} :
          req' = [req EXCEPT ![r].pc = "answered", ![r].answer = doc]
    /\ UNCHANGED <<zoneVars, envVars, local, history>>

\* directory_done(), accepted: the request takes the new document and stores
\* it for everyone, for the ttl its headers ask for.
DirectoryStores(r) ==
    LET h == req[r].host IN
    /\ req[r].pc = "answered"
    /\ req[r].answer # 0
    /\ \E a \in StoreAllocs(h, Time(r)), ok \in BOOLEAN, resp \in Responses :
          /\ Accepted(resp)
          /\ Store(h, req[r].answer,
                   Time(r) + DirectoryTtl(resp.cache_control, resp.age,
                                          MinTtl, MaxTtl), Time(r), a, ok)
          /\ req' = [req EXCEPT ![r].pc = "ready",
                                ![r].since = 0, ![r].answer = 0,
                                ![r].jwks = req[r].answer,
                                ![r].generation = StoredGeneration(h, a, ok)]
    /\ Ends(h, Time(r))
    /\ UNCHANGED <<envVars, local>>

\* Faulty variant of DirectoryRejects: the request is not resumed.
DirectoryRejectsOnly(r) ==
    /\ req[r].pc = "answered"
    /\ req[r].answer = 0 \/ \E resp \in Responses : ~Accepted(resp)
    /\ Release(req[r].host, Time(r) + MinTtl)
    /\ Ends(req[r].host, Time(r))
    /\ UNCHANGED <<envVars, req, local>>

\* directory_done(), rejected: release and back off; a document the request
\* already had (rotation) stays.
DirectoryRejects(r) ==
    /\ req[r].pc = "answered"
    /\ req[r].answer = 0 \/ \E resp \in Responses : ~Accepted(resp)
    /\ Release(req[r].host, Time(r) + MinTtl)
    /\ req' = [req EXCEPT ![r] = FailOpen(@)]
    /\ Ends(req[r].host, Time(r))
    /\ UNCHANGED <<envVars, local>>

\* The request ends before the fetch did (client gone, worker shutting down):
\* directory_cleanup() finds ctx->claimed still set.
Cleanup(r) ==
    /\ req[r].pc \in Holding
    /\ Release(req[r].host, Time(r) + MinTtl)
    /\ req' = [req EXCEPT ![r] = IdleReq]
    /\ Ends(req[r].host, Time(r))
    /\ UNCHANGED <<envVars, local>>

-----------------------------------------------------------------------------
(* evaluate(), as far as keys go, and the end of the request. *)

\* The key sets evaluate() can end up with for the request in slot r.
ResolvedKeys(r) ==
    Resolutions(local[WorkerOf[r]], req[r].host, req[r].jwks,
                req[r].generation)

Evaluate(r) ==
    /\ req[r].pc = "ready"
    /\ \E res \in ResolvedKeys(r) :
          local' = [local EXCEPT ![WorkerOf[r]] = res.kc]
    /\ req' = [req EXCEPT ![r] = IdleReq]
    /\ UNCHANGED <<zoneVars, envVars, history>>

-----------------------------------------------------------------------------
Lookup(r, h) ==
    /\ Scheduled(r)
    /\ \/ LookupHit(r, h) \/ LookupStale(r, h) \/ LookupFailOpen(r, h)
       \/ LookupClaims(r, h) \/ LookupAllocates(r, h)

\* What a worker does on its own once a request has started.
Progress(r) ==
    /\ Scheduled(r)
    /\ \/ RotationGranted(r) \/ RotationDeclined(r)
       \/ DirectoryStores(r) \/ DirectoryRejects(r)
       \/ Evaluate(r)

\* What may happen to a claim instead of a completed fetch.
Interruption(r) == Scheduled(r) /\ (PostFails(r) \/ Cleanup(r))

Next ==
    \/ Tick
    \/ \E w \in Worker : UpdateTime(w) \/ Crash(w)
    \/ \E h \in Host : Publish(h)
    \/ \E r \in Request : \/ \E h \in Host : Lookup(r, h)
                          \/ Progress(r) \/ Interruption(r)
                          \/ OriginAnswers(r)

Spec == Init /\ [][Next]_vars

\* Time passes whatever the workers do; a worker's event loop runs the
\* handlers of the events it has; a subrequest ends, at the latest by the
\* upstream's timeouts; and requests naming every host keep coming.  Crashes,
\* aborts, rotations and failures to post the subrequest may or may not happen.
Fairness ==
    /\ WF_vars(Tick)
    /\ \A r \in Request : WF_vars(Progress(r)) /\ WF_vars(OriginAnswers(r))
    /\ \A h \in Host : WF_vars(\E r \in Request : Lookup(r, h))

FairSpec == Spec /\ Fairness

-----------------------------------------------------------------------------
(* Properties. *)

\* Every fetch ends before FetchTimeout makes its holder look dead to a worker
\* whose clock runs MaxLag ahead of the claiming one's.
BoundedFetch == MaxFetch + MaxLag < FetchTimeout

\* At most one fetch of a host is in flight in the whole instance: what
\* lookup() and claim_rotation_refetch() share the fetching flag for.  It
\* needs BoundedFetch.
SingleFlight ==
    \A r, s \in Request :
        /\ req[r].pc \in Holding /\ req[s].pc \in Holding
        /\ req[r].host = req[s].host
        => r = s

\* The keys a request is verified with are the keys of the document it was
\* served, although the worker's parsed-key cache is looked up by host and
\* generation only and outlives nodes, stores and evictions in the zone.
KeysMatchDocument ==
    \A r \in Request :
        req[r].pc = "ready" =>
            \A res \in ResolvedKeys(r) : res.keys \in {0, req[r].jwks}

\* A worker keeps at most KeySlots parsed key sets, and knows the order in
\* which they were touched last: put() into a full cache evicts the one set
\* that was not touched for longest, and no other, whatever the requests of
\* the worker hit, parse, fail to parse or replace.
SlotsRanked == \A w \in Worker : Ranked(local[w])

\* While no worker has crashed, a node marked as being fetched has a request
\* that will unmark it: every path out of a claim ends in store() or
\* release(), failures to post the subrequest and aborted requests included.
NoLeakedClaim ==
    crashes = 0 =>
        \A h \in tree : node[h].fetching =>
            \E r \in Request : req[r].pc \in Holding /\ req[r].host = h

\* Only a request that has no document at all is told that keys are
\* unavailable by the directory phase: a failed rotation rescue leaves the
\* document of the HIT before it in use.
UnavailableMeansNoDocument ==
    \A r \in Request :
        req[r].pc \in {"uncovered", "ready"} =>
            (req[r].keys_unavailable <=> req[r].jwks = 0)

\* A stored document is never replaced by an older one of its origin.  It
\* needs BoundedFetch: two fetches of a host may end in either order.
NoRollback ==
    [][\A h \in tree \cap tree' : node'[h].jwks >= node[h].jwks]_vars

\* Every claim ends: no request waits for its fetch for ever.
ClaimEnds ==
    \A r \in Request : req[r].pc \in Holding ~> req[r].pc \notin Holding

Stranded(h) ==
    /\ h \in tree /\ node[h].fetching
    /\ \A r \in Request : req[r].pc \in Holding => req[r].host # h

\* The right to fetch a host that a dead worker took with it is taken over:
\* the host does not stay BUSY.
StrandedClaimRecovers == \A h \in Host : Stranded(h) ~> ~Stranded(h)

\* Two rotation rescues of one host are RetryTtl apart, up to the lag of the
\* two workers' clocks, even when the node that remembers the first one is
\* evicted in between.  It needs RetryTtl <= MinTtl.
RescueSpacing ==
    [][\A r \in Request :
          LET h == req[r].host IN
          /\ req[r].pc = "uncovered" /\ req'[r].pc = "claimed"
          /\ lastRescue[h] # 0
          => Time(r) - lastRescue[h] >= RetryTtl - 2 * MaxLag]_vars

\* A fetch of a host that lookup() starts comes MinTtl after the end of the
\* previous fetch of that host, however that one ended, up to the lag of the
\* clocks: neither failures, nor a full zone, nor evictions let requests
\* hammer a directory.  It needs BoundedFetch: a fetch that outlives its claim
\* may find no node to leave its mark on.
FetchSpacing ==
    [][\A r \in Request :
          LET h == req'[r].host IN
          /\ req[r].pc = "idle" /\ req'[r].pc = "claimed"
          /\ lastEnd[h] # 0
          => Time(r) - lastEnd[h] >= MinTtl - MaxLag]_vars

-----------------------------------------------------------------------------
(* What the requests see of all this: a source of documents. *)

\* The document the zone serves for each host.
Shared == [h \in Host |-> IF h \in tree THEN node[h].jwks ELSE 0]

\* What a request asked and was told.
AskedBy(q) ==
    IF q.pc = "idle" THEN [at |-> "idle"]
    ELSE IF q.pc \in Holding
    THEN [at |-> "waiting", host |-> q.host, document |-> q.jwks,
          brought |-> IF q.pc = "answered" THEN q.answer ELSE 0]
    ELSE [at |-> "told", host |-> q.host,
          document |-> IF q.keys_unavailable THEN 0 ELSE q.jwks]

Asked == [r \in Request |-> AskedBy(req[r])]

Source == INSTANCE KeySource WITH
    published <- origin,
    shared    <- Shared,
    asked     <- Asked,
    Exclusive <- BoundedFetch

\* The zone with its claims, evictions and time-outs, the parsed-key caches
\* and the crashes of workers are, for a request, a source of documents: each
\* critical section is one step of KeySource or none that a request can tell.
ImplementsSource == Source!SourceSpec
=============================================================================
