# A TLA+ verification of nginx-auth-httpsig

nginx-auth-httpsig verifies HTTP Message Signatures (RFC 9421, web-bot-auth
profile) in nginx. A request's verdict depends on state that outlives it and that
several worker processes share: a cache of fetched key directories, a store of
used nonces, per-worker caches and connections. This project models that state,
the handlers that work on it, the configuration they rely on, and the readers and
writers between the bytes of a request and what its signature covers. TLC checks the
modules on small instances, TLAPS proves the safety properties for all instances.

Paths below are relative to the repository; `module.c` is
`src/ngx_http_auth_httpsig_module.c`, `cache.c` is
`src/ngx_auth_httpsig_cache.c`, and so on.

## 1. Inventory

| Part | State | Operations | Used by |
|---|---|---|---|
| Key cache zone, `cache.c` | shared memory: per host a document, `expires_at`, the fetch right (`fetching`, `fetching_since`), `forced_refetch_at`, `generation`; a zone-wide generation counter | `lookup`, `claim_rotation_refetch`, `store`, `release`; eviction inside `alloc_node` | `directory_handler`, `directory_done`, the pool cleanup |
| Parsed-key cache, `keys_cache.c` | per worker: slots (host, generation, keys, age) | `get`, `put` | `resolve_keys` |
| Directory response, `directory.c` | none | `check_response`, `ttl`, host normalisation and matching | `directory_done`, `directory_handler` |
| Key directory client, `module.c` 1916-2577 | `r->ctx` (`claimed`, `jwks`, `directory_generation`, `keys_unavailable`, ...), a subrequest in flight | PREACCESS handler, post-subrequest handler, cleanup, `resolve_keys` | nginx's phases and event loop |
| Nonce store in shared memory, `nonce_store.c` 32-359 | nonce records with an end | `shm_check` (find, reclaim, insert), `ttl` | `check_nonce` |
| Nonce store in Redis, `nonce_store.c` 362-610 | per worker: connection, `retry_after`, `backoff`; Redis itself | `redis_check` (connect, SET NX EX, reconnect and retry, back off) | `check_nonce` |
| Evaluation and access, `module.c` 2580-3199 | `ctx->done`, `ctx->result`, a nonce verdict kept in `r->pool` | `evaluate`, `check_nonce`, `access_handler`, the `$httpsig_*` variables | ACCESS phase, anything that reads a variable |
| Profile, `profile.c`, `verify.c` | none | `select_label`, `profile_verify`, `match`, extraction of the agent's host | `directory_handler`, `evaluate` |
| Configuration, `module.c` 535-1600 | the blocks' `loc_conf`, the `main_conf` | directive setters, `merge_loc_conf`, `init` | everything |
| Structured fields, `sfv.c` | none | `parse_dictionary`, `parse_item`, `serialize_item`, `serialize_inner_list` | profile, base |
| Signature base, `base.c`, and `build_request`, `module.c` 1713-1912 | a snapshot of the request | `base_build`, one function per derived component | profile |
| Keys, `keys.c`, `verify.c` | key sets behind a handle | `load_jwks`, `chain`, `has`, `has_kid`, `verify`, `verify_kid` | `evaluate`, `resolve_keys` |

What makes it hard:

* several workers act on the same nodes and records, each with its own cached
  clock (`ngx_time()`), between any two critical sections of one another;
* the fetch right is a flag in shared memory without an owner: it must survive
  failures, aborted requests and dead workers, and must neither be lost nor be
  held twice;
* both zones fill up and evict or reclaim while others rely on what they hold;
* Redis commands may be lost, answered late or executed after their sender gave
  up, and are retried;
* a request may be evaluated several times (internal redirects), too early (a
  variable read before its keys are there), and in locations of different
  configuration;
* configuration checks depend on which block declares a directive;
* one text is read by several functions (a field line by line and joined, a query
  by two decoders, a host with and without its port), and the signature base is
  rewritten from what was parsed: wherever two readings differ, the signature
  vouches for something else than what is used.

`hazards` in `PROJECT.json` lists these at their lines, with the properties that
watch them.

## 2. Modules

| Module | Models | Extends |
|---|---|---|
| `Directory` | `check_response()` and `ttl()` | |
| `KeyCache` | `cache.c` as operators and actions on the zone | |
| `KeysCache` | `keys_cache.c` as operators on one worker's cache | |
| `KeySource` | the contract of the key directory: what a request that asks for keys is told | |
| `KeyDirectory` | workers, requests, origins and time on top of the three | `KeyCache`, `KeysCache`, `Directory`, implements `KeySource` |
| `ReplayGuard` | the contract of a nonce store, whatever keeps the nonces | |
| `NonceWindow` | a signature's time window and the ttl of its record | |
| `NonceStore` | `shm_check()` by workers with lagging clocks | `NonceWindow`, implements `ReplayGuard` |
| `RedisStore` | `redis_check()`, the network and the server | `NonceWindow`, implements `ReplayGuard` |
| `Keys` | key sets, chains, `verify_ed25519()` | |
| `Profile` | `select_label()`, `profile_verify()`, `match()` on parsed messages | `Keys` |
| `Access` | a request through PREACCESS, `evaluate()`, ACCESS and redirects | `NonceStore`, `Profile` |
| `Configuration` | parsing, `merge_loc_conf()`, `init()` | |
| `Octets` | bytes, texts and the loops over them | |
| `StructuredField` | `sfv.c`, readers and writers | `Octets` |
| `SignatureBase` | `build_request()` and `base.c` | `StructuredField` |
| `SignatureAgent` | the agent's URL and host (`profile.c`), the directory's host and the allow-list (`directory.c`) | `StructuredField` |
| `Wire` | texts that grow chunk by chunk, and what must hold of each | `SignatureBase`, `SignatureAgent` |

`MC*` modules hold the values of constants for TLC; `*Proofs` modules hold the
theorems. Definitions whose comment begins with "Faulty variant of" are not part
of any specification. They are plausible mistakes in the definition they are
named after; with one put in its place the property listed with it in
`PROJECT.json` fails, which shows that the property depends on that code.

How state and actions correspond to the code:

* **KeyCache, KeyDirectory.** `tree` is the set of hosts that have a node, `node`
  their fields, `generation` the counter of the zone. A document is the number of
  the version its origin published, 0 being none. Each critical section under the
  zone's mutex is one step. `directory_handler()` has up to two: the lookup
  (`LookupHit`, `LookupStale`, `LookupFailOpen`, `LookupClaims`,
  `LookupAllocates`, one per status), and after a HIT that does not cover the
  keyid the rotation claim (`RotationGranted`, `RotationDeclined`). In between
  the worker runs nothing else, but the others do. `PostFails` is every early
  return after a claim, `DirectoryStores` and `DirectoryRejects` are
  `directory_done()`, `Cleanup` the pool cleanup of an aborted request, `Crash` a
  worker that dies with its requests, parsed keys and claims. `since` and
  `answer` in a request are when its fetch began and the version its origin
  answered with, which may be older than the one current when it is stored.
  The slab allocator may fail whenever the zone is not empty. A slot's `age` stands
  for `touched`: how many other slots were touched since (`SlotsAreRanked`).
* **KeySource.** Its state is what requests can rely on: the documents published,
  the one a host's requests are served (`Shared`: that of the host's node, if any),
  and, per request, whether it asks nothing, waits for a fetch (with the document it
  had before) or was told a document or that there is none (`AskedBy`). It has no
  clocks, workers or claims. `ImplementsSource` is the refinement; its fetches are
  exclusive under `BoundedFetch`, and its other clauses do not depend on that.
* **NonceStore.** `record[k]` is the end of k's record, 0 without one. A check
  reads the worker's cached clock once and is one step. `Fits` says which sets of
  keys the slab holds, so size classes can be expressed; the reclaiming of a
  batch, the allocation and the second try follow `shm_check()`. Records that end
  at the same time are reclaimed in any order.
* **RedisStore.** The check blocks its worker, but between its round trips the
  server, the others and time go on: connecting, the SET and the retry are steps.
  A SET that is not answered was never executed, or was, or will be (`LandsLate`).
* **ReplayGuard.** Its state is what a caller can rely on: the signatures whose
  window is open, those accepted while it was, and the nonces that are held. Both
  stores are mapped to it (`Guard` in each): `entered` is the set of records of
  the zone, or of the keys on the server and in the commands still under way;
  `answer` is the last result. `ZoneKeepsPromise` and `ServerKeepsPromise` are
  the refinements.
* **Keys, Profile.** A signature is the thumbprint of the key that made it, a
  handle the sequence of the sets it tries, so that a chain is a concatenation and
  NULL the empty sequence. `Authentic` and `WellSigned` are reference definitions
  that do not depend on the order the code looks at things in.
* **Access.** `ctx` is gone after a redirect, `memo` (the verdict kept in the
  pool) stays. The key directory is abstracted to the document it leaves in `ctx`,
  if any, and to whether it failed; the keys are loaded from that document.
  Evaluation is its own action because anything may trigger it by reading a
  variable; the ACCESS handler needs it done first. The variables are functions of
  `ctx`. `starved` (no memory for a chain of key sets) and the location in `memo`
  are histories that only properties read.
* **Wire and below.** A byte is a string of length one. A reader of `sfv.c` takes
  a text and a position and returns what it read and where it stopped, its loops
  are recursive operators. The bytes of a Byte Sequence are kept as
  base64 digits, which is as much as equality needs. `Wire` has one action, which
  appends a chunk, so the reachable states are all texts of a few chunks; a text
  that its reader has refused at a position before its end is not extended.
* **Configuration.** A block's declarations, its merged values, and what
  `main_conf` accumulates; blocks are merged from the outside in, in any order
  that respects this. The http block is merged into others and never checked.

## 3. Runs

| Run | Checks | Shows |
|---|---|---|
| `bounded` | `TypeOK`, `SingleFlight`, `NoRollback`, `ImplementsSource` | two workers, one host, clocks one second apart, fetches shorter than the window of the fetch right |
| `evict` | `SlotsRanked`, `KeysMatchDocument`, `RescueSpacing`, `FetchSpacing` | three hosts that evict each other's nodes and, with two slots, each other's parsed keys |
| `slow` | `NoLeakedClaim`, `UnavailableMeansNoDocument`, `ClaimEnds`, `StrandedClaimRecovers` | fetches longer than the window, failures, a crash; safety and liveness |
| `replay` | `NonceTypeOK`, `NoReplay`, `AbortOnlyWhenLive`, `LiveRecordKept`, `ZoneKeepsPromise` | three nonces, room for two, two workers, seven seconds, a nonce used by two signatures |
| `redis` | `RedisTypeOK`, `NoSelfReplay`, `BackoffObserved`, `ServerKeepsPromise` | two workers, two signatures with one nonce, one command on its way at a time |
| `closed` | `AccessTypeOK`, `OkMeansVerified`, `ValidNotRejected`, `ClosedMeansChecked`, `SilentMeansChecked`, `AdmittedOnce`, `NonceSpentByVerified`, `FetchOnlyProfiled` | two requests of one worker, eight kinds of messages, an enforcing location with closed failures and an observing one with open ones, directory and static keys that share a kid, a store with room for one record |
| `merge` | `ConfTypeOK`, `DirectoryHasZone`, `OneNonceBackend`, `VerifierHasKeys`, `DemandsAreEnforced` | http, a server and a location with one, three and two directives |
| `wire` | `CanonicalForm`, `LinesMerge`, `QueryParamExact`, `AllowListExact`, `AgentVouched`, `BaseBinds` | all texts of up to six chunks of six kinds, 172,000 in all |

`WF` is assumed only in `slow` (`FairSpec`): time passes; a worker's event loop
runs the handlers of events that are ready; a fetch ends, since the fetch
location's upstream has timeouts; and requests naming the host keep arriving,
without which a stranded claim has nobody to take it over, as `lookup()` does
that on demand. Nothing is assumed about crashes, aborts, rotations or failed
subrequests.

Four runs state what the documentation says and find that the code does
otherwise; `findings` quotes both sides.

| Run | Finding |
|---|---|
| `rescue_violation` | eviction forgets the rescue limit when `key_rotation_retry_ttl` > `key_cache_min_ttl` (the defaults are equal) |
| `skew_violation` | a record made under a small `max_skew` ends before the window of a location with a larger one |
| `early_violation` | reading a `$httpsig_*` variable before the keys are there makes `enforce` reject a valid signature |
| `http_violation` | `agent_allow` in the http block is not checked: nginx starts without the zone it needs |

### Bounds, and why they are enough

* Two workers with one request each (in `closed`, one worker with two requests,
  since `replay` and `redis` have the store asked by two workers): the shared-state arguments are about pairs
  (a holder and a taker, a writer and a replayer). Where slots of one worker would
  matter, the worker's caches are shared by them through `WorkerOf`.
* Times: small constants that keep the order of the real ones (a ttl, the fetch
  window, the length of a fetch), with `MaxTime` large enough for a second fetch,
  a second rescue, the end of a window and the second after it. `bounded` has
  `MaxFetch + MaxLag < FetchTimeout`, `slow` the opposite.
* `evict` has one host more than slots, and more than one slot, so that which key
  set goes is a choice. With `MinTtl` = `RetryTtl` = 2, three seconds hold a rescue,
  the eviction of its node when it has expired, a new fetch and the second rescue
  in the first second that allows it. `FewStores` looks at what follows the first
  three stores of the zone (lookups that hit parse evicted keys again, so the parsed
  keys change without stores too) and `OneRotates` lets one of the hosts publish a
  second document; which one does not matter.
* Origins publish two documents, which suffices to mix them up or to go back.
  `MCResponses` has an answer that forbids caching, one beyond `MaxTtl` and one
  that is rejected; all the others are covered by `TtlInBounds`.
* `crashes`: one; it has to come early (`CrashBy`) so that there is time left for
  the takeover.
* `closed` presents the nonce of the valid message twice and one other message
  once, which makes replays, forgeries with a copied nonce, and a store filled by
  another message meet. In l2, which has no directory, only the message of the
  static key gets as far as the store; with the zone full it is let pass there, and
  may be redirected to l1 where failures are closed. Two seconds suffice: the window of "bare" begins in the
  second one, the window and the record of "named" end with the first, and each
  worker may or may not have noticed. Its `VIEW` leaves out the history variables of `NonceStore`, which
  no action and no property of that run reads. With one worker and one `max_skew` it
  shows `AdmittedOnce` for redirects, reclaiming and the boundary second; lagging
  clocks are `replay`'s (`NoReplay`), and for `AdmittedOnce` itself the theorem
  `OneAdmission`'s.
* `wire`: the chunks of a form are the pieces its readers tell apart (delimiters,
  an escape cut in half, digits at the limit of a number, a default port with and
  without a digit before it), and five or six of them let any two meet in either
  order around a third. The limits of `sfv.h` are small (two entries, two
  parameters, numbers of two digits) so that texts exceed them. A base covers up to
  two components of requests that differ in one thing each; the limit on a text's
  length cuts many of the pairs, so those compared are mostly of short components.
* Symmetry is only used on workers that are interchangeable (one slot each), and
  only in runs without liveness; in `closed`, on the worker's two requests; in
  `evict`, on the hosts (the host that `IdleReq` chooses for an idle slot is read
  nowhere).
* Deadlock is not checked: the models stop when time, directives or presentations
  run out, and requests need not come.

## 4. Proofs

All proofs are checked by tlapm with Z3, Zenon and LS4. They rest on the named
`ASSUME`s of the modules only (types of the constants; `merge_loc_conf()`'s
bounds on ttls), and on the hypothesis a theorem names. With the exception of
`Wire`, every safety property that a passing run checks is also a theorem, for
all values of the constants. The hypotheses, each of which is needed:

| Hypothesis | Says | Without it |
|---|---|---|
| `BoundedFetch` | a fetch ends before its right looks abandoned (30 s) | a second fetch joins; an older answer may be stored last; a late one may find its node evicted and leave no back-off |
| `RetryTtl <= MinTtl` | the default of the two directives, and any pair in that order | `rescue_violation` |
| `UniformSkew` | one `max_skew` for all locations that share a store | `skew_violation` |
| `NodesAlike` | whether records fit depends on their number | expired records of another size class remain |
| `~EarlyReads` | no `$httpsig_*` variable is read before ACCESS | `early_violation` |
| `AllowBelowHttp` | no `agent_allow` in the http block itself | `http_violation` |

### KeyDirectoryProofs

* `TypeCorrect`: `Spec => []TypeOK`.
* `AtMostOneFetch`: under `BoundedFetch`,
  `Spec => []SingleFlight`. `SingleFlight` is not inductive: why can `lookup()`
  not take a right whose holder is alive? Because a holder's claim is recorded on
  its node (`ClaimsRecorded`: the node is still there, flagged, and not much older
  than the claim), claims are young (`ClaimsBounded`) and clocks are close
  (`ClocksOK`), so `now - fetching_since` stays below the window. `ClaimInv` is
  the conjunction. Three lemmas say what an action may do to claims (drop its own,
  keep its own, make one where there was none), and each action is an instance.
* `DocumentsAreUsed` (`UnavailableMeansNoDocument`). `ToldInv` adds what holds
  while a request asks for a rescue or fetches.
* `RightsAreGivenBack` (`NoLeakedClaim`): inductive given the types. It holds for
  fetches of any length, although `release()` does not look at who holds the right.
* `KeysAreOfDocument` (`KeysMatchDocument`). The property relates a request to its
  worker's cache, but what that cache holds came from a request that is gone.
  `GenInv` therefore speaks of everyone who holds a document under a generation
  (nodes, requests, caches: `Known`): generations come from the zone's counter, and
  a host and a generation name one document. A step adds nothing to what is known
  (`GenerationsKept`), or one document under a new generation (`GenerationTaken`).
* `RescuesAreSpaced` (`RescueSpacing`). `RescueInv`: the last rescue was long ago, or
  the node remembers it and is kept, because it is being fetched or not expired for
  another `MinTtl`. Each of two clocks costs `MaxLag`. Fetches may be of any length.
* `FetchesAreSpaced` (`FetchSpacing`). `EndInv`: the last fetch ended `MinTtl` ago, or
  the node says to wait; that there is a node to say so is `ClaimInv`'s.
* `DocumentsAdvance` (`NoRollback`). `VersionInv`: what is stored was published, and
  an answer on its way is no older than what is stored, since by `SingleFlight`
  nobody else stores meanwhile.

* `DirectoryIsSource` (`ImplementsSource`): with its zone, claims, evictions, time-outs
  and dying workers, `Spec` implements `KeySource`. Each way of a request's phase is
  one step of the contract or a stutter: a lookup that hits answers, one that claims
  begins a wait, `store()` and `release()` end it, in whatever order a second holder
  of an expired right acts. `SourceInv` is what the mapping needs: a request's flag
  and its document agree (`ToldInv`) and, only under `BoundedFetch`, `ClaimInv`.
* `DocumentsAreGenuine`: every document in the zone or in a request is one its host
  published, and a rescue never brings an older one. Proved of `KeySource`
  (`GenuineInv`) and carried over by the refinement, without `BoundedFetch`.
* `SlotsAreRanked` (`SlotsRanked`): a worker keeps at most `KeySlots` parsed key sets,
  and their ages are distinct numbers below that, after any hits, puts, key sets
  that do not parse and crashes. `put()` frees a slot only if all are taken and the
  host has none, so a host stored under a new generation evicts nobody.
  `StampsFollow` and `LeastTouchedEvicted` relate the ages to the code's
  `touched = ++clock`: any stamps that the slots can carry order them as the ages do,
  and the slot that `put()` frees has the strictly lowest.
* `MarksAreBounded`: no node is marked, as fresh, failed or claimed, beyond `MaxTtl`
  from now or from later than now, and a claim reads as abandoned to every worker
  once `FetchTimeout + MaxLag` have passed. This is the safety half of
  `StrandedClaimRecovers`: nothing has to be undone for a stranded claim to be free.

`RescuesAreSpaced`, `FetchesAreSpaced` and `DocumentsAdvance` go through `StepKinds`, which sorts the steps by what they do to the
zone (nothing, a claim, a release, a store), and through one lemma for the effect of
each kind on a host (`AllocEffect`, `StoreEffect`, `ReleaseEffect`).

### NonceStoreProofs, RedisStoreProofs, NonceWindowProofs

* `NonceTypeCorrect`, `LiveRecordsKept`: no check drops or
  changes a record that is live for the worker with the most advanced clock, for
  any zone size and batch.
* `ReplayRejected`: under `UniformSkew`, `NonceSpec => []NoReplay`.
  The strengthening `AcceptedOnRecord` says that the nonce of an accepted
  signature is on record to the end of its window, as long as that lasts; it
  follows from the lower bound of the ttl, the inclusive liveness test, and
  `LiveRecordsKept`'s argument for other workers' reclaiming.
* `ZoneImplementsGuard`: under `UniformSkew`, `NonceSpec` implements `ReplayGuard`.
  Initial states map to initial states; a check is an acceptance, a refusal or an
  abort of the guard, time closes windows and releases nonces. `AcceptedOnRecord`
  is what keeps an acceptance from mapping to a second one.
* `AbortsWhenFull` (`AbortOnlyWhenLive`): under `NodesAlike`. `ZoneFits` says that
  what the zone holds is finite and fitted; reclaiming one expired record then
  makes room for one new record, so the second try fails only if none was expired.
* `RedisTypeCorrect`; `OwnWriteNoReplay` (`NoSelfReplay`): a check that may have
  entered its key is in its retry (`CallOK`), where NIL is not taken for a replay.
  `BackoffKept` (`BackoffObserved`): an armed deadline is the time of the failure
  plus the back-off (`BackoffArmed`) and a cached clock never runs ahead of real
  time, so it is not passed early. All from `RedisInv`.
* `ServerImplementsGuard`: under `UniformSkew`, `RedisSpec` implements `ReplayGuard`.
  `AcceptedOnServer` is the counterpart of `AcceptedOnRecord`; a command that lands
  late only adds to what is held.
* `NonceWindowProofs` has the two lemmas on windows that both stores use.

### AccessProofs, ProfileProofs, DirectoryProofs

* `AccessTypeCorrect`, `VerifiedIsVerified` (`OkMeansVerified`), `ClosedIsClosed`
  (`ClosedMeansChecked`), `SilenceIsVerified` (`SilentMeansChecked`), all from
  `AccessInv`. Its core, `ReqOK`, says of every request what its kept nonce verdict
  means (`MemoOK`), and of an evaluated one that its result is
  OK only for a well-signed message whose signer the keys vouch for and whose nonce
  was dealt with (`VerdictOK`): a store found it new (`FoundNew`), or failed where
  failures are open, as ctx then tells (`FailedOpen`). `VerifyExact` turns the profile's verdict into that.
* `FetchesAreProfiled`, `NoncesSpentByVerified`: action properties, from `AccessInv`
  and the lemmas on `select_label()`.
* `ValidIsServed`: under `~EarlyReads`, `AccessSpec => []ValidNotRejected`. A denial
  is found in ACCESS and its reason came about long before, in another location or
  by another request. `DenyInv` carries the reason along from evaluation
  (`Justified`), and `ShownInv` counts: whoever finds a nonce on record that it did
  not enter itself is the second to present it. The proof corrected the property:
  after an internal redirect the location that matters for a failed store is the
  one that asked, not the current one.
* `RequestsUseStore`: `AccessSpec => NonceSpec`. Every step of a request is a check of
  the store, for a signature in its window and at its worker's time, or leaves it
  alone. So what is proved of `NonceStore` holds of the server;
  `RequestsAreGuarded` draws the conclusion for the contract and for `NoReplay`.
* `OneAdmission` (`AdmittedOnce`): under `UniformSkew`, of the requests in service with
  one nonce no two are admitted while both messages can still be accepted. `NoReplay`
  counts the store's answers, this follows them to NGX_OK, through the memo and
  redirects. `AdmitInv` is about grants, the OK on a request's pool, instead of
  admissions, since a redirect takes an admission back and may give it again: a
  grant whose window is open is on the store's record (`accepts`), and no two such
  grants share a nonce. A second grant would be an `Accept` of `ReplayGuard` for a
  nonce that is not free (`CheckAnswers`).
* `SignerExact`: with the chain and the fallback set `evaluate()`
  builds, for any key sets, `verify_ed25519()` accepts exactly the signers that
  `Authentic` names. The lemmas say what `has` and `verify` of a chain are in terms
  of its parts (`ChainHas`, `ChainVerifies`) and reduce the verdict to them.
* `VerifyExact`: `profile_verify()` accepts exactly what the
  order-free reference `WellSigned` describes, in its window and by a signer that
  `Authentic` names. `NoFetchInVain`, `NoFetchMissed`: `select_label()` in PREACCESS
  and `profile_verify()` in ACCESS agree on which messages the keys can decide.
* `TtlInBounds`, `ForbiddenIsFloor`: `ttl()` for every Cache-Control sequence and
  Age.

### ConfigurationProofs

* `ZoneBehindDirectory` (`DirectoryHasZone`): under `AllowBelowHttp`, for any tree of
  blocks. `ZoneInv` carries the zone along the chain of inheritance.
* `ConfTypeCorrect`, `StoresAgree` (`OneNonceBackend`), `VerifiersSupplied`
  (`VerifierHasKeys`), `DemandsMet` (`DemandsAreEnforced`). Merging goes block by
  block, so each has an invariant about the blocks merged so far: every store
  selected is the backend that `main_conf` noted (`StoreInv`), a list of hosts
  inherited was declared by some block (`KeysInv`), a demand made was noted
  (`DemandInv`).

### Only model-checked

`ClaimEnds` and `StrandedClaimRecovers` (but for the latter's safety half,
`MarksAreBounded`), as liveness under fairness is out of the
prover's reach; and the six properties of `Wire`, which are about recursive readers
and writers of texts: what these compute for every text would need an induction over
texts, which the provers cannot be given.

## 5. What is abstracted or left out

* Not modelled: `parse_list()`, `serialize_params()` (only the unit tests call
  them) and the nesting limit of `sfv.c`, which no Dictionary or Item can reach;
  JSON, thumbprints and Ed25519 themselves (nxe_jwx and OpenSSL, external);
  `free()` of key handles; the parsing of directive values; what
  `$httpsig_directory_*` are during a request; the words of reasons; logging.
* Running out of memory is an outcome in `KeyDirectory` and `Access`, and left out
  of the readers and writers of texts.
* Bytes in model texts are TAB, LF and the printable ones; numbers are unbounded
  integers (15 and 12 digits fit the `int64_t` of the code).
* `lifetime` in `Message` stands for the bounds on `expires - created`, `typed` for
  the types of the parameters; `Profile` takes the parsed message as it is, and
  `StructuredField`, `SignatureBase` say how it comes about. They are not composed
  in one run.
* A nonce key (host, keyid, nonce) is one value; CRC collisions are resolved by
  comparison in the code and do not exist here.
* Redis neither evicts nor loses keys before their expiry, and its clock runs at
  the rate of the workers'.
* Reload, by which nginx hands the zones to new workers, keeps them unchanged and
  is a restart of workers for these models.

How the models meet: `Access` and `NonceStore` are one specification, proved to use
the store as its own specification has it. `Access` and `KeyDirectory` are not
composed; `Learnt` in `Access` is what the theorems about `KeyDirectory` leave a
request with: any document its host has published (`DocumentsAreGenuine`), the
earlier one after a failure, and `keys_unavailable` exactly without one
(`DocumentsAreUsed`); and the keys loaded from it are its own (`KeysAreOfDocument`).

Observed while modelling, without a run of its own:

* `release()`, and `store()` without room, keep an older document and move its
  `expires_at` on by `min_ttl`: as long as the origin fails, a document is served as a
  HIT beyond its lifetime (`cache.h` 174 means it so). `KeySource` therefore
  promises that a document is genuine, not that it is recent.

* The nonce verdict kept in the pool carries the failure policy of the first
  location across an internal redirect: a request whose store check failed where
  failures are open is admitted after a redirect to a location where they are
  closed (`module.c` 2671-2675). `ClosedMeansChecked` says so.
* A fetch of more than 30 s is joined by a second one (SECURITY.md:54 speaks of one
  fetch per host); `SingleFlight` is checked and proved for shorter ones. Of two
  that overlap, the older answer may be stored last, and one that ends after its
  node was evicted leaves no back-off: hence `BoundedFetch` in `NoRollback` and
  `FetchSpacing`.
* When `keys_chain()` has no memory, `evaluate()` goes on without keys and enforce
  answers 403 for an unknown keyid, where SECURITY.md:16 has a 500 for internal
  errors. This is the exception in `ValidNotRejected`.
* With `;key` naming another member than the signature's label, the base holds that
  member and the agent's host comes from the label's, or from the first usable one.
  A key repeated on another line of Signature-Agent: the base takes the last value,
  `agent_url()` the first. `AgentVouched` states the cases where they agree.
* The comment in `profile.c` 773 that the base "uses the raw field value unchanged"
  does not hold under `;key`; the one at `base.c` 430 that the parser rejects
  repeated parameters does not either, it keeps the last. `base.h` 44 counts
  `@request-target` among the components without a value for CONNECT and `*`, the
  code gives it one.
* An empty pair inside a query ("a=1&&b=2") has the empty name for
  `@query-param`; a trailing one does not exist.
* `check_nonce()` reports an internal error with the result OK, so that
  `$httpsig_verified` is `1`, where DIRECTIVES.md:695 says "unset".
* The comment at `module.c` 813 calls `agent_allow` in a server with
  `key_directory_request` only in its locations valid; the merge of the server
  itself refuses it.
* `parse_directive()` writes its result before it knows that the token is good: a
  malformed `max-age` after a good one replaces its value (`LastValue`).
* `shm_check()`'s comment "Only live nodes remain" holds for nodes of one slab
  size class; with several, expired nodes of another class may remain.

## 6. Plan

Done: the modules above, their runs, the contracts of a nonce store and of the key
directory with their three refinements, the requests' use of the store, the readers
and writers of texts, and a theorem for every safety property outside `Wire`.

Left:

1. `Access` over either nonce store: its theorems need only `ReplayGuard`, but it is
   written on top of `NonceStore`.
2. `Access` and `KeyDirectory` in one specification, with `KeySource` between them, in
   place of the correspondence that section 5 describes.
3. The setters of directives with several arguments, and the life of
   `$httpsig_directory_*`.
