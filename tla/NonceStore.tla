----------------------------- MODULE NonceStore -----------------------------
(***************************************************************************)
(* The shared-memory nonce store (ngx_auth_httpsig_nonce_store.c) and the  *)
(* replay check built on it: every worker of the instance runs shm_check() *)
(* on one zone, for signatures that passed the time window of the location *)
(* they arrived in.                                                        *)
(*                                                                         *)
(* shm_check() holds shpool->mutex from beginning to end and is one step.  *)
(* The two red-black trees index one set of nodes: record[k] is the        *)
(* expires_at of k's node, 0 when it has none.                             *)
(***************************************************************************)
EXTENDS NonceWindow, FiniteSets

CONSTANTS
    Worker,
    Fits,     \* the sets of nodes the slab allocator finds room for
    Batch,    \* NGX_AUTH_HTTPSIG_NONCE_STORE_RECLAIM_BATCH
    MaxTime   \* bound on real time

ASSUME NonceAssumption ==
    /\ Fits \subseteq SUBSET Key
    /\ Batch \in Nat \ {0}
    /\ MaxTime \in Nat

VARIABLES
    now,      \* real time
    clock,    \* clock[w]: worker w's ngx_time(), which lags real time
    record,   \* the zone
    verdict,  \* history: the last check, its result and its time
    accepts   \* history: OK verdicts per signature inside its real window

nonceVars == <<now, clock, record, verdict, accepts>>

Rc == {"none", "OK", "DECLINED", "ABORT"}

NonceTypeOK ==
    /\ now \in Nat
    /\ clock \in [Worker -> Nat]
    /\ record \in [Key -> Nat]
    /\ verdict \in [rc : Rc, at : Nat]
    /\ accepts \in [Sig -> Nat]

NonceInit ==
    /\ now = 1
    /\ clock = [w \in Worker |-> 1]
    /\ record = [k \in Key |-> 0]
    /\ verdict = [rc |-> "none", at |-> 0]
    /\ accepts = [s \in Sig |-> 0]

-----------------------------------------------------------------------------
(* The zone. *)

Stored(f) == {k \in Key : f[k] # 0}

\* Faulty variant of Expired: a record of this very second counts as expired.
ExpiredEarly(f, t) == {k \in Stored(f) : f[k] <= t}

\* Nodes reclaim() may free: expires_at == now is still live.
Expired(f, t) == {k \in Stored(f) : f[k] < t}

\* Faulty variant of ReclaimSets: it starts from the node that expires last and
\* stops at once when that one is live.
ReclaimSetsFromEnd(f, t) ==
    IF Expired(f, t) = Stored(f) THEN {Expired(f, t)} ELSE {{}}

\* One reclaim(): the Batch earliest-expiring nodes, those that are expired.
\* Which of two nodes with the same expires_at comes first is left open.
ReclaimSets(f, t) ==
    {F \in SUBSET Expired(f, t) :
        /\ Cardinality(F) = IF Cardinality(Expired(f, t)) < Batch
                            THEN Cardinality(Expired(f, t)) ELSE Batch
        /\ \A k \in F, x \in Expired(f, t) \ F : f[k] <= f[x]}

Drop(f, F) == [k \in Key |-> IF k \in F THEN 0 ELSE f[k]]

HasRoom(f, k) == Stored(f) \cup {k} \in Fits

Write(f, k, e) == [rc |-> "OK", record |-> [f EXCEPT ![k] = e]]

\* Faulty variant of SecondTry: a full zone is reported as an error.
SecondTryErrs(f, k, e, t) == {[rc |-> "ERROR", record |-> f]}

\* The first allocation failed: reclaim once more and, if that freed anything,
\* allocate again.
SecondTry(f, k, e, t) ==
    {IF F # {} /\ HasRoom(Drop(f, F), k) THEN Write(Drop(f, F), k, e)
     ELSE [rc |-> "ABORT", record |-> Drop(f, F)] : F \in ReclaimSets(f, t)}

\* shm_check() for a key that has no node.
Insertions(k, e, t) ==
    UNION {IF HasRoom(Drop(record, F), k) THEN {Write(Drop(record, F), k, e)}
           ELSE SecondTry(Drop(record, F), k, e, t) :
              F \in ReclaimSets(record, t)}

\* Faulty variant of Live: the record ends a second early.
LiveExclusive(k, t) == record[k] # 0 /\ record[k] > t

\* The liveness test of shm_check().
Live(k, t) == record[k] # 0 /\ record[k] >= t

\* shm_check(): what it can return and leave behind.  An expired node of the
\* same key is reused in place.
ShmCheck(k, ttl, t) ==
    IF Live(k, t) THEN {[rc |-> "DECLINED", record |-> record]}
    ELSE IF record[k] # 0 THEN {Write(record, k, t + ttl)}
    ELSE Insertions(k, t + ttl, t)

-----------------------------------------------------------------------------
(* The check of one signature. *)

\* evaluate() reads ngx_time() once, for the window and for the store.
Check(w, s, l) ==
    /\ InWindow(s, l, clock[w])
    /\ \E out \in ShmCheck(NonceOf[s], StoreTtl(s, l, clock[w]), clock[w]) :
          /\ record' = out.record
          /\ verdict' = [rc |-> out.rc, at |-> clock[w]]
          /\ accepts' = IF out.rc = "OK" /\ now <= WindowEnd(s, l)
                        THEN [accepts EXCEPT ![s] = @ + 1] ELSE accepts
    /\ UNCHANGED <<now, clock>>

NonceTick ==
    /\ now < MaxTime
    /\ now' = now + 1
    /\ UNCHANGED <<clock, record, verdict, accepts>>

\* A worker's event loop refreshes its cached clock.
NonceUpdateTime(w) ==
    /\ clock' = [clock EXCEPT ![w] = now]
    /\ UNCHANGED <<now, record, verdict, accepts>>

NonceNext ==
    \/ NonceTick
    \/ \E w \in Worker : NonceUpdateTime(w)
    \/ \E w \in Worker, s \in Sig, l \in Location : Check(w, s, l)

NonceSpec == NonceInit /\ [][NonceNext]_nonceVars

-----------------------------------------------------------------------------
(* Properties. *)

\* No signature is accepted twice while its time window lasts, whichever
\* workers see it, however far their clocks lag, and whatever is reclaimed or
\* reused in between.  It needs UniformSkew: the record is kept for the window
\* of the location that wrote it.
NoReplay == \A s \in Sig : accepts[s] <= 1

\* The store gives up (and the request fails open) only when every node of
\* the zone is live.  It needs nodes that can take each other's place.
AbortOnlyWhenLive ==
    verdict.rc = "ABORT" => Expired(record, verdict.at) = {}

\* A live record is dropped or overwritten by nobody.
LiveRecordKept ==
    [][\A k \in Key : record[k] >= now => record'[k] = record[k]]_nonceVars

Guard == INSTANCE ReplayGuard WITH
    open    <- OpenAt(now),
    used    <- {s \in Sig : accepts[s] # 0},
    entered <- Stored(record),
    answer  <- verdict.rc

\* The zone keeps the promise of a nonce store: every shm_check(), by whatever
\* worker, answers as that contract allows, and reclaiming never forgets a
\* nonce whose signature could still be accepted.  It needs UniformSkew.
ZoneKeepsPromise == Guard!GuardSpec
=============================================================================
