-------------------------- MODULE NonceStoreProofs --------------------------
(***************************************************************************)
(* TLAPS proofs about NonceStore, for every set of signatures, workers and *)
(* locations, every slab allocator and every lag of the workers' clocks.   *)
(***************************************************************************)
EXTENDS NonceStore, NonceWindowProofs, FiniteSetTheorems, TLAPS

\* What one shm_check() may do to the zone: it accepts only a key without a
\* live record and writes that key's record, it declines only a key with one,
\* and it drops nothing live.
ZoneStep(k, ttl, t, out) ==
    /\ out.rc \in {"OK", "DECLINED", "ABORT"}
    /\ out.record \in [Key -> Nat]
    /\ \A x \in Key : out.record[x] = record[x] \/ ~Live(x, t)
    /\ \A x \in Key \ {k} : out.record[x] \in {record[x], 0}
    /\ out.rc = "OK" => ~Live(k, t) /\ out.record[k] = t + ttl
    /\ out.rc = "DECLINED" => Live(k, t) /\ out.record = record

\* f is what is left of the zone after nodes expired at t were freed.
Reclaimed(f, t) == \A x \in Key : f[x] = record[x] \/ (f[x] = 0 /\ record[x] < t)

\* reclaim() drops expired nodes only.
LEMMA DropType ==
    ASSUME NEW f \in [Key -> Nat], NEW t \in Nat, NEW F \in ReclaimSets(f, t)
    PROVE  /\ Drop(f, F) \in [Key -> Nat]
           /\ \A x \in Key : Drop(f, F)[x] = f[x] \/ (Drop(f, F)[x] = 0 /\ f[x] < t)
<1>1. F \subseteq Key /\ \A x \in F : f[x] < t
  BY DEF ReclaimSets, Expired, Stored
<1>2. \A x \in Key : Drop(f, F)[x] = IF x \in F THEN 0 ELSE f[x]
  BY DEF Drop
<1>3. Drop(f, F) \in [Key -> Nat]
  BY DEF Drop
<1> QED BY <1>1, <1>2, <1>3

\* Writing a record changes that record only.
LEMMA WriteType ==
    ASSUME NEW f \in [Key -> Nat], NEW k \in Key, NEW e \in Nat
    PROVE  /\ Write(f, k, e).rc = "OK"
           /\ Write(f, k, e).record \in [Key -> Nat]
           /\ Write(f, k, e).record[k] = e
           /\ \A x \in Key \ {k} : Write(f, k, e).record[x] = f[x]
BY DEF Write

\* The same, for a whole shm_check().
LEMMA ShmCheckStep ==
    ASSUME NonceTypeOK, NEW k \in Key, NEW ttl \in Nat \ {0}, NEW t \in Nat,
           NEW out \in ShmCheck(k, ttl, t)
    PROVE  ZoneStep(k, ttl, t, out)
<1> DEFINE e == t + ttl
<1>1. record \in [Key -> Nat] /\ e \in Nat
  BY DEF NonceTypeOK
<1>2. CASE Live(k, t)
  BY <1>1, <1>2 DEF ShmCheck, ZoneStep
\* Whatever f is left of the zone when k's record is written to it.
<1>3. ASSUME NEW f \in [Key -> Nat], out = Write(f, k, e), ~Live(k, t),
             Reclaimed(f, t)
      PROVE  ZoneStep(k, ttl, t, out)
  <2> HIDE DEF e
  <2>1. \A x \in Key : out.record[x] = record[x] \/ ~Live(x, t)
    <3> TAKE x \in Key
    <3>1. CASE x = k
      BY <1>3, <3>1
    <3>2. CASE x # k
      <4>1. out.record[x] = f[x]
        BY <1>1, <1>3, <3>2, WriteType
      <4> QED BY <1>1, <1>3, <4>1 DEF Live, Reclaimed
    <3> QED BY <3>1, <3>2
  <2>2. out.rc = "OK" /\ out.record \in [Key -> Nat] /\ out.record[k] = e
    BY <1>1, <1>3, WriteType
  <2>3. \A x \in Key \ {k} : out.record[x] \in {record[x], 0}
    <3>1. \A x \in Key \ {k} : out.record[x] = f[x]
      BY <1>1, <1>3, WriteType
    <3> QED BY <1>3, <3>1 DEF Reclaimed
  <2> QED BY <1>3, <2>1, <2>2, <2>3 DEF ZoneStep, e
\* Whatever f is left of the zone when the check gives up.
<1>4. ASSUME NEW f \in [Key -> Nat], out = [rc |-> "ABORT", record |-> f],
             Reclaimed(f, t)
      PROVE  ZoneStep(k, ttl, t, out)
  BY <1>1, <1>4 DEF ZoneStep, Live, Reclaimed
<1>5. CASE ~Live(k, t) /\ record[k] # 0
  <2>1. out = Write(record, k, e) /\ Reclaimed(record, t)
    BY <1>5 DEF ShmCheck, Reclaimed
  <2> QED BY <1>1, <1>3, <1>5, <2>1
<1>6. CASE ~Live(k, t) /\ record[k] = 0
  <2>1. PICK F \in ReclaimSets(record, t) :
          out \in IF HasRoom(Drop(record, F), k) THEN {Write(Drop(record, F), k, e)}
                  ELSE SecondTry(Drop(record, F), k, e, t)
    BY <1>6 DEF ShmCheck, Insertions
  <2> DEFINE f == Drop(record, F)
  <2>2. f \in [Key -> Nat] /\ Reclaimed(f, t)
    BY <1>1, <2>1, DropType DEF Reclaimed
  <2> HIDE DEF e, f
  <2>3. CASE out = Write(f, k, e)
    BY <1>3, <1>6, <2>2, <2>3
  <2>4. CASE out \in SecondTry(f, k, e, t)
    <3>1. PICK G \in ReclaimSets(f, t) :
            out \in {Write(Drop(f, G), k, e), [rc |-> "ABORT", record |-> Drop(f, G)]}
      BY <2>4 DEF SecondTry
    <3> DEFINE g == Drop(f, G)
    <3>2. g \in [Key -> Nat] /\ \A x \in Key : g[x] = f[x] \/ (g[x] = 0 /\ f[x] < t)
      BY <2>2, <3>1, DropType
    <3>3. Reclaimed(g, t)
      BY <2>2, <3>2 DEF Reclaimed
    <3> HIDE DEF g
    <3> QED BY <1>3, <1>4, <1>6, <3>1, <3>2, <3>3 DEF g
  <2> QED BY <2>1, <2>3, <2>4 DEF e, f
<1> QED BY <1>2, <1>5, <1>6

-----------------------------------------------------------------------------
(* Types, clocks, and what a step does to the zone. *)

\* No clock is ahead of real time.
NonceClocksOK == now # 0 /\ \A w \in Worker : clock[w] <= now

ZoneInv == NonceTypeOK /\ NonceClocksOK

\* The check of one signature is a ZoneStep on its nonce.
LEMMA CheckStep ==
    ASSUME ZoneInv, NEW w \in Worker, NEW s \in Sig, NEW l \in Location,
           Check(w, s, l)
    PROVE  /\ \E out : /\ ZoneStep(NonceOf[s], StoreTtl(s, l, clock[w]), clock[w], out)
                       /\ record' = out.record
                       /\ verdict' = [rc |-> out.rc, at |-> clock[w]]
                       /\ accepts' = IF out.rc = "OK" /\ now <= WindowEnd(s, l)
                                     THEN [accepts EXCEPT ![s] = @ + 1] ELSE accepts
           /\ ZoneInv'
<1> DEFINE k == NonceOf[s]
           t == clock[w]
           ttl == StoreTtl(s, l, t)
<1>1. PICK out \in ShmCheck(k, ttl, t) :
        /\ record' = out.record
        /\ verdict' = [rc |-> out.rc, at |-> t]
        /\ accepts' = IF out.rc = "OK" /\ now <= WindowEnd(s, l)
                      THEN [accepts EXCEPT ![s] = @ + 1] ELSE accepts
  BY DEF Check
<1>2. k \in Key /\ t \in Nat
  BY WindowAssumption DEF ZoneInv, NonceTypeOK
<1>3. ttl \in Nat \ {0}
  BY <1>2, WindowType
<1>4. ZoneStep(k, ttl, t, out)
  <2> HIDE DEF k, t, ttl
  <2> QED BY <1>1, <1>2, <1>3, ShmCheckStep DEF ZoneInv
<1>5. accepts' \in [Sig -> Nat]
  BY <1>1 DEF ZoneInv, NonceTypeOK
<1>6. ZoneInv'
  BY <1>1, <1>2, <1>4, <1>5 DEF Check, ZoneInv, NonceTypeOK, NonceClocksOK, ZoneStep, Rc
<1> QED BY <1>1, <1>4, <1>6

\* An empty zone and clocks that agree.
LEMMA ZoneInvInit == NonceInit => ZoneInv
BY DEF NonceInit, ZoneInv, NonceTypeOK, Rc, NonceClocksOK

\* Every step keeps the types and the order of the clocks.
LEMMA ZoneInvNext == ZoneInv /\ [NonceNext]_nonceVars => ZoneInv'
<1> SUFFICES ASSUME ZoneInv, [NonceNext]_nonceVars PROVE ZoneInv'
  OBVIOUS
<1>1. CASE UNCHANGED nonceVars
  BY <1>1 DEF nonceVars, ZoneInv, NonceTypeOK, NonceClocksOK
<1>2. CASE NonceTick
  BY <1>2 DEF NonceTick, ZoneInv, NonceTypeOK, NonceClocksOK
<1>3. ASSUME NEW w \in Worker, NonceUpdateTime(w)
      PROVE  ZoneInv'
  BY <1>3 DEF NonceUpdateTime, ZoneInv, NonceTypeOK, NonceClocksOK
<1> QED BY <1>1, <1>2, <1>3, CheckStep DEF NonceNext

\* Every variable of the nonce store keeps its type.
THEOREM NonceTypeCorrect == NonceSpec => []NonceTypeOK
<1>1. ZoneInv => NonceTypeOK
  BY DEF ZoneInv
<1> QED BY <1>1, ZoneInvInit, ZoneInvNext, PTL DEF NonceSpec

\* A record is live for a worker if it is live in real time.
LEMMA LiveForAll ==
    ASSUME ZoneInv, NEW w \in Worker, NEW k \in Key, record[k] >= now
    PROVE  Live(k, clock[w])
BY DEF ZoneInv, NonceTypeOK, NonceClocksOK, Live

\* No step of any worker drops or overwrites a record that is live in real
\* time.
THEOREM LiveRecordsKept == NonceSpec => LiveRecordKept
<1> DEFINE Kept == \A k \in Key : record[k] >= now => record'[k] = record[k]
<1>1. ZoneInv /\ [NonceNext]_nonceVars => [Kept]_nonceVars
  <2> SUFFICES ASSUME ZoneInv, NonceNext, NEW k \in Key, record[k] >= now
               PROVE  record'[k] = record[k]
    OBVIOUS
  <2>1. CASE NonceTick
    BY <2>1 DEF NonceTick
  <2>2. ASSUME NEW w \in Worker, NonceUpdateTime(w)
        PROVE  record'[k] = record[k]
    BY <2>2 DEF NonceUpdateTime
  <2>3. ASSUME NEW w \in Worker, NEW s \in Sig, NEW l \in Location, Check(w, s, l)
        PROVE  record'[k] = record[k]
    BY <2>3, CheckStep, LiveForAll DEF ZoneStep
  <2> QED BY <2>1, <2>2, <2>3 DEF NonceNext
<1> QED BY <1>1, ZoneInvInit, ZoneInvNext, PTL DEF NonceSpec, LiveRecordKept

-----------------------------------------------------------------------------
(* No signature is accepted twice. *)

\* The signatures accepted so far are on record for as long as they could be
\* presented again.
AcceptedOnRecord ==
    \A s \in Sig, l \in Location :
        accepts[s] # 0 /\ now <= WindowEnd(s, l) => record[NonceOf[s]] >= WindowEnd(s, l)

\* NoReplay is not inductive: a second acceptance is excluded by the record
\* the first one left.
ReplayInv == ZoneInv /\ AcceptedOnRecord /\ NoReplay

\* Nothing has been accepted yet.
LEMMA ReplayInit == NonceInit => ReplayInv
BY ZoneInvInit DEF NonceInit, ReplayInv, AcceptedOnRecord, NoReplay

\* Every step keeps ReplayInv.
LEMMA ReplayNext ==
    ASSUME UniformSkew
    PROVE  ReplayInv /\ [NonceNext]_nonceVars => ReplayInv'
<1> SUFFICES ASSUME ReplayInv, [NonceNext]_nonceVars PROVE ReplayInv'
  OBVIOUS
<1>1. ZoneInv /\ ZoneInv' /\ AcceptedOnRecord /\ NoReplay
  BY ZoneInvNext DEF ReplayInv
<1>2. CASE UNCHANGED nonceVars
  BY <1>1, <1>2 DEF nonceVars, ReplayInv, AcceptedOnRecord, NoReplay, WindowEnd
<1>3. CASE NonceTick
  <2>1. AcceptedOnRecord'
    <3> SUFFICES ASSUME NEW s \in Sig, NEW l \in Location,
                        accepts[s] # 0, now + 1 <= WindowEnd(s, l)
                 PROVE  record[NonceOf[s]] >= WindowEnd(s, l)
      BY <1>3 DEF NonceTick, AcceptedOnRecord, WindowEnd
    <3>1. now \in Nat /\ WindowEnd(s, l) \in Nat
      BY <1>1, WindowAssumption DEF ZoneInv, NonceTypeOK, WindowEnd
    <3>2. now <= WindowEnd(s, l)
      BY <3>1
    <3> QED BY <1>1, <3>2 DEF AcceptedOnRecord
  <2> QED BY <1>1, <1>3, <2>1 DEF NonceTick, ReplayInv, NoReplay
<1>4. ASSUME NEW w \in Worker, NonceUpdateTime(w)
      PROVE  ReplayInv'
  BY <1>1, <1>4 DEF NonceUpdateTime, ReplayInv, AcceptedOnRecord, NoReplay, WindowEnd
<1>5. ASSUME NEW w \in Worker, NEW s \in Sig, NEW l \in Location, Check(w, s, l)
      PROVE  ReplayInv'
  <2> DEFINE k == NonceOf[s]
             t == clock[w]
             ttl == StoreTtl(s, l, t)
  <2>1. PICK out : /\ ZoneStep(k, ttl, t, out)
                   /\ record' = out.record
                   /\ accepts' = IF out.rc = "OK" /\ now <= WindowEnd(s, l)
                                 THEN [accepts EXCEPT ![s] = @ + 1] ELSE accepts
    BY <1>1, <1>5, CheckStep
  <2>2. t \in Nat /\ now \in Nat /\ accepts \in [Sig -> Nat] /\ record \in [Key -> Nat]
    BY <1>1 DEF ZoneInv, NonceTypeOK
  <2>3. t + ttl >= WindowEnd(s, l)
    BY <2>2, WindowType
  <2>4. now' = now
    BY <1>5 DEF Check
  <2> HIDE DEF k, t, ttl
  \* A signature that was accepted and whose window lasts has a live record.
  <2>5. ASSUME NEW x \in Sig, NEW m \in Location, accepts[x] # 0,
               now <= WindowEnd(x, m)
        PROVE  /\ Live(NonceOf[x], t)
               /\ record[NonceOf[x]] >= WindowEnd(x, m)
               /\ NonceOf[x] \in Key
    <3>1. record[NonceOf[x]] >= WindowEnd(x, m)
      BY <1>1, <2>5 DEF AcceptedOnRecord
    <3>2. NonceOf[x] \in Key /\ WindowEnd(x, m) \in Nat
      BY WindowAssumption DEF WindowEnd
    <3>3. record[NonceOf[x]] >= now
      BY <2>2, <2>5, <3>1, <3>2
    <3> QED BY <1>1, <3>1, <3>2, <3>3, LiveForAll DEF t
  <2>6. out.rc = "OK" /\ now <= WindowEnd(s, l) => accepts[s] = 0
    BY <2>1, <2>5 DEF ZoneStep, k
  <2>7. NoReplay'
    BY <1>1, <2>1, <2>2, <2>6 DEF NoReplay
  <2>8. AcceptedOnRecord'
    <3> SUFFICES ASSUME NEW x \in Sig, NEW m \in Location,
                        accepts'[x] # 0, now <= WindowEnd(x, m)
                 PROVE  record'[NonceOf[x]] >= WindowEnd(x, m)
      BY <2>4 DEF AcceptedOnRecord, WindowEnd
    <3>1. CASE accepts[x] # 0
      BY <2>1, <2>5, <3>1 DEF ZoneStep
    <3>2. CASE accepts[x] = 0
      <4>1. x = s /\ out.rc = "OK"
        BY <2>1, <2>2, <3>2
      <4>2. record'[k] = t + ttl
        BY <2>1, <4>1 DEF ZoneStep
      <4>3. WindowEnd(x, m) = WindowEnd(s, l)
        BY <4>1 DEF WindowEnd, UniformSkew
      <4> QED BY <2>3, <4>1, <4>2, <4>3 DEF k
    <3> QED BY <3>1, <3>2
  <2> QED BY <1>1, <2>7, <2>8 DEF ReplayInv
<1> QED BY <1>2, <1>3, <1>4, <1>5 DEF NonceNext

\* With one max_skew for every location, no signature is accepted twice within
\* its window, by any workers with any clock lags.
THEOREM ReplayRejected == ASSUME UniformSkew PROVE NonceSpec => []NoReplay
<1>1. ReplayInv => NoReplay
  BY DEF ReplayInv
<1> QED BY <1>1, ReplayInit, ReplayNext, PTL DEF NonceSpec

-----------------------------------------------------------------------------
(* The zone implements ReplayGuard. *)

\* A nonce without a record that is live in real time is one that no accepted
\* signature still needs.
LEMMA UnneededNonce ==
    ASSUME ReplayInv, NEW k \in Key, record[k] < now
    PROVE  k \in Guard!Free(OpenAt(now))
<1> SUFFICES ASSUME NEW s \in Sig, accepts[s] # 0, s \in OpenAt(now), NonceOf[s] = k
             PROVE  FALSE
  BY DEF Guard!Free
<1>1. PICK l \in Location : now <= WindowEnd(s, l)
  BY DEF OpenAt
<1>2. record[k] >= WindowEnd(s, l)
  BY <1>1 DEF ReplayInv, AcceptedOnRecord
<1>3. record[k] \in Nat /\ now \in Nat /\ WindowEnd(s, l) \in Nat
  BY WindowAssumption DEF ReplayInv, ZoneInv, NonceTypeOK, WindowEnd
<1> QED BY <1>1, <1>2, <1>3

\* A check is one of the answers the contract allows.
LEMMA CheckAnswers ==
    ASSUME UniformSkew, ReplayInv, NEW w \in Worker, NEW s \in Sig,
           NEW l \in Location, Check(w, s, l)
    PROVE  Guard!Accept(s) \/ Guard!Decline(s) \/ Guard!GiveUp(s)
<1> DEFINE k == NonceOf[s]
           t == clock[w]
           ttl == StoreTtl(s, l, t)
           room == Guard!Free(OpenAt(now))
<1>1. PICK out : /\ ZoneStep(k, ttl, t, out)
                 /\ record' = out.record
                 /\ verdict' = [rc |-> out.rc, at |-> t]
                 /\ accepts' = IF out.rc = "OK" /\ now <= WindowEnd(s, l)
                               THEN [accepts EXCEPT ![s] = @ + 1] ELSE accepts
  BY CheckStep DEF ReplayInv
<1>2. /\ now' = now /\ k \in Key /\ now \in Nat /\ t \in Nat /\ t <= now
      /\ record \in [Key -> Nat] /\ accepts \in [Sig -> Nat] /\ ttl \in Nat \ {0}
  <2>1. now' = now /\ k \in Key /\ now \in Nat /\ t \in Nat /\ t <= now
        /\ record \in [Key -> Nat] /\ accepts \in [Sig -> Nat]
    BY WindowAssumption DEF Check, ReplayInv, ZoneInv, NonceTypeOK, NonceClocksOK
  <2> QED BY <2>1, WindowType
<1>3. OpenAt(now') = OpenAt(now) /\ OpenAt(now)' = OpenAt(now)
  BY <1>2 DEF OpenAt, WindowEnd
<1>4. verdict'.rc = out.rc
  BY <1>1
<1> HIDE DEF k, t, ttl, room
\* What is dropped, and a key that is written, is not needed.
<1>5. ASSUME NEW x \in Key, ~Live(x, t)
      PROVE  x \in room
  <2>1. CASE record[x] = 0
    BY <1>2, <2>1, UnneededNonce DEF room, ReplayInv, ZoneInv, NonceClocksOK
  <2>2. CASE record[x] # 0
    <3>1. record[x] < now
      BY <1>2, <1>5, <2>2 DEF Live
    <3> QED BY <3>1, UnneededNonce DEF room
  <2> QED BY <2>1, <2>2
<1>6. Stored(record') \subseteq Stored(record) \cup {k}
  BY <1>1, <1>2 DEF Stored, ZoneStep
<1>7. Stored(record) \ Stored(record') \subseteq room
  <2> SUFFICES ASSUME NEW x \in Key, record[x] # 0, record'[x] = 0
               PROVE  x \in room
    BY DEF Stored
  <2> QED BY <1>1, <1>5 DEF ZoneStep
<1>8. CASE out.rc = "OK"
  <2>1. k \in room /\ record'[k] # 0
    BY <1>1, <1>2, <1>5, <1>8 DEF ZoneStep
  <2>2. k \in Stored(record')
    BY <1>2, <2>1 DEF Stored
  <2>3. {x \in Sig : accepts'[x] # 0}
          = {x \in Sig : accepts[x] # 0} \cup ({s} \cap OpenAt(now))
    <3>1. s \in OpenAt(now) <=> now <= WindowEnd(s, l)
      BY OneWindow
    <3>2. CASE now <= WindowEnd(s, l)
      BY <1>1, <1>2, <1>8, <3>1, <3>2
    <3>3. CASE ~(now <= WindowEnd(s, l))
      BY <1>1, <1>8, <3>1, <3>3
    <3> QED BY <3>2, <3>3
  <2> QED BY <1>3, <1>4, <1>6, <1>7, <1>8, <2>1, <2>2, <2>3
          DEF Guard!Accept, Guard!Makes, room, k
<1>9. CASE out.rc = "DECLINED"
  <2>1. record' = record /\ k \in Stored(record) /\ accepts' = accepts
    BY <1>1, <1>2, <1>9 DEF ZoneStep, Live, Stored
  <2> QED BY <1>3, <1>4, <1>9, <2>1 DEF Guard!Decline, k
<1>10. CASE out.rc = "ABORT"
  <2>1. accepts' = accepts
    BY <1>1, <1>10
  <2> QED BY <1>3, <1>4, <1>6, <1>7, <1>10, <2>1 DEF Guard!GiveUp, Guard!Makes, room, k
<1> QED BY <1>1, <1>8, <1>9, <1>10 DEF ZoneStep

\* With one max_skew for every location, every behaviour of the zone is one
\* that the contract of a nonce store allows.
THEOREM ZoneImplementsGuard == ASSUME UniformSkew PROVE NonceSpec => ZoneKeepsPromise
<1>1. NonceInit => Guard!GuardInit
  BY DEF NonceInit, Guard!GuardInit, OpenAt, Stored
<1>2. ReplayInv /\ [NonceNext]_nonceVars => [Guard!GuardNext]_Guard!guardVars
  <2> SUFFICES ASSUME ReplayInv, [NonceNext]_nonceVars
               PROVE  Guard!GuardNext \/ UNCHANGED Guard!guardVars
    BY DEF Guard!guardVars
  <2>1. CASE UNCHANGED nonceVars
    BY <2>1 DEF nonceVars, Guard!guardVars, OpenAt, WindowEnd, Stored
  <2>2. CASE NonceTick
    <3>1. UNCHANGED <<record, verdict, accepts>> /\ now' = now + 1
      BY <2>2 DEF NonceTick
    <3>2. OpenAt(now)' \subseteq OpenAt(now)
      <4> SUFFICES ASSUME NEW s \in Sig, NEW l \in Location, now + 1 <= WindowEnd(s, l)
                   PROVE  now <= WindowEnd(s, l)
        BY <3>1 DEF OpenAt, WindowEnd
      <4>1. now \in Nat /\ WindowEnd(s, l) \in Nat
        BY WindowAssumption DEF ReplayInv, ZoneInv, NonceTypeOK, WindowEnd
      <4> QED BY <4>1
    <3> QED BY <3>1, <3>2 DEF Guard!GuardNext, Guard!Pass, Stored
  <2>3. ASSUME NEW w \in Worker, NonceUpdateTime(w)
        PROVE  UNCHANGED Guard!guardVars
    BY <2>3 DEF NonceUpdateTime, Guard!guardVars, OpenAt, WindowEnd, Stored
  <2>4. ASSUME NEW w \in Worker, NEW s \in Sig, NEW l \in Location, Check(w, s, l)
        PROVE  Guard!GuardNext
    BY <2>4, CheckAnswers DEF Guard!GuardNext
  <2> QED BY <2>1, <2>2, <2>3, <2>4 DEF NonceNext
<1> QED BY <1>1, <1>2, ReplayInit, ReplayNext, PTL
        DEF NonceSpec, ZoneKeepsPromise, Guard!GuardSpec

-----------------------------------------------------------------------------
(* The store gives up only when every node is live. *)

\* Nodes that can take each other's place: where some nodes have room, as many
\* or fewer others have too.
NodesAlike ==
    \A A \in Fits, B \in SUBSET Key :
        /\ IsFiniteSet(A) /\ IsFiniteSet(B)
        /\ Cardinality(B) <= Cardinality(A)
        => B \in Fits

\* What the zone holds is finite and was given room.
ZoneFits ==
    /\ IsFiniteSet(Stored(record))
    /\ Stored(record) # {} => Stored(record) \in Fits

AbortInv == ZoneInv /\ ZoneFits /\ AbortOnlyWhenLive

\* reclaim() frees something whenever a node is expired.
LEMMA ReclaimFrees ==
    ASSUME NEW f \in [Key -> Nat], IsFiniteSet(Stored(f)), NEW t \in Nat,
           NEW F \in ReclaimSets(f, t)
    PROVE  /\ F \subseteq Stored(f) /\ IsFiniteSet(F)
           /\ F = {} => Expired(f, t) = {}
           /\ Stored(Drop(f, F)) = Stored(f) \ F
<1>1. F \subseteq Expired(f, t) /\ Expired(f, t) \subseteq Stored(f)
  BY DEF ReclaimSets, Expired
<1>2. IsFiniteSet(Expired(f, t)) /\ IsFiniteSet(F)
  BY <1>1, FS_Subset
<1>3. F = {} => Expired(f, t) = {}
  <2> SUFFICES ASSUME F = {} PROVE Cardinality(Expired(f, t)) = 0
    BY <1>2, FS_EmptySet
  <2>1. Cardinality(F) = 0 /\ Cardinality(Expired(f, t)) \in Nat /\ Batch \in Nat \ {0}
    BY <1>2, FS_EmptySet, FS_CardinalityType, NonceAssumption
  <2>2. Cardinality(F) = IF Cardinality(Expired(f, t)) < Batch
                         THEN Cardinality(Expired(f, t)) ELSE Batch
    BY DEF ReclaimSets
  <2> QED BY <2>1, <2>2
<1>4. Stored(Drop(f, F)) = Stored(f) \ F
  BY DEF Stored, Drop
<1> QED BY <1>1, <1>2, <1>3, <1>4

\* Once something was freed there is room for one node more.
LEMMA FreedIsRoom ==
    ASSUME NodesAlike, NEW f \in [Key -> Nat], IsFiniteSet(Stored(f)),
           Stored(f) \in Fits, NEW F \in SUBSET Stored(f), F # {}, NEW k \in Key,
           Stored(Drop(f, F)) = Stored(f) \ F
    PROVE  HasRoom(Drop(f, F), k)
<1> DEFINE S == Stored(f)
<1>1. PICK x \in F : TRUE
  OBVIOUS
<1>2. IsFiniteSet(S \ {x}) /\ Cardinality(S \ {x}) = Cardinality(S) - 1
      /\ Cardinality(S) \in Nat
  BY <1>1, FS_RemoveElement, FS_CardinalityType
<1>3. IsFiniteSet(S \ F) /\ Cardinality(S \ F) <= Cardinality(S \ {x})
  <2>1. S \ F \in SUBSET (S \ {x})
    BY <1>1
  <2> QED BY <1>2, <2>1, FS_Subset
<1>4. IsFiniteSet((S \ F) \cup {k}) /\ Cardinality(S \ F) \in Nat
      /\ Cardinality((S \ F) \cup {k}) <= Cardinality(S \ F) + 1
  <2> DEFINE T == S \ F
  <2> HIDE DEF T
  <2>1. IsFiniteSet(T)
    BY <1>3 DEF T
  <2>2. Cardinality(T) \in Nat /\ IsFiniteSet(T \cup {k})
        /\ Cardinality(T \cup {k}) = IF k \in T THEN Cardinality(T) ELSE Cardinality(T) + 1
    BY <2>1, FS_AddElement, FS_CardinalityType
  <2> QED BY <2>2 DEF T
<1>5. Cardinality((S \ F) \cup {k}) \in Nat
  BY <1>4, FS_CardinalityType
<1>6. Cardinality((S \ F) \cup {k}) <= Cardinality(S)
  BY <1>2, <1>3, <1>4, <1>5
<1>7. (S \ F) \cup {k} \in SUBSET Key
  BY DEF Stored
<1> QED BY <1>4, <1>6, <1>7 DEF NodesAlike, HasRoom

\* One shm_check() leaves a zone that fits, and gives up only if nothing in it
\* is expired.
LEMMA ShmCheckAborts ==
    ASSUME NodesAlike, NonceTypeOK, ZoneFits, NEW k \in Key, NEW ttl \in Nat \ {0},
           NEW t \in Nat, NEW out \in ShmCheck(k, ttl, t)
    PROVE  /\ IsFiniteSet(Stored(out.record))
           /\ Stored(out.record) # {} => Stored(out.record) \in Fits
           /\ out.rc = "ABORT" => Expired(out.record, t) = {}
<1> DEFINE e == t + ttl
<1>1. record \in [Key -> Nat] /\ e \in Nat \ {0}
  BY DEF NonceTypeOK
<1>2. CASE Live(k, t)
  BY <1>2 DEF ShmCheck, ZoneFits
<1> HIDE DEF e
<1>3. CASE ~Live(k, t) /\ record[k] # 0
  <2>1. out = Write(record, k, e)
    BY <1>3 DEF ShmCheck, e
  <2>2. Stored(out.record) = Stored(record) /\ out.rc = "OK"
    BY <1>1, <1>3, <2>1 DEF Write, Stored
  <2> QED BY <2>2 DEF ZoneFits
\* What is written found room.
<1>4. ASSUME NEW f \in [Key -> Nat], IsFiniteSet(Stored(f)), HasRoom(f, k),
             out = Write(f, k, e)
      PROVE  /\ IsFiniteSet(Stored(out.record)) /\ Stored(out.record) \in Fits
             /\ out.rc = "OK"
  <2>1. Stored(out.record) = Stored(f) \cup {k} /\ out.rc = "OK"
    BY <1>1, <1>4 DEF Write, Stored
  <2> QED BY <1>4, <2>1, FS_AddElement DEF HasRoom
<1>5. CASE ~Live(k, t) /\ record[k] = 0
  <2>1. PICK F \in ReclaimSets(record, t) :
          out \in IF HasRoom(Drop(record, F), k) THEN {Write(Drop(record, F), k, e)}
                  ELSE SecondTry(Drop(record, F), k, e, t)
    BY <1>5 DEF ShmCheck, Insertions, e
  <2> DEFINE f == Drop(record, F)
  <2>2. /\ F \subseteq Stored(record) /\ (F = {} => Expired(record, t) = {})
        /\ Stored(f) = Stored(record) \ F
    BY <1>1, ReclaimFrees DEF ZoneFits
  <2>3. f \in [Key -> Nat] /\ IsFiniteSet(Stored(f))
    BY <1>1, <2>1, <2>2, DropType, FS_Subset DEF ZoneFits
  <2>4. CASE HasRoom(f, k)
    BY <1>4, <2>1, <2>3, <2>4
  <2>5. CASE ~HasRoom(f, k)
    \* Then nothing was freed, because nothing is expired.
    <3>1. F = {}
      BY <1>1, <2>2, <2>5, FreedIsRoom DEF ZoneFits
    <3>2. f = record
      BY <1>1, <3>1 DEF Drop
    <3>3. PICK G \in ReclaimSets(record, t) :
            out = IF G # {} /\ HasRoom(Drop(record, G), k) THEN Write(Drop(record, G), k, e)
                  ELSE [rc |-> "ABORT", record |-> Drop(record, G)]
      BY <2>1, <2>5, <3>2 DEF SecondTry
    <3>4. Expired(record, t) = {} /\ G = {}
      BY <2>2, <3>1, <3>3 DEF ReclaimSets
    <3>5. Drop(record, G) = record
      BY <1>1, <3>4 DEF Drop
    <3> QED BY <3>3, <3>4, <3>5 DEF ZoneFits
  <2> QED BY <2>4, <2>5
<1> QED BY <1>2, <1>3, <1>5

\* An empty zone, and no check yet.
LEMMA AbortInit == NonceInit => AbortInv
BY ZoneInvInit, FS_EmptySet DEF NonceInit, AbortInv, ZoneFits, AbortOnlyWhenLive, Stored

\* Every step keeps AbortInv.
LEMMA AbortNext ==
    ASSUME NodesAlike
    PROVE  AbortInv /\ [NonceNext]_nonceVars => AbortInv'
<1> SUFFICES ASSUME AbortInv, [NonceNext]_nonceVars PROVE AbortInv'
  OBVIOUS
<1>1. ZoneInv /\ ZoneInv'
  BY ZoneInvNext DEF AbortInv
<1>2. CASE UNCHANGED <<record, verdict>>
  BY <1>1, <1>2 DEF AbortInv, ZoneFits, AbortOnlyWhenLive, Expired, Stored
<1>3. ASSUME NEW w \in Worker, NEW s \in Sig, NEW l \in Location, Check(w, s, l)
      PROVE  AbortInv'
  <2> DEFINE k == NonceOf[s]
             t == clock[w]
             ttl == StoreTtl(s, l, t)
  <2>1. PICK out \in ShmCheck(k, ttl, t) :
          record' = out.record /\ verdict' = [rc |-> out.rc, at |-> t]
    BY <1>3 DEF Check
  <2>2. k \in Key /\ t \in Nat
    BY <1>1, WindowAssumption DEF ZoneInv, NonceTypeOK
  <2>3. ttl \in Nat \ {0}
    BY <2>2, WindowType
  <2> HIDE DEF k, t, ttl
  <2>4. /\ IsFiniteSet(Stored(out.record))
        /\ Stored(out.record) # {} => Stored(out.record) \in Fits
        /\ out.rc = "ABORT" => Expired(out.record, t) = {}
    BY <1>1, <2>1, <2>2, <2>3, ShmCheckAborts DEF AbortInv, ZoneInv
  <2> QED BY <1>1, <2>1, <2>4 DEF AbortInv, ZoneFits, AbortOnlyWhenLive, Expired, Stored
<1> QED BY <1>2, <1>3 DEF NonceNext, NonceTick, NonceUpdateTime, nonceVars

\* Where nodes can take each other's place, a check is refused for want of
\* room only when every node of the zone is live: one reclaim() always makes
\* room for one node.
THEOREM AbortsWhenFull == ASSUME NodesAlike PROVE NonceSpec => []AbortOnlyWhenLive
<1>1. AbortInv => AbortOnlyWhenLive
  BY DEF AbortInv
<1> QED BY <1>1, AbortInit, AbortNext, PTL DEF NonceSpec
=============================================================================
