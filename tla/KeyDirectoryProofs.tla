------------------------- MODULE KeyDirectoryProofs -------------------------
(***************************************************************************)
(* TLAPS proofs about KeyDirectory, for every set of hosts, workers and    *)
(* request slots and every value of the bounds.                            *)
(***************************************************************************)
EXTENDS KeyDirectory, DirectoryProofs, FiniteSetTheorems, TLAPS

-----------------------------------------------------------------------------
(* Types of the operators the actions are made of. *)

\* A fresh request context is well typed.
LEMMA FreshReqType == \A h \in Host : FreshReq(h) \in Req
BY DEF FreshReq, Req, Phase

\* An empty request slot is well typed.
LEMMA IdleReqType == IdleReq \in Req
BY FreshReqType, DirectoryAssumption DEF IdleReq

\* directory_fail_open() yields a well-typed context.
LEMMA FailOpenType == \A q \in Req : FailOpen(q) \in Req
BY DEF FailOpen, Req, Phase

\* Serving a cached document yields a well-typed context.
LEMMA ServeType ==
    \A h \in Host, doc, gen \in Nat, pc \in Phase : Serve(h, doc, gen, pc) \in Req
BY DEF Serve, FreshReq, Req, Phase

\* The worker of a slot has a clock.
LEMMA TimeType == TypeOK => \A r \in Request : /\ WorkerOf[r] \in Worker
                                               /\ Time(r) \in Nat
BY DirectoryAssumption DEF TypeOK, Time

\* Whatever the origin answered, directory_done() stores the document for a
\* time between the configured bounds.
LEMMA StoredWithinBounds ==
    ASSUME NEW r \in Request, DirectoryStores(r)
    PROVE  \E a \in StoreAllocs(req[r].host, Time(r)), ok \in BOOLEAN,
              ttl \in MinTtl .. MaxTtl :
          /\ Store(req[r].host, req[r].answer, Time(r) + ttl, Time(r), a, ok)
          /\ req' = [req EXCEPT ![r].pc = "ready",
                                ![r].since = 0, ![r].answer = 0,
                                ![r].jwks = req[r].answer,
                                ![r].generation =
                                    StoredGeneration(req[r].host, a, ok)]
<1>1. PICK a \in StoreAllocs(req[r].host, Time(r)), ok \in BOOLEAN,
           resp \in Responses :
        /\ Store(req[r].host, req[r].answer,
                 Time(r) + DirectoryTtl(resp.cache_control, resp.age,
                                        MinTtl, MaxTtl), Time(r), a, ok)
        /\ req' = [req EXCEPT ![r].pc = "ready",
                              ![r].since = 0, ![r].answer = 0,
                              ![r].jwks = req[r].answer,
                              ![r].generation =
                                  StoredGeneration(req[r].host, a, ok)]
  BY DEF DirectoryStores
<1>2. resp.cache_control \in Seq(Directive) /\ resp.age \in Nat
  BY DirectoryAssumption DEF Response
<1>3. DirectoryTtl(resp.cache_control, resp.age, MinTtl, MaxTtl)
        \in MinTtl .. MaxTtl
  BY <1>2, TtlAssumption, TtlInBounds
<1> QED BY <1>1, <1>3

\* A zeroed node is a node, and claiming one leaves it a node.
LEMMA NodeTypes ==
    /\ ZeroNode \in Node
    /\ \A n \in Node, t \in Nat : ClaimedNode(n, t) \in Node
BY DEF ZeroNode, Node, ClaimedNode

\* alloc_node() evicts only expired nodes nobody is fetching.
LEMMA AllocOutcome ==
    ASSUME NEW t, NEW a \in AllocOutcomes(t)
    PROVE  a.ok \in BOOLEAN /\ a.evicted \subseteq Victims(t)
<1>1. CASE a = [evicted |-> {}, ok |-> TRUE]
  BY <1>1
<1>2. CASE a = [evicted |-> {}, ok |-> FALSE]
  BY <1>2
<1>3. CASE \E v \in Victims(t), b \in BOOLEAN : a = [evicted |-> {v}, ok |-> b]
  BY <1>3
<1> QED BY <1>1, <1>2, <1>3 DEF AllocOutcomes

\* Node allocation keeps the zone well typed.
LEMMA AllocType ==
    ASSUME ZoneTypeOK, NEW h \in Host, NEW a, NEW n \in Node
    PROVE  /\ TreeAfter(a, h) \subseteq Host
           /\ NodesAfter(a, h, n) \in [Host -> Node]
<1>1. TreeAfter(a, h) \subseteq Host
  BY DEF ZoneTypeOK, TreeAfter
<1>2. NodesAfter(a, h, n) \in [Host -> Node]
  BY NodeTypes DEF ZoneTypeOK, NodesAfter
<1> QED BY <1>1, <1>2

\* store() writes a well-typed node.
LEMMA StoreTypes ==
    ASSUME ZoneTypeOK, NEW h \in Host, NEW doc \in Nat, NEW e \in Nat,
           NEW t \in Nat
    PROVE  /\ NextGeneration(h) \in Nat
           /\ TargetNode(h) \in Node
           /\ StoreNode(h, doc, e) \in Node
           /\ StoreNoRoomNode(h, t) \in Node
<1>1. NextGeneration(h) \in Nat
  BY DEF ZoneTypeOK, NextGeneration
<1>2. TargetNode(h) \in Node
  BY NodeTypes DEF ZoneTypeOK, TargetNode
<1>3. StoreNode(h, doc, e) \in Node
  BY <1>1, <1>2 DEF StoreNode, Node
<1>4. StoreNoRoomNode(h, t) \in Node
  <2>1. t + MinTtl \in Nat
    BY TtlAssumption
  <2> QED BY <1>2, <2>1 DEF StoreNoRoomNode, Node
<1> QED BY <1>1, <1>2, <1>3, <1>4

\* release() keeps the zone well typed.
LEMMA ReleaseType ==
    ASSUME ZoneTypeOK, NEW h \in Host, NEW e \in Nat, Release(h, e)
    PROVE  ZoneTypeOK'
<1>1. [node[h] EXCEPT !.fetching = FALSE, !.fetching_since = 0,
                      !.expires_at = e] \in Node
  BY DEF ZoneTypeOK, Node
<1>2. node' \in [Host -> Node]
  BY <1>1 DEF Release, ZoneTypeOK
<1> QED BY <1>2 DEF Release, ZoneTypeOK

\* The parsed-key cache keeps its type through get() and put().
LEMMA KeysCacheTypes ==
    ASSUME NEW kc \in [Host -> Slot], NEW h \in Host, NEW gen \in Nat,
           NEW keys \in Nat
    PROVE  /\ CacheGet(kc, h) \in [Host -> Slot]
           /\ CachePut(kc, h, gen, keys) \in [Host -> Slot]
<1>1. FreeSlot \in Slot
  BY DEF FreeSlot, Slot
<1>2. ASSUME NEW c \in [Host -> Slot], NEW old
      PROVE  Touch(c, h, old) \in [Host -> Slot]
  BY DEF Touch, Slot
<1>3. CacheGet(kc, h) \in [Host -> Slot]
  BY <1>2 DEF CacheGet
<1>4. [x \in DOMAIN kc |-> IF x \in Evicted(kc, h) THEN FreeSlot ELSE kc[x]]
        \in [Host -> Slot]
  BY <1>1
<1>5. [generation |-> gen, keys |-> keys, age |-> 0] \in Slot
  BY DEF Slot
<1>6. CachePut(kc, h, gen, keys) \in [Host -> Slot]
  BY <1>2, <1>4, <1>5 DEF CachePut
<1> QED BY <1>3, <1>6

\* resolve_keys() yields a key set and a well-typed parsed-key cache.
LEMMA ResolutionsType ==
    ASSUME NEW kc \in [Host -> Slot], NEW h \in Host, NEW doc \in Nat,
           NEW gen \in Nat, NEW res \in Resolutions(kc, h, doc, gen)
    PROVE  /\ res.keys \in Nat
           /\ res.kc \in [Host -> Slot]
<1>1. kc[h].keys \in Nat
  BY DEF Slot
<1> QED BY <1>1, KeysCacheTypes DEF Resolutions

-----------------------------------------------------------------------------
(* Type correctness. *)

\* The types hold initially.
LEMMA InitType == Init => TypeOK
<1> SUFFICES ASSUME Init PROVE TypeOK
  OBVIOUS
<1>1. ZoneTypeOK
  BY NodeTypes DEF Init, ZoneInit, ZoneTypeOK
<1>2. local \in [Worker -> [Host -> Slot]]
  BY DEF Init, EmptyKeysCache, FreeSlot, Slot
<1> QED BY <1>1, <1>2, IdleReqType DEF Init, TypeOK

\* Every step keeps the types.
LEMMA NextType == TypeOK /\ [Next]_vars => TypeOK'
<1> SUFFICES ASSUME TypeOK, [Next]_vars PROVE TypeOK'
  OBVIOUS
<1> USE TimeType
<1>1. CASE UNCHANGED vars
  BY <1>1 DEF vars, TypeOK, ZoneTypeOK
<1>2. CASE Tick
  <2>1. now' \in Nat /\ clock' \in [Worker -> Nat]
    BY <1>2, DirectoryAssumption DEF Tick, TypeOK
  <2> QED BY <1>2, <2>1 DEF Tick, TypeOK, ZoneTypeOK, zoneVars, reqVars
<1>3. ASSUME NEW w \in Worker, UpdateTime(w)
      PROVE  TypeOK'
  BY <1>3 DEF UpdateTime, TypeOK, ZoneTypeOK, zoneVars, reqVars
<1>4. ASSUME NEW w \in Worker, Crash(w)
      PROVE  TypeOK'
  <2>1. req' \in [Request -> Req]
    BY <1>4, IdleReqType DEF Crash, TypeOK
  <2>2. local' \in [Worker -> [Host -> Slot]]
    BY <1>4 DEF Crash, TypeOK, EmptyKeysCache, FreeSlot, Slot
  <2> QED BY <1>4, <2>1, <2>2 DEF Crash, TypeOK, ZoneTypeOK, zoneVars, history
<1>5. ASSUME NEW h \in Host, Publish(h)
      PROVE  TypeOK'
  BY <1>5 DEF Publish, TypeOK, ZoneTypeOK, zoneVars, reqVars
<1>6. ASSUME NEW r \in Request, NEW h \in Host, LookupHit(r, h)
      PROVE  TypeOK'
  <2>1. PICK res \in Resolutions(local[WorkerOf[r]], h, node[h].jwks,
                                 node[h].generation)
                     \cup {[keys |-> 0, kc |-> local[WorkerOf[r]]]},
             covered \in BOOLEAN :
           /\ local' = [local EXCEPT ![WorkerOf[r]] = res.kc]
           /\ req' = [req EXCEPT ![r] =
                         Serve(h, node[h].jwks, node[h].generation,
                               IF covered \/ res.keys = 0 THEN "ready"
                               ELSE "uncovered")]
    BY <1>6 DEF LookupHit
  <2>2. node[h].jwks \in Nat /\ node[h].generation \in Nat
    BY DEF TypeOK, ZoneTypeOK, Node
  <2>3. res.kc \in [Host -> Slot]
    <3>1. local[WorkerOf[r]] \in [Host -> Slot]
      BY DirectoryAssumption DEF TypeOK
    <3>2. CASE res = [keys |-> 0, kc |-> local[WorkerOf[r]]]
      BY <3>1, <3>2
    <3>3. CASE res \in Resolutions(local[WorkerOf[r]], h, node[h].jwks,
                                   node[h].generation)
      BY <2>2, <3>1, <3>3, ResolutionsType
    <3> QED BY <2>1, <3>2, <3>3
  <2>4. local' \in [Worker -> [Host -> Slot]]
    BY <2>1, <2>3 DEF TypeOK
  <2>5. req' \in [Request -> Req]
    BY <2>1, <2>2, ServeType DEF TypeOK, Phase
  <2> QED BY <1>6, <2>4, <2>5 DEF LookupHit, TypeOK, ZoneTypeOK, zoneVars, envVars, history
<1>7. ASSUME NEW r \in Request, NEW h \in Host, LookupStale(r, h)
      PROVE  TypeOK'
  <2>1. node[h].jwks \in Nat /\ node[h].generation \in Nat
    BY DEF TypeOK, ZoneTypeOK, Node
  <2>2. req' \in [Request -> Req]
    BY <1>7, <2>1, ServeType DEF LookupStale, TypeOK, Phase
  <2> QED BY <1>7, <2>2 DEF LookupStale, TypeOK, ZoneTypeOK, zoneVars, envVars, history
<1>8. ASSUME NEW r \in Request, NEW h \in Host, LookupFailOpen(r, h)
      PROVE  TypeOK'
  <2>1. req' \in [Request -> Req]
    BY <1>8, FreshReqType, FailOpenType DEF LookupFailOpen, TypeOK
  <2> QED BY <1>8, <2>1 DEF LookupFailOpen, TypeOK, ZoneTypeOK, zoneVars, envVars, history
<1>9. ASSUME NEW h \in Host
      PROVE  [FreshReq(h) EXCEPT !.pc = "claimed", !.since = now] \in Req
  BY DEF TypeOK, FreshReq, Req, Phase
<1>10. ASSUME NEW r \in Request, NEW h \in Host, LookupClaims(r, h)
       PROVE  TypeOK'
  <2>1. req' \in [Request -> Req]
    BY <1>9, <1>10 DEF LookupClaims, TypeOK
  <2>2. ZoneTypeOK'
    BY <1>10, NodeTypes DEF LookupClaims, LookupClaim, TypeOK, ZoneTypeOK
  <2> QED BY <1>10, <2>1, <2>2 DEF LookupClaims, TypeOK, envVars, history
<1>11. ASSUME NEW r \in Request, NEW h \in Host, LookupAllocates(r, h)
       PROVE  TypeOK'
  <2>1. PICK a \in AllocOutcomes(Time(r)) :
          /\ LookupAlloc(h, Time(r), a)
          /\ req' = [req EXCEPT ![r] =
                        IF a.ok THEN [FreshReq(h) EXCEPT !.pc = "claimed",
                                                         !.since = now]
                        ELSE FailOpen(FreshReq(h))]
    BY <1>11 DEF LookupAllocates
  <2>2. req' \in [Request -> Req]
    BY <1>9, <2>1, FreshReqType, FailOpenType DEF TypeOK
  <2>3. ZoneTypeOK'
    <3>1. ClaimedNode(ZeroNode, Time(r)) \in Node
      BY NodeTypes
    <3> QED BY <2>1, <3>1, AllocType DEF LookupAlloc, TypeOK, ZoneTypeOK
  <2> QED BY <1>11, <2>2, <2>3 DEF LookupAllocates, TypeOK, envVars, history
<1>12. ASSUME NEW r \in Request
       PROVE  req[r] \in Req /\ req[r].host \in Host
  BY DEF TypeOK, Req
<1>13. ASSUME NEW r \in Request, RotationGranted(r)
       PROVE  TypeOK'
  <2>1. [ClaimedNode(node[req[r].host], Time(r)) EXCEPT
            !.forced_refetch_at = Time(r)] \in Node
    <3>1. \A n \in Node, t \in Nat : [n EXCEPT !.forced_refetch_at = t] \in Node
      BY DEF Node
    <3>2. ClaimedNode(node[req[r].host], Time(r)) \in Node
      BY <1>12, NodeTypes DEF TypeOK, ZoneTypeOK
    <3> QED BY <3>1, <3>2
  <2>2. ZoneTypeOK'
    BY <1>12, <1>13, <2>1 DEF RotationGranted, RotationClaim, TypeOK, ZoneTypeOK
  <2>3. req' \in [Request -> Req]
    BY <1>12, <1>13 DEF RotationGranted, TypeOK, Req, Phase
  <2>4. lastRescue' \in [Host -> Nat]
    BY <1>12, <1>13 DEF RotationGranted, TypeOK
  <2> QED BY <1>13, <2>2, <2>3, <2>4 DEF RotationGranted, TypeOK, envVars
<1>14. ASSUME NEW r \in Request, RotationDeclined(r)
       PROVE  TypeOK'
  <2>1. req' \in [Request -> Req]
    BY <1>12, <1>14 DEF RotationDeclined, TypeOK, Req, Phase
  <2> QED BY <1>14, <2>1 DEF RotationDeclined, TypeOK, ZoneTypeOK, zoneVars, envVars, history
<1>15. ASSUME NEW r \in Request, Release(req[r].host, Time(r) + MinTtl),
              Ends(req[r].host, Time(r)), req' \in [Request -> Req],
              UNCHANGED <<envVars, local>>
       PROVE  TypeOK'
  <2>1. Time(r) + MinTtl \in Nat
    BY TtlAssumption
  <2>2. ZoneTypeOK'
    BY <1>12, <1>15, <2>1, ReleaseType DEF TypeOK
  <2>3. lastEnd' \in [Host -> Nat]
    BY <1>12, <1>15 DEF Ends, TypeOK
  <2> QED BY <1>15, <2>2, <2>3 DEF Ends, TypeOK, envVars
<1>16. ASSUME NEW r \in Request, PostFails(r)
       PROVE  TypeOK'
  <2>1. req' \in [Request -> Req]
    BY <1>12, <1>16, FailOpenType DEF PostFails, TypeOK
  <2> QED BY <1>15, <1>16, <2>1 DEF PostFails
<1>17. ASSUME NEW r \in Request, OriginAnswers(r)
       PROVE  TypeOK'
  <2>1. PICK doc \in {0, origin[req[r].host]} :
          req' = [req EXCEPT ![r].pc = "answered", ![r].answer = doc]
    BY <1>17 DEF OriginAnswers
  <2>2. doc \in Nat
    BY <1>12, <2>1 DEF TypeOK
  <2>3. req' \in [Request -> Req]
    BY <1>12, <2>1, <2>2 DEF TypeOK, Req, Phase
  <2> QED BY <1>17, <2>3 DEF OriginAnswers, TypeOK, ZoneTypeOK, zoneVars, envVars, history
<1>18. ASSUME NEW r \in Request, DirectoryStores(r)
       PROVE  TypeOK'
  <2> DEFINE h == req[r].host
  <2>1. PICK a \in StoreAllocs(h, Time(r)), ok \in BOOLEAN, ttl \in MinTtl .. MaxTtl :
          /\ Store(h, req[r].answer, Time(r) + ttl, Time(r), a, ok)
          /\ req' = [req EXCEPT ![r].pc = "ready",
                                ![r].since = 0, ![r].answer = 0,
                                ![r].jwks = req[r].answer,
                                ![r].generation = StoredGeneration(h, a, ok)]
    BY <1>18, StoredWithinBounds
  <2>2. h \in Host /\ req[r].answer \in Nat /\ Time(r) + ttl \in Nat
    BY <1>12, TtlAssumption DEF Req
  <2>3. ZoneTypeOK
    BY DEF TypeOK
  <2> HIDE DEF h
  <2>4. /\ NextGeneration(h) \in Nat
        /\ StoreNode(h, req[r].answer, Time(r) + ttl) \in Node
        /\ StoreNoRoomNode(h, Time(r)) \in Node
    BY <2>2, <2>3, StoreTypes
  <2>5. ZoneTypeOK'
    <3>1. ASSUME NEW n \in Node, tree' = TreeAfter(a, h),
                 node' = NodesAfter(a, h, n), generation' \in Nat
          PROVE  ZoneTypeOK'
      BY <2>2, <2>3, <3>1, AllocType DEF ZoneTypeOK
    <3>2. generation' \in Nat
      BY <2>1, <2>3, <2>4 DEF Store, ZoneTypeOK
    <3> QED BY <2>1, <2>4, <3>1, <3>2 DEF Store
  <2>6. StoredGeneration(h, a, ok) \in Nat
    BY <2>4 DEF StoredGeneration
  <2>7. req' \in [Request -> Req]
    <3>1. ASSUME NEW doc \in Nat, NEW gen \in Nat
          PROVE  [req[r] EXCEPT !.pc = "ready", !.since = 0, !.answer = 0,
                                !.jwks = doc, !.generation = gen] \in Req
      BY <1>12 DEF Req, Phase
    <3> QED BY <2>1, <2>2, <2>6, <3>1 DEF TypeOK
  <2>8. lastEnd' \in [Host -> Nat]
    BY <1>18, <2>2 DEF DirectoryStores, Ends, TypeOK, h
  <2> QED BY <1>18, <2>5, <2>7, <2>8 DEF DirectoryStores, Ends, TypeOK, envVars
<1>19. ASSUME NEW r \in Request, DirectoryRejects(r)
       PROVE  TypeOK'
  <2>1. req' \in [Request -> Req]
    BY <1>12, <1>19, FailOpenType DEF DirectoryRejects, TypeOK
  <2> QED BY <1>15, <1>19, <2>1 DEF DirectoryRejects
<1>20. ASSUME NEW r \in Request, Cleanup(r)
       PROVE  TypeOK'
  <2>1. req' \in [Request -> Req]
    BY <1>20, IdleReqType DEF Cleanup, TypeOK
  <2> QED BY <1>15, <1>20, <2>1 DEF Cleanup
<1>21. ASSUME NEW r \in Request, Evaluate(r)
       PROVE  TypeOK'
  <2>1. PICK res \in ResolvedKeys(r) :
          local' = [local EXCEPT ![WorkerOf[r]] = res.kc]
    BY <1>21 DEF Evaluate
  <2>2. req[r].jwks \in Nat /\ req[r].generation \in Nat
    BY <1>12 DEF Req
  <2>3. res.kc \in [Host -> Slot]
    BY <1>12, <2>2, ResolutionsType DEF ResolvedKeys, TypeOK
  <2>4. local' \in [Worker -> [Host -> Slot]]
    BY <2>1, <2>3 DEF TypeOK
  <2>5. req' \in [Request -> Req]
    BY <1>21, IdleReqType DEF Evaluate, TypeOK
  <2> QED BY <1>21, <2>4, <2>5 DEF Evaluate, TypeOK, ZoneTypeOK, zoneVars, envVars, history
<1> QED
  BY <1>1, <1>2, <1>3, <1>4, <1>5, <1>6, <1>7, <1>8, <1>10, <1>11, <1>13,
     <1>14, <1>16, <1>17, <1>18, <1>19, <1>20, <1>21
  DEF Next, Lookup, Progress, Interruption

\* Every variable of the key directory keeps its type.
THEOREM TypeCorrect == Spec => []TypeOK
BY InitType, NextType, PTL DEF Spec

-----------------------------------------------------------------------------
(* At most one fetch of a host in flight. *)

\* No worker's clock is ahead of real time, or more than MaxLag behind it.
ClocksOK == \A w \in Worker : clock[w] <= now /\ now <= clock[w] + MaxLag

\* A claim is at most MaxFetch old.
ClaimsBounded ==
    \A r \in Request : req[r].pc \in Holding =>
        req[r].since <= now /\ now <= req[r].since + MaxFetch

\* A claim is recorded on its host's node, at the time it was made.
ClaimsRecorded ==
    \A r \in Request : req[r].pc \in Holding =>
        /\ req[r].host \in tree
        /\ node[req[r].host].fetching
        /\ req[r].since <= node[req[r].host].fetching_since + MaxLag

\* SingleFlight is not inductive: that lookup() does not take over a live
\* claim follows from where and when the claim was recorded.
ClaimInv == TypeOK /\ ClocksOK /\ ClaimsBounded /\ ClaimsRecorded /\ SingleFlight

\* The claim of the request in slot r, if any, ends or does not come about,
\* and the nodes of the other claims are left alone.
LEMMA ClaimDropped ==
    ASSUME ClaimInv, TypeOK', NEW r \in Request, UNCHANGED <<now, clock>>,
           \A s \in Request \ {r} : req'[s] = req[s],
           req'[r].pc \notin Holding,
           \A s \in Request \ {r} : req[s].pc \in Holding =>
               /\ req[s].host \in tree'
               /\ node'[req[s].host] = node[req[s].host]
    PROVE  ClaimInv'
<1>1. \A s \in Request : req'[s].pc \in Holding => s # r /\ req'[s] = req[s]
  OBVIOUS
<1>2. ClocksOK'
  BY DEF ClaimInv, ClocksOK
<1>3. ClaimsBounded'
  BY <1>1 DEF ClaimInv, ClaimsBounded
<1>4. ClaimsRecorded'
  BY <1>1 DEF ClaimInv, ClaimsRecorded
<1>5. SingleFlight'
  BY <1>1 DEF ClaimInv, SingleFlight
<1> QED BY <1>2, <1>3, <1>4, <1>5 DEF ClaimInv

\* The request in slot r holds a recorded claim that no other request holds,
\* and the nodes of the other claims are left alone.
LEMMA ClaimTaken ==
    ASSUME ClaimInv, TypeOK', NEW r \in Request, UNCHANGED <<now, clock>>,
           \A s \in Request \ {r} : req'[s] = req[s],
           \A s \in Request \ {r} : req[s].pc \in Holding =>
               /\ req[s].host # req'[r].host
               /\ req[s].host \in tree'
               /\ node'[req[s].host] = node[req[s].host],
           req'[r].since <= now, now <= req'[r].since + MaxFetch,
           req'[r].host \in tree',
           node'[req'[r].host].fetching,
           req'[r].since <= node'[req'[r].host].fetching_since + MaxLag
    PROVE  ClaimInv'
<1>1. ClocksOK'
  BY DEF ClaimInv, ClocksOK
<1>2. ClaimsBounded'
  BY DEF ClaimInv, ClaimsBounded
<1>3. ClaimsRecorded'
  BY DEF ClaimInv, ClaimsRecorded
<1>4. SingleFlight'
  BY DEF ClaimInv, SingleFlight
<1> QED BY <1>1, <1>2, <1>3, <1>4 DEF ClaimInv

\* A claim on h keeps every worker from taking over: the host is BUSY.
LEMMA ClaimedIsBusy ==
    ASSUME BoundedFetch, ClaimInv, NEW r \in Request, NEW s \in Request,
           req[s].pc \in Holding
    PROVE  Busy(req[s].host, Time(r))
<1>1. req[s].host \in Host /\ req[s].since \in Nat
  BY DEF ClaimInv, TypeOK, Req
<1>2. node[req[s].host].fetching_since \in Nat
  BY <1>1 DEF ClaimInv, TypeOK, ZoneTypeOK, Node
<1>3. Time(r) \in Nat /\ Time(r) <= now /\ now \in Nat
  BY TimeType DEF ClaimInv, ClocksOK, Time, TypeOK
<1>4. now <= node[req[s].host].fetching_since + MaxLag + MaxFetch
  BY <1>1, <1>2, <1>3, DirectoryAssumption
  DEF ClaimInv, ClaimsBounded, ClaimsRecorded
<1>5. Time(r) - node[req[s].host].fetching_since < FetchTimeout
  BY <1>2, <1>3, <1>4, DirectoryAssumption, TtlAssumption DEF BoundedFetch
<1> QED BY <1>5 DEF Busy, ClaimInv, ClaimsRecorded

\* No claim is held initially.
LEMMA InitClaim == Init => ClaimInv
<1> SUFFICES ASSUME Init PROVE ClaimInv
  OBVIOUS
<1>1. \A r \in Request : req[r].pc \notin Holding
  BY DEF Init, IdleReq, FreshReq, Holding
<1>2. ClocksOK
  BY DirectoryAssumption DEF Init, ClocksOK
<1> QED BY <1>1, <1>2, InitType
        DEF ClaimInv, ClaimsBounded, ClaimsRecorded, SingleFlight

\* Every step keeps ClaimInv.
LEMMA NextClaim == ASSUME BoundedFetch PROVE ClaimInv /\ [Next]_vars => ClaimInv'
<1> SUFFICES ASSUME ClaimInv, [Next]_vars PROVE ClaimInv'
  OBVIOUS
<1> USE TimeType
<1>1. TypeOK /\ TypeOK'
  BY NextType DEF ClaimInv
<1>2. CASE UNCHANGED vars
  BY <1>1, <1>2 DEF vars, ClaimInv, ClocksOK, ClaimsBounded, ClaimsRecorded, SingleFlight
<1>3. CASE Tick
  <2>1. ClocksOK'
    BY <1>1, <1>3, DirectoryAssumption DEF Tick, ClaimInv, ClocksOK, TypeOK
  <2>2. ClaimsBounded'
    <3> SUFFICES ASSUME NEW r \in Request, req[r].pc \in Holding
                 PROVE  req[r].since <= now + 1 /\ now + 1 <= req[r].since + MaxFetch
      BY <1>3 DEF Tick, reqVars, ClaimsBounded
    <3>1. req[r].since \in Nat /\ now \in Nat
      BY <1>1 DEF TypeOK, Req
    <3> QED BY <1>3, <3>1, DirectoryAssumption DEF Tick, ClaimInv, ClaimsBounded
  <2> QED BY <1>1, <1>3, <2>1, <2>2
          DEF Tick, zoneVars, reqVars, ClaimInv, ClaimsRecorded, SingleFlight
<1>4. ASSUME NEW w \in Worker, UpdateTime(w)
      PROVE  ClaimInv'
  <2>1. ClocksOK'
    BY <1>1, <1>4, DirectoryAssumption DEF UpdateTime, ClaimInv, ClocksOK, TypeOK
  <2> QED BY <1>1, <1>4, <2>1
          DEF UpdateTime, zoneVars, reqVars, ClaimInv, ClaimsBounded, ClaimsRecorded,
              SingleFlight
<1>5. ASSUME NEW w \in Worker, Crash(w)
      PROVE  ClaimInv'
  <2>1. \A s \in Request : req'[s].pc \in Holding => req'[s] = req[s]
    BY <1>5 DEF Crash, IdleReq, FreshReq, Holding
  <2> QED BY <1>1, <1>5, <2>1
          DEF Crash, zoneVars, ClaimInv, ClocksOK, ClaimsBounded, ClaimsRecorded,
              SingleFlight
<1>6. ASSUME NEW h \in Host, Publish(h)
      PROVE  ClaimInv'
  BY <1>1, <1>6 DEF Publish, zoneVars, reqVars, ClaimInv, ClocksOK, ClaimsBounded,
                    ClaimsRecorded, SingleFlight
<1>7. ASSUME NEW r \in Request, NEW q, req' = [req EXCEPT ![r] = q],
             q.pc \notin Holding, UNCHANGED zoneVars, UNCHANGED envVars
      PROVE  ClaimInv'
  <2>1. req'[r].pc \notin Holding /\ \A s \in Request \ {r} : req'[s] = req[s]
    BY <1>1, <1>7 DEF TypeOK
  <2>2. \A s \in Request \ {r} : req[s].pc \in Holding =>
               /\ req[s].host \in tree'
               /\ node'[req[s].host] = node[req[s].host]
    BY <1>7 DEF ClaimInv, ClaimsRecorded, zoneVars
  <2> QED BY <1>1, <1>7, <2>1, <2>2, ClaimDropped DEF envVars
<1>8. ASSUME NEW r \in Request, NEW h \in Host, LookupHit(r, h)
      PROVE  ClaimInv'
  <2>1. PICK res \in Resolutions(local[WorkerOf[r]], h, node[h].jwks,
                                 node[h].generation)
                     \cup {[keys |-> 0, kc |-> local[WorkerOf[r]]]},
             covered \in BOOLEAN :
           req' = [req EXCEPT ![r] =
                      Serve(h, node[h].jwks, node[h].generation,
                            IF covered \/ res.keys = 0 THEN "ready"
                            ELSE "uncovered")]
    BY <1>8 DEF LookupHit
  <2>2. Serve(h, node[h].jwks, node[h].generation,
              IF covered \/ res.keys = 0 THEN "ready" ELSE "uncovered").pc \notin Holding
    BY DEF Serve, FreshReq, Holding
  <2> QED BY <1>7, <1>8, <2>1, <2>2 DEF LookupHit
<1>9. ASSUME NEW r \in Request, NEW h \in Host, LookupStale(r, h)
      PROVE  ClaimInv'
  <2>1. Serve(h, node[h].jwks, node[h].generation, "ready").pc \notin Holding
    BY DEF Serve, FreshReq, Holding
  <2> QED BY <1>7, <1>9, <2>1 DEF LookupStale
<1>10. \A q \in Req : FailOpen(q).pc \notin Holding
  BY DEF FailOpen, Holding, Req
<1>11. IdleReq.pc \notin Holding
  BY DEF IdleReq, FreshReq, Holding
<1>12. ASSUME NEW r \in Request, NEW h \in Host, LookupFailOpen(r, h)
       PROVE  ClaimInv'
  BY <1>7, <1>10, <1>12, FreshReqType DEF LookupFailOpen
<1>13. ASSUME NEW h \in Host
       PROVE  LET q == [FreshReq(h) EXCEPT !.pc = "claimed", !.since = now]
              IN  q.host = h /\ q.since = now
  BY DEF FreshReq
<1>14. ASSUME NEW r \in Request
       PROVE  now <= Time(r) + MaxLag /\ now <= now + MaxFetch /\ now <= now
  BY <1>1, DirectoryAssumption DEF ClaimInv, ClocksOK, Time, TypeOK
<1>15. ASSUME NEW r \in Request, NEW h \in Host, LookupClaims(r, h)
       PROVE  ClaimInv'
  <2>1. h \in tree /\ ~Busy(h, Time(r))
    BY <1>15 DEF LookupClaims, LookupStatus
  <2>2. \A s \in Request : req[s].pc \in Holding => req[s].host # h
    BY <2>1, ClaimedIsBusy
  <2>3. /\ req'[r].host = h /\ req'[r].since = now
        /\ \A s \in Request \ {r} : req'[s] = req[s]
    BY <1>1, <1>13, <1>15 DEF LookupClaims, TypeOK
  <2>4. /\ h \in tree' /\ node'[h].fetching
        /\ node'[h].fetching_since = Time(r)
    BY <1>1, <1>15, <2>1 DEF LookupClaims, LookupClaim, ClaimedNode, TypeOK, ZoneTypeOK, Node
  <2>5. \A s \in Request \ {r} : req[s].pc \in Holding =>
               /\ req[s].host \in tree'
               /\ node'[req[s].host] = node[req[s].host]
    BY <1>1, <1>15, <2>2 DEF LookupClaims, LookupClaim, ClaimInv, ClaimsRecorded, TypeOK,
                             ZoneTypeOK
  <2> QED BY <1>1, <1>14, <1>15, <2>2, <2>3, <2>4, <2>5, ClaimTaken
          DEF LookupClaims, envVars
<1>16. ASSUME NEW r \in Request, NEW h \in Host, LookupAllocates(r, h)
       PROVE  ClaimInv'
  <2>1. PICK a \in AllocOutcomes(Time(r)) :
          /\ LookupAlloc(h, Time(r), a)
          /\ req' = [req EXCEPT ![r] =
                        IF a.ok THEN [FreshReq(h) EXCEPT !.pc = "claimed",
                                                         !.since = now]
                        ELSE FailOpen(FreshReq(h))]
    BY <1>16 DEF LookupAllocates
  <2>2. h \notin tree
    BY <1>16 DEF LookupAllocates, LookupStatus
  <2>3. \A s \in Request : req[s].pc \in Holding =>
               req[s].host # h /\ req[s].host \notin a.evicted
    BY <2>2, AllocOutcome DEF ClaimInv, ClaimsRecorded, Victims
  <2>4. \A s \in Request \ {r} : req[s].pc \in Holding =>
               /\ req[s].host # h
               /\ req[s].host \in tree'
               /\ node'[req[s].host] = node[req[s].host]
    BY <1>1, <2>1, <2>3 DEF LookupAlloc, TreeAfter, NodesAfter, ClaimInv, ClaimsRecorded,
                            TypeOK, ZoneTypeOK
  <2>5. \A s \in Request \ {r} : req'[s] = req[s]
    BY <1>1, <2>1 DEF TypeOK
  <2>6. CASE a.ok
    <3>1. req'[r].host = h /\ req'[r].since = now
      BY <1>1, <1>13, <2>1, <2>6 DEF TypeOK
    <3>2. /\ h \in tree' /\ node'[h].fetching
          /\ node'[h].fetching_since = Time(r)
      BY <2>1, <2>6 DEF LookupAlloc, TreeAfter, NodesAfter, ClaimedNode, ZeroNode
    <3> QED BY <1>1, <1>14, <1>16, <2>4, <2>5, <3>1, <3>2, ClaimTaken
            DEF LookupAllocates, envVars
  <2>7. CASE ~a.ok
    <3>1. req'[r].pc \notin Holding
      BY <1>1, <1>10, <2>1, <2>7, FreshReqType DEF TypeOK
    <3> QED BY <1>1, <1>16, <2>4, <2>5, <3>1, ClaimDropped DEF LookupAllocates, envVars
  <2> QED BY <2>6, <2>7
<1>17. ASSUME NEW r \in Request
       PROVE  req[r] \in Req /\ req[r].host \in Host
  BY <1>1 DEF TypeOK, Req
<1>18. ASSUME NEW r \in Request, RotationGranted(r)
       PROVE  ClaimInv'
  <2> DEFINE h == req[r].host
  <2>1. h \in tree /\ ~node[h].fetching
    BY <1>18 DEF RotationGranted, MayRotate
  <2>2. \A s \in Request : req[s].pc \in Holding => req[s].host # h
    BY <2>1 DEF ClaimInv, ClaimsRecorded
  <2>3. /\ req'[r].host = h /\ req'[r].since = now
        /\ \A s \in Request \ {r} : req'[s] = req[s]
    BY <1>1, <1>17, <1>18 DEF RotationGranted, TypeOK, Req
  <2>4. /\ h \in tree' /\ node'[h].fetching
        /\ node'[h].fetching_since = Time(r)
    BY <1>1, <1>17, <1>18, <2>1
    DEF RotationGranted, RotationClaim, ClaimedNode, TypeOK, ZoneTypeOK, Node
  <2>5. \A s \in Request \ {r} : req[s].pc \in Holding =>
               /\ req[s].host \in tree'
               /\ node'[req[s].host] = node[req[s].host]
    BY <1>1, <1>18, <2>2 DEF RotationGranted, RotationClaim, ClaimInv, ClaimsRecorded, TypeOK,
                             ZoneTypeOK
  <2>6. UNCHANGED <<now, clock>>
    BY <1>18 DEF RotationGranted, envVars
  <2> HIDE DEF h
  <2> QED BY <1>1, <1>14, <2>2, <2>3, <2>4, <2>5, <2>6, ClaimTaken
<1>19. ASSUME NEW r \in Request, RotationDeclined(r)
       PROVE  ClaimInv'
  <2>1. [req[r] EXCEPT !.pc = "ready"].pc \notin Holding
    BY <1>17 DEF Req, Holding
  <2> QED BY <1>7, <1>19, <2>1 DEF RotationDeclined
\* The three ways out of a claim that end in release().
<1>20. ASSUME NEW r \in Request, NEW e, req[r].pc \in Holding,
              Release(req[r].host, e), UNCHANGED envVars,
              NEW q, req' = [req EXCEPT ![r] = q], q.pc \notin Holding
       PROVE  ClaimInv'
  <2>1. req'[r].pc \notin Holding /\ \A s \in Request \ {r} : req'[s] = req[s]
    BY <1>1, <1>20 DEF TypeOK
  <2>2. \A s \in Request \ {r} : req[s].pc \in Holding => req[s].host # req[r].host
    BY <1>20 DEF ClaimInv, SingleFlight
  <2>3. \A s \in Request \ {r} : req[s].pc \in Holding =>
               /\ req[s].host \in tree'
               /\ node'[req[s].host] = node[req[s].host]
    BY <1>1, <1>17, <1>20, <2>2 DEF Release, ClaimInv, ClaimsRecorded, TypeOK, ZoneTypeOK
  <2> QED BY <1>1, <1>20, <2>1, <2>3, ClaimDropped DEF envVars
<1>21. ASSUME NEW r \in Request, PostFails(r)
       PROVE  ClaimInv'
  <2>1. FailOpen(req[r]).pc \notin Holding
    BY <1>10, <1>17
  <2>2. req[r].pc \in Holding /\ req' = [req EXCEPT ![r] = FailOpen(req[r])]
    BY <1>21 DEF PostFails, Holding
  <2>3. Release(req[r].host, Time(r) + MinTtl) /\ UNCHANGED envVars
    BY <1>21 DEF PostFails
  <2> QED BY <1>20, <2>1, <2>2, <2>3
<1>22. ASSUME NEW r \in Request, DirectoryRejects(r)
       PROVE  ClaimInv'
  <2>1. FailOpen(req[r]).pc \notin Holding
    BY <1>10, <1>17
  <2>2. req[r].pc \in Holding /\ req' = [req EXCEPT ![r] = FailOpen(req[r])]
    BY <1>22 DEF DirectoryRejects, Holding
  <2>3. Release(req[r].host, Time(r) + MinTtl) /\ UNCHANGED envVars
    BY <1>22 DEF DirectoryRejects
  <2> QED BY <1>20, <2>1, <2>2, <2>3
<1>23. ASSUME NEW r \in Request, Cleanup(r)
       PROVE  ClaimInv'
  BY <1>11, <1>20, <1>23 DEF Cleanup
<1>24. ASSUME NEW r \in Request, OriginAnswers(r)
       PROVE  ClaimInv'
  <2>1. /\ req'[r].host = req[r].host /\ req'[r].since = req[r].since
        /\ \A s \in Request \ {r} : req'[s] = req[s]
    BY <1>1, <1>17, <1>24 DEF OriginAnswers, TypeOK, Req
  <2>2. req[r].pc \in Holding
    BY <1>24 DEF OriginAnswers, Holding
  <2>3. \A s \in Request \ {r} : req[s].pc \in Holding =>
               /\ req[s].host # req'[r].host
               /\ req[s].host \in tree'
               /\ node'[req[s].host] = node[req[s].host]
    BY <1>24, <2>1, <2>2 DEF OriginAnswers, zoneVars, ClaimInv, ClaimsRecorded, SingleFlight
  <2>4. /\ req'[r].since <= now /\ now <= req'[r].since + MaxFetch
        /\ req'[r].host \in tree' /\ node'[req'[r].host].fetching
        /\ req'[r].since <= node'[req'[r].host].fetching_since + MaxLag
    BY <1>24, <2>1, <2>2 DEF OriginAnswers, zoneVars, ClaimInv, ClaimsRecorded, ClaimsBounded
  <2> QED BY <1>1, <1>24, <2>1, <2>3, <2>4, ClaimTaken DEF OriginAnswers, envVars
<1>25. ASSUME NEW r \in Request, DirectoryStores(r)
       PROVE  ClaimInv'
  <2> DEFINE h == req[r].host
  <2>1. PICK a \in StoreAllocs(h, Time(r)), ok \in BOOLEAN, ttl \in MinTtl .. MaxTtl :
          /\ Store(h, req[r].answer, Time(r) + ttl, Time(r), a, ok)
          /\ req' = [req EXCEPT ![r].pc = "ready",
                                ![r].since = 0, ![r].answer = 0,
                                ![r].jwks = req[r].answer,
                                ![r].generation = StoredGeneration(h, a, ok)]
    BY <1>25, StoredWithinBounds
  <2>2. req[r].pc \in Holding
    BY <1>25 DEF DirectoryStores, Holding
  <2>3. h \in tree /\ a.evicted = {}
    BY <2>1, <2>2 DEF ClaimInv, ClaimsRecorded, StoreAllocs
  <2>4. \A s \in Request \ {r} : req[s].pc \in Holding => req[s].host # h
    BY <2>2 DEF ClaimInv, SingleFlight
  <2>5. \A s \in Request \ {r} : req[s].pc \in Holding =>
               /\ req[s].host \in tree'
               /\ node'[req[s].host] = node[req[s].host]
    BY <1>1, <2>1, <2>3, <2>4 DEF Store, TreeAfter, NodesAfter, ClaimInv, ClaimsRecorded,
                                  TypeOK, ZoneTypeOK
  <2>6. req'[r].pc \notin Holding /\ \A s \in Request \ {r} : req'[s] = req[s]
    BY <1>1, <1>17, <2>1 DEF TypeOK, Req, Holding
  <2> QED BY <1>1, <1>25, <2>5, <2>6, ClaimDropped DEF DirectoryStores, envVars
<1>26. ASSUME NEW r \in Request, Evaluate(r)
       PROVE  ClaimInv'
  BY <1>7, <1>11, <1>26 DEF Evaluate
<1> QED
  BY <1>2, <1>3, <1>4, <1>5, <1>6, <1>8, <1>9, <1>12, <1>15, <1>16, <1>18,
     <1>19, <1>21, <1>22, <1>23, <1>24, <1>25, <1>26
  DEF Next, Lookup, Progress, Interruption

\* Under BoundedFetch no two requests of any two workers fetch the same
\* directory at the same time.
THEOREM AtMostOneFetch == ASSUME BoundedFetch PROVE Spec => []SingleFlight
<1>1. ClaimInv => SingleFlight
  BY DEF ClaimInv
<1> QED BY <1>1, InitClaim, NextClaim, PTL DEF Spec
-----------------------------------------------------------------------------
(* A document at hand is used, whatever becomes of the fetch. *)

\* What a request was told and what it has agree.  A request that is about to
\* ask for a rotation rescue has a document; one that fetches was told nothing.
Told(q) ==
    /\ q.pc = "uncovered" => q.jwks # 0
    /\ q.pc \in {"uncovered"} \cup Holding => ~q.keys_unavailable
    /\ q.pc = "ready" => (q.keys_unavailable <=> q.jwks = 0)

\* UnavailableMeansNoDocument says nothing of requests that fetch, from which
\* those that are ready come.
ToldInv == TypeOK /\ \A r \in Request : Told(req[r])

\* What directory_fail_open() makes of a request that was told nothing yet.
LEMMA FailOpenTold ==
    ASSUME NEW q \in Req, ~q.keys_unavailable
    PROVE  Told(FailOpen(q))
<1>1. /\ FailOpen(q).pc = "ready" /\ FailOpen(q).jwks = q.jwks
      /\ FailOpen(q).keys_unavailable = (q.keys_unavailable \/ q.jwks = 0)
  BY DEF FailOpen, Req
<1> QED BY <1>1 DEF Told, Holding

\* Every step keeps ToldInv.
LEMMA NextTold == ToldInv /\ [Next]_vars => ToldInv'
<1> SUFFICES ASSUME ToldInv, [Next]_vars PROVE ToldInv'
  OBVIOUS
<1>1. TypeOK /\ TypeOK'
  BY NextType DEF ToldInv
<1>2. CASE UNCHANGED req
  BY <1>1, <1>2 DEF ToldInv
<1>3. ASSUME NEW r \in Request, NEW q, req' = [req EXCEPT ![r] = q], Told(q)
      PROVE  ToldInv'
  BY <1>1, <1>3 DEF ToldInv, TypeOK
<1>4. ASSUME NEW h \in Host
      PROVE  /\ FreshReq(h) \in Req /\ ~FreshReq(h).keys_unavailable
             /\ Told(FreshReq(h))
             /\ Told([FreshReq(h) EXCEPT !.pc = "claimed", !.since = now])
  BY DEF FreshReq, Told, Holding, Req, Phase
<1>5. Told(IdleReq)
  BY <1>4, DirectoryAssumption DEF IdleReq
<1>6. ASSUME NEW h \in Host, NEW doc \in Nat \ {0}, NEW gen \in Nat, NEW pc,
             pc \in {"ready", "uncovered"}
      PROVE  Told(Serve(h, doc, gen, pc))
  BY <1>6 DEF Serve, FreshReq, Told, Holding
<1>7. ASSUME NEW w \in Worker, Crash(w)
      PROVE  ToldInv'
  BY <1>1, <1>5, <1>7 DEF Crash, ToldInv
<1>8. ASSUME NEW h \in Host
      PROVE  node[h].jwks \in Nat /\ node[h].generation \in Nat
  BY <1>1 DEF TypeOK, ZoneTypeOK, Node
<1>9. ASSUME NEW r \in Request, NEW h \in Host, LookupHit(r, h)
      PROVE  ToldInv'
  <2>1. PICK pc \in {"ready", "uncovered"} :
           req' = [req EXCEPT ![r] = Serve(h, node[h].jwks,
                                           node[h].generation, pc)]
    BY <1>9 DEF LookupHit
  <2>2. node[h].jwks # 0
    BY <1>9 DEF LookupHit, LookupStatus
  <2> QED BY <1>3, <1>6, <1>8, <2>1, <2>2
<1>10. ASSUME NEW r \in Request, NEW h \in Host, LookupStale(r, h)
       PROVE  ToldInv'
  BY <1>3, <1>6, <1>8, <1>10 DEF LookupStale
<1>11. ASSUME NEW r \in Request, NEW h \in Host, LookupFailOpen(r, h)
       PROVE  ToldInv'
  BY <1>3, <1>4, <1>11, FailOpenTold DEF LookupFailOpen
<1>12. ASSUME NEW r \in Request, NEW h \in Host, LookupClaims(r, h)
       PROVE  ToldInv'
  BY <1>3, <1>4, <1>12 DEF LookupClaims
<1>13. ASSUME NEW r \in Request, NEW h \in Host, LookupAllocates(r, h)
       PROVE  ToldInv'
  <2>1. PICK a :
           req' = [req EXCEPT ![r] =
                      IF a.ok THEN [FreshReq(h) EXCEPT !.pc = "claimed",
                                                       !.since = now]
                      ELSE FailOpen(FreshReq(h))]
    BY <1>13 DEF LookupAllocates
  <2> QED BY <1>3, <1>4, <2>1, FailOpenTold
<1>14. ASSUME NEW r \in Request
       PROVE  req[r] \in Req /\ Told(req[r])
  BY <1>1 DEF ToldInv, TypeOK
<1>15. ASSUME NEW r \in Request, RotationGranted(r)
       PROVE  ToldInv'
  <2>1. Told([req[r] EXCEPT !.pc = "claimed", !.since = now])
    BY <1>14, <1>15 DEF RotationGranted, Told, Holding, Req
  <2> QED BY <1>3, <1>15, <2>1 DEF RotationGranted
<1>16. ASSUME NEW r \in Request, RotationDeclined(r)
       PROVE  ToldInv'
  <2>1. Told([req[r] EXCEPT !.pc = "ready"])
    BY <1>14, <1>16 DEF RotationDeclined, Told, Holding, Req
  <2> QED BY <1>3, <1>16, <2>1 DEF RotationDeclined
<1>17. ASSUME NEW r \in Request, req[r].pc \in Holding
       PROVE  Told(FailOpen(req[r]))
  BY <1>14, <1>17, FailOpenTold DEF Told
<1>18. ASSUME NEW r \in Request, PostFails(r) \/ DirectoryRejects(r)
       PROVE  ToldInv'
  BY <1>3, <1>17, <1>18 DEF PostFails, DirectoryRejects, Holding
<1>19. ASSUME NEW r \in Request, OriginAnswers(r)
       PROVE  ToldInv'
  <2>1. PICK doc : req' = [req EXCEPT ![r].pc = "answered", ![r].answer = doc]
    BY <1>19 DEF OriginAnswers
  <2>2. Told([req[r] EXCEPT !.pc = "answered", !.answer = doc])
    BY <1>14, <1>19 DEF OriginAnswers, Told, Holding, Req
  <2> QED BY <1>3, <2>1, <2>2
<1>20. ASSUME NEW r \in Request, DirectoryStores(r)
       PROVE  ToldInv'
  <2>1. PICK gen :
          req' = [req EXCEPT ![r].pc = "ready",
                             ![r].since = 0, ![r].answer = 0,
                             ![r].jwks = req[r].answer,
                             ![r].generation = gen]
    BY <1>20 DEF DirectoryStores
  <2>2. Told([req[r] EXCEPT !.pc = "ready", !.since = 0, !.answer = 0,
                            !.jwks = req[r].answer, !.generation = gen])
    BY <1>14, <1>20 DEF DirectoryStores, Told, Holding, Req
  <2> QED BY <1>3, <2>1, <2>2
<1>21. ASSUME NEW r \in Request, Cleanup(r) \/ Evaluate(r)
       PROVE  ToldInv'
  BY <1>3, <1>5, <1>21 DEF Cleanup, Evaluate
<1>22. CASE Tick \/ (\E w \in Worker : UpdateTime(w)) \/ (\E h \in Host : Publish(h))
  BY <1>2, <1>22 DEF Tick, UpdateTime, Publish, reqVars
<1>23. CASE UNCHANGED vars
  BY <1>2, <1>23 DEF vars
<1> QED
  BY <1>7, <1>9, <1>10, <1>11, <1>12, <1>13, <1>15, <1>16, <1>18, <1>19,
     <1>20, <1>21, <1>22, <1>23
  DEF Next, Lookup, Progress, Interruption

\* Whatever fails on the way, only a request without any document is told
\* that keys are unavailable.
THEOREM DocumentsAreUsed == Spec => []UnavailableMeansNoDocument
<1>1. Init => ToldInv
  <2> SUFFICES ASSUME Init PROVE ToldInv
    OBVIOUS
  <2>1. Told(IdleReq)
    BY DEF IdleReq, FreshReq, Told, Holding
  <2> QED BY <2>1, InitType DEF Init, ToldInv
<1>2. ToldInv => UnavailableMeansNoDocument
  BY DEF ToldInv, Told, UnavailableMeansNoDocument
<1> QED BY <1>1, <1>2, NextTold, PTL DEF Spec

-----------------------------------------------------------------------------
(* Every way out of a claim gives the right back. *)

\* A node marked as being fetched has a holder, unless a worker died.
\* NoLeakedClaim needs the types only: release() and store() unmark the node
\* of the request that stops holding, whoever marked it.
LEMMA NextHeld ==
    TypeOK /\ NoLeakedClaim /\ [Next]_vars => NoLeakedClaim'
<1> SUFFICES ASSUME TypeOK, NoLeakedClaim, [Next]_vars, crashes' = 0,
                    NEW h \in tree', node'[h].fetching
             PROVE  \E r \in Request : req'[r].pc \in Holding /\ req'[r].host = h
  BY DEF NoLeakedClaim
<1>1. TypeOK' /\ h \in Host
  BY NextType DEF TypeOK, ZoneTypeOK
<1>2. \A w \in Worker : ~Crash(w)
  BY DEF Crash, TypeOK
<1>3. crashes = 0
  BY <1>2 DEF Next, vars, Tick, UpdateTime, Publish, Lookup, LookupHit, LookupStale,
              LookupFailOpen, LookupClaims, LookupAllocates, Progress, RotationGranted,
              RotationDeclined, DirectoryStores, DirectoryRejects, Evaluate,
              Interruption, PostFails, Cleanup, OriginAnswers, envVars
<1>4. ASSUME h \in tree, node[h].fetching,
             \A s \in Request : req[s].pc \in Holding /\ req[s].host = h
                 => req'[s].pc \in Holding /\ req'[s].host = h
      PROVE  \E r \in Request : req'[r].pc \in Holding /\ req'[r].host = h
  BY <1>3, <1>4 DEF NoLeakedClaim
<1>5. ASSUME NEW r \in Request, NEW q, req' = [req EXCEPT ![r] = q]
      PROVE  /\ req'[r] = q
             /\ \A s \in Request \ {r} : req'[s] = req[s]
  BY <1>5 DEF TypeOK
<1>6. CASE UNCHANGED <<tree, node, req>>
  BY <1>4, <1>6
<1>7. ASSUME NEW r \in Request, NEW q, req' = [req EXCEPT ![r] = q],
             UNCHANGED <<tree, node>>,
             \/ req[r].pc \notin Holding
             \/ q.pc \in Holding /\ q.host = req[r].host
      PROVE  \E s \in Request : req'[s].pc \in Holding /\ req'[s].host = h
  BY <1>4, <1>5, <1>7
<1>8. ASSUME NEW r \in Request, NEW g \in Host,
             LookupHit(r, g) \/ LookupStale(r, g) \/ LookupFailOpen(r, g)
      PROVE  \E s \in Request : req'[s].pc \in Holding /\ req'[s].host = h
  <2>1. req[r].pc \notin Holding /\ UNCHANGED <<tree, node>>
    BY <1>8 DEF LookupHit, LookupStale, LookupFailOpen, Holding, zoneVars
  <2>2. PICK q : req' = [req EXCEPT ![r] = q]
    BY <1>8 DEF LookupHit, LookupStale, LookupFailOpen
  <2> QED BY <1>7, <2>1, <2>2
<1>9. ASSUME NEW r \in Request, RotationDeclined(r) \/ Evaluate(r)
      PROVE  \E s \in Request : req'[s].pc \in Holding /\ req'[s].host = h
  <2>1. req[r].pc \notin Holding /\ UNCHANGED <<tree, node>>
    BY <1>9 DEF RotationDeclined, Evaluate, Holding, zoneVars
  <2>2. PICK q : req' = [req EXCEPT ![r] = q]
    BY <1>9 DEF RotationDeclined, Evaluate
  <2> QED BY <1>7, <2>1, <2>2
<1>10. ASSUME NEW r \in Request, OriginAnswers(r)
       PROVE  \E s \in Request : req'[s].pc \in Holding /\ req'[s].host = h
  <2>1. PICK doc : req' = [req EXCEPT ![r].pc = "answered", ![r].answer = doc]
    BY <1>10 DEF OriginAnswers
  <2> DEFINE q == [req[r] EXCEPT !.pc = "answered", !.answer = doc]
  <2>2. q.pc \in Holding /\ q.host = req[r].host
    BY DEF TypeOK, Req, Holding
  <2>3. req' = [req EXCEPT ![r] = q] /\ UNCHANGED <<tree, node>>
    BY <1>10, <2>1 DEF OriginAnswers, zoneVars
  <2> QED BY <1>7, <2>2, <2>3
\* A claim that the request in slot r takes, on a node of its own host.
<1>11. ASSUME NEW r \in Request, NEW g \in Host, NEW q,
              req' = [req EXCEPT ![r] = q], q.pc \in Holding, q.host = g,
              req[r].pc \notin Holding,
              h # g => h \in tree /\ node'[h] = node[h]
       PROVE  \E s \in Request : req'[s].pc \in Holding /\ req'[s].host = h
  BY <1>4, <1>5, <1>11
<1>12. ASSUME NEW g \in Host
       PROVE  LET q == [FreshReq(g) EXCEPT !.pc = "claimed", !.since = now]
              IN  q.pc \in Holding /\ q.host = g
  BY DEF FreshReq, Holding
<1>13. ASSUME NEW r \in Request, NEW g \in Host, LookupClaims(r, g)
       PROVE  \E s \in Request : req'[s].pc \in Holding /\ req'[s].host = h
  <2>1. h # g => h \in tree /\ node'[h] = node[h]
    BY <1>1, <1>13 DEF LookupClaims, LookupClaim, TypeOK, ZoneTypeOK
  <2> QED BY <1>11, <1>12, <1>13, <2>1 DEF LookupClaims, Holding
<1>14. ASSUME NEW r \in Request, NEW g \in Host, LookupAllocates(r, g)
       PROVE  \E s \in Request : req'[s].pc \in Holding /\ req'[s].host = h
  <2>1. PICK a \in AllocOutcomes(Time(r)) :
          /\ LookupAlloc(g, Time(r), a)
          /\ req' = [req EXCEPT ![r] =
                        IF a.ok THEN [FreshReq(g) EXCEPT !.pc = "claimed",
                                                         !.since = now]
                        ELSE FailOpen(FreshReq(g))]
    BY <1>14 DEF LookupAllocates
  <2>2. req[r].pc \notin Holding
    BY <1>14 DEF LookupAllocates, Holding
  <2>3. h # g \/ ~a.ok => h \in tree /\ node'[h] = node[h]
    BY <1>1, <2>1 DEF LookupAlloc, TreeAfter, NodesAfter, TypeOK, ZoneTypeOK
  <2>4. CASE a.ok
    <3> DEFINE q == [FreshReq(g) EXCEPT !.pc = "claimed", !.since = now]
    <3>1. q.pc \in Holding /\ q.host = g
      BY <1>12
    <3>2. req' = [req EXCEPT ![r] = q]
      BY <2>1, <2>4
    <3> QED BY <1>11, <2>2, <2>3, <3>1, <3>2
  <2>5. CASE ~a.ok
    BY <1>4, <1>5, <2>1, <2>2, <2>3, <2>5
  <2> QED BY <2>4, <2>5
<1>15. ASSUME NEW r \in Request, RotationGranted(r)
       PROVE  \E s \in Request : req'[s].pc \in Holding /\ req'[s].host = h
  <2> DEFINE q == [req[r] EXCEPT !.pc = "claimed", !.since = now]
  <2>1. q.pc \in Holding /\ q.host = req[r].host /\ req[r].host \in Host
    BY DEF TypeOK, Req, Holding
  <2>2. h # req[r].host => h \in tree /\ node'[h] = node[h]
    BY <1>1, <1>15 DEF RotationGranted, RotationClaim, TypeOK, ZoneTypeOK
  <2>3. req' = [req EXCEPT ![r] = q] /\ req[r].pc \notin Holding
    BY <1>15 DEF RotationGranted, Holding
  <2> QED BY <1>11, <2>1, <2>2, <2>3
\* A step in which the request in slot r ceases to hold the right to fetch g.
<1>16. ASSUME NEW r \in Request, NEW q, req' = [req EXCEPT ![r] = q],
              h # req[r].host, h \in tree, node'[h] = node[h]
       PROVE  \E s \in Request : req'[s].pc \in Holding /\ req'[s].host = h
  BY <1>4, <1>5, <1>16
<1>17. ASSUME NEW r \in Request, NEW e, Release(req[r].host, e)
       PROVE  h # req[r].host /\ h \in tree /\ node'[h] = node[h]
  <2>1. req[r].host \in Host
    BY DEF TypeOK, Req
  <2>2. h \in tree
    BY <1>17 DEF Release
  <2>3. h # req[r].host
    BY <1>1, <1>17, <2>1, <2>2 DEF Release, TypeOK, ZoneTypeOK, Node
  <2> QED BY <1>1, <1>17, <2>1, <2>2, <2>3 DEF Release, TypeOK, ZoneTypeOK
<1>18. ASSUME NEW r \in Request, PostFails(r) \/ DirectoryRejects(r) \/ Cleanup(r)
       PROVE  \E s \in Request : req'[s].pc \in Holding /\ req'[s].host = h
  <2>1. PICK q : req' = [req EXCEPT ![r] = q]
    BY <1>18 DEF PostFails, DirectoryRejects, Cleanup
  <2>2. Release(req[r].host, Time(r) + MinTtl)
    BY <1>18 DEF PostFails, DirectoryRejects, Cleanup
  <2> QED BY <1>16, <1>17, <2>1, <2>2
<1>19. ASSUME NEW r \in Request, DirectoryStores(r)
       PROVE  \E s \in Request : req'[s].pc \in Holding /\ req'[s].host = h
  <2> DEFINE g == req[r].host
  <2>1. PICK a \in StoreAllocs(g, Time(r)), ok \in BOOLEAN, ttl \in MinTtl .. MaxTtl :
          /\ Store(g, req[r].answer, Time(r) + ttl, Time(r), a, ok)
          /\ req' = [req EXCEPT ![r].pc = "ready",
                                ![r].since = 0, ![r].answer = 0,
                                ![r].jwks = req[r].answer,
                                ![r].generation = StoredGeneration(g, a, ok)]
    BY <1>19, StoredWithinBounds
  <2>2. g \in Host /\ TargetNode(g) \in Node
    BY NodeTypes DEF TypeOK, ZoneTypeOK, Req, TargetNode
  <2>3. a.ok => h # g
    <3>1. ~StoreNode(g, req[r].answer, Time(r) + ttl).fetching /\ ~StoreNoRoomNode(g, Time(r)).fetching
      BY <2>2 DEF StoreNode, StoreNoRoomNode, Node
    <3> QED BY <1>1, <2>1, <3>1 DEF Store, NodesAfter
  <2>4. ~a.ok => g \notin tree
    BY <2>1 DEF StoreAllocs
  <2>5. h \in tree /\ h # g /\ node'[h] = node[h]
    BY <1>1, <2>1, <2>3, <2>4
    DEF Store, TreeAfter, NodesAfter, TypeOK, ZoneTypeOK
  <2> HIDE DEF g
  <2>6. PICK q : req' = [req EXCEPT ![r] = q]
    BY <2>1
  <2> QED BY <1>16, <2>5, <2>6 DEF g
<1>20. CASE Tick \/ (\E w \in Worker : UpdateTime(w)) \/ (\E g \in Host : Publish(g))
  BY <1>6, <1>20 DEF Tick, UpdateTime, Publish, reqVars, zoneVars
<1>21. CASE UNCHANGED vars
  BY <1>6, <1>21 DEF vars
<1> QED
  BY <1>2, <1>8, <1>9, <1>10, <1>13, <1>14, <1>15, <1>18, <1>19, <1>20, <1>21
  DEF Next, Lookup, Progress, Interruption

\* No fetch right is leaked while workers live: failures to post the
\* subrequest, rejected answers and aborted requests all give it back.
THEOREM RightsAreGivenBack == Spec => []NoLeakedClaim
<1>1. Init => NoLeakedClaim
  BY DEF Init, ZoneInit, NoLeakedClaim
<1> QED BY <1>1, InitType, NextType, NextHeld, PTL DEF Spec
-----------------------------------------------------------------------------
(* A host and a generation name one document. *)

\* Somebody holds d as the document of h with generation g: h's node, a
\* request, or a worker's parsed-key cache.
Known(h, g, d) ==
    \/ node[h].generation = g /\ node[h].jwks = d
    \/ \E r \in Request : /\ req[r].host = h
                          /\ req[r].generation = g /\ req[r].jwks = d
    \/ \E w \in Worker : /\ local[w][h].generation = g
                         /\ local[w][h].keys = d

\* Generations come from the zone's counter, and one is never given to two
\* documents of a host.  KeysMatchDocument relates a ready request to its
\* worker's cache only; what that cache holds came from a request that is
\* gone, and what the next request brings comes from the zone or the origin.
GenerationsUsed ==
    \A h \in Host, g \in Nat \ {0}, d \in Nat : Known(h, g, d) => g <= generation

GenerationsUnique ==
    \A h \in Host, g \in Nat \ {0}, d, e \in Nat :
        Known(h, g, d) /\ Known(h, g, e) => d = e

GenInv == TypeOK /\ GenerationsUsed /\ GenerationsUnique

\* Nothing can be looked up under generation 0.
Fits(h, g, d) == g = 0 \/ Known(h, g, d)

\* What the types say of whatever is known.
LEMMA KnownTypes ==
    ASSUME TypeOK
    PROVE  /\ \A h \in Host : node[h].generation \in Nat /\ node[h].jwks \in Nat
           /\ \A r \in Request : /\ req[r] \in Req /\ req[r].host \in Host
                                 /\ req[r].generation \in Nat /\ req[r].jwks \in Nat
           /\ \A w \in Worker, h \in Host : /\ local[w] \in [Host -> Slot]
                                            /\ local[w][h].generation \in Nat
                                            /\ local[w][h].keys \in Nat
BY DEF TypeOK, ZoneTypeOK, Node, Req, Slot

\* What is known or has no generation fits.
LEMMA KnownFit ==
    /\ \A h \in Host : Fits(h, node[h].generation, node[h].jwks)
    /\ \A r \in Request : Fits(req[r].host, req[r].generation, req[r].jwks)
    /\ \A w \in Worker, h \in Host :
           Fits(h, local[w][h].generation, local[w][h].keys)
BY DEF Fits, Known

\* A step after which everyone holds what somebody held before.
LEMMA GenerationsKept ==
    ASSUME GenInv, TypeOK', generation' = generation,
           \A h \in Host : Fits(h, node'[h].generation, node'[h].jwks),
           \A r \in Request :
               Fits(req'[r].host, req'[r].generation, req'[r].jwks),
           \A w \in Worker, h \in Host :
               Fits(h, local'[w][h].generation, local'[w][h].keys)
    PROVE  GenInv'
<1>1. ASSUME NEW h \in Host, NEW g \in Nat \ {0}, NEW d \in Nat, Known(h, g, d)'
      PROVE  Known(h, g, d)
  <2>1. CASE node'[h].generation = g /\ node'[h].jwks = d
    BY <2>1 DEF Fits
  <2>2. CASE \E r \in Request : /\ req'[r].host = h
                                /\ req'[r].generation = g /\ req'[r].jwks = d
    BY <2>2 DEF Fits
  <2>3. CASE \E w \in Worker : /\ local'[w][h].generation = g
                               /\ local'[w][h].keys = d
    BY <2>3 DEF Fits
  <2> QED BY <1>1, <2>1, <2>2, <2>3 DEF Known
<1>2. GenerationsUsed'
  BY <1>1 DEF GenInv, GenerationsUsed
<1>3. GenerationsUnique'
  BY <1>1 DEF GenInv, GenerationsUnique
<1> QED BY <1>2, <1>3 DEF GenInv

\* A step that takes the next generation for doc, after which everyone holds
\* doc under it or what somebody held before.
LEMMA GenerationTaken ==
    ASSUME GenInv, TypeOK', NEW k \in Host, NEW doc \in Nat,
           generation' = generation + 1,
           \A h \in Host : \/ Fits(h, node'[h].generation, node'[h].jwks)
                           \/ /\ h = k /\ node'[h].generation = generation + 1
                              /\ node'[h].jwks = doc,
           \A r \in Request :
               \/ Fits(req'[r].host, req'[r].generation, req'[r].jwks)
               \/ /\ req'[r].host = k /\ req'[r].generation = generation + 1
                  /\ req'[r].jwks = doc,
           UNCHANGED local
    PROVE  GenInv'
<1>1. generation \in Nat
  BY DEF GenInv, TypeOK, ZoneTypeOK
<1>2. ASSUME NEW h \in Host, NEW g \in Nat \ {0}, NEW d \in Nat, Known(h, g, d)'
      PROVE  \/ Known(h, g, d) /\ g <= generation
             \/ h = k /\ g = generation + 1 /\ d = doc
  <2>1. Known(h, g, d) => g <= generation
    BY DEF GenInv, GenerationsUsed
  <2>2. CASE node'[h].generation = g /\ node'[h].jwks = d
    BY <2>1, <2>2 DEF Fits
  <2>3. CASE \E r \in Request : /\ req'[r].host = h
                                /\ req'[r].generation = g /\ req'[r].jwks = d
    BY <2>1, <2>3 DEF Fits
  <2>4. CASE \E w \in Worker : /\ local'[w][h].generation = g
                               /\ local'[w][h].keys = d
    BY <2>1, <2>4 DEF Known
  <2> QED BY <1>2, <2>2, <2>3, <2>4 DEF Known
<1>3. GenerationsUsed'
  BY <1>1, <1>2 DEF GenerationsUsed
<1>4. GenerationsUnique'
  <2> SUFFICES ASSUME NEW h \in Host, NEW g \in Nat \ {0}, NEW d \in Nat, NEW e \in Nat,
                      Known(h, g, d)', Known(h, g, e)'
               PROVE  d = e
    BY DEF GenerationsUnique
  <2>1. CASE g = generation + 1
    BY <1>1, <1>2, <2>1
  <2>2. CASE g # generation + 1
    BY <1>2, <2>2 DEF GenInv, GenerationsUnique
  <2> QED BY <2>1, <2>2
<1> QED BY <1>3, <1>4 DEF GenInv

\* resolve_keys() leaves nothing in the parsed-key cache but what was there
\* and the document it was asked for.
LEMMA ResolvedFits ==
    ASSUME NEW kc \in [Host -> Slot], NEW h \in Host, NEW doc \in Nat,
           NEW gen \in Nat, NEW res \in Resolutions(kc, h, doc, gen), NEW x \in Host
    PROVE  \/ res.kc[x].generation = 0
           \/ res.kc[x].generation = kc[x].generation /\ res.kc[x].keys = kc[x].keys
           \/ x = h /\ res.kc[x].generation = gen /\ res.kc[x].keys = doc
<1>1. ASSUME NEW c \in [Host -> Slot], NEW old
      PROVE  /\ DOMAIN Touch(c, h, old) = Host
             /\ Touch(c, h, old)[x].generation = c[x].generation
             /\ Touch(c, h, old)[x].keys = c[x].keys
  BY DEF Touch, Slot
<1>2. CASE res.kc = kc
  BY <1>2
<1>3. CASE res.kc = CacheGet(kc, h)
  BY <1>1, <1>3 DEF CacheGet
<1>4. CASE res.kc = CachePut(kc, h, gen, doc)
  <2> DEFINE kept == [y \in DOMAIN kc |-> IF y \in Evicted(kc, h) THEN FreeSlot
                                         ELSE kc[y]]
  <2>1. kept \in [Host -> Slot]
    BY DEF FreeSlot, Slot
  <2>2. kept[x].generation = 0 \/ kept[x] = kc[x]
    BY DEF FreeSlot
  <2>3. PICK old : res.kc = [Touch(kept, h, old) EXCEPT
                               ![h] = [generation |-> gen, keys |-> doc, age |-> 0]]
    BY <1>4 DEF CachePut
  <2> HIDE DEF kept
  <2>4. CASE x = h
    BY <1>1, <2>1, <2>3, <2>4
  <2>5. CASE x # h
    <3>1. res.kc[x] = Touch(kept, h, old)[x]
      BY <1>1, <2>1, <2>3, <2>5
    <3> QED BY <1>1, <2>1, <2>2, <3>1
  <2> QED BY <2>4, <2>5
<1> QED BY <1>2, <1>3, <1>4 DEF Resolutions

\* After resolve_keys() of a known document, a worker's cache holds what was
\* known.
LEMMA ResolvedKnown ==
    ASSUME TypeOK, NEW v \in Worker, NEW h \in Host, NEW doc \in Nat,
           NEW gen \in Nat, Fits(h, gen, doc),
           NEW res \in Resolutions(local[v], h, doc, gen),
           local' = [local EXCEPT ![v] = res.kc]
    PROVE  \A w \in Worker, x \in Host :
               Fits(x, local'[w][x].generation, local'[w][x].keys)
<1> TAKE w \in Worker, x \in Host
<1>1. CASE w # v
  BY <1>1, KnownFit DEF TypeOK
<1>2. CASE w = v
  <2>1. local'[w] = res.kc
    BY <1>2 DEF TypeOK
  <2>2. local[v] \in [Host -> Slot]
    BY DEF TypeOK
  <2>3. \/ res.kc[x].generation = 0
        \/ res.kc[x].generation = local[v][x].generation /\ res.kc[x].keys = local[v][x].keys
        \/ x = h /\ res.kc[x].generation = gen /\ res.kc[x].keys = doc
    BY <2>2, ResolvedFits
  <2>4. Fits(x, local[v][x].generation, local[v][x].keys)
    BY KnownFit
  <2>5. CASE res.kc[x].generation = 0
    BY <2>1, <2>5 DEF Fits
  <2>6. CASE res.kc[x].generation = local[v][x].generation /\ res.kc[x].keys = local[v][x].keys
    BY <2>1, <2>4, <2>6
  <2>7. CASE x = h /\ res.kc[x].generation = gen /\ res.kc[x].keys = doc
    BY <2>1, <2>7
  <2> QED BY <2>3, <2>5, <2>6, <2>7
<1> QED BY <1>1, <1>2

\* Every step keeps GenInv.
LEMMA NextGen == GenInv /\ [Next]_vars => GenInv'
<1> SUFFICES ASSUME GenInv, [Next]_vars PROVE GenInv'
  OBVIOUS
<1>1. TypeOK /\ TypeOK'
  BY NextType DEF GenInv
<1>2. ASSUME NEW h \in Host
      PROVE  /\ node[h] \in Node /\ node[h].jwks \in Nat /\ node[h].generation \in Nat
             /\ Fits(h, node[h].generation, node[h].jwks)
  BY <1>1, KnownTypes, KnownFit DEF TypeOK, ZoneTypeOK
<1>3. ASSUME NEW r \in Request
      PROVE  /\ req[r] \in Req /\ req[r].host \in Host /\ WorkerOf[r] \in Worker
             /\ req[r].generation \in Nat /\ req[r].jwks \in Nat
             /\ Fits(req[r].host, req[r].generation, req[r].jwks)
  BY <1>1, KnownTypes, KnownFit, DirectoryAssumption
\* A step of the request in slot r that leaves it with what it had, a known
\* document or none.
<1>4. ASSUME NEW r \in Request, NEW q, req' = [req EXCEPT ![r] = q],
             Fits(q.host, q.generation, q.jwks)
      PROVE  \A s \in Request : Fits(req'[s].host, req'[s].generation, req'[s].jwks)
  BY <1>1, <1>3, <1>4 DEF TypeOK
<1>5. UNCHANGED node =>
          \A h \in Host : Fits(h, node'[h].generation, node'[h].jwks)
  BY <1>2
<1>6. UNCHANGED req =>
          \A r \in Request : Fits(req'[r].host, req'[r].generation, req'[r].jwks)
  BY <1>3
<1>7. UNCHANGED local =>
          \A w \in Worker, h \in Host :
              Fits(h, local'[w][h].generation, local'[w][h].keys)
  BY KnownFit
<1>8. CASE Tick \/ (\E w \in Worker : UpdateTime(w)) \/ (\E h \in Host : Publish(h))
  <2>1. UNCHANGED <<node, req, local, generation>>
    BY <1>8 DEF Tick, UpdateTime, Publish, zoneVars, reqVars
  <2> QED BY <1>1, <1>5, <1>6, <1>7, <2>1, GenerationsKept
<1>9. CASE UNCHANGED vars
  <2>1. UNCHANGED <<node, req, local, generation>>
    BY <1>9 DEF vars
  <2> QED BY <1>1, <1>5, <1>6, <1>7, <2>1, GenerationsKept
<1>10. ASSUME NEW h \in Host
       PROVE  /\ FreshReq(h) \in Req
              /\ Fits(FreshReq(h).host, FreshReq(h).generation, FreshReq(h).jwks)
              /\ LET q == [FreshReq(h) EXCEPT !.pc = "claimed", !.since = now]
                 IN  Fits(q.host, q.generation, q.jwks)
  BY FreshReqType DEF FreshReq, Fits
<1>11. Fits(IdleReq.host, IdleReq.generation, IdleReq.jwks)
  BY <1>10, DirectoryAssumption DEF IdleReq
<1>12. ASSUME NEW q \in Req, Fits(q.host, q.generation, q.jwks)
       PROVE  Fits(FailOpen(q).host, FailOpen(q).generation, FailOpen(q).jwks)
  <2>1. /\ FailOpen(q).host = q.host /\ FailOpen(q).generation = q.generation
        /\ FailOpen(q).jwks = q.jwks
    BY DEF FailOpen, Req
  <2> QED BY <1>12, <2>1
<1>13. ASSUME NEW w \in Worker, Crash(w)
       PROVE  GenInv'
  <2>1. \A r \in Request : Fits(req'[r].host, req'[r].generation, req'[r].jwks)
    BY <1>3, <1>11, <1>13 DEF Crash
  <2>2. \A v \in Worker, h \in Host : Fits(h, local'[v][h].generation, local'[v][h].keys)
    <3>1. \A h \in Host : EmptyKeysCache(Host)[h].generation = 0
      BY DEF EmptyKeysCache, FreeSlot
    <3>2. \A v \in Worker :
             local'[v] = IF v = w THEN EmptyKeysCache(Host) ELSE local[v]
      BY <1>1, <1>13 DEF Crash, TypeOK
    <3> TAKE v \in Worker, h \in Host
    <3>3. CASE v = w
      BY <3>1, <3>2, <3>3 DEF Fits
    <3>4. CASE v # w
      BY <3>2, <3>4, KnownFit
    <3> QED BY <3>3, <3>4
  <2> QED BY <1>1, <1>5, <1>13, <2>1, <2>2, GenerationsKept DEF Crash, zoneVars
<1>14. ASSUME NEW h \in Host, NEW pc
       PROVE  LET q == Serve(h, node[h].jwks, node[h].generation, pc)
              IN  Fits(q.host, q.generation, q.jwks)
  <2>1. LET q == Serve(h, node[h].jwks, node[h].generation, pc)
        IN  q.host = h /\ q.generation = node[h].generation /\ q.jwks = node[h].jwks
    BY DEF Serve, FreshReq
  <2> QED BY <1>2, <2>1
<1>15. ASSUME NEW r \in Request, NEW h \in Host, LookupHit(r, h)
       PROVE  GenInv'
  <2>1. PICK res \in Resolutions(local[WorkerOf[r]], h, node[h].jwks,
                                 node[h].generation)
                     \cup {[keys |-> 0, kc |-> local[WorkerOf[r]]]},
             covered \in BOOLEAN :
           /\ local' = [local EXCEPT ![WorkerOf[r]] = res.kc]
           /\ req' = [req EXCEPT ![r] =
                         Serve(h, node[h].jwks, node[h].generation,
                               IF covered \/ res.keys = 0 THEN "ready"
                               ELSE "uncovered")]
    BY <1>15 DEF LookupHit
  <2>2. \A w \in Worker, x \in Host : Fits(x, local'[w][x].generation, local'[w][x].keys)
    <3>1. CASE res = [keys |-> 0, kc |-> local[WorkerOf[r]]]
      <4>1. local' = local
        BY <1>1, <1>3, <2>1, <3>1 DEF TypeOK
      <4> QED BY <1>7, <4>1
    <3>2. CASE res \in Resolutions(local[WorkerOf[r]], h, node[h].jwks,
                                   node[h].generation)
      BY <1>1, <1>2, <1>3, <2>1, <3>2, ResolvedKnown
    <3> QED BY <2>1, <3>1, <3>2
  <2>3. \A s \in Request : Fits(req'[s].host, req'[s].generation, req'[s].jwks)
    BY <1>4, <1>14, <2>1
  <2>4. UNCHANGED <<node, generation>>
    BY <1>15 DEF LookupHit, zoneVars
  <2> QED BY <1>1, <1>5, <2>2, <2>3, <2>4, GenerationsKept
\* A step that leaves the zone and the parsed keys alone.
<1>16. ASSUME NEW r \in Request, NEW q, req' = [req EXCEPT ![r] = q],
              Fits(q.host, q.generation, q.jwks), UNCHANGED <<zoneVars, local>>
       PROVE  GenInv'
  BY <1>1, <1>4, <1>5, <1>7, <1>16, GenerationsKept DEF zoneVars
<1>17. ASSUME NEW r \in Request, NEW h \in Host, LookupStale(r, h)
       PROVE  GenInv'
  BY <1>14, <1>16, <1>17 DEF LookupStale
<1>18. ASSUME NEW r \in Request, NEW h \in Host, LookupFailOpen(r, h)
       PROVE  GenInv'
  BY <1>10, <1>12, <1>16, <1>18 DEF LookupFailOpen
<1>19. ASSUME NEW h \in Host, NEW n, n.generation = node[h].generation,
              n.jwks = node[h].jwks, node' = [node EXCEPT ![h] = n]
       PROVE  \A x \in Host : Fits(x, node'[x].generation, node'[x].jwks)
  BY <1>1, <1>2, <1>19 DEF TypeOK, ZoneTypeOK
<1>20. ASSUME NEW r \in Request, NEW h \in Host, LookupClaims(r, h)
       PROVE  GenInv'
  <2>1. /\ ClaimedNode(node[h], Time(r)).generation = node[h].generation
        /\ ClaimedNode(node[h], Time(r)).jwks = node[h].jwks
    BY <1>2 DEF ClaimedNode, Node
  <2>2. \A x \in Host : Fits(x, node'[x].generation, node'[x].jwks)
    BY <1>19, <1>20, <2>1 DEF LookupClaims, LookupClaim
  <2>3. \A s \in Request : Fits(req'[s].host, req'[s].generation, req'[s].jwks)
    BY <1>4, <1>10, <1>20 DEF LookupClaims
  <2>4. UNCHANGED <<local, generation>>
    BY <1>20 DEF LookupClaims, LookupClaim
  <2> QED BY <1>1, <1>7, <2>2, <2>3, <2>4, GenerationsKept
<1>21. ASSUME NEW h \in Host, NEW a, NEW n, Fits(h, n.generation, n.jwks),
              node' = NodesAfter(a, h, n)
       PROVE  \A x \in Host : Fits(x, node'[x].generation, node'[x].jwks)
  BY <1>2, <1>21 DEF NodesAfter, ZeroNode, Fits
<1>22. ASSUME NEW r \in Request, NEW h \in Host, LookupAllocates(r, h)
       PROVE  GenInv'
  <2>1. PICK a \in AllocOutcomes(Time(r)) :
          /\ LookupAlloc(h, Time(r), a)
          /\ req' = [req EXCEPT ![r] =
                        IF a.ok THEN [FreshReq(h) EXCEPT !.pc = "claimed",
                                                         !.since = now]
                        ELSE FailOpen(FreshReq(h))]
    BY <1>22 DEF LookupAllocates
  <2>2. ClaimedNode(ZeroNode, Time(r)).generation = 0
    BY DEF ClaimedNode, ZeroNode
  <2>3. \A x \in Host : Fits(x, node'[x].generation, node'[x].jwks)
    BY <1>21, <2>1, <2>2 DEF LookupAlloc, Fits
  <2>4. \A s \in Request : Fits(req'[s].host, req'[s].generation, req'[s].jwks)
    <3>1. CASE a.ok
      BY <1>4, <1>10, <2>1, <3>1
    <3>2. CASE ~a.ok
      BY <1>4, <1>10, <1>12, <2>1, <3>2
    <3> QED BY <3>1, <3>2
  <2>5. UNCHANGED <<local, generation>>
    BY <1>22, <2>1 DEF LookupAllocates, LookupAlloc
  <2> QED BY <1>1, <1>7, <2>3, <2>4, <2>5, GenerationsKept
<1>23. ASSUME NEW r \in Request, RotationGranted(r)
       PROVE  GenInv'
  <2> DEFINE n == [ClaimedNode(node[req[r].host], Time(r)) EXCEPT
                      !.forced_refetch_at = Time(r)]
             q == [req[r] EXCEPT !.pc = "claimed", !.since = now]
  <2>1. /\ n.generation = node[req[r].host].generation
        /\ n.jwks = node[req[r].host].jwks
    BY <1>2, <1>3 DEF ClaimedNode, Node
  <2>2. /\ q.host = req[r].host /\ q.generation = req[r].generation
        /\ q.jwks = req[r].jwks
    BY <1>3 DEF Req
  <2>3. /\ node' = [node EXCEPT ![req[r].host] = n]
        /\ req' = [req EXCEPT ![r] = q]
        /\ UNCHANGED <<local, generation>>
    BY <1>23 DEF RotationGranted, RotationClaim
  <2> HIDE DEF n, q
  <2>4. \A x \in Host : Fits(x, node'[x].generation, node'[x].jwks)
    BY <1>3, <1>19, <2>1, <2>3
  <2>5. \A s \in Request : Fits(req'[s].host, req'[s].generation, req'[s].jwks)
    BY <1>3, <1>4, <2>2, <2>3
  <2> QED BY <1>1, <1>7, <2>3, <2>4, <2>5, GenerationsKept
<1>24. ASSUME NEW r \in Request, RotationDeclined(r)
       PROVE  GenInv'
  <2> DEFINE q == [req[r] EXCEPT !.pc = "ready"]
  <2>1. /\ q.host = req[r].host /\ q.generation = req[r].generation
        /\ q.jwks = req[r].jwks
    BY <1>3 DEF Req
  <2>2. Fits(q.host, q.generation, q.jwks)
    BY <1>3, <2>1
  <2> QED BY <1>16, <1>24, <2>2 DEF RotationDeclined
<1>25. ASSUME NEW r \in Request, NEW e, Release(req[r].host, e), NEW q,
              req' = [req EXCEPT ![r] = q], Fits(q.host, q.generation, q.jwks),
              UNCHANGED local
       PROVE  GenInv'
  <2>1. \A x \in Host : Fits(x, node'[x].generation, node'[x].jwks)
    <3> DEFINE n == [node[req[r].host] EXCEPT !.fetching = FALSE,
                        !.fetching_since = 0, !.expires_at = e]
    <3>1. /\ n.generation = node[req[r].host].generation
          /\ n.jwks = node[req[r].host].jwks
      BY <1>2, <1>3 DEF Node
    <3>2. UNCHANGED node \/ node' = [node EXCEPT ![req[r].host] = n]
      BY <1>25 DEF Release
    <3> HIDE DEF n
    <3> QED BY <1>3, <1>5, <1>19, <3>1, <3>2
  <2> QED BY <1>1, <1>4, <1>7, <1>25, <2>1, GenerationsKept DEF Release
<1>26. ASSUME NEW r \in Request, PostFails(r) \/ DirectoryRejects(r)
       PROVE  GenInv'
  <2>1. /\ Release(req[r].host, Time(r) + MinTtl) /\ UNCHANGED local
        /\ req' = [req EXCEPT ![r] = FailOpen(req[r])]
    BY <1>26 DEF PostFails, DirectoryRejects
  <2> QED BY <1>3, <1>12, <1>25, <2>1
<1>27. ASSUME NEW r \in Request, Cleanup(r)
       PROVE  GenInv'
  BY <1>11, <1>25, <1>27 DEF Cleanup
<1>28. ASSUME NEW r \in Request, OriginAnswers(r)
       PROVE  GenInv'
  <2>1. PICK doc : req' = [req EXCEPT ![r].pc = "answered", ![r].answer = doc]
    BY <1>28 DEF OriginAnswers
  <2> DEFINE q == [req[r] EXCEPT !.pc = "answered", !.answer = doc]
  <2>2. /\ q.host = req[r].host /\ q.generation = req[r].generation
        /\ q.jwks = req[r].jwks
    BY <1>3 DEF Req
  <2>3. Fits(q.host, q.generation, q.jwks) /\ req' = [req EXCEPT ![r] = q]
    BY <1>3, <2>1, <2>2
  <2>4. UNCHANGED <<zoneVars, local>>
    BY <1>28 DEF OriginAnswers
  <2> HIDE DEF q
  <2> QED BY <1>16, <2>3, <2>4
<1>29. ASSUME NEW r \in Request, DirectoryStores(r)
       PROVE  GenInv'
  <2> DEFINE h == req[r].host
             doc == req[r].answer
  <2>1. PICK a \in StoreAllocs(h, Time(r)), ok \in BOOLEAN, ttl \in MinTtl .. MaxTtl :
          /\ Store(h, doc, Time(r) + ttl, Time(r), a, ok)
          /\ req' = [req EXCEPT ![r].pc = "ready",
                                ![r].since = 0, ![r].answer = 0,
                                ![r].jwks = req[r].answer,
                                ![r].generation = StoredGeneration(h, a, ok)]
    BY <1>29, StoredWithinBounds
  <2>2. h \in Host /\ doc \in Nat /\ UNCHANGED local
    BY <1>3, <1>29 DEF DirectoryStores, Req
  <2>3. /\ req'[r].host = h /\ req'[r].jwks = doc
        /\ req'[r].generation = StoredGeneration(h, a, ok)
        /\ \A s \in Request \ {r} : req'[s] = req[s]
    BY <1>1, <1>3, <2>1 DEF TypeOK, Req
  <2>4. TargetNode(h) \in Node /\ Fits(h, TargetNode(h).generation, TargetNode(h).jwks)
    BY <1>2, <2>2, NodeTypes DEF TargetNode, ZeroNode, Fits
  <2> HIDE DEF h, doc
  <2>5. CASE ok /\ a.ok
    <3> DEFINE n == StoreNode(h, doc, Time(r) + ttl)
    <3>1. n.generation = generation + 1 /\ n.jwks = doc
      BY <2>4 DEF StoreNode, NextGeneration, Node
    <3>2. generation' = generation + 1 /\ req'[r].generation = generation + 1
      BY <2>1, <2>3, <2>5 DEF Store, StoredGeneration, NextGeneration
    <3>3. node' = NodesAfter(a, h, n)
      BY <2>1, <2>5 DEF Store
    <3> HIDE DEF n
    <3>4. \A x \in Host : \/ Fits(x, node'[x].generation, node'[x].jwks)
                          \/ /\ x = h /\ node'[x].generation = generation + 1
                             /\ node'[x].jwks = doc
      BY <1>2, <3>1, <3>3 DEF NodesAfter, ZeroNode, Fits
    <3>5. \A s \in Request :
             \/ Fits(req'[s].host, req'[s].generation, req'[s].jwks)
             \/ /\ req'[s].host = h /\ req'[s].generation = generation + 1
                /\ req'[s].jwks = doc
      BY <1>3, <2>3, <3>2
    <3> QED BY <1>1, <2>2, <3>2, <3>4, <3>5, GenerationTaken
  <2>6. CASE ~(ok /\ a.ok)
    <3>1. generation' = generation /\ req'[r].generation = 0
      BY <2>1, <2>3, <2>6 DEF Store, StoredGeneration
    <3>2. \A s \in Request : Fits(req'[s].host, req'[s].generation, req'[s].jwks)
      BY <1>3, <2>3, <3>1 DEF Fits
    <3>3. \A x \in Host : Fits(x, node'[x].generation, node'[x].jwks)
      <4>1. CASE ~a.ok
        BY <1>2, <2>1, <4>1 DEF Store, NodesAfter, ZeroNode, Fits
      <4>2. CASE a.ok
        <5>1. /\ StoreNoRoomNode(h, Time(r)).generation = TargetNode(h).generation
              /\ StoreNoRoomNode(h, Time(r)).jwks = TargetNode(h).jwks
          BY <2>4 DEF StoreNoRoomNode, Node
        <5>2. node' = NodesAfter(a, h, StoreNoRoomNode(h, Time(r)))
          BY <2>1, <2>6, <4>2 DEF Store
        <5> QED BY <1>21, <2>2, <2>4, <5>1, <5>2
      <4> QED BY <4>1, <4>2
    <3> QED BY <1>1, <1>7, <2>2, <3>1, <3>2, <3>3, GenerationsKept
  <2> QED BY <2>5, <2>6
<1>30. ASSUME NEW r \in Request, Evaluate(r)
       PROVE  GenInv'
  <2>1. PICK res \in ResolvedKeys(r) :
          local' = [local EXCEPT ![WorkerOf[r]] = res.kc]
    BY <1>30 DEF Evaluate
  <2>2. \A w \in Worker, x \in Host : Fits(x, local'[w][x].generation, local'[w][x].keys)
    BY <1>1, <1>3, <2>1, ResolvedKnown DEF ResolvedKeys
  <2>3. \A s \in Request : Fits(req'[s].host, req'[s].generation, req'[s].jwks)
    BY <1>4, <1>11, <1>30 DEF Evaluate
  <2> QED BY <1>1, <1>5, <1>30, <2>2, <2>3, GenerationsKept DEF Evaluate, zoneVars
<1> QED
  BY <1>8, <1>9, <1>13, <1>15, <1>17, <1>18, <1>20, <1>22, <1>23, <1>24,
     <1>26, <1>27, <1>28, <1>29, <1>30
  DEF Next, Lookup, Progress, Interruption

\* A request is verified with the keys of the document it was served, whatever
\* was stored, evicted and stored again meanwhile, for any number of hosts,
\* workers and slots of the parsed-key cache.
THEOREM KeysAreOfDocument == Spec => []KeysMatchDocument
<1>1. Init => GenInv
  <2> SUFFICES ASSUME Init, NEW h \in Host, NEW g \in Nat \ {0}, NEW d \in Nat
               PROVE  ~Known(h, g, d)
    BY InitType DEF GenInv, GenerationsUsed, GenerationsUnique
  <2>1. node[h].generation = 0
    BY DEF Init, ZoneInit, ZeroNode
  <2>2. \A r \in Request : req[r].generation = 0
    BY DEF Init, IdleReq, FreshReq
  <2>3. \A w \in Worker : local[w][h].generation = 0
    BY DEF Init, EmptyKeysCache, FreeSlot
  <2> QED BY <2>1, <2>2, <2>3 DEF Known
<1>2. GenInv => KeysMatchDocument
  <2> SUFFICES ASSUME GenInv, NEW r \in Request, NEW res \in ResolvedKeys(r)
               PROVE  res.keys \in {0, req[r].jwks}
    BY DEF KeysMatchDocument
  <2> DEFINE h == req[r].host
             kc == local[WorkerOf[r]]
             gen == req[r].generation
  <2>1. /\ TypeOK /\ h \in Host /\ WorkerOf[r] \in Worker /\ gen \in Nat
        /\ req[r].jwks \in Nat /\ kc[h].keys \in Nat
    BY KnownTypes, DirectoryAssumption DEF GenInv
  <2>2. CacheHolds(kc, h, gen) => kc[h].keys = req[r].jwks
    <3> SUFFICES ASSUME gen # 0, kc[h].generation = gen
                 PROVE  kc[h].keys = req[r].jwks
      BY DEF CacheHolds
    <3>1. Known(h, gen, req[r].jwks) /\ Known(h, gen, kc[h].keys)
      BY <2>1 DEF Known
    <3> HIDE DEF h, gen, kc
    <3> QED BY <2>1, <3>1 DEF GenInv, GenerationsUnique
  <2> QED BY <2>2 DEF ResolvedKeys, Resolutions
<1> QED BY <1>1, <1>2, NextGen, PTL DEF Spec

-----------------------------------------------------------------------------
(* What a step may do to the zone. *)

\* A step that leaves the zone alone: time and versions only grow.
Quiet ==
    /\ UNCHANGED <<zoneVars, history>>
    /\ now' \in {now, now + 1}
    /\ \A h \in Host : origin'[h] >= origin[h]

\* A step in which the request in slot r gives its right back unused.
GivesBack(r) ==
    /\ req[r].pc \in Holding
    /\ Release(req[r].host, Time(r) + MinTtl)
    /\ Ends(req[r].host, Time(r))
    /\ UNCHANGED envVars

\* Every step is quiet, makes a claim, gives one back or stores a document.
LEMMA StepKinds ==
    ASSUME TypeOK, [Next]_vars
    PROVE  \/ Quiet
           \/ \E r \in Request :
                 \/ \E h \in Host : LookupClaims(r, h) \/ LookupAllocates(r, h)
                 \/ RotationGranted(r) \/ GivesBack(r) \/ DirectoryStores(r)
<1>1. \A h \in Host : origin[h] \in Nat
  BY DEF TypeOK
<1>2. CASE UNCHANGED vars
  BY <1>1, <1>2 DEF vars, Quiet, zoneVars, history
<1>3. CASE Tick \/ (\E w \in Worker : UpdateTime(w) \/ Crash(w))
  BY <1>1, <1>3 DEF Tick, UpdateTime, Crash, Quiet, reqVars, history
<1>4. CASE \E h \in Host : Publish(h)
  <2>1. PICK h \in Host : Publish(h)
    BY <1>4
  <2>2. \A x \in Host : origin'[x] >= origin[x]
    BY <1>1, <2>1 DEF Publish, TypeOK
  <2> QED BY <2>1, <2>2 DEF Publish, Quiet, reqVars, history
<1>5. ASSUME UNCHANGED <<zoneVars, envVars, history>>
      PROVE  Quiet
  BY <1>1, <1>5 DEF Quiet, envVars, history
<1>6. ASSUME NEW r \in Request, NEW h \in Host, Lookup(r, h)
      PROVE  Quiet \/ LookupClaims(r, h) \/ LookupAllocates(r, h)
  BY <1>5, <1>6 DEF Lookup, LookupHit, LookupStale, LookupFailOpen
<1>7. ASSUME NEW r \in Request, Progress(r)
      PROVE  Quiet \/ RotationGranted(r) \/ DirectoryStores(r) \/ GivesBack(r)
  <2>1. CASE RotationDeclined(r) \/ Evaluate(r)
    BY <1>5, <2>1 DEF RotationDeclined, Evaluate
  <2>2. CASE DirectoryRejects(r)
    BY <2>2 DEF DirectoryRejects, GivesBack, Holding
  <2> QED BY <1>7, <2>1, <2>2 DEF Progress
<1>8. ASSUME NEW r \in Request, Interruption(r)
      PROVE  GivesBack(r)
  BY <1>8 DEF Interruption, PostFails, Cleanup, GivesBack, Holding
<1>9. ASSUME NEW r \in Request, OriginAnswers(r)
      PROVE  Quiet
  BY <1>5, <1>9 DEF OriginAnswers
<1> QED BY <1>2, <1>3, <1>4, <1>6, <1>7, <1>8, <1>9 DEF Next

\* A claim begins in lookup() or in claim_rotation_refetch().
LEMMA ClaimBegins ==
    ASSUME TypeOK, [Next]_vars, NEW r \in Request,
           req[r].pc \notin Holding, req'[r].pc = "claimed"
    PROVE  \/ RotationGranted(r) /\ req[r].pc = "uncovered"
           \/ /\ req[r].pc = "idle"
              /\ \E h \in Host : /\ LookupClaims(r, h) \/ LookupAllocates(r, h)
                                 /\ req'[r].host = h
<1>1. req'[r] # req[r]
  BY DEF Holding
<1>2. ASSUME NEW s \in Request, NEW q, req' = [req EXCEPT ![s] = q]
      PROVE  s = r /\ q.pc = "claimed"
  BY <1>1, <1>2 DEF TypeOK
<1>3. IdleReq.pc = "idle"
  BY DEF IdleReq, FreshReq
<1>4. ~(UNCHANGED vars \/ Tick \/ (\E w \in Worker : UpdateTime(w) \/ Crash(w))
        \/ \E h \in Host : Publish(h))
  BY <1>1, <1>3 DEF vars, Tick, UpdateTime, Crash, Publish, reqVars
<1>5. \A q \in Req : FailOpen(q).pc = "ready"
  BY DEF FailOpen, Req
<1>6. ASSUME NEW s \in Request, NEW h \in Host, Lookup(s, h)
      PROVE  /\ s = r /\ req[r].pc = "idle"
             /\ LookupClaims(r, h) \/ LookupAllocates(r, h)
             /\ req'[r].host = h
  <2>1. req[s].pc = "idle"
    BY <1>6 DEF Lookup, LookupHit, LookupStale, LookupFailOpen, LookupClaims,
                LookupAllocates
  <2>2. ~LookupHit(s, h) /\ ~LookupStale(s, h)
    <3>1. ASSUME NEW pc \in {"ready", "uncovered"}
          PROVE  Serve(h, node[h].jwks, node[h].generation, pc).pc # "claimed"
      BY DEF Serve, FreshReq
    <3>2. LookupHit(s, h) =>
             \E pc \in {"ready", "uncovered"} :
                req' = [req EXCEPT ![s] = Serve(h, node[h].jwks, node[h].generation, pc)]
      BY DEF LookupHit
    <3> QED BY <1>2, <3>1, <3>2 DEF LookupStale
  <2>3. ~LookupFailOpen(s, h)
    BY <1>2, <1>5, FreshReqType DEF LookupFailOpen
  <2>4. [FreshReq(h) EXCEPT !.pc = "claimed", !.since = now].host = h
    BY DEF FreshReq
  <2>5. CASE LookupClaims(s, h)
    <3>1. req' = [req EXCEPT ![s] = [FreshReq(h) EXCEPT !.pc = "claimed", !.since = now]]
      BY <2>5 DEF LookupClaims
    <3> QED BY <1>2, <2>1, <2>4, <2>5, <3>1 DEF TypeOK
  <2>6. CASE LookupAllocates(s, h)
    <3>1. PICK a : req' = [req EXCEPT ![s] =
                        IF a.ok THEN [FreshReq(h) EXCEPT !.pc = "claimed",
                                                         !.since = now]
                        ELSE FailOpen(FreshReq(h))]
      BY <2>6 DEF LookupAllocates
    <3>2. a.ok /\ s = r
      BY <1>2, <1>5, <3>1, FreshReqType
    <3> QED BY <2>1, <2>4, <2>6, <3>1, <3>2 DEF TypeOK
  <2> QED BY <1>6, <2>2, <2>3, <2>5, <2>6 DEF Lookup
<1>7. ASSUME NEW s \in Request
      PROVE  ~RotationDeclined(s) /\ ~Evaluate(s) /\ ~Cleanup(s)
             /\ ~PostFails(s) /\ ~DirectoryRejects(s)
  <2>1. req[s] \in Req /\ [req[s] EXCEPT !.pc = "ready"].pc = "ready"
    BY DEF TypeOK, Req
  <2> QED BY <1>2, <1>3, <1>5, <2>1
          DEF RotationDeclined, Evaluate, Cleanup, PostFails, DirectoryRejects
<1>8. ASSUME NEW s \in Request
      PROVE  ~OriginAnswers(s) /\ ~DirectoryStores(s)
  <2>1. OriginAnswers(s) \/ DirectoryStores(s) => \E q : req' = [req EXCEPT ![s] = q]
    BY DEF OriginAnswers, DirectoryStores
  <2>2. OriginAnswers(s) \/ DirectoryStores(s) => s = r
    BY <1>2, <2>1
  <2> QED BY <2>2 DEF OriginAnswers, DirectoryStores, Holding
<1>9. ASSUME NEW s \in Request, RotationGranted(s)
      PROVE  s = r /\ req[r].pc = "uncovered"
  BY <1>2, <1>9 DEF RotationGranted
<1> QED BY <1>4, <1>6, <1>7, <1>8, <1>9 DEF Next, Progress, Interruption

\* What an allocation for h, which has no node, does to each host.
LEMMA AllocEffect ==
    ASSUME TypeOK, NEW h \in Host, h \notin tree, NEW t, NEW a \in AllocOutcomes(t),
           NEW n, tree' = TreeAfter(a, h), node' = NodesAfter(a, h, n), NEW x \in Host
    PROVE  \/ (x \in tree' <=> x \in tree) /\ node'[x] = node[x]
           \/ x \in Victims(t) /\ x \notin tree' /\ node'[x] = ZeroNode
           \/ x = h /\ x \in tree' /\ node'[x] = n
<1>1. a.ok \in BOOLEAN /\ a.evicted \subseteq Victims(t) /\ h \notin a.evicted
  BY AllocOutcome DEF Victims
<1> QED BY <1>1 DEF TreeAfter, NodesAfter

\* The node of h after a fetch of h ended at time t, whatever came of it.
Ended(h, t) ==
    /\ h \in tree'
    /\ ~node'[h].fetching
    /\ node'[h].expires_at >= t + MinTtl
    /\ node'[h].expires_at <= t + MaxTtl
    /\ node'[h].forced_refetch_at = TargetNode(h).forced_refetch_at

\* What store() does to each host.
LEMMA StoreEffect ==
    ASSUME TypeOK, NEW r \in Request, DirectoryStores(r), NEW x \in Host
    PROVE  /\ \/ (x \in tree' <=> x \in tree) /\ node'[x] = node[x]
              \/ x \in Victims(Time(r)) /\ x \notin tree'
              \/ x = req[r].host /\ Ended(x, Time(r))
           /\ x = req[r].host /\ x \in tree =>
                 /\ Ended(x, Time(r))
                 /\ node'[x].jwks \in {req[r].answer, node[x].jwks}
           /\ x # req[r].host /\ req[r].host \in tree =>
                 node'[x] = node[x] /\ (x \in tree' <=> x \in tree)
<1> DEFINE h == req[r].host
<1>1. PICK a \in StoreAllocs(h, Time(r)), ok \in BOOLEAN, ttl \in MinTtl .. MaxTtl :
        /\ Store(h, req[r].answer, Time(r) + ttl, Time(r), a, ok)
        /\ req' = [req EXCEPT ![r].pc = "ready",
                              ![r].since = 0, ![r].answer = 0,
                              ![r].jwks = req[r].answer,
                              ![r].generation = StoredGeneration(h, a, ok)]
  BY StoredWithinBounds
<1>2. h \in Host /\ TargetNode(h) \in Node /\ Time(r) \in Nat
  BY NodeTypes, TimeType DEF TypeOK, ZoneTypeOK, Req, TargetNode
<1> DEFINE n == IF ok THEN StoreNode(h, req[r].answer, Time(r) + ttl)
                ELSE StoreNoRoomNode(h, Time(r))
<1>3. /\ ~n.fetching /\ n.expires_at >= Time(r) + MinTtl
      /\ n.expires_at <= Time(r) + MaxTtl
      /\ n.forced_refetch_at = TargetNode(h).forced_refetch_at
      /\ n.jwks \in {req[r].answer, TargetNode(h).jwks}
  <2>1. CASE ok
    <3>1. /\ ~n.fetching /\ n.expires_at = Time(r) + ttl
          /\ n.forced_refetch_at = TargetNode(h).forced_refetch_at
          /\ n.jwks = req[r].answer
      BY <1>2, <2>1 DEF StoreNode, Node
    <3> QED BY <1>2, <3>1, TtlAssumption
  <2>2. CASE ~ok
    <3>1. /\ ~n.fetching /\ n.expires_at = Time(r) + MinTtl
          /\ n.forced_refetch_at = TargetNode(h).forced_refetch_at
          /\ n.jwks = TargetNode(h).jwks
      BY <1>2, <2>2 DEF StoreNoRoomNode, Node
    <3> QED BY <1>2, <3>1, TtlAssumption
  <2> QED BY <2>1, <2>2
<1>4. tree' = TreeAfter(a, h) /\ node' = NodesAfter(a, h, n)
  BY <1>1 DEF Store
<1> HIDE DEF n, h
<1>5. CASE h \in tree
  <2>1. a.evicted = {} /\ a.ok
    BY <1>1, <1>5 DEF StoreAllocs
  <2>2. (x \in tree' <=> x \in tree) /\ node'[x] = IF x = h THEN n ELSE node[x]
    BY <1>4, <1>5, <2>1 DEF TreeAfter, NodesAfter
  <2>3. TargetNode(h) = node[h]
    BY <1>5 DEF TargetNode
  <2> QED BY <1>3, <1>5, <2>2, <2>3 DEF Ended, h
<1>6. CASE h \notin tree
  <2>1. \/ (x \in tree' <=> x \in tree) /\ node'[x] = node[x]
        \/ x \in Victims(Time(r)) /\ x \notin tree' /\ node'[x] = ZeroNode
        \/ x = h /\ x \in tree' /\ node'[x] = n
    BY <1>1, <1>2, <1>4, <1>6, AllocEffect DEF StoreAllocs
  <2> QED BY <1>3, <1>6, <2>1 DEF Ended, h
<1> QED BY <1>5, <1>6

\* What release() does to each host.
LEMMA ReleaseEffect ==
    ASSUME TypeOK, NEW r \in Request, GivesBack(r), NEW x \in Host
    PROVE  /\ x \in tree' <=> x \in tree
           /\ node'[x].jwks = node[x].jwks
           /\ IF x = req[r].host /\ x \in tree THEN Ended(x, Time(r))
              ELSE node'[x] = node[x]
<1>1. node[x] \in Node /\ node \in [Host -> Node] /\ Time(r) + MinTtl \in Nat
  BY TimeType, TtlAssumption DEF TypeOK, ZoneTypeOK
<1> DEFINE n == [node[x] EXCEPT !.fetching = FALSE, !.fetching_since = 0,
                                !.expires_at = Time(r) + MinTtl]
<1>2. CASE x = req[r].host /\ x \in tree
  <2>1. node'[x] = n /\ tree' = tree
    BY <1>1, <1>2 DEF GivesBack, Release
  <2>2. /\ ~n.fetching /\ n.expires_at = Time(r) + MinTtl
        /\ n.forced_refetch_at = node[x].forced_refetch_at /\ n.jwks = node[x].jwks
    BY <1>1 DEF Node
  <2> QED BY <1>1, <1>2, <2>1, <2>2, TimeType, TtlAssumption
          DEF Ended, TargetNode
<1>3. CASE ~(x = req[r].host /\ x \in tree)
  BY <1>1, <1>3 DEF GivesBack, Release
<1> QED BY <1>2, <1>3

-----------------------------------------------------------------------------
(* Rotation rescues are spaced. *)

\* The clocks stay close to real time, however long fetches take.
LEMMA NextClocks == TypeOK /\ ClocksOK /\ [Next]_vars => ClocksOK'
<1> SUFFICES ASSUME TypeOK, ClocksOK, [Next]_vars PROVE ClocksOK'
  OBVIOUS
<1>1. CASE Tick
  BY <1>1, DirectoryAssumption DEF Tick, ClocksOK, TypeOK
<1>2. ASSUME NEW w \in Worker, UpdateTime(w)
      PROVE  ClocksOK'
  BY <1>2, DirectoryAssumption DEF UpdateTime, ClocksOK, TypeOK
<1>3. CASE UNCHANGED <<now, clock>>
  BY <1>3 DEF ClocksOK
<1> QED
  BY <1>1, <1>2, <1>3
  DEF Next, vars, Publish, Crash, Lookup, LookupHit, LookupStale, LookupFailOpen,
      LookupClaims, LookupAllocates, Progress, RotationGranted, RotationDeclined,
      DirectoryStores, DirectoryRejects, Evaluate, Interruption, PostFails, Cleanup,
      OriginAnswers, envVars

\* A request's clock is at most MaxLag behind.
LEMMA TimeClose ==
    ASSUME TypeOK, ClocksOK, NEW r \in Request
    PROVE  /\ Time(r) \in Nat /\ now \in Nat
           /\ Time(r) <= now /\ now <= Time(r) + MaxLag
BY TimeType DEF ClocksOK, Time, TypeOK

\* The last rescue of h was long ago, or h's node remembers it and cannot be
\* evicted before the rescue's time is up: it is being fetched, or it was
\* marked afterwards as not to be fetched for MinTtl.
RescueRemembered(h) ==
    /\ lastRescue[h] <= now
    /\ \/ now + MaxLag >= lastRescue[h] + RetryTtl
       \/ /\ h \in tree
          /\ node[h].forced_refetch_at = lastRescue[h]
          /\ \/ node[h].fetching
             \/ node[h].expires_at + MaxLag >= lastRescue[h] + MinTtl

RescueInv ==
    /\ TypeOK /\ ClocksOK
    /\ \A h \in Host : lastRescue[h] # 0 => RescueRemembered(h)

\* Every step keeps RescueInv: what evicts a node that remembers a rescue
\* comes MinTtl, hence RetryTtl, after that rescue.
LEMMA NextRescue ==
    ASSUME RetryTtl <= MinTtl
    PROVE  RescueInv /\ [Next]_vars => RescueInv'
<1> SUFFICES ASSUME RescueInv, [Next]_vars, NEW x \in Host, lastRescue'[x] # 0
             PROVE  RescueRemembered(x)'
  BY NextType, NextClocks DEF RescueInv
<1>1. /\ TypeOK /\ TypeOK' /\ ClocksOK
      /\ now \in Nat /\ lastRescue[x] \in Nat
      /\ MaxLag \in Nat /\ MinTtl \in Nat /\ RetryTtl \in Nat \ {0}
  BY NextType, DirectoryAssumption, TtlAssumption DEF RescueInv, TypeOK
<1>2. /\ node[x] \in Node /\ node'[x] \in Node
      /\ node[x].expires_at \in Nat /\ node'[x].expires_at \in Nat
      /\ node[x].forced_refetch_at \in Nat
  BY <1>1 DEF TypeOK, ZoneTypeOK, Node
<1>3. ASSUME NEW r \in Request
      PROVE  /\ req[r].host \in Host
             /\ Time(r) \in Nat /\ Time(r) <= now /\ now <= Time(r) + MaxLag
  BY <1>1, TimeClose DEF TypeOK, Req
<1>4. lastRescue[x] # 0 => RescueRemembered(x)
  BY DEF RescueInv
\* A step after which x's node still remembers as much, or time has passed.
<1>5. ASSUME lastRescue' = lastRescue, now' \in {now, now + 1},
             x \in tree => /\ x \in tree'
                           /\ node'[x].forced_refetch_at = node[x].forced_refetch_at
                           /\ \/ node'[x].fetching
                              \/ /\ ~node[x].fetching
                                 /\ node'[x].expires_at = node[x].expires_at
                              \/ node'[x].expires_at + MaxLag >= now + MinTtl
      PROVE  RescueRemembered(x)'
  <2>1. RescueRemembered(x) /\ lastRescue'[x] = lastRescue[x]
    BY <1>4, <1>5
  <2> QED BY <1>1, <1>2, <1>5, <2>1 DEF RescueRemembered
<1>6. ASSUME NEW r \in Request, x \in Victims(Time(r)), UNCHANGED <<now, lastRescue>>
      PROVE  RescueRemembered(x)'
  <2>1. ~node[x].fetching /\ node[x].expires_at <= now
    BY <1>2, <1>3, <1>1, <1>6 DEF Victims
  <2>2. RescueRemembered(x) /\ lastRescue'[x] = lastRescue[x]
    BY <1>4, <1>6
  <2>3. now + MaxLag >= lastRescue[x] + RetryTtl
    BY <1>1, <1>2, <2>1, <2>2 DEF RescueRemembered
  <2> QED BY <1>6, <2>2, <2>3 DEF RescueRemembered
<1>7. ASSUME NEW r \in Request, Ended(x, Time(r)), x \in tree,
             UNCHANGED <<now, lastRescue>>
      PROVE  RescueRemembered(x)'
  <2>1. node'[x].expires_at + MaxLag >= now + MinTtl
    BY <1>1, <1>2, <1>3, <1>7 DEF Ended
  <2> QED BY <1>1, <1>5, <1>7, <2>1 DEF Ended, TargetNode
<1>8. CASE Quiet
  BY <1>2, <1>5, <1>8 DEF Quiet, zoneVars, history, Node
<1>9. ASSUME NEW r \in Request, NEW h \in Host, LookupClaims(r, h)
      PROVE  RescueRemembered(x)'
  <2>1. UNCHANGED <<now, lastRescue, tree>>
    BY <1>9 DEF LookupClaims, LookupClaim, envVars, history
  <2>2. node'[x] = IF x = h THEN ClaimedNode(node[x], Time(r)) ELSE node[x]
    BY <1>1, <1>9 DEF LookupClaims, LookupClaim, TypeOK, ZoneTypeOK
  <2>3. /\ ClaimedNode(node[x], Time(r)).fetching
        /\ ClaimedNode(node[x], Time(r)).forced_refetch_at = node[x].forced_refetch_at
    BY <1>2 DEF ClaimedNode, Node
  <2> QED BY <1>1, <1>2, <1>5, <2>1, <2>2, <2>3
<1>10. ASSUME NEW r \in Request, NEW h \in Host, LookupAllocates(r, h)
       PROVE  RescueRemembered(x)'
  <2>1. PICK a \in AllocOutcomes(Time(r)) : LookupAlloc(h, Time(r), a)
    BY <1>10 DEF LookupAllocates
  <2>2. h \notin tree /\ UNCHANGED <<now, lastRescue>>
    BY <1>10 DEF LookupAllocates, LookupStatus, envVars, history
  <2>3. \/ (x \in tree' <=> x \in tree) /\ node'[x] = node[x]
        \/ x \in Victims(Time(r))
        \/ x = h
    BY <1>1, <2>1, <2>2, AllocEffect DEF LookupAlloc
  <2> QED BY <1>1, <1>2, <1>5, <1>6, <2>2, <2>3
<1>11. ASSUME NEW r \in Request, RotationGranted(r)
       PROVE  RescueRemembered(x)'
  <2> DEFINE h == req[r].host
  <2>1. /\ UNCHANGED <<now, tree>> /\ h \in tree
        /\ lastRescue' = [lastRescue EXCEPT ![h] = Time(r)]
    BY <1>11 DEF RotationGranted, RotationClaim, MayRotate, envVars
  <2> DEFINE n == [ClaimedNode(node[h], Time(r)) EXCEPT !.forced_refetch_at = Time(r)]
  <2>2. node'[x] = IF x = h THEN n ELSE node[x]
    BY <1>1, <1>11 DEF RotationGranted, RotationClaim, TypeOK, ZoneTypeOK
  <2>3. CASE x = h
    <3>1. n.fetching /\ n.forced_refetch_at = Time(r)
      BY <1>2, <2>3 DEF ClaimedNode, Node
    <3>2. lastRescue'[x] = Time(r)
      BY <1>1, <2>1, <2>3 DEF TypeOK
    <3> QED BY <1>3, <2>1, <2>2, <2>3, <3>1, <3>2 DEF RescueRemembered
  <2>4. CASE x # h
    <3>1. lastRescue'[x] = lastRescue[x] /\ node'[x] = node[x]
      BY <1>1, <2>1, <2>2, <2>4 DEF TypeOK
    <3> QED BY <1>4, <2>1, <3>1 DEF RescueRemembered
  <2> QED BY <2>3, <2>4
<1>12. ASSUME NEW r \in Request, GivesBack(r)
       PROVE  RescueRemembered(x)'
  <2>1. UNCHANGED <<now, lastRescue>>
    BY <1>12 DEF GivesBack, Ends, envVars
  <2>2. CASE x = req[r].host /\ x \in tree
    BY <1>1, <1>7, <1>12, <2>1, <2>2, ReleaseEffect
  <2>3. CASE ~(x = req[r].host /\ x \in tree)
    <3>1. (x \in tree' <=> x \in tree) /\ node'[x] = node[x]
      BY <1>1, <1>12, <2>3, ReleaseEffect
    <3> QED BY <1>1, <1>2, <1>5, <2>1, <3>1 DEF Node
  <2> QED BY <2>2, <2>3
<1>13. ASSUME NEW r \in Request, DirectoryStores(r)
       PROVE  RescueRemembered(x)'
  <2>1. UNCHANGED <<now, lastRescue>>
    BY <1>13 DEF DirectoryStores, Ends, envVars
  <2>2. \/ (x \in tree' <=> x \in tree) /\ node'[x] = node[x]
        \/ x \in Victims(Time(r))
        \/ Ended(x, Time(r))
    BY <1>1, <1>13, StoreEffect
  <2>3. CASE (x \in tree' <=> x \in tree) /\ node'[x] = node[x]
    BY <1>1, <1>2, <1>5, <2>1, <2>3 DEF Node
  <2>4. CASE x \in Victims(Time(r))
    BY <1>6, <2>1, <2>4
  <2>5. CASE Ended(x, Time(r))
    BY <1>1, <1>5, <1>7, <2>1, <2>5
  <2> QED BY <2>2, <2>3, <2>4, <2>5
<1> QED BY <1>1, <1>8, <1>9, <1>10, <1>11, <1>12, <1>13, StepKinds

\* Two rotation rescues of a host are RetryTtl apart, up to the lag of two
\* clocks, even when the host was evicted in between and however long its
\* fetches take, provided that key_rotation_retry_ttl is not above
\* key_cache_min_ttl.
THEOREM RescuesAreSpaced == ASSUME RetryTtl <= MinTtl PROVE Spec => RescueSpacing
<1>1. Init => RescueInv
  <2> SUFFICES ASSUME Init PROVE RescueInv
    OBVIOUS
  <2>1. ClocksOK
    BY DirectoryAssumption DEF Init, ClocksOK
  <2> QED BY <2>1, InitType DEF Init, RescueInv
<1>2. ASSUME RescueInv, [Next]_vars, NEW r \in Request,
             req[r].pc = "uncovered", req'[r].pc = "claimed",
             lastRescue[req[r].host] # 0
      PROVE  Time(r) - lastRescue[req[r].host] >= RetryTtl - 2 * MaxLag
  <2> DEFINE h == req[r].host
  <2>1. TypeOK /\ h \in Host /\ RescueRemembered(h)
    BY <1>2 DEF RescueInv, TypeOK, Req
  <2>2. /\ Time(r) \in Nat /\ now \in Nat /\ now <= Time(r) + MaxLag
        /\ lastRescue[h] \in Nat /\ MaxLag \in Nat /\ RetryTtl \in Nat
    BY <1>2, <2>1, TimeClose, DirectoryAssumption, TtlAssumption DEF RescueInv, TypeOK
  <2>3. RotationGranted(r)
    BY <1>2, <2>1, ClaimBegins DEF Holding
  <2>4. \/ node[h].forced_refetch_at = 0
        \/ Time(r) - node[h].forced_refetch_at >= RetryTtl
    BY <2>3 DEF RotationGranted, MayRotate
  <2> HIDE DEF h
  <2>5. Time(r) - lastRescue[h] >= RetryTtl - 2 * MaxLag
    BY <1>2, <2>1, <2>2, <2>4 DEF RescueRemembered, h
  <2> QED BY <2>5 DEF h
<1>3. RescueInv /\ [Next]_vars =>
        [\A r \in Request :
          LET h == req[r].host IN
          /\ req[r].pc = "uncovered" /\ req'[r].pc = "claimed"
          /\ lastRescue[h] # 0
          => Time(r) - lastRescue[h] >= RetryTtl - 2 * MaxLag]_vars
  BY <1>2
<1> QED BY <1>1, <1>3, NextRescue, PTL DEF Spec, RescueSpacing

-----------------------------------------------------------------------------
(* Fetches are spaced. *)

\* The last fetch of h ended MinTtl ago, or h's node says to wait until then.
EndRemembered(h) ==
    \/ now >= lastEnd[h] + MinTtl
    \/ h \in tree /\ node[h].expires_at >= lastEnd[h] + MinTtl

\* That a fetch which ends finds its node, to leave its mark on, is ClaimInv's.
EndInv == ClaimInv /\ \A h \in Host : lastEnd[h] # 0 => EndRemembered(h)

\* Every step keeps EndInv.
LEMMA NextEnd == ASSUME BoundedFetch PROVE EndInv /\ [Next]_vars => EndInv'
<1> SUFFICES ASSUME EndInv, [Next]_vars, NEW x \in Host, lastEnd'[x] # 0
             PROVE  EndRemembered(x)'
  BY NextClaim DEF EndInv
<1>1. /\ TypeOK /\ TypeOK' /\ ClocksOK /\ ClaimsRecorded
      /\ now \in Nat /\ lastEnd[x] \in Nat /\ MinTtl \in Nat
  BY NextType, TtlAssumption DEF EndInv, ClaimInv, TypeOK
<1>2. node[x] \in Node /\ node[x].expires_at \in Nat /\ node'[x].expires_at \in Nat
  BY <1>1 DEF TypeOK, ZoneTypeOK, Node
<1>3. ASSUME NEW r \in Request
      PROVE  Time(r) \in Nat /\ Time(r) <= now /\ req[r].host \in Host
  BY <1>1, TimeClose DEF TypeOK, Req
<1>4. lastEnd[x] # 0 => EndRemembered(x)
  BY DEF EndInv
<1>5. ASSUME lastEnd'[x] = lastEnd[x], now' \in {now, now + 1},
             x \in tree => x \in tree' /\ node'[x].expires_at = node[x].expires_at
      PROVE  EndRemembered(x)'
  BY <1>1, <1>2, <1>4, <1>5 DEF EndRemembered
<1>6. ASSUME NEW r \in Request, Ended(x, Time(r)), lastEnd'[x] = Time(r)
      PROVE  EndRemembered(x)'
  BY <1>6 DEF Ended, EndRemembered
<1>7. ASSUME NEW r \in Request, Ends(req[r].host, Time(r))
      PROVE  lastEnd'[x] = IF x = req[r].host THEN Time(r) ELSE lastEnd[x]
  BY <1>1, <1>3, <1>7 DEF Ends, TypeOK
<1>8. CASE Quiet
  BY <1>5, <1>8 DEF Quiet, zoneVars, history
<1>9. ASSUME NEW r \in Request, NEW h \in Host, LookupClaims(r, h)
      PROVE  EndRemembered(x)'
  <2>1. UNCHANGED <<now, lastEnd, tree>>
    BY <1>9 DEF LookupClaims, LookupClaim, envVars, history
  <2>2. node'[x] = IF x = h THEN ClaimedNode(node[x], Time(r)) ELSE node[x]
    BY <1>1, <1>9 DEF LookupClaims, LookupClaim, TypeOK, ZoneTypeOK
  <2>3. ClaimedNode(node[x], Time(r)).expires_at = node[x].expires_at
    BY <1>2 DEF ClaimedNode, Node
  <2> QED BY <1>1, <1>5, <2>1, <2>2, <2>3
<1>10. ASSUME NEW r \in Request, NEW h \in Host, LookupAllocates(r, h)
       PROVE  EndRemembered(x)'
  <2>1. PICK a \in AllocOutcomes(Time(r)) : LookupAlloc(h, Time(r), a)
    BY <1>10 DEF LookupAllocates
  <2>2. h \notin tree /\ UNCHANGED <<now, lastEnd>>
    BY <1>10 DEF LookupAllocates, LookupStatus, envVars, history
  <2>3. \/ (x \in tree' <=> x \in tree) /\ node'[x] = node[x]
        \/ x \in Victims(Time(r))
        \/ x = h
    BY <1>1, <2>1, <2>2, AllocEffect DEF LookupAlloc
  <2>4. CASE x \in Victims(Time(r))
    <3>1. node[x].expires_at <= now
      BY <1>1, <1>2, <1>3, <2>4 DEF Victims
    <3> QED BY <1>1, <1>2, <1>4, <2>2, <3>1 DEF EndRemembered
  <2> QED BY <1>1, <1>5, <2>2, <2>3, <2>4
<1>11. ASSUME NEW r \in Request, RotationGranted(r)
       PROVE  EndRemembered(x)'
  <2> DEFINE h == req[r].host
             n == [ClaimedNode(node[h], Time(r)) EXCEPT !.forced_refetch_at = Time(r)]
  <2>1. UNCHANGED <<now, lastEnd, tree>>
    BY <1>11 DEF RotationGranted, RotationClaim, envVars
  <2>2. node'[x] = IF x = h THEN n ELSE node[x]
    BY <1>1, <1>11 DEF RotationGranted, RotationClaim, TypeOK, ZoneTypeOK
  <2>3. x = h => n.expires_at = node[x].expires_at
    BY <1>2 DEF ClaimedNode, Node
  <2> HIDE DEF n, h
  <2> QED BY <1>1, <1>5, <2>1, <2>2, <2>3
<1>12. ASSUME NEW r \in Request, GivesBack(r)
       PROVE  EndRemembered(x)'
  <2>1. /\ UNCHANGED now /\ req[r].host \in tree
        /\ lastEnd'[x] = IF x = req[r].host THEN Time(r) ELSE lastEnd[x]
    BY <1>1, <1>7, <1>12 DEF GivesBack, ClaimsRecorded, envVars
  <2>2. CASE x = req[r].host
    BY <1>1, <1>6, <1>12, <2>1, <2>2, ReleaseEffect
  <2>3. CASE x # req[r].host
    BY <1>1, <1>5, <1>12, <2>1, <2>3, ReleaseEffect
  <2> QED BY <2>2, <2>3
<1>13. ASSUME NEW r \in Request, DirectoryStores(r)
       PROVE  EndRemembered(x)'
  <2>1. /\ UNCHANGED now /\ req[r].host \in tree
        /\ lastEnd'[x] = IF x = req[r].host THEN Time(r) ELSE lastEnd[x]
    BY <1>1, <1>7, <1>13 DEF DirectoryStores, ClaimsRecorded, Holding, envVars
  <2>2. CASE x = req[r].host
    BY <1>1, <1>6, <1>13, <2>1, <2>2, StoreEffect
  <2>3. CASE x # req[r].host
    BY <1>1, <1>5, <1>13, <2>1, <2>3, StoreEffect
  <2> QED BY <2>2, <2>3
<1> QED BY <1>1, <1>8, <1>9, <1>10, <1>11, <1>12, <1>13, StepKinds

\* Under BoundedFetch, lookup() starts a fetch of a host only MinTtl after the
\* last one ended, up to the lag of one clock: failed fetches, a zone without
\* room for the document and evictions included.
THEOREM FetchesAreSpaced == ASSUME BoundedFetch PROVE Spec => FetchSpacing
<1>1. Init => EndInv
  BY InitClaim DEF Init, EndInv
<1>2. ASSUME EndInv, [Next]_vars, NEW r \in Request,
             req[r].pc = "idle", req'[r].pc = "claimed", lastEnd[req'[r].host] # 0
      PROVE  Time(r) - lastEnd[req'[r].host] >= MinTtl - MaxLag
  <2>1. TypeOK /\ ClocksOK
    BY <1>2 DEF EndInv, ClaimInv
  <2>2. PICK h \in Host : /\ LookupClaims(r, h) \/ LookupAllocates(r, h)
                          /\ req'[r].host = h
    BY <1>2, <2>1, ClaimBegins DEF Holding
  <2>3. /\ Time(r) \in Nat /\ now \in Nat /\ now <= Time(r) + MaxLag
        /\ lastEnd[h] \in Nat /\ MaxLag \in Nat /\ MinTtl \in Nat
        /\ node[h].expires_at \in Nat
    BY <2>1, TimeClose, DirectoryAssumption, TtlAssumption
    DEF TypeOK, ZoneTypeOK, Node
  <2>4. h \in tree => node[h].expires_at <= Time(r)
    BY <2>2, <2>3 DEF LookupClaims, LookupAllocates, LookupStatus, Fresh
  <2>5. EndRemembered(h)
    BY <1>2, <2>2 DEF EndInv
  <2> QED BY <2>2, <2>3, <2>4, <2>5 DEF EndRemembered
<1>3. EndInv /\ [Next]_vars =>
        [\A r \in Request :
          LET h == req'[r].host IN
          /\ req[r].pc = "idle" /\ req'[r].pc = "claimed"
          /\ lastEnd[h] # 0
          => Time(r) - lastEnd[h] >= MinTtl - MaxLag]_vars
  BY <1>2
<1> QED BY <1>1, <1>3, NextEnd, PTL DEF Spec, FetchSpacing

-----------------------------------------------------------------------------
(* Documents are not rolled back. *)

\* What is stored was published, and the answer a request is about to store is
\* at least as new as what is stored.
VersionInv ==
    /\ ClaimInv
    /\ \A h \in Host : node[h].jwks <= origin[h]
    /\ \A r \in Request : req[r].pc = "answered" /\ req[r].answer # 0 =>
           /\ node[req[r].host].jwks <= req[r].answer
           /\ req[r].answer <= origin[req[r].host]

\* A step keeps every document, drops one with its node, or is store()'s of
\* the only fetch of its host.
LEMMA DocumentStep ==
    ASSUME ClaimInv, [Next]_vars, NEW x \in Host
    PROVE  \/ node'[x].jwks = node[x].jwks
           \/ node'[x].jwks = 0 /\ ~(x \in tree /\ x \in tree')
           \/ \E r \in Request : /\ DirectoryStores(r) /\ req[r].host = x
                                 /\ node'[x].jwks = req[r].answer
<1>1. TypeOK /\ node[x] \in Node
  BY DEF ClaimInv, TypeOK, ZoneTypeOK
<1>2. CASE Quiet
  BY <1>2 DEF Quiet, zoneVars
<1>3. ASSUME NEW r \in Request, NEW h \in Host, LookupClaims(r, h)
      PROVE  node'[x].jwks = node[x].jwks
  <2>1. node'[x] = IF x = h THEN ClaimedNode(node[x], Time(r)) ELSE node[x]
    BY <1>1, <1>3 DEF LookupClaims, LookupClaim, TypeOK, ZoneTypeOK
  <2> QED BY <1>1, <2>1 DEF ClaimedNode, Node
<1>4. ASSUME NEW r \in Request, NEW h \in Host, LookupAllocates(r, h)
      PROVE  \/ node'[x].jwks = node[x].jwks
             \/ node'[x].jwks = 0 /\ ~(x \in tree /\ x \in tree')
  <2>1. PICK a \in AllocOutcomes(Time(r)) : LookupAlloc(h, Time(r), a)
    BY <1>4 DEF LookupAllocates
  <2>2. h \notin tree
    BY <1>4 DEF LookupAllocates, LookupStatus
  <2>3. \/ node'[x] = node[x]
        \/ x \notin tree' /\ node'[x] = ZeroNode
        \/ x = h /\ node'[x] = ClaimedNode(ZeroNode, Time(r))
    BY <1>1, <2>1, <2>2, AllocEffect DEF LookupAlloc
  <2>4. ZeroNode.jwks = 0 /\ ClaimedNode(ZeroNode, Time(r)).jwks = 0
    BY DEF ZeroNode, ClaimedNode
  <2> QED BY <2>2, <2>3, <2>4
<1>5. ASSUME NEW r \in Request, RotationGranted(r)
      PROVE  node'[x].jwks = node[x].jwks
  <2> DEFINE n == [ClaimedNode(node[x], Time(r)) EXCEPT !.forced_refetch_at = Time(r)]
  <2>1. node'[x] = IF x = req[r].host THEN n ELSE node[x]
    BY <1>1, <1>5 DEF RotationGranted, RotationClaim, TypeOK, ZoneTypeOK
  <2>2. n.jwks = node[x].jwks
    BY <1>1 DEF ClaimedNode, Node
  <2> QED BY <2>1, <2>2
<1>6. ASSUME NEW r \in Request, GivesBack(r)
      PROVE  node'[x].jwks = node[x].jwks
  BY <1>1, <1>6, ReleaseEffect
<1>7. ASSUME NEW r \in Request, DirectoryStores(r)
      PROVE  \/ node'[x].jwks = node[x].jwks
             \/ req[r].host = x /\ node'[x].jwks = req[r].answer
  <2>1. req[r].host \in tree
    BY <1>7 DEF ClaimInv, ClaimsRecorded, DirectoryStores, Holding
  <2> QED BY <1>1, <1>7, <2>1, StoreEffect
<1> QED BY <1>1, <1>2, <1>3, <1>4, <1>5, <1>6, <1>7, StepKinds

\* An answer is what was published when it was given, and stays with its
\* request; no version is taken back.
LEMMA AnswerStep ==
    ASSUME TypeOK, [Next]_vars
    PROVE  /\ \A h \in Host : origin'[h] >= origin[h]
           /\ \A r \in Request : req'[r].pc = "answered" /\ req'[r].answer # 0 =>
                 \/ req'[r] = req[r] /\ ~DirectoryStores(r)
                 \/ /\ OriginAnswers(r) /\ req'[r].host = req[r].host
                    /\ req'[r].answer = origin[req[r].host]
<1>1. \A h \in Host : origin[h] \in Nat
  BY DEF TypeOK
<1>2. \A h \in Host : origin'[h] >= origin[h]
  <2>1. CASE Quiet
    BY <2>1 DEF Quiet
  <2>2. CASE UNCHANGED origin
    BY <1>1, <2>2
  <2> QED BY <2>1, <2>2, StepKinds
          DEF LookupClaims, LookupAllocates, RotationGranted, GivesBack,
              DirectoryStores, envVars
<1>3. ASSUME NEW r \in Request, req'[r].pc = "answered", req'[r].answer # 0
      PROVE  \/ req'[r] = req[r] /\ ~DirectoryStores(r)
             \/ /\ OriginAnswers(r) /\ req'[r].host = req[r].host
                /\ req'[r].answer = origin[req[r].host]
  <2>1. ASSUME NEW s \in Request, NEW q, req' = [req EXCEPT ![s] = q], q.pc # "answered"
        PROVE  s # r /\ req'[r] = req[r]
    BY <1>3, <2>1 DEF TypeOK
  <2>2. \A s \in Request : req[s] \in Req
    BY DEF TypeOK
  <2>3. \A q \in Req : FailOpen(q).pc # "answered"
    BY DEF FailOpen, Req
  <2>4. IdleReq.pc # "answered"
    BY DEF IdleReq, FreshReq
  <2>5. ~DirectoryStores(r)
    <3> SUFFICES ASSUME DirectoryStores(r) PROVE FALSE
      OBVIOUS
    <3>1. PICK gen : req' = [req EXCEPT ![r].pc = "ready",
                                ![r].since = 0, ![r].answer = 0,
                                ![r].jwks = req[r].answer,
                                ![r].generation = gen]
      BY DEF DirectoryStores
    <3>2. req'[r].pc = "ready"
      BY <2>2, <3>1 DEF TypeOK, Req
    <3> QED BY <1>3, <3>2
  <2>6. ASSUME NEW s \in Request, DirectoryStores(s)
        PROVE  req'[r] = req[r]
    <3>1. PICK q : req' = [req EXCEPT ![s] = q]
      BY <2>6 DEF DirectoryStores
    <3> QED BY <2>5, <2>6, <3>1 DEF TypeOK
  <2>7. CASE UNCHANGED vars \/ Tick \/ (\E w \in Worker : UpdateTime(w) \/ Crash(w))
             \/ \E h \in Host : Publish(h)
    BY <1>3, <2>4, <2>5, <2>7 DEF vars, Tick, UpdateTime, Crash, Publish, reqVars
  <2>8. ASSUME NEW s \in Request, NEW h \in Host, Lookup(s, h)
        PROVE  req'[r] = req[r]
    <3>1. /\ FailOpen(FreshReq(h)).pc # "answered"
          /\ [FreshReq(h) EXCEPT !.pc = "claimed", !.since = now].pc # "answered"
          /\ \A pc \in {"ready", "uncovered"} :
                Serve(h, node[h].jwks, node[h].generation, pc).pc # "answered"
      BY <2>3, FreshReqType DEF Serve, FreshReq
    <3>2. CASE LookupHit(s, h)
      <4>1. PICK pc \in {"ready", "uncovered"} :
              req' = [req EXCEPT ![s] = Serve(h, node[h].jwks, node[h].generation, pc)]
        BY <3>2 DEF LookupHit
      <4> QED BY <2>1, <3>1, <4>1
    <3>3. CASE LookupStale(s, h)
      BY <2>1, <3>1, <3>3 DEF LookupStale
    <3>4. CASE LookupFailOpen(s, h) \/ LookupClaims(s, h)
      BY <2>1, <3>1, <3>4 DEF LookupFailOpen, LookupClaims
    <3>5. CASE LookupAllocates(s, h)
      <4>1. PICK a : req' = [req EXCEPT ![s] =
                        IF a.ok THEN [FreshReq(h) EXCEPT !.pc = "claimed",
                                                         !.since = now]
                        ELSE FailOpen(FreshReq(h))]
        BY <3>5 DEF LookupAllocates
      <4> QED BY <2>1, <3>1, <4>1
    <3> QED BY <2>8, <3>2, <3>3, <3>4, <3>5 DEF Lookup
  <2>9. ASSUME NEW s \in Request,
               \/ RotationGranted(s) \/ RotationDeclined(s) \/ DirectoryRejects(s)
               \/ Evaluate(s) \/ PostFails(s) \/ Cleanup(s)
        PROVE  req'[r] = req[r]
    <3>1. /\ [req[s] EXCEPT !.pc = "claimed", !.since = now].pc # "answered"
          /\ [req[s] EXCEPT !.pc = "ready"].pc # "answered"
          /\ FailOpen(req[s]).pc # "answered"
      BY <2>2, <2>3 DEF Req
    <3>2. CASE RotationGranted(s) \/ RotationDeclined(s)
      <4>1. \/ req' = [req EXCEPT ![s] = [req[s] EXCEPT !.pc = "claimed", !.since = now]]
            \/ req' = [req EXCEPT ![s] = [req[s] EXCEPT !.pc = "ready"]]
        BY <3>2 DEF RotationGranted, RotationDeclined
      <4> QED BY <2>1, <3>1, <4>1
    <3>3. CASE DirectoryRejects(s) \/ PostFails(s)
      BY <2>1, <3>1, <3>3 DEF DirectoryRejects, PostFails
    <3>4. CASE Evaluate(s) \/ Cleanup(s)
      BY <2>1, <2>4, <3>4 DEF Evaluate, Cleanup
    <3> QED BY <2>9, <3>2, <3>3, <3>4
  <2>10. ASSUME NEW s \in Request, OriginAnswers(s)
         PROVE  \/ req'[r] = req[r]
                \/ /\ s = r /\ req'[r].host = req[r].host
                   /\ req'[r].answer = origin[req[r].host]
    <3>1. PICK doc \in {0, origin[req[s].host]} :
            req' = [req EXCEPT ![s].pc = "answered", ![s].answer = doc]
      BY <2>10 DEF OriginAnswers
    <3>2. CASE s # r
      BY <3>1, <3>2 DEF TypeOK
    <3>3. CASE s = r
      <4>1. req'[r].host = req[r].host /\ req'[r].answer = doc
        BY <2>2, <3>1, <3>3 DEF TypeOK, Req
      <4> QED BY <1>3, <3>1, <3>3, <4>1
    <3> QED BY <3>2, <3>3
  <2> QED BY <2>5, <2>6, <2>7, <2>8, <2>9, <2>10 DEF Next, Progress, Interruption
<1> QED BY <1>2, <1>3

\* Every step keeps VersionInv: while an answer is on its way nobody else
\* stores a document of that host.
LEMMA NextVersion == ASSUME BoundedFetch PROVE VersionInv /\ [Next]_vars => VersionInv'
<1> SUFFICES ASSUME VersionInv, [Next]_vars PROVE VersionInv'
  OBVIOUS
<1>1. ClaimInv /\ ClaimInv' /\ TypeOK /\ TypeOK'
  BY NextClaim DEF VersionInv, ClaimInv
<1>2. ASSUME NEW h \in Host
      PROVE  /\ origin[h] \in Nat /\ origin'[h] \in Nat /\ origin[h] <= origin'[h]
             /\ node[h].jwks \in Nat /\ node'[h].jwks \in Nat
             /\ node[h].jwks <= origin[h]
  BY <1>1, AnswerStep DEF VersionInv, TypeOK, ZoneTypeOK, Node
<1>3. ASSUME NEW r \in Request
      PROVE  /\ req[r].host \in Host /\ req[r].answer \in Nat
             /\ req'[r].host \in Host /\ req'[r].answer \in Nat
  BY <1>1 DEF TypeOK, Req
<1>4. ASSUME NEW r \in Request, DirectoryStores(r)
      PROVE  /\ req[r].pc = "answered" /\ req[r].answer # 0
             /\ node[req[r].host].jwks <= req[r].answer
             /\ req[r].answer <= origin[req[r].host]
  BY <1>4 DEF DirectoryStores, VersionInv
<1>5. ASSUME NEW h \in Host
      PROVE  node'[h].jwks <= origin'[h]
  <2>1. CASE \E r \in Request : /\ DirectoryStores(r) /\ req[r].host = h
                                /\ node'[h].jwks = req[r].answer
    BY <1>2, <1>3, <1>4, <2>1
  <2> QED BY <1>1, <1>2, <2>1, DocumentStep
<1>6. ASSUME NEW r \in Request, req'[r].pc = "answered", req'[r].answer # 0
      PROVE  /\ node'[req'[r].host].jwks <= req'[r].answer
             /\ req'[r].answer <= origin'[req'[r].host]
  <2>1. \/ req'[r] = req[r] /\ ~DirectoryStores(r)
        \/ /\ OriginAnswers(r) /\ req'[r].host = req[r].host
           /\ req'[r].answer = origin[req[r].host]
    BY <1>1, <1>6, AnswerStep
  <2>2. CASE /\ OriginAnswers(r) /\ req'[r].host = req[r].host
             /\ req'[r].answer = origin[req[r].host]
    <3>1. UNCHANGED <<node, origin>>
      BY <2>2 DEF OriginAnswers, zoneVars, envVars
    <3> QED BY <1>2, <1>3, <2>2, <3>1
  <2>3. CASE req'[r] = req[r] /\ ~DirectoryStores(r)
    <3> DEFINE h == req[r].host
    <3>1. /\ node[h].jwks <= req[r].answer /\ req[r].answer <= origin[h]
      BY <1>6, <2>3 DEF VersionInv
    <3>2. ASSUME NEW s \in Request, DirectoryStores(s)
          PROVE  req[s].host # h
      <4>1. s # r /\ req[s].pc \in Holding /\ req[r].pc \in Holding
        BY <1>6, <2>3, <3>2 DEF DirectoryStores, Holding
      <4> QED BY <1>1, <4>1 DEF ClaimInv, SingleFlight
    <3>3. h \in Host
      BY <1>3
    <3>4. node'[h].jwks = node[h].jwks \/ node'[h].jwks = 0
      BY <1>1, <3>2, <3>3, DocumentStep
    <3> HIDE DEF h
    <3>5. node'[h].jwks <= req[r].answer /\ req[r].answer <= origin'[h]
      BY <1>2, <1>3, <3>1, <3>3, <3>4
    <3> QED BY <2>3, <3>5 DEF h
  <2> QED BY <2>1, <2>2, <2>3
<1> QED BY <1>1, <1>5, <1>6 DEF VersionInv

\* Under BoundedFetch a stored document is never replaced by an older one.
THEOREM DocumentsAdvance == ASSUME BoundedFetch PROVE Spec => NoRollback
<1>1. Init => VersionInv
  <2> SUFFICES ASSUME Init PROVE VersionInv
    OBVIOUS
  <2>1. \A r \in Request : req[r].pc # "answered"
    BY DEF Init, IdleReq, FreshReq
  <2>2. \A h \in Host : node[h].jwks <= origin[h]
    BY DEF Init, ZoneInit, ZeroNode
  <2> QED BY <2>1, <2>2, InitClaim DEF VersionInv
<1>2. ASSUME VersionInv, [Next]_vars, NEW h \in tree \cap tree'
      PROVE  node'[h].jwks >= node[h].jwks
  <2>1. ClaimInv /\ TypeOK /\ h \in Host /\ node[h].jwks \in Nat
    BY <1>2 DEF VersionInv, ClaimInv, TypeOK, ZoneTypeOK, Node
  <2>2. CASE \E r \in Request : /\ DirectoryStores(r) /\ req[r].host = h
                                /\ node'[h].jwks = req[r].answer
    <3>1. PICK r \in Request : /\ DirectoryStores(r) /\ req[r].host = h
                               /\ node'[h].jwks = req[r].answer
      BY <2>2
    <3>2. req[r].answer \in Nat /\ node[h].jwks <= req[r].answer
      BY <1>2, <2>1, <3>1 DEF VersionInv, DirectoryStores, TypeOK, Req
    <3> QED BY <2>1, <3>1, <3>2
  <2> QED BY <1>2, <2>1, <2>2, DocumentStep
<1>3. VersionInv /\ [Next]_vars =>
        [\A h \in tree \cap tree' : node'[h].jwks >= node[h].jwks]_vars
  BY <1>2
<1> QED BY <1>1, <1>3, NextVersion, PTL DEF Spec, NoRollback

-----------------------------------------------------------------------------
(* For the requests, all this is a source of documents. *)

\* A step that changes one request changes what one request asked.
LEMMA AskedStep ==
    ASSUME TypeOK, NEW r \in Request, NEW q, req' = [req EXCEPT ![r] = q]
    PROVE  Source!Becomes(r, AskedBy(q))
BY DEF Source!Becomes, Asked, TypeOK

\* What a request in each phase asked and was told.
LEMMA AskedCases ==
    ASSUME NEW q \in Req
    PROVE  /\ q.pc = "idle" => AskedBy(q) = Source!Idle
           /\ q.pc = "claimed" => AskedBy(q) = Source!Waiting(q.host, q.jwks, 0)
           /\ q.pc = "answered" =>
                 AskedBy(q) = Source!Waiting(q.host, q.jwks, q.answer)
           /\ q.pc \in {"uncovered", "ready"} =>
                 AskedBy(q) = Source!Told(q.host,
                                  IF q.keys_unavailable THEN 0 ELSE q.jwks)
BY DEF AskedBy, Holding, Source!Idle, Source!Waiting, Source!Told

\* Documents that stay the same were kept.
LEMMA KeepsAll ==
    ASSUME UNCHANGED Shared
    PROVE  \A h \in Host : Source!Keeps(h, Shared[h])
<1> SUFFICES ASSUME NEW h \in Host PROVE Source!Keeps(h, Shared[h])
  OBVIOUS
<1> DEFINE none == {}
<1>1. Shared' = [x \in Host |-> IF x = h THEN Shared[h]
                                ELSE IF x \in none THEN 0 ELSE Shared[x]]
  BY DEF Shared
<1>2. none \in SUBSET (Host \ {h})
  OBVIOUS
<1> HIDE DEF none
<1> QED BY <1>1, <1>2 DEF Source!Keeps

\* Where no document changes, the shared ones are the same.
LEMMA SharedSame ==
    ASSUME UNCHANGED tree, \A x \in Host : node'[x].jwks = node[x].jwks
    PROVE  /\ UNCHANGED Shared
           /\ \A h \in Host : Source!Keeps(h, Shared[h])
<1>1. UNCHANGED Shared
  BY DEF Shared
<1> QED BY <1>1, KeepsAll

\* An allocation for h, which has no node, costs the evicted hosts their
\* documents; h's own is that of its new node.
LEMMA SharedAlloc ==
    ASSUME TypeOK, NEW h \in Host, h \notin tree, NEW t, NEW a \in AllocOutcomes(t),
           NEW n, tree' = TreeAfter(a, h), node' = NodesAfter(a, h, n)
    PROVE  /\ Shared[h] = 0
           /\ Source!Keeps(h, IF a.ok THEN n.jwks ELSE 0)
<1>1. a.ok \in BOOLEAN /\ a.evicted \subseteq Victims(t)
  BY AllocOutcome
<1>2. a.evicted \in SUBSET (Host \ {h})
  BY <1>1 DEF Victims, TypeOK, ZoneTypeOK
<1> DEFINE doc == IF a.ok THEN n.jwks ELSE 0
<1>3. Shared' = [x \in Host |-> IF x = h THEN doc
                                ELSE IF x \in a.evicted THEN 0 ELSE Shared[x]]
  <2>1. ASSUME NEW x \in Host
        PROVE  (IF x \in tree' THEN node'[x].jwks ELSE 0)
                 = IF x = h THEN doc
                   ELSE IF x \in a.evicted THEN 0 ELSE Shared[x]
    <3>1. CASE x = h
      BY <1>1, <1>2, <3>1 DEF TreeAfter, NodesAfter
    <3>2. CASE x # h /\ x \in a.evicted
      BY <3>2 DEF TreeAfter
    <3>3. CASE x # h /\ x \notin a.evicted
      <4>1. (x \in tree' <=> x \in tree) /\ node'[x] = node[x]
        BY <3>3 DEF TreeAfter, NodesAfter
      <4> QED BY <3>3, <4>1 DEF Shared
    <3> QED BY <3>1, <3>2, <3>3
  <2> QED BY <2>1 DEF Shared
<1>4. Source!Keeps(h, doc)
  <2> HIDE DEF doc
  <2> QED BY <1>2, <1>3 DEF Source!Keeps
<1> QED BY <1>4 DEF Shared

\* store() gives a host the new document, or leaves it the one it had.
LEMMA SharedStore ==
    ASSUME TypeOK, NEW r \in Request, DirectoryStores(r)
    PROVE  \E doc \in {Shared[req[r].host], req[r].answer} :
               Source!Keeps(req[r].host, doc)
<1> DEFINE h == req[r].host
<1>1. PICK a \in StoreAllocs(h, Time(r)), ok \in BOOLEAN, ttl \in MinTtl .. MaxTtl :
        /\ Store(h, req[r].answer, Time(r) + ttl, Time(r), a, ok)
        /\ req' = [req EXCEPT ![r].pc = "ready",
                              ![r].since = 0, ![r].answer = 0,
                              ![r].jwks = req[r].answer,
                              ![r].generation = StoredGeneration(h, a, ok)]
  BY StoredWithinBounds
<1>2. h \in Host /\ TargetNode(h) \in Node
  BY NodeTypes DEF TypeOK, ZoneTypeOK, Req, TargetNode
<1> DEFINE n == IF ok THEN StoreNode(h, req[r].answer, Time(r) + ttl)
                ELSE StoreNoRoomNode(h, Time(r))
<1>3. n.jwks \in {req[r].answer, TargetNode(h).jwks}
  BY <1>2 DEF StoreNode, StoreNoRoomNode, Node
<1>4. tree' = TreeAfter(a, h) /\ node' = NodesAfter(a, h, n)
  BY <1>1 DEF Store
<1> HIDE DEF n, h
<1>5. CASE h \in tree
  <2>1. a.evicted = {} /\ a.ok
    BY <1>1, <1>5 DEF StoreAllocs
  <2>2. TargetNode(h).jwks = Shared[h]
    BY <1>2, <1>5 DEF TargetNode, Shared
  <2> DEFINE none == {}
  <2>3. Shared' = [x \in Host |-> IF x = h THEN n.jwks
                                  ELSE IF x \in none THEN 0 ELSE Shared[x]]
    <3>1. ASSUME NEW x \in Host
          PROVE  (IF x \in tree' THEN node'[x].jwks ELSE 0)
                   = IF x = h THEN n.jwks ELSE Shared[x]
      BY <1>4, <1>5, <2>1 DEF TreeAfter, NodesAfter, Shared
    <3> QED BY <3>1 DEF Shared
  <2>4. none \in SUBSET (Host \ {h})
    OBVIOUS
  <2> HIDE DEF none
  <2>5. Source!Keeps(h, n.jwks)
    BY <2>3, <2>4 DEF Source!Keeps
  <2> QED BY <1>3, <2>2, <2>5 DEF h
<1>6. CASE h \notin tree
  <2>1. Shared[h] = 0 /\ Source!Keeps(h, IF a.ok THEN n.jwks ELSE 0)
    BY <1>1, <1>2, <1>4, <1>6, SharedAlloc DEF StoreAllocs
  <2>2. TargetNode(h).jwks = 0
    BY <1>6 DEF TargetNode, ZeroNode
  <2> QED BY <1>3, <2>1, <2>2 DEF h
<1> QED BY <1>5, <1>6

\* The invariant of the refinement: a request's flag and its document agree,
\* and under BoundedFetch claims are where and when they are recorded.
SourceInv == ToldInv /\ (BoundedFetch => ClaimInv)

\* A claim begins only where KeySource lets a fetch begin: under BoundedFetch
\* nobody else fetches the host.
LEMMA FetchAllowed ==
    ASSUME TypeOK, BoundedFetch => SingleFlight', NEW r \in Request, NEW q,
           req' = [req EXCEPT ![r] = q], req[r].pc \notin Holding,
           q.pc \in Holding
    PROVE  Source!MayFetch(q.host)
<1> SUFFICES ASSUME BoundedFetch, NEW s \in Request, Source!Fetches(s, q.host)
             PROVE  FALSE
  BY DEF Source!MayFetch
<1>1. req[s].pc \in Holding /\ req[s].host = q.host
  BY DEF Source!Fetches, Asked, AskedBy
<1>2. s # r /\ req'[s] = req[s] /\ req'[r] = q
  BY <1>1 DEF TypeOK
<1> QED BY <1>1, <1>2 DEF SingleFlight

\* lookup() is a question, answered at once or with a wait.
LEMMA LookupAsks ==
    ASSUME TypeOK, BoundedFetch => SingleFlight', NEW r \in Request,
           NEW h \in Host, Lookup(r, h)
    PROVE  Source!AskTold(r, h) \/ Source!AskWaits(r, h)
<1>1. req[r].pc = "idle" /\ req[r] \in Req
  BY DEF Lookup, LookupHit, LookupStale, LookupFailOpen, LookupClaims,
         LookupAllocates, TypeOK
<1>2. Asked[r] = Source!Idle
  BY <1>1, AskedCases DEF Asked
<1>3. UNCHANGED origin
  BY DEF Lookup, LookupHit, LookupStale, LookupFailOpen, LookupClaims,
         LookupAllocates, envVars
<1>4. ASSUME NEW doc, Source!Becomes(r, Source!Told(h, doc)), doc \in {Shared[h], 0},
             Source!Keeps(h, Shared[h])
      PROVE  Source!AskTold(r, h)
  BY <1>2, <1>3, <1>4 DEF Source!AskTold
<1>5. ASSUME Source!Becomes(r, Source!Waiting(h, 0, 0)), Source!MayFetch(h),
             Source!Keeps(h, Shared[h])
      PROVE  Source!AskWaits(r, h)
  BY <1>2, <1>3, <1>5 DEF Source!AskWaits
<1>6. ASSUME UNCHANGED zoneVars
      PROVE  Source!Keeps(h, Shared[h])
  BY <1>6, SharedSame DEF zoneVars
<1>7. node[h] \in Node /\ node[h].jwks \in Nat /\ node[h].generation \in Nat
  BY DEF TypeOK, ZoneTypeOK, Node
<1>8. h \in tree => Shared[h] = node[h].jwks
  BY DEF Shared
<1>9. ASSUME NEW pc \in {"ready", "uncovered"}, h \in tree,
             req' = [req EXCEPT ![r] = Serve(h, node[h].jwks, node[h].generation, pc)],
             UNCHANGED zoneVars
      PROVE  Source!AskTold(r, h)
  <2> DEFINE q == Serve(h, node[h].jwks, node[h].generation, pc)
  <2>1. /\ q \in Req /\ q.pc = pc /\ q.host = h /\ q.jwks = node[h].jwks
        /\ ~q.keys_unavailable
    BY <1>7, ServeType DEF Serve, FreshReq, Phase
  <2>2. req' = [req EXCEPT ![r] = q]
    BY <1>9
  <2> HIDE DEF q
  <2>3. AskedBy(q) = Source!Told(h, Shared[h])
    BY <1>8, <1>9, <2>1, AskedCases
  <2>4. Source!Becomes(r, AskedBy(q))
    BY <2>2, AskedStep
  <2> QED BY <1>4, <1>6, <1>9, <2>3, <2>4
<1>10. ASSUME req' = [req EXCEPT ![r] = FailOpen(FreshReq(h))],
              Source!Keeps(h, Shared[h])
       PROVE  Source!AskTold(r, h)
  <2> DEFINE q == FailOpen(FreshReq(h))
  <2>1. q \in Req /\ q.pc = "ready" /\ q.host = h /\ q.keys_unavailable
    BY FreshReqType, FailOpenType DEF FailOpen, FreshReq
  <2>2. req' = [req EXCEPT ![r] = q]
    BY <1>10
  <2> HIDE DEF q
  <2>3. AskedBy(q) = Source!Told(h, 0)
    BY <2>1, AskedCases
  <2>4. Source!Becomes(r, AskedBy(q))
    BY <2>2, AskedStep
  <2> QED BY <1>4, <1>10, <2>3, <2>4
<1>11. ASSUME req' = [req EXCEPT ![r] = [FreshReq(h) EXCEPT !.pc = "claimed",
                                                            !.since = now]],
              Source!Keeps(h, Shared[h])
       PROVE  Source!AskWaits(r, h)
  <2> DEFINE q == [FreshReq(h) EXCEPT !.pc = "claimed", !.since = now]
  <2>1. q \in Req /\ q.pc = "claimed" /\ q.host = h /\ q.jwks = 0
    BY DEF FreshReq, Req, Phase, TypeOK
  <2>2. req' = [req EXCEPT ![r] = q]
    BY <1>11
  <2> HIDE DEF q
  <2>3. AskedBy(q) = Source!Waiting(h, 0, 0)
    BY <2>1, AskedCases
  <2>4. Source!Becomes(r, AskedBy(q))
    BY <2>2, AskedStep
  <2>5. q.pc \in Holding /\ req[r].pc \notin Holding
    BY <1>1, <2>1 DEF Holding
  <2>6. Source!MayFetch(q.host)
    BY <2>2, <2>5, FetchAllowed
  <2> QED BY <1>5, <1>11, <2>1, <2>3, <2>4, <2>6
<1>12. CASE LookupHit(r, h)
  <2>1. PICK pc \in {"ready", "uncovered"} :
          req' = [req EXCEPT ![r] = Serve(h, node[h].jwks, node[h].generation, pc)]
    BY <1>12 DEF LookupHit
  <2>2. h \in tree /\ UNCHANGED zoneVars
    BY <1>12 DEF LookupHit, LookupStatus, Fresh
  <2> QED BY <1>9, <2>1, <2>2
<1>13. CASE LookupStale(r, h)
  <2>1. h \in tree /\ UNCHANGED zoneVars
    BY <1>13 DEF LookupStale, LookupStatus, Fresh, Busy
  <2> QED BY <1>9, <1>13, <2>1 DEF LookupStale
<1>14. CASE LookupFailOpen(r, h)
  BY <1>6, <1>10, <1>14 DEF LookupFailOpen
<1>15. CASE LookupClaims(r, h)
  <2>1. UNCHANGED tree /\ node' = [node EXCEPT ![h] = ClaimedNode(node[h], Time(r))]
    BY <1>15 DEF LookupClaims, LookupClaim
  <2>2. ClaimedNode(node[h], Time(r)).jwks = node[h].jwks
    BY <1>7 DEF ClaimedNode, Node
  <2>3. \A x \in Host : node'[x].jwks = node[x].jwks
    BY <2>1, <2>2 DEF TypeOK, ZoneTypeOK
  <2>4. Source!Keeps(h, Shared[h])
    BY <2>1, <2>3, SharedSame
  <2> QED BY <1>11, <1>15, <2>4 DEF LookupClaims
<1>16. CASE LookupAllocates(r, h)
  <2>1. PICK a \in AllocOutcomes(Time(r)) :
          /\ LookupAlloc(h, Time(r), a)
          /\ req' = [req EXCEPT ![r] =
                        IF a.ok THEN [FreshReq(h) EXCEPT !.pc = "claimed",
                                                         !.since = now]
                        ELSE FailOpen(FreshReq(h))]
    BY <1>16 DEF LookupAllocates
  <2>2. h \notin tree
    BY <1>16 DEF LookupAllocates, LookupStatus
  <2>3. ClaimedNode(ZeroNode, Time(r)).jwks = 0
    BY DEF ZeroNode, ClaimedNode
  <2>4. Source!Keeps(h, Shared[h])
    BY <2>1, <2>2, <2>3, SharedAlloc DEF LookupAlloc
  <2> QED BY <1>10, <1>11, <2>1, <2>4
<1> QED BY <1>12, <1>13, <1>14, <1>15, <1>16 DEF Lookup

\* The end of a fetch that brought no document, and of a request.
LEMMA ReleaseGivesUp ==
    ASSUME TypeOK, NEW r \in Request, Told(req[r]), req[r].pc \in Holding,
           Release(req[r].host, Time(r) + MinTtl), UNCHANGED envVars,
           Ends(req[r].host, Time(r))
    PROVE  /\ req' = [req EXCEPT ![r] = FailOpen(req[r])] => Source!GiveUp(r)
           /\ req' = [req EXCEPT ![r] = IdleReq] => Source!Leave({r})
<1>1. GivesBack(r)
  BY DEF GivesBack
<1>2. UNCHANGED origin /\ UNCHANGED tree
  BY DEF envVars, Release
<1>3. \A x \in Host : node'[x].jwks = node[x].jwks
  BY <1>1, ReleaseEffect
<1>4. UNCHANGED Shared
  BY <1>2, <1>3, SharedSame
<1>5. req[r] \in Req /\ ~req[r].keys_unavailable
  BY DEF TypeOK, Told
<1>6. ASSUME req' = [req EXCEPT ![r] = FailOpen(req[r])]
      PROVE  Source!GiveUp(r)
  <2> DEFINE q == FailOpen(req[r])
  <2>1. /\ q \in Req /\ q.pc = "ready" /\ q.host = req[r].host /\ q.jwks = req[r].jwks
        /\ q.keys_unavailable <=> req[r].jwks = 0
    BY <1>5, FailOpenType DEF FailOpen, Req
  <2>2. req' = [req EXCEPT ![r] = q]
    BY <1>6
  <2> HIDE DEF q
  <2>3. AskedBy(q) = Source!Told(req[r].host, req[r].jwks)
    BY <2>1, AskedCases
  <2>4. Source!Becomes(r, Source!Told(req[r].host, req[r].jwks))
    BY <2>2, <2>3, AskedStep
  <2>5. /\ Asked[r].at = "waiting" /\ Asked[r].host = req[r].host
        /\ Asked[r].document = req[r].jwks
    BY DEF Asked, AskedBy, Holding
  <2> QED BY <1>2, <1>4, <2>4, <2>5 DEF Source!GiveUp
<1>7. ASSUME req' = [req EXCEPT ![r] = IdleReq]
      PROVE  Source!Leave({r})
  <2>1. AskedBy(IdleReq) = Source!Idle
    BY IdleReqType, AskedCases DEF IdleReq, FreshReq
  <2>2. Asked' = [s \in Request |-> IF s \in {r} THEN Source!Idle ELSE Asked[s]]
    <3>1. ASSUME NEW s \in Request
          PROVE  AskedBy(req'[s]) = IF s \in {r} THEN Source!Idle ELSE Asked[s]
      BY <1>7, <2>1 DEF TypeOK, Asked
    <3> QED BY <3>1 DEF Asked
  <2> QED BY <1>2, <1>4, <2>2 DEF Source!Leave
<1> QED BY <1>6, <1>7

\* Every step is a step of KeySource, or one that no request can tell.
LEMMA NextSource ==
    ASSUME SourceInv, SourceInv', [Next]_vars
    PROVE  [Source!SourceNext]_Source!sourceVars
<1> SUFFICES Source!SourceNext \/ UNCHANGED Source!sourceVars
  BY DEF Source!sourceVars
<1>1. TypeOK /\ (BoundedFetch => SingleFlight') /\ \A r \in Request : Told(req[r])
  BY DEF SourceInv, ToldInv, ClaimInv
<1>2. ASSUME NEW r \in Request
      PROVE  req[r] \in Req
  BY <1>1 DEF TypeOK
<1>3. ASSUME UNCHANGED zoneVars
      PROVE  UNCHANGED Shared
  BY <1>3 DEF zoneVars, Shared
<1>4. CASE UNCHANGED vars \/ Tick \/ \E w \in Worker : UpdateTime(w)
  <2>1. UNCHANGED <<req, origin, zoneVars>>
    BY <1>4 DEF vars, Tick, UpdateTime, reqVars, zoneVars
  <2> QED BY <1>3, <2>1 DEF Source!sourceVars, Asked
<1>5. ASSUME NEW w \in Worker, Crash(w)
      PROVE  Source!SourceNext
  <2> DEFINE R == {r \in Request : WorkerOf[r] = w}
  <2>1. AskedBy(IdleReq) = Source!Idle
    BY IdleReqType, AskedCases DEF IdleReq, FreshReq
  <2>2. Asked' = [r \in Request |-> IF r \in R THEN Source!Idle ELSE Asked[r]]
    BY <1>5, <2>1 DEF Crash, Asked
  <2>3. UNCHANGED <<origin, Shared>>
    BY <1>3, <1>5 DEF Crash
  <2>4. R \in SUBSET Request
    OBVIOUS
  <2> HIDE DEF R
  <2> QED BY <2>2, <2>3, <2>4 DEF Source!SourceNext, Source!Leave
<1>6. ASSUME NEW h \in Host, Publish(h)
      PROVE  Source!SourceNext
  <2>1. UNCHANGED <<Shared, Asked>>
    BY <1>3, <1>6 DEF Publish, reqVars, Asked
  <2> QED BY <1>6, <2>1 DEF Publish, Source!SourceNext, Source!Announce
<1>7. ASSUME NEW r \in Request, NEW h \in Host, Lookup(r, h)
      PROVE  Source!SourceNext
  BY <1>1, <1>7, LookupAsks DEF Source!SourceNext
<1>8. ASSUME NEW r \in Request, RotationGranted(r)
      PROVE  Source!SourceNext
  <2> DEFINE q == [req[r] EXCEPT !.pc = "claimed", !.since = now]
             h == req[r].host
  <2>1. /\ req[r].pc = "uncovered" /\ req[r].jwks # 0 /\ ~req[r].keys_unavailable
        /\ req[r].pc \notin Holding
    BY <1>1, <1>8 DEF RotationGranted, Told, Holding
  <2>2. q \in Req /\ q.pc = "claimed" /\ q.host = h /\ q.jwks = req[r].jwks
    BY <1>1, <1>2 DEF Req, Phase, TypeOK
  <2>3. req' = [req EXCEPT ![r] = q]
    BY <1>8 DEF RotationGranted
  <2>4. h \in Host /\ node[h] \in Node
    BY <1>1, <1>2 DEF Req, TypeOK, ZoneTypeOK
  <2>5. UNCHANGED tree /\ \A x \in Host : node'[x].jwks = node[x].jwks
    <3> DEFINE n == [ClaimedNode(node[h], Time(r)) EXCEPT !.forced_refetch_at = Time(r)]
    <3>1. UNCHANGED tree /\ node' = [node EXCEPT ![h] = n]
      BY <1>8 DEF RotationGranted, RotationClaim
    <3>2. n.jwks = node[h].jwks
      BY <2>4 DEF ClaimedNode, Node
    <3> HIDE DEF n
    <3> QED BY <1>1, <2>4, <3>1, <3>2 DEF TypeOK, ZoneTypeOK
  <2>6. UNCHANGED <<origin, Shared>>
    BY <1>8, <2>5, SharedSame DEF RotationGranted, envVars
  <2> HIDE DEF q
  <2>7. Source!MayFetch(h)
    <3>1. q.pc \in Holding
      BY <2>2 DEF Holding
    <3> QED BY <1>1, <2>1, <2>2, <2>3, <3>1, FetchAllowed
  <2>8. Source!Becomes(r, Source!Waiting(h, req[r].jwks, 0))
    BY <1>1, <2>2, <2>3, AskedStep, AskedCases
  <2>9. Asked[r] = Source!Told(h, req[r].jwks)
    BY <1>2, <2>1, AskedCases DEF Asked
  <2>10. Source!AskAgain(r)
    BY <2>1, <2>6, <2>7, <2>8, <2>9 DEF Source!AskAgain, Source!Told
  <2> QED BY <2>10 DEF Source!SourceNext
<1>9. ASSUME NEW r \in Request, RotationDeclined(r)
      PROVE  UNCHANGED Source!sourceVars
  <2> DEFINE q == [req[r] EXCEPT !.pc = "ready"]
  <2>1. AskedBy(q) = Asked[r]
    BY <1>2, <1>9 DEF RotationDeclined, AskedBy, Asked, Holding, Req
  <2>2. Asked' = Asked
    BY <1>1, <1>9, <2>1 DEF RotationDeclined, Asked, TypeOK
  <2> QED BY <1>3, <1>9, <2>2 DEF RotationDeclined, Source!sourceVars, envVars
<1>10. ASSUME NEW r \in Request, DirectoryStores(r)
       PROVE  Source!SourceNext
  <2>1. PICK gen :
          req' = [req EXCEPT ![r].pc = "ready",
                             ![r].since = 0, ![r].answer = 0,
                             ![r].jwks = req[r].answer,
                             ![r].generation = gen]
    BY <1>10 DEF DirectoryStores
  <2> DEFINE q == [req[r] EXCEPT !.pc = "ready", !.since = 0, !.answer = 0,
                                 !.jwks = req[r].answer, !.generation = gen]
             h == req[r].host
  <2>2. /\ req[r].pc = "answered" /\ req[r].answer # 0 /\ ~req[r].keys_unavailable
    BY <1>1, <1>10 DEF DirectoryStores, Told, Holding
  <2>3. /\ q.pc = "ready" /\ q.host = h /\ q.jwks = req[r].answer
        /\ ~q.keys_unavailable
    BY <1>2, <2>2 DEF Req
  <2>4. req' = [req EXCEPT ![r] = q]
    BY <2>1
  <2> HIDE DEF q
  <2>5. AskedBy(q) = Source!Told(h, req[r].answer)
    BY <2>3 DEF AskedBy, Holding, Source!Told
  <2>6. Source!Becomes(r, Source!Told(h, req[r].answer))
    BY <1>1, <2>4, <2>5, AskedStep
  <2>7. Asked[r] = Source!Waiting(h, req[r].jwks, req[r].answer)
    BY <1>2, <2>2, AskedCases DEF Asked
  <2>8. \E doc \in {Shared[h], req[r].answer} : Source!Keeps(h, doc)
    BY <1>1, <1>10, SharedStore
  <2>9. UNCHANGED origin
    BY <1>10 DEF DirectoryStores, envVars
  <2> HIDE DEF h
  <2>10. Source!Deliver(r)
    BY <2>2, <2>6, <2>7, <2>8, <2>9 DEF Source!Deliver, Source!Waiting
  <2> QED BY <2>10 DEF Source!SourceNext
<1>11. ASSUME NEW r \in Request, OriginAnswers(r)
       PROVE  Source!SourceNext \/ UNCHANGED Source!sourceVars
  <2> DEFINE h == req[r].host
  <2>1. PICK doc \in {0, origin[h]} :
          req' = [req EXCEPT ![r].pc = "answered", ![r].answer = doc]
    BY <1>11 DEF OriginAnswers
  <2> DEFINE q == [req[r] EXCEPT !.pc = "answered", !.answer = doc]
  <2>2. q.pc = "answered" /\ q.host = h /\ q.jwks = req[r].jwks /\ q.answer = doc
    BY <1>2 DEF Req
  <2>3. req' = [req EXCEPT ![r] = q]
    BY <2>1
  <2> HIDE DEF q
  <2>4. AskedBy(q) = Source!Waiting(h, req[r].jwks, doc)
    BY <2>2 DEF AskedBy, Holding, Source!Waiting
  <2>5. Source!Becomes(r, Source!Waiting(h, req[r].jwks, doc))
    BY <1>1, <2>3, <2>4, AskedStep
  <2>6. Asked[r] = Source!Waiting(h, req[r].jwks, 0)
    BY <1>2, <1>11, AskedCases DEF OriginAnswers, Asked
  <2>7. UNCHANGED <<origin, Shared>>
    BY <1>3, <1>11 DEF OriginAnswers, envVars
  <2> HIDE DEF h
  <2>8. CASE doc = 0
    <3>1. UNCHANGED Asked
      BY <2>5, <2>6, <2>8 DEF Source!Becomes, Asked
    <3> QED BY <2>7, <3>1 DEF Source!sourceVars
  <2>9. CASE doc = origin[h]
    <3>1. Source!Bring(r)
      BY <2>5, <2>6, <2>7, <2>9 DEF Source!Bring, Source!Waiting
    <3> QED BY <3>1 DEF Source!SourceNext
  <2> QED BY <2>1, <2>8, <2>9
<1>12. ASSUME NEW r \in Request, PostFails(r) \/ DirectoryRejects(r)
       PROVE  Source!SourceNext
  <2>1. Source!GiveUp(r)
    BY <1>1, <1>12, ReleaseGivesUp DEF PostFails, DirectoryRejects, Holding
  <2> QED BY <2>1 DEF Source!SourceNext
<1>13. ASSUME NEW r \in Request, Cleanup(r)
       PROVE  Source!SourceNext
  <2>1. Source!Leave({r})
    BY <1>1, <1>13, ReleaseGivesUp DEF Cleanup
  <2> QED BY <2>1 DEF Source!SourceNext
<1>14. ASSUME NEW r \in Request, Evaluate(r)
       PROVE  Source!SourceNext
  <2>1. AskedBy(IdleReq) = Source!Idle
    BY IdleReqType, AskedCases DEF IdleReq, FreshReq
  <2>2. Asked' = [s \in Request |-> IF s \in {r} THEN Source!Idle ELSE Asked[s]]
    <3>1. ASSUME NEW s \in Request
          PROVE  AskedBy(req'[s]) = IF s \in {r} THEN Source!Idle ELSE Asked[s]
      BY <1>1, <1>14, <2>1 DEF Evaluate, TypeOK, Asked
    <3> QED BY <3>1 DEF Asked
  <2>3. UNCHANGED <<origin, Shared>>
    BY <1>3, <1>14 DEF Evaluate, envVars
  <2>4. Source!Leave({r})
    BY <2>2, <2>3 DEF Source!Leave
  <2> QED BY <2>4 DEF Source!SourceNext
<1> QED
  BY <1>4, <1>5, <1>6, <1>7, <1>8, <1>9, <1>10, <1>11, <1>12, <1>13, <1>14
  DEF Next, Progress, Interruption

\* The invariant of the refinement is one.
LEMMA SourceInvariant == Spec => []SourceInv
<1>1. Init => ToldInv
  <2> SUFFICES ASSUME Init PROVE ToldInv
    OBVIOUS
  <2>1. Told(IdleReq)
    BY DEF IdleReq, FreshReq, Told, Holding
  <2> QED BY <2>1, InitType DEF Init, ToldInv
<1>2. Init => SourceInv
  BY <1>1, InitClaim DEF SourceInv
<1>3. SourceInv /\ [Next]_vars => SourceInv'
  BY NextTold, NextClaim DEF SourceInv
<1> QED BY <1>2, <1>3, PTL DEF Spec

\* For the requests, the key directory with its shared zone, its claims,
\* evictions and time-outs and with workers that may die is a source of
\* documents as KeySource describes it, and one that fetches a host once at a
\* time where fetches are bounded.
THEOREM DirectoryIsSource == Spec => ImplementsSource
<1>1. Init => Source!SourceInit
  <2> SUFFICES ASSUME Init PROVE Source!SourceInit
    OBVIOUS
  <2>1. AskedBy(IdleReq) = Source!Idle
    BY IdleReqType, AskedCases DEF IdleReq, FreshReq
  <2>2. Asked = [r \in Request |-> Source!Idle]
    BY <2>1 DEF Init, Asked
  <2>3. Shared = [h \in Host |-> 0]
    BY DEF Init, ZoneInit, Shared
  <2> QED BY <2>2, <2>3 DEF Init, Source!SourceInit
<1>2. SourceInv /\ SourceInv' /\ [Next]_vars => [Source!SourceNext]_Source!sourceVars
  BY NextSource
<1> QED
  BY <1>1, <1>2, SourceInvariant, PTL DEF Spec, ImplementsSource, Source!SourceSpec

-----------------------------------------------------------------------------
(* What a source of documents is good for. *)

\* KeySource's invariant: that a fetch brings nothing older than what is
\* shared needs that nobody else stores meanwhile.
GenuineInv == Source!SourceTypeOK /\ Source!Alone /\ Source!Genuine

\* Making room and keeping documents leaves each host one of its documents.
LEMMA KeepsType ==
    ASSUME Source!SourceTypeOK, NEW h \in Host, NEW doc \in Nat, Source!Keeps(h, doc)
    PROVE  /\ Shared' \in [Host -> Nat]
           /\ Shared'[h] = doc
           /\ \A x \in Host \ {h} : Shared'[x] = Shared[x] \/ Shared'[x] = 0
<1>1. PICK lost \in SUBSET (Host \ {h}) :
        Shared' = [x \in Host |-> IF x = h THEN doc
                                  ELSE IF x \in lost THEN 0 ELSE Shared[x]]
  BY DEF Source!Keeps
<1>2. Shared \in [Host -> Nat]
  BY DEF Source!SourceTypeOK
<1> HIDE DEF Shared
<1> QED BY <1>1, <1>2

\* A step that gives one request an answer of the right type, and changes the
\* shared documents only to older ones or to one that is all right, keeps the
\* invariant, if the answer does.
LEMMA GenuineAnswered ==
    ASSUME GenuineInv, NEW r \in Request, NEW a \in Source!Answer,
           Source!Becomes(r, a), UNCHANGED origin,
           NEW h \in Host, NEW doc \in Nat, Source!Keeps(h, doc),
           doc <= origin[h],
           a.at = "waiting" => a.host = h /\ (Source!Fetches(r, h) \/ Source!MayFetch(h)),
           a.at # "idle" => a.host \in Host /\ a.document <= origin[a.host],
           a.at = "waiting" /\ a.brought # 0 =>
               /\ a.document <= a.brought /\ a.brought <= origin[a.host]
               /\ BoundedFetch => doc <= a.brought,
           doc # Shared[h] => Source!Fetches(r, h)
    PROVE  GenuineInv'
<1>1. /\ Shared' \in [Host -> Nat] /\ Shared'[h] = doc
      /\ \A x \in Host \ {h} : Shared'[x] = Shared[x] \/ Shared'[x] = 0
  BY KeepsType DEF GenuineInv
<1>2. /\ Shared \in [Host -> Nat] /\ origin \in [Host -> Nat]
      /\ Asked \in [Request -> Source!Answer]
  BY DEF GenuineInv, Source!SourceTypeOK
<1>3. Asked' = [Asked EXCEPT ![r] = a]
  BY DEF Source!Becomes
<1>4. Asked' \in [Request -> Source!Answer]
  BY <1>2, <1>3
<1>5. Source!SourceTypeOK'
  BY <1>1, <1>2, <1>4 DEF Source!SourceTypeOK
<1>6. \A x \in Host : Shared'[x] <= origin'[x]
  <2>1. \A x \in Host : Shared[x] <= origin[x]
    BY DEF GenuineInv, Source!Genuine
  <2> HIDE DEF Shared
  <2> QED BY <1>1, <1>2, <2>1
<1>7. ASSUME NEW s \in Request, s # r
      PROVE  Asked'[s] = Asked[s]
  BY <1>2, <1>3, <1>7
<1>8. Asked'[r] = a
  BY <1>2, <1>3
<1>9. Source!Alone'
  <2> SUFFICES ASSUME BoundedFetch, NEW s \in Request, NEW t \in Request,
                      NEW x \in Host, Source!Fetches(s, x)', Source!Fetches(t, x)',
                      s # t
               PROVE  FALSE
    BY DEF Source!Alone, BoundedFetch
  <2>1. ASSUME NEW u \in Request, u # r, Source!Fetches(u, x)'
        PROVE  Source!Fetches(u, x)
    BY <1>7, <2>1 DEF Source!Fetches
  <2>2. \A u, v \in Request : Source!Fetches(u, x) /\ Source!Fetches(v, x) => u = v
    BY DEF GenuineInv, Source!Alone
  <2>3. s = r \/ t = r
    BY <2>1, <2>2
  <2>4. x = h /\ (Source!Fetches(r, h) \/ Source!MayFetch(h))
    BY <1>8, <2>3 DEF Source!Fetches
  <2>5. PICK u \in Request : u # r /\ Source!Fetches(u, h)
    BY <2>1, <2>3, <2>4
  <2> QED BY <2>2, <2>4, <2>5 DEF Source!MayFetch
<1>10. ASSUME NEW s \in Request
       PROVE  Source!GenuineAnswer(Asked[s])'
  <2>1. CASE s = r
    <3>1. a.at = "waiting" => a.host = h
      OBVIOUS
    <3> QED BY <1>1, <1>8, <2>1, <3>1 DEF Source!GenuineAnswer, BoundedFetch
  <2>2. CASE s # r
    <3>0. PICK b \in Source!Answer : b = Asked[s]
      BY <1>2
    <3>1. Source!GenuineAnswer(b) /\ Asked'[s] = b
      BY <1>7, <2>2, <3>0 DEF GenuineInv, Source!Genuine
    <3>2. b.at = "waiting" => Source!Fetches(s, b.host)
      BY <3>0 DEF Source!Fetches
    <3>3. /\ b.at # "idle" => b.host \in Host
          /\ b.at = "waiting" => b.brought \in Nat
      BY <3>1 DEF Source!Answer, Source!Idle
    <3>4. BoundedFetch /\ b.at = "waiting" =>
            Shared'[b.host] = Shared[b.host] \/ Shared'[b.host] = 0
      <4>1. CASE b.host # h
        BY <1>1, <3>3, <4>1
      <4>2. CASE BoundedFetch /\ b.at = "waiting" /\ b.host = h
        <5>1. ~Source!Fetches(r, h)
          BY <2>2, <3>2, <4>2 DEF GenuineInv, Source!Alone
        <5> QED BY <1>1, <4>2, <5>1
      <4> QED BY <4>1, <4>2
    <3>5. Source!GenuineAnswer(b)'
      BY <1>2, <3>1, <3>3, <3>4 DEF Source!GenuineAnswer, BoundedFetch
    <3> QED BY <3>1, <3>5 DEF Source!GenuineAnswer, BoundedFetch
  <2> QED BY <2>1, <2>2
<1> QED BY <1>5, <1>6, <1>9, <1>10 DEF GenuineInv, Source!Genuine

\* The invariant says nothing of time, of workers or of the zone: what KeySource
\* allows keeps it.
LEMMA NextGenuine ==
    ASSUME GenuineInv, [Source!SourceNext]_Source!sourceVars
    PROVE  GenuineInv'
<1> USE DEF Source!Told, Source!Waiting
<1>1. /\ Shared \in [Host -> Nat] /\ origin \in [Host -> Nat]
      /\ Asked \in [Request -> Source!Answer]
      /\ \A h \in Host : Shared[h] <= origin[h]
      /\ \A r \in Request : Source!GenuineAnswer(Asked[r])
  BY DEF GenuineInv, Source!SourceTypeOK, Source!Genuine
<1>2. CASE UNCHANGED Source!sourceVars
  BY <1>2 DEF Source!sourceVars, GenuineInv, Source!SourceTypeOK, Source!Alone,
              Source!Fetches, Source!Genuine, Source!GenuineAnswer, BoundedFetch
<1>3. ASSUME NEW h \in Host, Source!Announce(h)
      PROVE  GenuineInv'
  <2>1. UNCHANGED <<Shared, Asked>>
    BY <1>3 DEF Source!Announce
  <2>2. origin' \in [Host -> Nat] /\ \A x \in Host : origin[x] <= origin'[x]
    BY <1>1, <1>3 DEF Source!Announce
  <2>3. Source!SourceTypeOK' /\ Source!Alone'
    BY <2>1, <2>2 DEF GenuineInv, Source!SourceTypeOK, Source!Alone,
                      Source!Fetches, BoundedFetch
  <2>4. \A x \in Host : Shared'[x] <= origin'[x]
    <3> HIDE DEF Shared
    <3> QED BY <1>1, <2>1, <2>2
  <2>5. ASSUME NEW r \in Request
        PROVE  Source!GenuineAnswer(Asked[r])'
    <3>1. PICK b \in Source!Answer : b = Asked[r]
      BY <1>1
    <3>2. Source!GenuineAnswer(b) /\ Asked'[r] = b
      BY <1>1, <2>1, <3>1
    <3>3. /\ b.at # "idle" => b.host \in Host /\ b.document \in Nat
          /\ b.at = "waiting" => b.brought \in Nat
      BY DEF Source!Answer, Source!Idle
    <3> QED BY <1>1, <2>1, <2>2, <3>2, <3>3 DEF Source!GenuineAnswer, BoundedFetch
  <2> QED BY <2>3, <2>4, <2>5 DEF GenuineInv, Source!Genuine
<1>4. ASSUME NEW r \in Request, NEW h \in Host, Source!AskTold(r, h)
      PROVE  GenuineInv'
  <2>1. PICK doc \in {Shared[h], 0} : Source!Becomes(r, Source!Told(h, doc))
    BY <1>4 DEF Source!AskTold
  <2>2. doc \in Nat /\ doc <= origin[h] /\ Shared[h] \in Nat /\ Shared[h] <= origin[h]
    BY <1>1
  <2>3. Source!Told(h, doc) \in Source!Answer
    BY <2>2 DEF Source!Answer
  <2>4. Source!Keeps(h, Shared[h]) /\ UNCHANGED origin
    BY <1>4 DEF Source!AskTold
  <2> QED BY <2>1, <2>2, <2>3, <2>4, GenuineAnswered
<1>5. ASSUME NEW r \in Request, NEW h \in Host, Source!AskWaits(r, h)
      PROVE  GenuineInv'
  <2>1. /\ Source!Becomes(r, Source!Waiting(h, 0, 0)) /\ Source!MayFetch(h)
        /\ Source!Keeps(h, Shared[h]) /\ UNCHANGED origin
    BY <1>5 DEF Source!AskWaits
  <2>2. Shared[h] \in Nat /\ Shared[h] <= origin[h] /\ 0 <= origin[h]
    BY <1>1
  <2>3. Source!Waiting(h, 0, 0) \in Source!Answer
    BY DEF Source!Answer
  <2> QED BY <2>1, <2>2, <2>3, GenuineAnswered
<1>6. ASSUME NEW r \in Request, Asked[r].at # "idle"
      PROVE  /\ Asked[r].host \in Host
             /\ Asked[r].document \in Nat
             /\ Asked[r].at = "waiting" =>
                   Asked[r].brought \in Nat /\ Source!Fetches(r, Asked[r].host)
             /\ Asked[r].document <= origin[Asked[r].host]
             /\ Shared[Asked[r].host] \in Nat
             /\ origin[Asked[r].host] \in Nat
             /\ Shared[Asked[r].host] <= origin[Asked[r].host]
  <2>1. PICK b \in Source!Answer : b = Asked[r]
    BY <1>1
  <2>2. /\ b.host \in Host /\ b.document \in Nat
        /\ b.at = "waiting" => b.brought \in Nat
    BY <1>6, <2>1 DEF Source!Answer, Source!Idle
  <2>3. b.document <= origin[b.host]
    BY <1>1, <1>6, <2>1 DEF Source!GenuineAnswer
  <2> QED BY <1>1, <2>1, <2>2, <2>3 DEF Source!Fetches
<1>7. ASSUME NEW r \in Request, Source!AskAgain(r)
      PROVE  GenuineInv'
  <2> DEFINE h == Asked[r].host
             d == Asked[r].document
  <2>1. /\ Source!Becomes(r, Source!Waiting(h, d, 0)) /\ Source!MayFetch(h)
        /\ UNCHANGED <<origin, Shared>> /\ Asked[r].at # "idle"
    BY <1>7 DEF Source!AskAgain
  <2>2. h \in Host /\ d \in Nat /\ d <= origin[h] /\ Shared[h] \in Nat
        /\ Shared[h] <= origin[h]
    BY <1>6, <2>1
  <2>3. Source!Keeps(h, Shared[h])
    BY <2>1, <2>2, KeepsAll
  <2> HIDE DEF h, d
  <2>4. Source!Waiting(h, d, 0) \in Source!Answer
    BY <2>2 DEF Source!Answer
  <2> QED BY <2>1, <2>2, <2>3, <2>4, GenuineAnswered
<1>8. ASSUME NEW r \in Request, Source!Bring(r)
      PROVE  GenuineInv'
  <2> DEFINE h == Asked[r].host
             d == Asked[r].document
             b == origin[h]
  <2>1. /\ Source!Becomes(r, Source!Waiting(h, d, b)) /\ Source!Fetches(r, h)
        /\ UNCHANGED <<origin, Shared>> /\ Asked[r].at # "idle"
    BY <1>8 DEF Source!Bring, Source!Fetches
  <2>2. h \in Host /\ d \in Nat /\ d <= b /\ b \in Nat /\ Shared[h] \in Nat
        /\ Shared[h] <= b
    BY <1>6, <2>1
  <2>3. Source!Keeps(h, Shared[h])
    BY <2>1, <2>2, KeepsAll
  <2>4. b = origin[h]
    OBVIOUS
  <2> HIDE DEF h, d, b
  <2>5. Source!Waiting(h, d, b) \in Source!Answer
    BY <2>2 DEF Source!Answer
  <2> QED BY <2>1, <2>2, <2>3, <2>4, <2>5, GenuineAnswered
<1>9. ASSUME NEW r \in Request, Source!Deliver(r)
      PROVE  GenuineInv'
  <2> DEFINE h == Asked[r].host
             b == Asked[r].brought
  <2>1. /\ Source!Becomes(r, Source!Told(h, b)) /\ Source!Fetches(r, h)
        /\ UNCHANGED origin /\ Asked[r].at = "waiting" /\ b # 0
    BY <1>9 DEF Source!Deliver, Source!Fetches
  <2>2. PICK doc \in {Shared[h], b} : Source!Keeps(h, doc)
    BY <1>9 DEF Source!Deliver
  <2>3. h \in Host /\ b \in Nat /\ Shared[h] \in Nat /\ Shared[h] <= origin[h]
    BY <1>6, <2>1
  <2>4. b <= origin[h]
    BY <1>1, <2>1 DEF Source!GenuineAnswer
  <2> HIDE DEF h, b
  <2>5. Source!Told(h, b) \in Source!Answer
    BY <2>3 DEF Source!Answer
  <2>6. doc \in Nat /\ doc <= origin[h]
    BY <2>3, <2>4
  <2> QED BY <2>1, <2>2, <2>3, <2>4, <2>5, <2>6, GenuineAnswered
<1>10. ASSUME NEW r \in Request, Source!GiveUp(r)
       PROVE  GenuineInv'
  <2> DEFINE h == Asked[r].host
             d == Asked[r].document
  <2>1. /\ Source!Becomes(r, Source!Told(h, d)) /\ UNCHANGED <<origin, Shared>>
        /\ Asked[r].at # "idle"
    BY <1>10 DEF Source!GiveUp
  <2>2. h \in Host /\ d \in Nat /\ d <= origin[h] /\ Shared[h] \in Nat
        /\ Shared[h] <= origin[h]
    BY <1>6, <2>1
  <2>3. Source!Keeps(h, Shared[h])
    BY <2>1, <2>2, KeepsAll
  <2> HIDE DEF h, d
  <2>4. Source!Told(h, d) \in Source!Answer
    BY <2>2 DEF Source!Answer
  <2> QED BY <2>1, <2>2, <2>3, <2>4, GenuineAnswered
<1>11. ASSUME NEW R \in SUBSET Request, Source!Leave(R)
       PROVE  GenuineInv'
  <2>1. UNCHANGED <<origin, Shared>>
    BY <1>11 DEF Source!Leave
  <2>2. ASSUME NEW r \in Request
        PROVE  Asked'[r] = Source!Idle \/ Asked'[r] = Asked[r]
    BY <1>11 DEF Source!Leave
  <2>3. Asked' \in [Request -> Source!Answer]
    BY <1>1, <1>11 DEF Source!Leave, Source!Answer
  <2>4. \A r \in Request, h \in Host : Source!Fetches(r, h)' => Source!Fetches(r, h)
    BY <2>2 DEF Source!Fetches, Source!Idle
  <2>5. Source!SourceTypeOK' /\ Source!Alone'
    BY <2>1, <2>3, <2>4 DEF GenuineInv, Source!SourceTypeOK, Source!Alone,
                            BoundedFetch
  <2>6. ASSUME NEW r \in Request
        PROVE  Source!GenuineAnswer(Asked[r])'
    BY <1>1, <2>1, <2>2 DEF Source!GenuineAnswer, Source!Idle, BoundedFetch
  <2>7. \A h \in Host : Shared'[h] <= origin'[h]
    BY <1>1, <2>1
  <2> QED BY <2>5, <2>6, <2>7 DEF GenuineInv, Source!Genuine
<1> QED
  BY <1>2, <1>3, <1>4, <1>5, <1>7, <1>8, <1>9, <1>10, <1>11 DEF Source!SourceNext

\* Whatever is cached, evicted, fetched twice or lost with a worker, every
\* document in the zone and every one a request verifies with is one that its
\* host has published; and a rotation rescue brings a request a document at
\* least as new as the one it had.
THEOREM DocumentsAreGenuine == Spec => []Source!Genuine
<1>1. Init => GenuineInv
  <2> SUFFICES ASSUME Init PROVE GenuineInv
    OBVIOUS
  <2>1. AskedBy(IdleReq) = Source!Idle
    BY IdleReqType, AskedCases DEF IdleReq, FreshReq
  <2>2. Asked = [r \in Request |-> Source!Idle]
    BY <2>1 DEF Init, Asked
  <2>3. Shared = [h \in Host |-> 0]
    BY DEF Init, ZoneInit, Shared
  <2>4. origin = [h \in Host |-> 1]
    BY DEF Init
  <2>5. Source!SourceTypeOK
    BY <2>2, <2>3, <2>4 DEF Source!SourceTypeOK, Source!Answer
  <2>6. Source!Alone
    BY <2>2 DEF Source!Alone, Source!Fetches, Source!Idle
  <2>7. Source!Genuine
    BY <2>2, <2>3, <2>4 DEF Source!Genuine, Source!GenuineAnswer, Source!Idle
  <2> QED BY <2>5, <2>6, <2>7 DEF GenuineInv
<1>2. GenuineInv /\ [Source!SourceNext]_Source!sourceVars => GenuineInv'
  BY NextGenuine
<1>3. GenuineInv => Source!Genuine
  BY DEF GenuineInv
<1>4. SourceInv /\ SourceInv' /\ [Next]_vars => [Source!SourceNext]_Source!sourceVars
  BY NextSource
<1> QED BY <1>1, <1>2, <1>3, <1>4, SourceInvariant, PTL DEF Spec

-----------------------------------------------------------------------------
(* The slots of the parsed-key cache. *)

\* What the definitions of a cache's slots say of one host.
LEMMA SlotTypes ==
    ASSUME NEW kc \in [Host -> Slot]
    PROVE  /\ Occupied(kc) = {x \in Host : kc[x].generation # 0}
           /\ \A x \in Host : /\ kc[x] \in Slot /\ kc[x].age \in Nat
                              /\ kc[x].generation \in Nat
BY DEF Occupied, Slot

\* What a ranking says, slot by slot.
LEMMA RankedSlots ==
    ASSUME NEW kc \in [Host -> Slot], Ranked(kc)
    PROVE  /\ IsFiniteSet(Occupied(kc))
           /\ Cardinality(Occupied(kc)) \in Nat
           /\ Cardinality(Occupied(kc)) <= KeySlots
           /\ \A x \in Occupied(kc) : kc[x].age < Cardinality(Occupied(kc))
           /\ \A x, y \in Occupied(kc) : x # y => kc[x].age # kc[y].age
BY FS_CardinalityType DEF Ranked

\* Touching a slot makes it the youngest and the younger ones one older.
LEMMA TouchEffect ==
    ASSUME NEW kc \in [Host -> Slot], NEW h \in Host, NEW old \in Nat
    PROVE  /\ Touch(kc, h, old) \in [Host -> Slot]
           /\ \A x \in Host :
                 /\ Touch(kc, h, old)[x].generation = kc[x].generation
                 /\ Touch(kc, h, old)[x].age =
                       IF x = h THEN 0
                       ELSE IF x \in Occupied(kc) /\ kc[x].age < old
                            THEN kc[x].age + 1 ELSE kc[x].age
BY DEF Touch, Slot

\* In a full cache there is one slot to evict for a new host, and it is older
\* than every other.
LEMMA OldestSlot ==
    ASSUME NEW kc \in [Host -> Slot], Ranked(kc), NEW h \in Host,
           h \notin Occupied(kc), ~(Cardinality(Occupied(kc)) < KeySlots)
    PROVE  \E v \in Occupied(kc) :
              /\ Evicted(kc, h) = {v}
              /\ \A x \in Occupied(kc) \ {v} : kc[x].age < kc[v].age
<1> DEFINE O == Occupied(kc)
           n == Cardinality(O)
           T == {kc[x].age + 1 : x \in O}
           v == CHOOSE u \in O : \A x \in O : kc[x].age <= kc[u].age
<1>1. /\ n \in Nat /\ n # 0
      /\ \A x \in O : kc[x].age \in Nat /\ kc[x].age < n
      /\ \A x, y \in O : x # y => kc[x].age # kc[y].age
  BY SlotTypes, RankedSlots, KeySlotsAssumption
<1>2. O # {}
  BY <1>1, FS_EmptySet
<1> HIDE DEF O, n
<1>3. T \in SUBSET (1 .. n) /\ T # {}
  BY <1>1, <1>2
<1>4. PICK i \in T : \A j \in T : j <= i
  BY <1>1, <1>3, LastPosition
<1>5. PICK u \in O : i = kc[u].age + 1
  BY <1>4
<1>6. ASSUME NEW x \in O PROVE kc[x].age <= kc[u].age
  <2>1. kc[x].age + 1 \in T
    OBVIOUS
  <2>2. kc[x].age + 1 <= kc[u].age + 1
    BY <1>4, <1>5, <2>1
  <2> QED BY <1>1, <2>2
<1>7. v \in O /\ \A x \in O : kc[x].age <= kc[v].age
  BY <1>6
<1>8. Evicted(kc, h) = {v}
  BY DEF Evicted, O
<1> HIDE DEF v
<1>9. \A x \in O \ {v} : kc[x].age < kc[v].age
  BY <1>1, <1>7
<1> QED BY <1>7, <1>8, <1>9 DEF O

\* What put() leaves: h in use and youngest, the evicted slot free, and every
\* other slot as it was, one older where h's was older still.
LEMMA PutEffect ==
    ASSUME NEW kc \in [Host -> Slot], Ranked(kc), NEW h \in Host,
           NEW gen \in Nat \ {0}, NEW keys \in Nat
    PROVE  /\ CachePut(kc, h, gen, keys) \in [Host -> Slot]
           /\ Occupied(CachePut(kc, h, gen, keys)) =
                 (Occupied(kc) \ Evicted(kc, h)) \cup {h}
           /\ CachePut(kc, h, gen, keys)[h].age = 0
           /\ \A x \in Occupied(kc) \ (Evicted(kc, h) \cup {h}) :
                 CachePut(kc, h, gen, keys)[x].age =
                    IF h \notin Occupied(kc) \/ kc[x].age < kc[h].age
                    THEN kc[x].age + 1 ELSE kc[x].age
<1> DEFINE O == Occupied(kc)
           E == Evicted(kc, h)
           kept == [x \in DOMAIN kc |-> IF x \in E THEN FreeSlot ELSE kc[x]]
           old == IF h \in O THEN kc[h].age ELSE Cardinality(O)
           new == [generation |-> gen, keys |-> keys, age |-> 0]
           c == CachePut(kc, h, gen, keys)
<1>1. c = [Touch(kept, h, old) EXCEPT ![h] = new]
  BY DEF CachePut
<1>2. FreeSlot \in Slot /\ FreeSlot.generation = 0 /\ new \in Slot
  BY DEF FreeSlot, Slot
<1>3. kept \in [Host -> Slot]
  BY <1>2
<1>4. old \in Nat /\ \A x \in O : h \notin O => kc[x].age < old
  BY SlotTypes, RankedSlots
<1>5. \A x \in Host : /\ x \in Occupied(kept) <=> x \in O \ E
                      /\ x \notin E => kept[x] = kc[x]
  BY <1>2, <1>3, SlotTypes
<1>6. O \in SUBSET Host
  BY SlotTypes
<1>7. new.generation = gen /\ new.age = 0
  OBVIOUS
<1> HIDE DEF kept, old, E, O, c, new
<1>8. c \in [Host -> Slot]
  BY <1>1, <1>2, <1>3, <1>4, TouchEffect
<1>9. c[h] = new /\ \A x \in Host \ {h} : c[x] = Touch(kept, h, old)[x]
  BY <1>1, <1>3, <1>4, TouchEffect
<1>10. ASSUME NEW x \in Host, x # h
       PROVE  /\ x \in Occupied(c) <=> x \in O \ E
              /\ x \in O \ E => c[x].age = IF kc[x].age < old THEN kc[x].age + 1
                                           ELSE kc[x].age
  <2>1. c[x].generation = kept[x].generation
    BY <1>3, <1>4, <1>9, <1>10, TouchEffect
  <2>2. x \in Occupied(c) <=> x \in Occupied(kept)
    BY <1>3, <1>8, <2>1, SlotTypes
  <2>3. x \in O \ E => c[x].age = IF kept[x].age < old THEN kept[x].age + 1
                                  ELSE kept[x].age
    BY <1>3, <1>4, <1>5, <1>9, <1>10, TouchEffect
  <2> QED BY <1>5, <2>2, <2>3
<1>11. h \in Occupied(c) /\ c[h].age = 0
  BY <1>7, <1>8, <1>9, SlotTypes
<1>12. Occupied(c) = (O \ E) \cup {h}
  <2>1. Occupied(c) \in SUBSET Host
    BY <1>8, SlotTypes
  <2> QED BY <1>6, <1>10, <1>11, <2>1
<1>13. ASSUME NEW x \in O \ (E \cup {h})
       PROVE  c[x].age = IF h \notin O \/ kc[x].age < kc[h].age
                         THEN kc[x].age + 1 ELSE kc[x].age
  <2>1. c[x].age = IF kc[x].age < old THEN kc[x].age + 1 ELSE kc[x].age
    BY <1>6, <1>10
  <2> QED BY <1>4, <2>1 DEF old
<1> QED BY <1>8, <1>11, <1>12, <1>13 DEF c, O, E

\* An empty cache is ranked.
LEMMA EmptyRanked == Ranked(EmptyKeysCache(Host))
<1>1. Occupied(EmptyKeysCache(Host)) = {}
  BY DEF Occupied, EmptyKeysCache, FreeSlot
<1> QED BY <1>1, FS_EmptySet, KeySlotsAssumption DEF Ranked

\* get() keeps the ranking.
LEMMA GetRanked ==
    ASSUME NEW kc \in [Host -> Slot], Ranked(kc), NEW h \in Occupied(kc)
    PROVE  Ranked(CacheGet(kc, h))
<1> DEFINE c == CacheGet(kc, h)
           O == Occupied(kc)
<1>1. h \in Host /\ kc[h].age \in Nat /\ \A x \in O : x \in Host /\ kc[x].age \in Nat
  BY SlotTypes
<1>2. /\ c \in [Host -> Slot]
      /\ \A x \in Host : /\ c[x].generation = kc[x].generation
                         /\ c[x].age = IF x = h THEN 0
                                       ELSE IF x \in O /\ kc[x].age < kc[h].age
                                            THEN kc[x].age + 1 ELSE kc[x].age
  BY <1>1, TouchEffect DEF CacheGet
<1> HIDE DEF c
<1>3. Occupied(c) = O
  BY <1>2, SlotTypes
<1> HIDE DEF O
<1>4. /\ IsFiniteSet(O) /\ Cardinality(O) \in Nat /\ Cardinality(O) <= KeySlots
      /\ \A x \in O : kc[x].age < Cardinality(O)
      /\ \A x, y \in O : x # y => kc[x].age # kc[y].age
  BY RankedSlots DEF O
<1>5. h \in O
  BY DEF O
<1>6. \A x \in O : c[x].age < Cardinality(O)
  BY <1>1, <1>2, <1>4, <1>5
<1>7. ASSUME NEW x \in O, NEW y \in O, x # y
      PROVE  c[x].age # c[y].age
  <2>1. /\ kc[x].age \in Nat /\ kc[y].age \in Nat /\ kc[h].age \in Nat
        /\ kc[x].age # kc[y].age
        /\ x # h => kc[x].age # kc[h].age
        /\ y # h => kc[y].age # kc[h].age
    BY <1>1, <1>4, <1>5, <1>7
  <2>2. /\ c[x].age = IF x = h THEN 0
                     ELSE IF kc[x].age < kc[h].age THEN kc[x].age + 1
                          ELSE kc[x].age
        /\ c[y].age = IF y = h THEN 0
                     ELSE IF kc[y].age < kc[h].age THEN kc[y].age + 1
                          ELSE kc[y].age
    BY <1>1, <1>2
  <2> QED BY <1>7, <2>1, <2>2
<1> QED BY <1>3, <1>4, <1>6, <1>7 DEF Ranked, c

\* put() keeps the ranking: the slots in use stay within KeySlots.
LEMMA PutRanked ==
    ASSUME NEW kc \in [Host -> Slot], Ranked(kc), NEW h \in Host,
           NEW gen \in Nat \ {0}, NEW keys \in Nat
    PROVE  Ranked(CachePut(kc, h, gen, keys))
<1> DEFINE c == CachePut(kc, h, gen, keys)
           O == Occupied(kc)
           E == Evicted(kc, h)
           n == Cardinality(O)
           others == O \ (E \cup {h})
<1>1. /\ Occupied(c) = (O \ E) \cup {h}
      /\ c[h].age = 0
      /\ \A x \in others : c[x].age = IF h \notin O \/ kc[x].age < kc[h].age
                                      THEN kc[x].age + 1 ELSE kc[x].age
  BY PutEffect
<1>2. /\ IsFiniteSet(O) /\ n \in Nat /\ n <= KeySlots
      /\ \A x \in O : kc[x].age \in Nat /\ kc[x].age < n
      /\ \A x, y \in O : x # y => kc[x].age # kc[y].age
  BY SlotTypes, RankedSlots
<1>3. h \in O \/ n < KeySlots => E = {}
  BY DEF Evicted
<1>4. h \notin O /\ ~(n < KeySlots) =>
         \E v \in O : E = {v} /\ \A x \in O \ {v} : kc[x].age < kc[v].age
  BY OldestSlot
<1> HIDE DEF c, O, E
<1>5. \A x, y \in Occupied(c) : x # y => c[x].age # c[y].age
  BY <1>1, <1>2
<1>6. CASE h \in O
  <2>1. Occupied(c) = O
    BY <1>1, <1>3, <1>6
  <2>2. \A x \in O : c[x].age < n
    BY <1>1, <1>2, <1>3, <1>6
  <2> QED BY <1>2, <1>5, <2>1, <2>2 DEF Ranked, c
<1>7. CASE h \notin O /\ n < KeySlots
  <2>1. Occupied(c) = O \cup {h}
    BY <1>1, <1>3, <1>7
  <2>2. IsFiniteSet(O \cup {h}) /\ Cardinality(O \cup {h}) = n + 1
    BY <1>2, <1>7, FS_AddElement
  <2>3. \A x \in O \cup {h} : c[x].age < n + 1
    BY <1>1, <1>2, <1>3, <1>7
  <2>4. n + 1 <= KeySlots
    BY <1>2, <1>7, KeySlotsAssumption
  <2> QED BY <1>5, <2>1, <2>2, <2>3, <2>4 DEF Ranked, c
<1>8. CASE h \notin O /\ ~(n < KeySlots)
  <2>1. PICK v \in O : E = {v} /\ \A x \in O \ {v} : kc[x].age < kc[v].age
    BY <1>4, <1>8
  <2>2. Occupied(c) = (O \ {v}) \cup {h}
    BY <1>1, <2>1
  <2>3. IsFiniteSet(O \ {v}) /\ Cardinality(O \ {v}) = n - 1
    BY <1>2, FS_RemoveElement
  <2>4. IsFiniteSet((O \ {v}) \cup {h}) /\ Cardinality((O \ {v}) \cup {h}) = n
    <3>1. h \notin O \ {v}
      BY <1>8
    <3>2. /\ IsFiniteSet((O \ {v}) \cup {h})
          /\ Cardinality((O \ {v}) \cup {h}) = Cardinality(O \ {v}) + 1
      BY <2>3, <3>1, FS_AddElement
    <3> QED BY <1>2, <2>3, <3>2
  <2>5. \A x \in (O \ {v}) \cup {h} : c[x].age < n
    <3>1. ASSUME NEW x \in O \ {v}
          PROVE  c[x].age < n
      <4>1. x \in others
        BY <1>8, <2>1
      <4>2. c[x].age = kc[x].age + 1
        BY <1>1, <1>8, <4>1
      <4>3. kc[x].age < kc[v].age /\ kc[v].age < n /\ kc[x].age \in Nat
            /\ kc[v].age \in Nat
        BY <1>2, <2>1
      <4> QED BY <1>2, <4>2, <4>3
    <3>2. c[h].age < n
      BY <1>1, <1>2, <1>8, KeySlotsAssumption
    <3> QED BY <3>1, <3>2
  <2> QED BY <1>2, <1>5, <2>2, <2>4, <2>5 DEF Ranked, c
<1> QED BY <1>6, <1>7, <1>8

\* resolve_keys() keeps the ranking, whether it hits, parses or fails to.
LEMMA ResolvedRanked ==
    ASSUME NEW kc \in [Host -> Slot], Ranked(kc), NEW h \in Host, NEW doc \in Nat,
           NEW gen \in Nat, NEW res \in Resolutions(kc, h, doc, gen)
    PROVE  res.kc \in [Host -> Slot] /\ Ranked(res.kc)
<1>1. \/ res.kc = kc
      \/ res.kc = CacheGet(kc, h) /\ CacheHolds(kc, h, gen)
      \/ res.kc = CachePut(kc, h, gen, doc) /\ gen # 0
  BY DEF Resolutions
<1>2. CacheHolds(kc, h, gen) => h \in Occupied(kc)
  BY SlotTypes DEF CacheHolds
<1> QED BY <1>1, <1>2, GetRanked, PutRanked, ResolutionsType

\* Every step keeps the ranking of every worker's slots.
LEMMA NextRanked == TypeOK /\ SlotsRanked /\ [Next]_vars => SlotsRanked'
<1> SUFFICES ASSUME TypeOK, SlotsRanked, [Next]_vars PROVE SlotsRanked'
  OBVIOUS
<1>1. \A w \in Worker : local[w] \in [Host -> Slot] /\ Ranked(local[w])
  BY DEF TypeOK, SlotsRanked
<1>2. CASE UNCHANGED local
  BY <1>1, <1>2 DEF SlotsRanked
<1>3. ASSUME NEW v \in Worker, NEW kc, Ranked(kc), local' = [local EXCEPT ![v] = kc]
      PROVE  SlotsRanked'
  <2>1. \A w \in Worker : local'[w] = IF w = v THEN kc ELSE local[w]
    BY <1>3 DEF TypeOK
  <2> QED BY <1>1, <1>3, <2>1 DEF SlotsRanked
<1>4. ASSUME NEW w \in Worker, Crash(w)
      PROVE  SlotsRanked'
  BY <1>3, <1>4, EmptyRanked DEF Crash
<1>5. ASSUME NEW r \in Request, NEW h \in Host, LookupHit(r, h)
      PROVE  SlotsRanked'
  <2>1. PICK res \in Resolutions(local[WorkerOf[r]], h, node[h].jwks,
                                 node[h].generation)
                     \cup {[keys |-> 0, kc |-> local[WorkerOf[r]]]} :
           local' = [local EXCEPT ![WorkerOf[r]] = res.kc]
    BY <1>5 DEF LookupHit
  <2>2. /\ WorkerOf[r] \in Worker
        /\ node[h].jwks \in Nat /\ node[h].generation \in Nat
    BY TimeType, KnownTypes
  <2>3. Ranked(res.kc)
    BY <1>1, <2>1, <2>2, ResolvedRanked
  <2> QED BY <1>3, <2>1, <2>2, <2>3
<1>6. ASSUME NEW r \in Request, Evaluate(r)
      PROVE  SlotsRanked'
  <2>1. PICK res \in ResolvedKeys(r) :
           local' = [local EXCEPT ![WorkerOf[r]] = res.kc]
    BY <1>6 DEF Evaluate
  <2>2. /\ WorkerOf[r] \in Worker /\ req[r].host \in Host
        /\ req[r].jwks \in Nat /\ req[r].generation \in Nat
    BY TimeType, KnownTypes
  <2>3. Ranked(res.kc)
    BY <1>1, <2>1, <2>2, ResolvedRanked DEF ResolvedKeys
  <2> QED BY <1>3, <2>1, <2>2, <2>3
<1> QED
  BY <1>2, <1>4, <1>5, <1>6
  DEF Next, vars, Tick, UpdateTime, Publish, Lookup, LookupStale, LookupFailOpen,
      LookupClaims, LookupAllocates, Progress, RotationGranted, RotationDeclined,
      DirectoryStores, DirectoryRejects, Interruption, PostFails, Cleanup,
      OriginAnswers, reqVars

\* No worker ever keeps more than KeySlots parsed key sets, and the ages of
\* those it keeps rank them: whatever hits, puts, failures to parse and
\* crashes it has been through, the least recently touched one is defined.
THEOREM SlotsAreRanked == Spec => []SlotsRanked
<1>1. Init => SlotsRanked
  BY EmptyRanked DEF Init, SlotsRanked
<1> QED BY <1>1, InitType, NextType, NextRanked, PTL DEF Spec

-----------------------------------------------------------------------------
(* Ages instead of stamps. *)

\* stamp[x] is what the code's `touched` of x's slot may be, and clk its
\* `clock`: every slot in use has a stamp the clock has reached, and the older
\* of two slots by age is the one with the lower stamp.
Stamped(kc, stamp, clk) ==
    /\ stamp \in [Host -> Nat] /\ clk \in Nat
    /\ \A x \in Occupied(kc) : stamp[x] <= clk
    /\ \A x, y \in Occupied(kc) : kc[x].age < kc[y].age <=> stamp[y] < stamp[x]

\* `touched = ++clock` does to the stamps what get() and put() do to the ages.
LEMMA StampsFollow ==
    ASSUME NEW kc \in [Host -> Slot], Ranked(kc), NEW stamp, NEW clk,
           Stamped(kc, stamp, clk), NEW h \in Host
    PROVE  /\ h \in Occupied(kc) =>
                 Stamped(CacheGet(kc, h), [stamp EXCEPT ![h] = clk + 1], clk + 1)
           /\ \A gen \in Nat \ {0}, keys \in Nat :
                 Stamped(CachePut(kc, h, gen, keys),
                         [stamp EXCEPT ![h] = clk + 1], clk + 1)
<1> DEFINE O == Occupied(kc)
           after == [stamp EXCEPT ![h] = clk + 1]
<1>1. /\ stamp \in [Host -> Nat] /\ clk \in Nat
      /\ \A x \in O : x \in Host /\ stamp[x] \in Nat /\ kc[x].age \in Nat
      /\ \A x \in O : stamp[x] <= clk
      /\ \A x, y \in O : kc[x].age < kc[y].age <=> stamp[y] < stamp[x]
  BY SlotTypes DEF Stamped
<1>2. after \in [Host -> Nat] /\ clk + 1 \in Nat
      /\ after[h] = clk + 1 /\ \A x \in Host \ {h} : after[x] = stamp[x]
  BY <1>1
<1>3. \A x, y \in O : x # y => kc[x].age # kc[y].age
  BY RankedSlots
<1> HIDE DEF O, after
<1>4. ASSUME NEW c, Occupied(c) \in SUBSET (O \cup {h}), c[h].age = 0,
             \/ /\ h \in O
                /\ \A x \in Occupied(c) \ {h} :
                      c[x].age = IF kc[x].age < kc[h].age THEN kc[x].age + 1
                                 ELSE kc[x].age
             \/ \A x \in Occupied(c) \ {h} : c[x].age = kc[x].age + 1
      PROVE  Stamped(c, after, clk + 1)
  <2>1. \A x \in Occupied(c) : after[x] <= clk + 1
    BY <1>1, <1>2, <1>4
  <2>2. \A x \in Occupied(c) \ {h} : x \in O /\ c[x].age \in Nat /\ c[x].age > 0
    BY <1>1, <1>3, <1>4
  <2>3. ASSUME NEW x \in Occupied(c), NEW y \in Occupied(c)
        PROVE  c[x].age < c[y].age <=> after[y] < after[x]
    <3>1. CASE x = h
      BY <1>1, <1>2, <1>4, <2>2, <3>1
    <3>2. CASE y = h /\ x # h
      BY <1>1, <1>2, <1>4, <2>2, <3>2
    <3>3. CASE x # h /\ y # h
      <4>1. x \in O /\ y \in O /\ after[x] = stamp[x] /\ after[y] = stamp[y]
        BY <1>1, <1>2, <2>2, <3>3
      <4>2. kc[x].age < kc[y].age <=> stamp[y] < stamp[x]
        BY <1>1, <4>1
      <4>3. c[x].age < c[y].age <=> kc[x].age < kc[y].age
        BY <1>1, <1>3, <1>4, <3>3, <4>1
      <4> QED BY <4>1, <4>2, <4>3
    <3> QED BY <3>1, <3>2, <3>3
  <2> QED BY <1>2, <2>1, <2>3 DEF Stamped
<1>5. ASSUME h \in O
      PROVE  Stamped(CacheGet(kc, h), after, clk + 1)
  <2> DEFINE c == CacheGet(kc, h)
  <2>1. /\ c \in [Host -> Slot]
        /\ \A x \in Host : /\ c[x].generation = kc[x].generation
                           /\ c[x].age = IF x = h THEN 0
                                         ELSE IF x \in O /\ kc[x].age < kc[h].age
                                              THEN kc[x].age + 1 ELSE kc[x].age
    BY <1>1, <1>5, TouchEffect DEF CacheGet, O
  <2> HIDE DEF c
  <2>2. Occupied(c) = O
    BY <2>1, SlotTypes DEF O
  <2>3. Stamped(c, after, clk + 1)
    BY <1>1, <1>4, <1>5, <2>1, <2>2
  <2> QED BY <2>3 DEF c
<1>6. ASSUME NEW gen \in Nat \ {0}, NEW keys \in Nat
      PROVE  Stamped(CachePut(kc, h, gen, keys), after, clk + 1)
  <2> DEFINE c == CachePut(kc, h, gen, keys)
  <2>1. /\ Occupied(c) = (O \ Evicted(kc, h)) \cup {h}
        /\ c[h].age = 0
        /\ \A x \in O \ (Evicted(kc, h) \cup {h}) :
              c[x].age = IF h \notin O \/ kc[x].age < kc[h].age
                         THEN kc[x].age + 1 ELSE kc[x].age
    BY <1>6, PutEffect DEF O
  <2> HIDE DEF c
  <2>2. Stamped(c, after, clk + 1)
    <3>1. Occupied(c) \in SUBSET (O \cup {h})
      BY <2>1
    <3>2. CASE h \in O
      BY <1>4, <2>1, <3>1, <3>2
    <3>3. CASE h \notin O
      BY <1>4, <2>1, <3>1, <3>3
    <3> QED BY <3>2, <3>3
  <2> QED BY <2>2 DEF c
<1> QED BY <1>5, <1>6 DEF O, after

\* put() into a full cache frees one slot, the one slot_for() picks: that with
\* the lowest `touched` of all, which no other slot shares.
THEOREM LeastTouchedEvicted ==
    ASSUME NEW kc \in [Host -> Slot], Ranked(kc), NEW stamp, NEW clk,
           Stamped(kc, stamp, clk), NEW h \in Host,
           h \notin Occupied(kc), ~(Cardinality(Occupied(kc)) < KeySlots),
           NEW gen \in Nat \ {0}, NEW keys \in Nat
    PROVE  \E v \in Occupied(kc) :
              /\ Occupied(CachePut(kc, h, gen, keys))
                    = (Occupied(kc) \ {v}) \cup {h}
              /\ \A x \in Occupied(kc) \ {v} : stamp[v] < stamp[x]
<1>1. PICK v \in Occupied(kc) :
         /\ Evicted(kc, h) = {v}
         /\ \A x \in Occupied(kc) \ {v} : kc[x].age < kc[v].age
  BY OldestSlot
<1>2. \A x \in Occupied(kc) \ {v} : stamp[v] < stamp[x]
  BY <1>1 DEF Stamped
<1>3. Occupied(CachePut(kc, h, gen, keys)) = (Occupied(kc) \ {v}) \cup {h}
  BY <1>1, PutEffect
<1> QED BY <1>2, <1>3

-----------------------------------------------------------------------------
(* Nothing in the zone outlives its time. *)

\* No node is marked for longer than MaxTtl from now, whether for its document
\* or for a failure, and no claim or rescue is dated later than now: the marks
\* are made by one lagging clock and read by another, and nothing else undoes
\* them.
MarksBounded ==
    \A h \in tree :
        /\ node[h].expires_at <= now + MaxTtl
        /\ node[h].fetching => node[h].fetching_since <= now
        /\ node[h].forced_refetch_at <= now

\* To whatever worker: a mark is over at the latest MaxLag after it expires,
\* and a claim counts until FetchTimeout after the time it is dated, and at
\* most MaxLag longer.
MarksExpire ==
    \A h \in tree, r \in Request :
        /\ now >= node[h].expires_at + MaxLag => ~Fresh(h, Time(r))
        /\ node[h].fetching =>
              /\ now < node[h].fetching_since + FetchTimeout => Busy(h, Time(r))
              /\ now >= node[h].fetching_since + FetchTimeout + MaxLag =>
                    ~Busy(h, Time(r))

MarksInv == TypeOK /\ ClocksOK /\ MarksBounded

\* What MarksBounded says of one host.
MarksOf(x) ==
    /\ node[x].expires_at <= now + MaxTtl
    /\ node[x].fetching => node[x].fetching_since <= now
    /\ node[x].forced_refetch_at <= now

\* Every step keeps MarksInv.
LEMMA NextMarks == MarksInv /\ [Next]_vars => MarksInv'
<1> SUFFICES ASSUME MarksInv, [Next]_vars, NEW x \in Host, x \in tree'
             PROVE  MarksOf(x)'
  <2>1. TypeOK' => tree' \in SUBSET Host
    BY DEF TypeOK, ZoneTypeOK
  <2> QED BY <2>1, NextType, NextClocks DEF MarksInv, MarksBounded, MarksOf
<1>1. /\ TypeOK /\ TypeOK' /\ ClocksOK /\ MarksBounded
      /\ now \in Nat /\ now' \in Nat /\ MaxTtl \in Nat
  BY NextType, TtlAssumption DEF MarksInv, TypeOK
<1>2. /\ node[x] \in Node /\ node'[x] \in Node
      /\ node[x].expires_at \in Nat /\ node'[x].expires_at \in Nat
      /\ node[x].fetching_since \in Nat /\ node[x].forced_refetch_at \in Nat
  BY <1>1 DEF TypeOK, ZoneTypeOK, Node
<1>3. ASSUME NEW r \in Request
      PROVE  /\ req[r].host \in Host
             /\ Time(r) \in Nat /\ Time(r) <= now
  BY <1>1, TimeClose DEF TypeOK, Req
<1>4. x \in tree => MarksOf(x)
  BY <1>1 DEF MarksBounded, MarksOf
<1>5. ASSUME x \in tree, node'[x] = node[x], now' \in {now, now + 1}
      PROVE  MarksOf(x)'
  BY <1>1, <1>2, <1>4, <1>5 DEF MarksOf
<1>6. ASSUME NEW r \in Request, Ended(x, Time(r)), now' = now
      PROVE  MarksOf(x)'
  <2>1. /\ ~node'[x].fetching /\ node'[x].expires_at <= Time(r) + MaxTtl
        /\ node'[x].forced_refetch_at = TargetNode(x).forced_refetch_at
    BY <1>6 DEF Ended
  <2>2. TargetNode(x).forced_refetch_at <= now
    BY <1>1, <1>4 DEF TargetNode, ZeroNode, MarksOf
  <2> QED BY <1>1, <1>2, <1>3, <1>6, <2>1, <2>2 DEF MarksOf
<1>7. CASE Quiet
  BY <1>5, <1>7 DEF Quiet, zoneVars
<1>8. ASSUME NEW r \in Request, NEW h \in Host, LookupClaims(r, h)
      PROVE  MarksOf(x)'
  <2>1. UNCHANGED <<now, tree>>
    BY <1>8 DEF LookupClaims, LookupClaim, envVars
  <2>2. node'[x] = IF x = h THEN ClaimedNode(node[x], Time(r)) ELSE node[x]
    BY <1>1, <1>8 DEF LookupClaims, LookupClaim, TypeOK, ZoneTypeOK
  <2>3. /\ ClaimedNode(node[x], Time(r)).fetching_since = Time(r)
        /\ ClaimedNode(node[x], Time(r)).expires_at = node[x].expires_at
        /\ ClaimedNode(node[x], Time(r)).forced_refetch_at = node[x].forced_refetch_at
    BY <1>2 DEF ClaimedNode, Node
  <2> QED BY <1>3, <1>4, <1>5, <2>1, <2>2, <2>3 DEF MarksOf
<1>9. ASSUME NEW r \in Request, NEW h \in Host, LookupAllocates(r, h)
      PROVE  MarksOf(x)'
  <2> DEFINE n == ClaimedNode(ZeroNode, Time(r))
  <2>1. PICK a \in AllocOutcomes(Time(r)) : LookupAlloc(h, Time(r), a)
    BY <1>9 DEF LookupAllocates
  <2>2. h \notin tree /\ now' = now
    BY <1>9 DEF LookupAllocates, LookupStatus, envVars
  <2>3. n.expires_at = 0 /\ n.fetching_since = Time(r) /\ n.forced_refetch_at = 0
    BY DEF ClaimedNode, ZeroNode
  <2>4. \/ x \in tree /\ node'[x] = node[x]
        \/ node'[x] = n
    BY <1>1, <2>1, <2>2, AllocEffect DEF LookupAlloc
  <2> HIDE DEF n
  <2> QED BY <1>1, <1>3, <1>5, <2>2, <2>3, <2>4 DEF MarksOf
<1>10. ASSUME NEW r \in Request, RotationGranted(r)
       PROVE  MarksOf(x)'
  <2> DEFINE n == [ClaimedNode(node[x], Time(r)) EXCEPT !.forced_refetch_at = Time(r)]
  <2>1. UNCHANGED <<now, tree>>
    BY <1>10 DEF RotationGranted, RotationClaim, envVars
  <2>2. node'[x] = IF x = req[r].host THEN n ELSE node[x]
    BY <1>1, <1>10 DEF RotationGranted, RotationClaim, TypeOK, ZoneTypeOK
  <2>3. /\ n.fetching_since = Time(r) /\ n.forced_refetch_at = Time(r)
        /\ n.expires_at = node[x].expires_at
    BY <1>2 DEF ClaimedNode, Node
  <2> QED BY <1>3, <1>4, <1>5, <2>1, <2>2, <2>3 DEF MarksOf
<1>11. ASSUME NEW r \in Request, GivesBack(r)
       PROVE  MarksOf(x)'
  <2>1. now' = now /\ x \in tree
    BY <1>1, <1>11, ReleaseEffect DEF GivesBack, envVars
  <2>2. Ended(x, Time(r)) \/ node'[x] = node[x]
    BY <1>1, <1>11, ReleaseEffect
  <2> QED BY <1>5, <1>6, <1>11, <2>1, <2>2
<1>12. ASSUME NEW r \in Request, DirectoryStores(r)
       PROVE  MarksOf(x)'
  <2>1. now' = now
    BY <1>12 DEF DirectoryStores, envVars
  <2>2. \/ x \in tree /\ node'[x] = node[x]
        \/ Ended(x, Time(r))
    BY <1>1, <1>12, StoreEffect
  <2> QED BY <1>5, <1>6, <1>12, <2>1, <2>2
<1> QED BY <1>1, <1>7, <1>8, <1>9, <1>10, <1>11, <1>12, StepKinds

\* No mark in the zone lasts: a document is fresh for MaxTtl at most, a failure
\* is remembered no longer, and the claim of a dead worker is in nobody's way
\* once FetchTimeout and the lag of a clock have passed, however long fetches
\* take.  That such a claim is taken over is StrandedClaimRecovers.
THEOREM MarksAreBounded == Spec => [](MarksBounded /\ MarksExpire)
<1>1. Init => MarksInv
  <2>1. Init => tree = {} /\ ClocksOK
    BY DirectoryAssumption DEF Init, ZoneInit, ClocksOK
  <2> QED BY <2>1, InitType DEF MarksInv, MarksBounded
<1>2. MarksInv => MarksBounded /\ MarksExpire
  <2> SUFFICES ASSUME MarksInv, NEW h \in tree, NEW r \in Request
               PROVE  /\ now >= node[h].expires_at + MaxLag => ~Fresh(h, Time(r))
                      /\ node[h].fetching =>
                            /\ now < node[h].fetching_since + FetchTimeout =>
                                  Busy(h, Time(r))
                            /\ now >= node[h].fetching_since + FetchTimeout + MaxLag =>
                                  ~Busy(h, Time(r))
    BY DEF MarksInv, MarksExpire
  <2>1. node[h].expires_at \in Nat /\ node[h].fetching_since \in Nat
    BY DEF MarksInv, TypeOK, ZoneTypeOK, Node
  <2>2. /\ Time(r) \in Nat /\ now \in Nat
        /\ Time(r) <= now /\ now <= Time(r) + MaxLag
    BY TimeClose DEF MarksInv
  <2>3. MaxLag \in Nat /\ FetchTimeout \in Nat
    BY DirectoryAssumption, TtlAssumption
  <2> QED BY <2>1, <2>2, <2>3 DEF Fresh, Busy
<1> QED BY <1>1, <1>2, NextMarks, PTL DEF Spec
=============================================================================
