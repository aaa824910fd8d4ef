-------------------------- MODULE RedisStoreProofs --------------------------
(***************************************************************************)
(* TLAPS proofs about RedisStore, for every number of workers, every       *)
(* back-off limit and any number of SETs lost or on their way.             *)
(***************************************************************************)
EXTENDS RedisStore, NonceWindowProofs, TLAPS

\* No clock is ahead of real time.
RedisClocksOK == now # 0 /\ \A w \in Worker : clock[w] <= now

\* An armed back-off runs from the failure that armed it.
BackoffArmed ==
    \A w \in Worker : backoff[w] # 0 => retry_after[w] = failedAt[w] + backoff[w]

\* A check that may have entered its key is in its retry, and the time to live
\* of a check under way still reaches past the end of its window.
CallOK(c, t) ==
    /\ c.wrote => c.pc \in {"reconnect", "retry"}
    /\ c.pc # "idle" => c.ex # 0 /\ t + c.ex > WindowEnd(c.sig, c.loc)

CallsOK == \A w \in Worker : CallOK(call[w], now)

\* What is on its way to the server was sent for some signature.
LateKnown == \A c \in late : \E s \in Sig : c.key = NonceOf[s]

RedisInv ==
    /\ RedisTypeOK /\ RedisClocksOK /\ BackoffArmed /\ CallsOK /\ LateKnown
    /\ NoSelfReplay

\* The nonces accepted so far are on the server for as long as their
\* signatures could be presented again.
AcceptedOnServer ==
    \A s \in Sig, l \in Location :
        accepts[s] # 0 /\ now <= WindowEnd(s, l) =>
            stored[NonceOf[s]] > WindowEnd(s, l)

PromiseInv == RedisInv /\ AcceptedOnServer

-----------------------------------------------------------------------------
(* The parts of a step. *)

\* A worker with no check under way.
LEMMA NoCallType == NoCall \in Call /\ NoCall.pc = "idle" /\ NoCall.wrote = FALSE
<1>1. (CHOOSE s \in Sig : TRUE) \in Sig /\ (CHOOSE l \in Location : TRUE) \in Location
  BY RedisAssumption
<1> QED BY <1>1 DEF NoCall, Call, Pc

\* redis_next_backoff() is at least a second.
LEMMA NextBackoffType ==
    ASSUME NEW b \in Nat
    PROVE  NextBackoff(b) \in Nat \ {0}
<1>1. CappedMax \in Nat \ {0}
  BY RedisAssumption DEF CappedMax
<1> QED BY <1>1 DEF NextBackoff

\* A SET changes no key but its own, and that one only if it is not held.
LEMMA ExecutedType ==
    ASSUME RedisTypeOK, NEW k \in Key, NEW ex \in Nat
    PROVE  /\ Executed(k, ex) \in [Key -> Nat]
           /\ \A x \in Key : Held(x) => Executed(k, ex)[x] = stored[x]
           /\ \A x \in Key \ {k} : Executed(k, ex)[x] = stored[x]
           /\ ~Held(k) => Executed(k, ex)[k] = now + ex
BY DEF RedisTypeOK, Executed, Held

\* A SET that is not answered was sent for the check's signature.
LEMMA UnansweredType ==
    ASSUME RedisInv, NEW w \in Worker, Unanswered(w)
    PROVE  /\ stored' \in [Key -> Nat] /\ late' \subseteq [key : Key, ex : Nat]
           /\ LateKnown'
           /\ stored' \in {stored, Executed(NonceOf[call[w].sig], call[w].ex)}
<1>1. call[w].sig \in Sig /\ call[w].ex \in Nat /\ NonceOf[call[w].sig] \in Key
  BY WindowAssumption DEF RedisInv, RedisTypeOK, Call
<1>2. stored' \in {stored, Executed(NonceOf[call[w].sig], call[w].ex)}
  BY DEF Unanswered
<1>3. late' = late \/ late' = late \cup {[key |-> NonceOf[call[w].sig], ex |-> call[w].ex]}
  BY DEF Unanswered
<1>4. stored' \in [Key -> Nat]
  <2>1. Executed(NonceOf[call[w].sig], call[w].ex) \in [Key -> Nat]
    BY <1>1, ExecutedType DEF RedisInv
  <2> QED BY <1>2, <2>1 DEF RedisInv, RedisTypeOK
<1>5. late' \subseteq [key : Key, ex : Nat]
  BY <1>1, <1>3 DEF RedisInv, RedisTypeOK
<1>6. LateKnown'
  BY <1>1, <1>3 DEF RedisInv, LateKnown
<1> QED BY <1>2, <1>4, <1>5, <1>6

\* Replacing one worker's call by a sound one.
LEMMA CallReplaced ==
    ASSUME RedisInv, now' = now, NEW w \in Worker, NEW c \in Call, CallOK(c, now),
           call' = [call EXCEPT ![w] = c]
    PROVE  call' \in [Worker -> Call] /\ CallsOK'
<1>1. call' \in [Worker -> Call] /\ call'[w] = c
      /\ \A v \in Worker \ {w} : call'[v] = call[v]
  BY DEF RedisInv, RedisTypeOK
<1>2. \A v \in Worker : CallOK(call'[v], now)
  BY <1>1 DEF RedisInv, CallsOK
<1> QED BY <1>1, <1>2 DEF CallsOK, CallOK, WindowEnd

\* What every way of returning does.
LEMMA ReturnsType ==
    ASSUME RedisInv, now' = now, NEW w \in Worker,
           NEW rc \in {"OK", "DECLINED", "ABORT"}, Returns(w, rc)
    PROVE  /\ call' \in [Worker -> Call] /\ CallsOK'
           /\ verdict' = [rc |-> rc, own |-> call[w].wrote]
           /\ verdict' \in [rc : {"none", "OK", "DECLINED", "ABORT"}, own : BOOLEAN]
           /\ accepts' \in [Sig -> Nat]
<1>1. CallOK(NoCall, now)
  BY NoCallType DEF CallOK
<1>2. call' \in [Worker -> Call] /\ CallsOK'
  BY <1>1, NoCallType, CallReplaced DEF Returns
<1>3. call[w].wrote \in BOOLEAN /\ call[w].sig \in Sig /\ accepts \in [Sig -> Nat]
  BY DEF RedisInv, RedisTypeOK, Call
<1>4. verdict' = [rc |-> rc, own |-> call[w].wrote]
  BY DEF Returns
<1>5. accepts' \in [Sig -> Nat]
  BY <1>3 DEF Returns
<1> QED BY <1>2, <1>3, <1>4, <1>5

\* Giving up closes the connection and arms the back-off from now on.
LEMMA GivesUpType ==
    ASSUME RedisInv, now' = now, NEW w \in Worker, GivesUp(w)
    PROVE  /\ call' \in [Worker -> Call] /\ CallsOK'
           /\ verdict' \in [rc : {"none", "OK", "DECLINED", "ABORT"}, own : BOOLEAN]
           /\ accepts' \in [Sig -> Nat]
           /\ NoSelfReplay' /\ RedisClocksOK' /\ BackoffArmed'
           /\ clock' \in [Worker -> Nat] /\ connected' \subseteq Worker
           /\ backoff' \in [Worker -> Nat] /\ retry_after' \in [Worker -> Nat]
           /\ failedAt' \in [Worker -> Nat]
<1>1. Returns(w, "ABORT")
  BY DEF GivesUp
<1>2. /\ call' \in [Worker -> Call] /\ CallsOK'
      /\ verdict' = [rc |-> "ABORT", own |-> call[w].wrote]
      /\ verdict' \in [rc : {"none", "OK", "DECLINED", "ABORT"}, own : BOOLEAN]
      /\ accepts' \in [Sig -> Nat]
  BY <1>1, ReturnsType
<1>3. NoSelfReplay'
  BY <1>2 DEF NoSelfReplay
<1>4. /\ now \in Nat /\ clock \in [Worker -> Nat] /\ backoff \in [Worker -> Nat]
      /\ retry_after \in [Worker -> Nat] /\ failedAt \in [Worker -> Nat]
      /\ connected \subseteq Worker
  BY DEF RedisInv, RedisTypeOK
<1>5. /\ clock' = [clock EXCEPT ![w] = now]
      /\ connected' = connected \ {w}
      /\ backoff' = [backoff EXCEPT ![w] = NextBackoff(backoff[w])]
      /\ retry_after' = [retry_after EXCEPT ![w] = now + backoff'[w]]
      /\ failedAt' = [failedAt EXCEPT ![w] = now]
  BY DEF GivesUp
<1>6. NextBackoff(backoff[w]) \in Nat \ {0}
  BY <1>4, NextBackoffType
<1>7. backoff'[w] = NextBackoff(backoff[w]) /\ backoff' \in [Worker -> Nat]
  BY <1>4, <1>5, <1>6
<1>8. /\ clock' \in [Worker -> Nat] /\ connected' \subseteq Worker
      /\ retry_after' \in [Worker -> Nat] /\ failedAt' \in [Worker -> Nat]
  BY <1>4, <1>5, <1>6, <1>7
<1>9. RedisClocksOK'
  BY <1>4, <1>5 DEF RedisInv, RedisClocksOK
<1>10. BackoffArmed'
  <2> SUFFICES ASSUME NEW v \in Worker, backoff'[v] # 0
               PROVE  retry_after'[v] = failedAt'[v] + backoff'[v]
    BY DEF BackoffArmed
  <2>1. CASE v = w
    BY <1>4, <1>5, <2>1
  <2>2. CASE v # w
    BY <1>4, <1>5, <2>2 DEF RedisInv, BackoffArmed
  <2> QED BY <2>1, <2>2
<1> QED BY <1>2, <1>3, <1>7, <1>8, <1>9, <1>10

-----------------------------------------------------------------------------
(* Types, clocks, back-offs and calls. *)

\* Nothing is stored and nobody is checking.
LEMMA RedisInvInit == RedisInit => RedisInv
<1> SUFFICES ASSUME RedisInit PROVE RedisInv
  OBVIOUS
<1>1. RedisTypeOK
  BY NoCallType DEF RedisInit, RedisTypeOK
<1>2. CallsOK
  BY NoCallType DEF RedisInit, CallsOK, CallOK
<1> QED BY <1>1, <1>2
        DEF RedisInit, RedisInv, RedisClocksOK, BackoffArmed, LateKnown, NoSelfReplay

\* Every step keeps RedisInv.
LEMMA RedisInvNext ==
    ASSUME RedisInv, [RedisNext]_redisVars
    PROVE  RedisInv'
<1>1. /\ RedisTypeOK /\ RedisClocksOK /\ BackoffArmed /\ CallsOK /\ LateKnown
      /\ NoSelfReplay
  BY DEF RedisInv
<1>2. CASE UNCHANGED redisVars
  BY <1>1, <1>2 DEF redisVars, RedisInv, RedisTypeOK, RedisClocksOK, BackoffArmed,
     CallsOK, CallOK, WindowEnd, LateKnown, NoSelfReplay
<1>3. CASE RedisTick
  <2>1. now' = now + 1 /\ now \in Nat
        /\ UNCHANGED <<clock, stored, late, workerVars, verdict, accepts>>
    BY <1>1, <1>3 DEF RedisTick, RedisTypeOK
  <2>2. RedisTypeOK'
    BY <1>1, <2>1 DEF workerVars, RedisTypeOK
  <2>3. RedisClocksOK' /\ BackoffArmed' /\ LateKnown' /\ NoSelfReplay'
    BY <1>1, <2>1 DEF workerVars, RedisTypeOK, RedisClocksOK, BackoffArmed, LateKnown,
       NoSelfReplay
  <2>4. CallsOK'
    <3> SUFFICES ASSUME NEW w \in Worker PROVE CallOK(call[w], now + 1)
      BY <2>1 DEF CallsOK, workerVars, CallOK, WindowEnd
    <3>1. call[w] \in Call /\ CallOK(call[w], now)
      BY <1>1 DEF RedisTypeOK, CallsOK
    <3>2. call[w].ex \in Nat /\ WindowEnd(call[w].sig, call[w].loc) \in Nat
      BY <3>1, WindowAssumption DEF Call, WindowEnd
    <3> QED BY <2>1, <3>1, <3>2 DEF CallOK
  <2> QED BY <2>2, <2>3, <2>4 DEF RedisInv
<1>4. ASSUME NEW c \in late, LandsLate(c)
      PROVE  RedisInv'
  <2>1. late' = late \ {c} /\ stored' = Executed(c.key, c.ex)
        /\ UNCHANGED <<now, clock, workerVars, verdict, accepts>>
    BY <1>4 DEF LandsLate
  <2>2. c.key \in Key /\ c.ex \in Nat
    BY <1>1 DEF RedisTypeOK
  <2>3. stored' \in [Key -> Nat]
    BY <1>1, <2>1, <2>2, ExecutedType
  <2>4. RedisTypeOK'
    BY <1>1, <2>1, <2>3 DEF RedisTypeOK, workerVars
  <2> QED BY <1>1, <2>1, <2>4 DEF RedisInv, RedisClocksOK, BackoffArmed, CallsOK,
          CallOK, WindowEnd, LateKnown, NoSelfReplay, workerVars
<1>5. ASSUME NEW w \in Worker, RedisUpdateTime(w)
      PROVE  RedisInv'
  <2>1. clock' = [clock EXCEPT ![w] = now]
        /\ UNCHANGED <<now, stored, late, workerVars, verdict, accepts>>
    BY <1>5 DEF RedisUpdateTime
  <2>2. RedisTypeOK' /\ RedisClocksOK'
    BY <1>1, <2>1 DEF RedisTypeOK, workerVars, RedisClocksOK
  <2> QED BY <1>1, <2>1, <2>2 DEF RedisInv, BackoffArmed, CallsOK, CallOK, WindowEnd,
          LateKnown, NoSelfReplay, workerVars
<1>6. ASSUME NEW w \in Worker, Restart(w)
      PROVE  RedisInv'
  <2>1. /\ clock' = [clock EXCEPT ![w] = now] /\ connected' = connected \ {w}
        /\ retry_after' = [retry_after EXCEPT ![w] = 0]
        /\ backoff' = [backoff EXCEPT ![w] = 0]
        /\ call' = [call EXCEPT ![w] = NoCall]
        /\ failedAt' = [failedAt EXCEPT ![w] = 0]
        /\ UNCHANGED <<now, stored, late, verdict, accepts>>
    BY <1>6 DEF Restart
  <2>2. call' \in [Worker -> Call] /\ CallsOK'
    BY <2>1, NoCallType, CallReplaced DEF CallOK
  <2>3. RedisTypeOK' /\ RedisClocksOK'
    BY <1>1, <2>1, <2>2 DEF RedisTypeOK, RedisClocksOK
  <2>4. BackoffArmed'
    BY <1>1, <2>1 DEF RedisTypeOK, BackoffArmed
  <2> QED BY <1>1, <2>1, <2>2, <2>3, <2>4 DEF RedisInv, LateKnown, NoSelfReplay
<1>7. ASSUME NEW w \in Worker, NEW s \in Sig, NEW l \in Location, CheckHeldOff(w, s, l)
      PROVE  RedisInv'
  <2>1. verdict' = [rc |-> "ABORT", own |-> FALSE]
        /\ UNCHANGED <<now, clock, stored, late, workerVars, accepts>>
    BY <1>7 DEF CheckHeldOff
  <2>2. RedisTypeOK' /\ NoSelfReplay'
    BY <1>1, <2>1 DEF RedisTypeOK, workerVars, NoSelfReplay
  <2> QED BY <1>1, <2>1, <2>2 DEF RedisInv, RedisClocksOK, BackoffArmed, CallsOK,
          CallOK, WindowEnd, LateKnown, workerVars
<1>8. ASSUME NEW w \in Worker, NEW s \in Sig, NEW l \in Location, CheckStarts(w, s, l)
      PROVE  RedisInv'
  <2> DEFINE c == [pc |-> IF w \in connected THEN "set" ELSE "connect",
                   sig |-> s, loc |-> l, ex |-> ExOf(s, l, clock[w]), wrote |-> FALSE]
  <2>1. call' = [call EXCEPT ![w] = c]
        /\ UNCHANGED <<now, clock, stored, late, connected, retry_after, backoff,
                       verdict, accepts, failedAt>>
    BY <1>8 DEF CheckStarts
  <2>2. clock[w] \in Nat /\ now \in Nat /\ clock[w] <= now
    BY <1>1 DEF RedisTypeOK, RedisClocksOK
  <2>3. /\ ExOf(s, l, clock[w]) \in Nat \ {0} /\ WindowEnd(s, l) \in Nat
        /\ now + ExOf(s, l, clock[w]) > WindowEnd(s, l)
    <3>1. /\ WindowEnd(s, l) \in Nat /\ StoreTtl(s, l, clock[w]) \in Nat \ {0}
          /\ clock[w] + StoreTtl(s, l, clock[w]) >= WindowEnd(s, l)
      BY <2>2, WindowType
    <3> QED BY <2>2, <3>1 DEF ExOf
  <2>4. c \in Call /\ CallOK(c, now)
    BY <2>3 DEF Call, Pc, CallOK
  <2> HIDE DEF c
  <2>5. call' \in [Worker -> Call] /\ CallsOK'
    BY <2>1, <2>4, CallReplaced
  <2>6. RedisTypeOK'
    BY <1>1, <2>1, <2>5 DEF RedisTypeOK
  <2> QED BY <1>1, <2>1, <2>5, <2>6
          DEF RedisInv, RedisClocksOK, BackoffArmed, LateKnown, NoSelfReplay
<1>9. ASSUME NEW w \in Worker, Connects(w)
      PROVE  RedisInv'
  <2> DEFINE c == [call[w] EXCEPT !.pc = IF @ = "connect" THEN "set" ELSE "retry"]
  <2>1. call' = [call EXCEPT ![w] = c] /\ connected' = connected \cup {w}
        /\ UNCHANGED <<now, clock, stored, late, retry_after, backoff, verdict,
                       accepts, failedAt>>
    BY <1>9 DEF Connects
  <2>2. call[w] \in Call /\ CallOK(call[w], now) /\ call[w].pc \in {"connect", "reconnect"}
    BY <1>1, <1>9 DEF RedisTypeOK, CallsOK, Connects
  <2>3. c \in Call /\ CallOK(c, now)
    BY <2>2 DEF Call, Pc, CallOK
  <2> HIDE DEF c
  <2>4. call' \in [Worker -> Call] /\ CallsOK'
    BY <2>1, <2>3, CallReplaced
  <2>5. RedisTypeOK'
    BY <1>1, <2>1, <2>4 DEF RedisTypeOK
  <2> QED BY <1>1, <2>1, <2>4, <2>5
          DEF RedisInv, RedisClocksOK, BackoffArmed, LateKnown, NoSelfReplay
<1>10. ASSUME NEW w \in Worker, ConnectFails(w)
       PROVE  RedisInv'
  <2>1. GivesUp(w) /\ UNCHANGED <<now, stored, late>>
    BY <1>10 DEF ConnectFails
  <2> QED BY <1>1, <2>1, GivesUpType DEF RedisInv, RedisTypeOK, LateKnown
<1>11. ASSUME NEW w \in Worker, SetAnswered(w)
       PROVE  RedisInv'
  <2> DEFINE c == call[w]
             k == NonceOf[c.sig]
             rc == IF Held(k) THEN NilMeans(c.pc) ELSE "OK"
  <2>1. /\ c.pc \in {"set", "retry"}
        /\ stored' = Executed(k, c.ex)
        /\ Returns(w, rc)
        /\ IF rc = "ABORT" THEN UNCHANGED <<retry_after, backoff>>
           ELSE /\ retry_after' = [retry_after EXCEPT ![w] = 0]
                /\ backoff' = [backoff EXCEPT ![w] = 0]
        /\ UNCHANGED <<now, clock, late, connected, failedAt>>
    BY <1>11 DEF SetAnswered
  <2>2. c \in Call /\ CallOK(c, now)
    BY <1>1 DEF RedisTypeOK, CallsOK
  <2>3. c.sig \in Sig /\ c.ex \in Nat /\ k \in Key
    BY <2>2, WindowAssumption DEF Call
  <2>4. rc \in {"OK", "DECLINED", "ABORT"}
    BY DEF NilMeans
  <2>5. rc = "DECLINED" => ~c.wrote
    BY <2>1, <2>2 DEF NilMeans, CallOK
  <2>6. stored' \in [Key -> Nat]
    BY <1>1, <2>1, <2>3, ExecutedType
  <2> HIDE DEF rc
  <2>7. /\ call' \in [Worker -> Call] /\ CallsOK'
        /\ verdict' = [rc |-> rc, own |-> call[w].wrote]
        /\ verdict' \in [rc : {"none", "OK", "DECLINED", "ABORT"}, own : BOOLEAN]
        /\ accepts' \in [Sig -> Nat]
    BY <2>1, <2>4, ReturnsType
  <2>8. NoSelfReplay'
    BY <2>5, <2>7 DEF NoSelfReplay
  <2>9. retry_after' \in [Worker -> Nat] /\ backoff' \in [Worker -> Nat] /\ BackoffArmed'
    BY <1>1, <2>1 DEF RedisTypeOK, BackoffArmed
  <2>10. RedisTypeOK'
    BY <1>1, <2>1, <2>6, <2>7, <2>9 DEF RedisTypeOK
  <2> QED BY <1>1, <2>1, <2>7, <2>8, <2>9, <2>10 DEF RedisInv, RedisClocksOK, LateKnown
<1>12. ASSUME NEW w \in Worker, SetBroken(w)
       PROVE  RedisInv'
  <2> DEFINE c == [call[w] EXCEPT !.pc = "reconnect", !.wrote = (stored' # stored)]
  <2>1. /\ Unanswered(w) /\ call[w].pc = "set" /\ connected' = connected \ {w}
        /\ call' = [call EXCEPT ![w] = c]
        /\ UNCHANGED <<now, clock, retry_after, backoff, verdict, accepts, failedAt>>
    <3>1. /\ Unanswered(w) /\ call[w].pc = "set" /\ connected' = connected \ {w}
          /\ call' = [call EXCEPT ![w].pc = "reconnect", ![w].wrote = stored' # stored]
          /\ UNCHANGED <<now, clock, retry_after, backoff, verdict, accepts, failedAt>>
      BY <1>12 DEF SetBroken
    <3>2. call \in [Worker -> Call]
      BY <1>1 DEF RedisTypeOK
    <3>3. [call EXCEPT ![w].pc = "reconnect", ![w].wrote = stored' # stored]
            = [call EXCEPT ![w] = c]
      BY <3>2 DEF Call
    <3> QED BY <3>1, <3>3
  <2>2. call[w] \in Call /\ CallOK(call[w], now)
    BY <1>1 DEF RedisTypeOK, CallsOK
  <2>3. c \in Call /\ CallOK(c, now)
    BY <2>1, <2>2 DEF Call, Pc, CallOK
  <2> HIDE DEF c
  <2>4. call' \in [Worker -> Call] /\ CallsOK'
    BY <2>1, <2>3, CallReplaced
  <2>5. stored' \in [Key -> Nat] /\ late' \subseteq [key : Key, ex : Nat] /\ LateKnown'
    BY <2>1, UnansweredType
  <2>6. RedisTypeOK'
    BY <1>1, <2>1, <2>4, <2>5 DEF RedisTypeOK
  <2> QED BY <1>1, <2>1, <2>4, <2>5, <2>6
          DEF RedisInv, RedisClocksOK, BackoffArmed, NoSelfReplay
<1>13. ASSUME NEW w \in Worker, SetFails(w)
       PROVE  RedisInv'
  <2>1. Unanswered(w) /\ GivesUp(w) /\ now' = now
    BY <1>13 DEF SetFails
  <2>2. stored' \in [Key -> Nat] /\ late' \subseteq [key : Key, ex : Nat] /\ LateKnown'
    BY <2>1, UnansweredType
  <2> QED BY <1>1, <2>1, <2>2, GivesUpType DEF RedisInv, RedisTypeOK
<1>14. ASSUME NEW w \in Worker, SetMisread(w)
       PROVE  RedisInv'
  <2>1. /\ Unanswered(w) /\ Returns(w, "ABORT") /\ connected' = connected \ {w}
        /\ UNCHANGED <<now, clock, retry_after, backoff, failedAt>>
    BY <1>14 DEF SetMisread
  <2>2. stored' \in [Key -> Nat] /\ late' \subseteq [key : Key, ex : Nat] /\ LateKnown'
    BY <2>1, UnansweredType
  <2>3. /\ call' \in [Worker -> Call] /\ CallsOK'
        /\ verdict' = [rc |-> "ABORT", own |-> call[w].wrote]
        /\ verdict' \in [rc : {"none", "OK", "DECLINED", "ABORT"}, own : BOOLEAN]
        /\ accepts' \in [Sig -> Nat]
    BY <2>1, ReturnsType
  <2>4. NoSelfReplay'
    BY <2>3 DEF NoSelfReplay
  <2>5. RedisTypeOK'
    BY <1>1, <2>1, <2>2, <2>3 DEF RedisTypeOK
  <2> QED BY <1>1, <2>1, <2>2, <2>3, <2>4, <2>5
          DEF RedisInv, RedisClocksOK, BackoffArmed
<1> QED BY <1>2, <1>3, <1>4, <1>5, <1>6, <1>7, <1>8, <1>9, <1>10, <1>11, <1>12,
           <1>13, <1>14 DEF RedisNext

\* Every variable of the Redis store keeps its type.
THEOREM RedisTypeCorrect == RedisSpec => []RedisTypeOK
<1>1. RedisInv => RedisTypeOK
  BY DEF RedisInv
<1> QED BY <1>1, RedisInvInit, RedisInvNext, PTL DEF RedisSpec

\* No check is declined for the key its own first SET entered, whatever is
\* lost between the SET, its reply and the retry.
THEOREM OwnWriteNoReplay == RedisSpec => []NoSelfReplay
<1>1. RedisInv => NoSelfReplay
  BY DEF RedisInv
<1> QED BY <1>1, RedisInvInit, RedisInvNext, PTL DEF RedisSpec

\* A check goes to the server only when a back-off that is in effect has
\* lasted its whole length since the failure, in real time.
THEOREM BackoffKept == RedisSpec => BackoffObserved
<1> DEFINE Kept == \A w \in Worker :
                       /\ call[w].pc = "idle" /\ call'[w].pc # "idle"
                       /\ backoff[w] # 0
                       => now - failedAt[w] >= backoff[w]
<1>1. RedisInv /\ [RedisNext]_redisVars => [Kept]_redisVars
  <2> SUFFICES ASSUME RedisInv, RedisNext, NEW w \in Worker, call[w].pc = "idle",
                      call'[w].pc # "idle", backoff[w] # 0
               PROVE  now - failedAt[w] >= backoff[w]
    OBVIOUS
  <2>1. /\ now \in Nat /\ clock[w] \in Nat /\ retry_after[w] \in Nat
        /\ failedAt[w] \in Nat /\ backoff[w] \in Nat /\ clock[w] <= now
        /\ retry_after[w] = failedAt[w] + backoff[w] /\ call \in [Worker -> Call]
    BY DEF RedisInv, RedisTypeOK, RedisClocksOK, BackoffArmed
  <2>2. ASSUME NEW s \in Sig, NEW l \in Location, CheckStarts(w, s, l)
        PROVE  now - failedAt[w] >= backoff[w]
    BY <2>1, <2>2 DEF CheckStarts, HeldOff
  \* No other step takes w from idle to a check under way.
  <2>3. \A v \in Worker : (\E rc : Returns(v, rc)) => call'[w].pc = "idle"
    BY <2>1, NoCallType DEF Returns
  <2>4. ASSUME NEW v \in Worker, NEW s \in Sig, NEW l \in Location,
               CheckHeldOff(v, s, l) \/ CheckStarts(v, s, l)
        PROVE  now - failedAt[w] >= backoff[w]
    BY <2>1, <2>2, <2>4 DEF CheckHeldOff, CheckStarts, workerVars
  <2>5. ASSUME NEW v \in Worker,
               Connects(v) \/ SetBroken(v)
        PROVE  FALSE
    BY <2>1, <2>5 DEF Connects, SetBroken
  <2>6. ASSUME NEW v \in Worker,
               ConnectFails(v) \/ SetAnswered(v) \/ SetFails(v) \/ SetMisread(v)
        PROVE  FALSE
    BY <2>3, <2>6 DEF ConnectFails, SetAnswered, SetFails, SetMisread, GivesUp
  <2>7. ASSUME NEW v \in Worker, Restart(v)
        PROVE  FALSE
    BY <2>1, <2>7, NoCallType DEF Restart
  <2>8. ASSUME RedisTick \/ (\E c \in late : LandsLate(c))
               \/ (\E v \in Worker : RedisUpdateTime(v))
        PROVE  FALSE
    BY <2>8 DEF RedisTick, LandsLate, RedisUpdateTime, workerVars
  <2> QED BY <2>4, <2>5, <2>6, <2>7, <2>8 DEF RedisNext
<1> QED BY <1>1, RedisInvInit, RedisInvNext, PTL DEF RedisSpec, BackoffObserved

-----------------------------------------------------------------------------
(* The server and its clients implement ReplayGuard. *)

\* No nonce that is held is touched, whatever the step; and a signature is
\* newly accepted only by a SET that entered its nonce past its window.
LEMMA PromiseKept ==
    ASSUME UniformSkew, PromiseInv, RedisInv', now' \in {now, now + 1},
           \A k \in Key : Held(k) => stored'[k] = stored[k],
           \A s \in Sig : accepts'[s] # 0 =>
              \/ accepts[s] # 0
              \/ \E l \in Location : stored'[NonceOf[s]] > WindowEnd(s, l)
    PROVE  AcceptedOnServer'
<1> SUFFICES ASSUME NEW s \in Sig, NEW l \in Location, accepts'[s] # 0,
                    now' <= WindowEnd(s, l)
             PROVE  stored'[NonceOf[s]] > WindowEnd(s, l)
  BY DEF AcceptedOnServer, WindowEnd
<1>1. NonceOf[s] \in Key /\ WindowEnd(s, l) \in Nat /\ now \in Nat /\ stored \in [Key -> Nat]
  BY WindowAssumption DEF PromiseInv, RedisInv, RedisTypeOK, WindowEnd
<1>2. CASE accepts[s] # 0
  <2>1. now <= WindowEnd(s, l)
    BY <1>1
  <2>2. stored[NonceOf[s]] > WindowEnd(s, l)
    BY <1>2, <2>1 DEF PromiseInv, AcceptedOnServer
  <2>3. Held(NonceOf[s])
    BY <1>1, <2>1, <2>2 DEF Held
  <2> QED BY <1>1, <2>2, <2>3
<1>3. CASE accepts[s] = 0
  <2>1. \A m \in Location : WindowEnd(s, m) = WindowEnd(s, l)
    BY DEF UniformSkew, WindowEnd
  <2> QED BY <1>3, <2>1
<1> QED BY <1>2, <1>3

\* What the server holds.
Entered == {k \in Key : Held(k)}

\* A SET enters its key, or finds it entered.
LEMMA ExecutedEnters ==
    ASSUME RedisTypeOK, now' = now, NEW k \in Key, NEW ex \in Nat,
           stored' = Executed(k, ex)
    PROVE  /\ Entered' \in {Entered, Entered \cup {k}}
           /\ ex # 0 => Entered' = Entered \cup {k}
           /\ Held(k) => Entered' = Entered
<1>1. \A x \in Key \ {k} : stored'[x] = stored[x]
  BY ExecutedType
<1>2. CASE Held(k)
  <2>1. stored' = stored
    BY <1>2 DEF Executed
  <2> QED BY <1>2, <2>1 DEF Entered, Held
<1>3. CASE ~Held(k)
  <2>1. stored'[k] = now + ex /\ now \in Nat
    BY <1>3, ExecutedType DEF RedisTypeOK
  <2>2. \A x \in Key : x \in Entered' <=> (IF x = k THEN ex # 0 ELSE x \in Entered)
    BY <1>1, <1>3, <2>1 DEF Entered, Held
  <2>3. Entered' \subseteq Key /\ Entered \subseteq Key /\ k \notin Entered
    BY <1>3 DEF Entered
  <2> QED BY <1>3, <2>2, <2>3
<1> QED BY <1>2, <1>3

\* The answer a check gets from the server.
LEMMA AnswerKeeps ==
    ASSUME RedisInv, NEW w \in Worker, SetAnswered(w)
    PROVE  LET c == call[w]
               k == NonceOf[c.sig]
           IN /\ c.sig \in Sig /\ c.loc \in Location /\ k \in Key /\ c.ex \in Nat \ {0}
              /\ now + c.ex > WindowEnd(c.sig, c.loc)
              /\ now' = now /\ stored' = Executed(k, c.ex)
              /\ Returns(w, IF Held(k) THEN NilMeans(c.pc) ELSE "OK")
<1>1. call[w] \in Call /\ CallOK(call[w], now)
  BY DEF RedisInv, RedisTypeOK, CallsOK
<1>2. call[w].sig \in Sig /\ NonceOf[call[w].sig] \in Key /\ call[w].ex \in Nat
      /\ call[w].loc \in Location
  BY <1>1, WindowAssumption DEF Call
<1> QED BY <1>1, <1>2 DEF CallOK, SetAnswered

\* Every step keeps PromiseInv.
LEMMA PromiseNext ==
    ASSUME UniformSkew, PromiseInv, [RedisNext]_redisVars
    PROVE  PromiseInv'
<1>1. RedisInv /\ RedisInv' /\ AcceptedOnServer /\ RedisTypeOK
  BY RedisInvNext DEF PromiseInv, RedisInv
<1> SUFFICES AcceptedOnServer'
  BY <1>1 DEF PromiseInv
<1>2. ASSUME now' \in {now, now + 1}, accepts' = accepts,
             \/ stored' = stored
             \/ \E k \in Key, ex \in Nat : stored' = Executed(k, ex)
      PROVE  AcceptedOnServer'
  <2>1. \A k \in Key : Held(k) => stored'[k] = stored[k]
    BY <1>1, <1>2, ExecutedType
  <2> QED BY <1>1, <1>2, <2>1, PromiseKept
<1>3. ASSUME NEW w \in Worker, SetAnswered(w)
      PROVE  AcceptedOnServer'
  <2> DEFINE c == call[w]
             k == NonceOf[c.sig]
  <2>1. /\ c.sig \in Sig /\ c.loc \in Location /\ k \in Key /\ c.ex \in Nat \ {0}
        /\ now + c.ex > WindowEnd(c.sig, c.loc)
        /\ now' = now /\ stored' = Executed(k, c.ex)
        /\ Returns(w, IF Held(k) THEN NilMeans(c.pc) ELSE "OK")
    BY <1>1, <1>3, AnswerKeeps
  <2> HIDE DEF c
  <2>2. \A x \in Key : Held(x) => stored'[x] = stored[x]
    BY <1>1, <2>1, ExecutedType
  <2>3. \A s \in Sig : accepts'[s] # 0 =>
            \/ accepts[s] # 0
            \/ \E l \in Location : stored'[NonceOf[s]] > WindowEnd(s, l)
    <3> SUFFICES ASSUME NEW s \in Sig, accepts'[s] # 0, accepts[s] = 0
                 PROVE  \E l \in Location : stored'[NonceOf[s]] > WindowEnd(s, l)
      OBVIOUS
    <3>1. s = c.sig /\ ~Held(k)
      BY <1>1, <2>1 DEF Returns, NilMeans, RedisTypeOK, c
    <3>2. stored'[k] = now + c.ex
      BY <1>1, <2>1, <3>1, ExecutedType
    <3> QED BY <2>1, <3>1, <3>2
  <2> QED BY <1>1, <2>1, <2>2, <2>3, PromiseKept
<1>4. CASE UNCHANGED redisVars
  BY <1>2, <1>4 DEF redisVars
<1>5. CASE RedisTick
  BY <1>2, <1>5 DEF RedisTick
<1>6. ASSUME NEW c \in late, LandsLate(c)
      PROVE  AcceptedOnServer'
  <2>1. c.key \in Key /\ c.ex \in Nat
    BY <1>1 DEF RedisTypeOK
  <2> QED BY <1>2, <1>6, <2>1 DEF LandsLate
<1>7. ASSUME NEW w \in Worker, RedisUpdateTime(w) \/ Restart(w) \/ Connects(w)
      PROVE  AcceptedOnServer'
  BY <1>2, <1>7 DEF RedisUpdateTime, Restart, Connects
<1>8. ASSUME NEW w \in Worker, NEW s \in Sig, NEW l \in Location,
             CheckHeldOff(w, s, l) \/ CheckStarts(w, s, l)
      PROVE  AcceptedOnServer'
  BY <1>2, <1>8 DEF CheckHeldOff, CheckStarts
<1>9. ASSUME NEW w \in Worker, ConnectFails(w)
      PROVE  AcceptedOnServer'
  BY <1>2, <1>9 DEF ConnectFails, GivesUp, Returns
<1>10. ASSUME NEW w \in Worker, SetBroken(w) \/ SetFails(w) \/ SetMisread(w)
       PROVE  AcceptedOnServer'
  <2>1. Unanswered(w) /\ now' = now /\ accepts' = accepts
    BY <1>10 DEF SetBroken, SetFails, SetMisread, GivesUp, Returns
  <2>2. NonceOf[call[w].sig] \in Key /\ call[w].ex \in Nat
    BY <1>1, WindowAssumption DEF RedisTypeOK, Call
  <2>3. stored' \in {stored, Executed(NonceOf[call[w].sig], call[w].ex)}
    BY <1>1, <2>1, UnansweredType
  <2> QED BY <1>2, <2>1, <2>2, <2>3
<1> QED BY <1>3, <1>4, <1>5, <1>6, <1>7, <1>8, <1>9, <1>10 DEF RedisNext

\* A nonce that the server does not hold is one that no accepted signature
\* still needs.
LEMMA UnheldNonce ==
    ASSUME PromiseInv, NEW k \in Key, NEW t \in Nat, t >= now, stored[k] <= t
    PROVE  k \in Guard!Free(OpenAt(t))
<1> SUFFICES ASSUME NEW s \in Sig, accepts[s] # 0, s \in OpenAt(t), NonceOf[s] = k
             PROVE  FALSE
  BY DEF Guard!Free
<1>1. PICK l \in Location : t <= WindowEnd(s, l)
  BY DEF OpenAt
<1>2. stored[k] \in Nat /\ now \in Nat /\ WindowEnd(s, l) \in Nat
  BY WindowAssumption DEF PromiseInv, RedisInv, RedisTypeOK, WindowEnd
<1>3. now <= WindowEnd(s, l)
  BY <1>1, <1>2
<1>4. stored[k] > WindowEnd(s, l)
  BY <1>3 DEF PromiseInv, AcceptedOnServer
<1> QED BY <1>1, <1>2, <1>4

\* Every step is one the contract allows, or changes nothing it speaks of.
LEMMA GuardStep ==
    ASSUME UniformSkew, PromiseInv, [RedisNext]_redisVars
    PROVE  Guard!GuardNext \/ UNCHANGED Guard!guardVars
<1> USE DEF Entered
<1>1. RedisInv /\ AcceptedOnServer /\ RedisTypeOK /\ now \in Nat /\ stored \in [Key -> Nat]
  BY DEF PromiseInv, RedisInv, RedisTypeOK
<1>2. now' = now => OpenAt(now)' = OpenAt(now)
  BY DEF OpenAt, WindowEnd
\* Steps that concern the workers only.
<1>3. ASSUME UNCHANGED <<now, stored, verdict, accepts>>
      PROVE  UNCHANGED Guard!guardVars
  BY <1>2, <1>3 DEF Guard!guardVars, Held
\* A nonce is entered by a check that has not answered, or was given up.
<1>4. ASSUME NEW s \in Sig, NEW ex \in Nat, stored' = Executed(NonceOf[s], ex),
             UNCHANGED <<now, verdict, accepts>>
      PROVE  Guard!GuardNext \/ UNCHANGED Guard!guardVars
  <2>1. Entered' \in {Entered, Entered \cup {NonceOf[s]}}
    BY <1>1, <1>4, WindowAssumption, ExecutedEnters
  <2>2. CASE Entered' = Entered
    BY <1>2, <1>4, <2>2 DEF Guard!guardVars
  <2>3. CASE Entered' = Entered \cup {NonceOf[s]}
    BY <1>2, <1>4, <2>3 DEF Guard!GuardNext, Guard!Enter
  <2> QED BY <2>1, <2>2, <2>3
\* A check that gives up, having entered its nonce or not.
<1>5. ASSUME NEW s \in Sig, verdict'.rc = "ABORT", UNCHANGED <<now, accepts>>,
             Entered' \in {Entered, Entered \cup {NonceOf[s]}}
      PROVE  Guard!GuardNext
  BY <1>2, <1>5 DEF Guard!GuardNext, Guard!GiveUp, Guard!Makes
<1>6. CASE UNCHANGED redisVars
  BY <1>3, <1>6 DEF redisVars
<1>7. CASE RedisTick
  <2>1. now' = now + 1 /\ UNCHANGED <<stored, verdict, accepts>>
    BY <1>7 DEF RedisTick
  <2>2. OpenAt(now)' = OpenAt(now + 1)
    BY <2>1 DEF OpenAt, WindowEnd
  <2>3. OpenAt(now)' \subseteq OpenAt(now)
    <3> SUFFICES ASSUME NEW s \in Sig, NEW l \in Location, now + 1 <= WindowEnd(s, l)
                 PROVE  now <= WindowEnd(s, l)
      BY <2>2 DEF OpenAt
    <3>1. WindowEnd(s, l) \in Nat
      BY WindowAssumption DEF WindowEnd
    <3> QED BY <1>1, <3>1
  <2>4. Entered' \subseteq Entered
    BY <1>1, <2>1 DEF Held
  <2>5. Entered \ Entered' \subseteq Guard!Free(OpenAt(now + 1))
    <3> SUFFICES ASSUME NEW k \in Key, ~(stored[k] > now + 1)
                 PROVE  k \in Guard!Free(OpenAt(now + 1))
      BY <2>1 DEF Held
    <3>1. stored[k] <= now + 1 /\ now + 1 \in Nat /\ now + 1 >= now
      BY <1>1
    <3> QED BY <3>1, UnheldNonce
  <2> QED BY <2>1, <2>2, <2>3, <2>4, <2>5 DEF Guard!GuardNext, Guard!Pass
<1>8. ASSUME NEW c \in late, LandsLate(c)
      PROVE  Guard!GuardNext \/ UNCHANGED Guard!guardVars
  <2>1. PICK s \in Sig : c.key = NonceOf[s]
    BY <1>1 DEF RedisInv, LateKnown
  <2>2. c.ex \in Nat
    BY <1>1 DEF RedisTypeOK
  <2> QED BY <1>4, <1>8, <2>1, <2>2 DEF LandsLate
<1>9. ASSUME NEW w \in Worker, RedisUpdateTime(w) \/ Restart(w) \/ Connects(w)
      PROVE  UNCHANGED Guard!guardVars
  BY <1>3, <1>9 DEF RedisUpdateTime, Restart, Connects
<1>10. ASSUME NEW w \in Worker, NEW s \in Sig, NEW l \in Location, CheckStarts(w, s, l)
       PROVE  UNCHANGED Guard!guardVars
  BY <1>3, <1>10 DEF CheckStarts
<1>11. ASSUME NEW w \in Worker, NEW s \in Sig, NEW l \in Location, CheckHeldOff(w, s, l)
       PROVE  Guard!GuardNext
  <2>1. verdict'.rc = "ABORT" /\ UNCHANGED <<now, stored, accepts>>
    BY <1>11 DEF CheckHeldOff
  <2> QED BY <1>5, <2>1 DEF Held
<1>12. ASSUME NEW w \in Worker, ConnectFails(w)
       PROVE  Guard!GuardNext
  <2>1. verdict'.rc = "ABORT" /\ UNCHANGED <<now, stored, accepts>>
    BY <1>12 DEF ConnectFails, GivesUp, Returns
  <2>2. call[w].sig \in Sig
    BY <1>1 DEF RedisTypeOK, Call
  <2> QED BY <1>5, <2>1, <2>2 DEF Held
<1>13. ASSUME NEW w \in Worker, SetBroken(w)
       PROVE  Guard!GuardNext \/ UNCHANGED Guard!guardVars
  <2>1. call[w].sig \in Sig /\ call[w].ex \in Nat
    BY <1>1 DEF RedisTypeOK, Call
  <2>2. stored' \in {stored, Executed(NonceOf[call[w].sig], call[w].ex)}
        /\ UNCHANGED <<now, verdict, accepts>>
    BY <1>13 DEF SetBroken, Unanswered
  <2> QED BY <1>3, <1>4, <2>1, <2>2
<1>14. ASSUME NEW w \in Worker, SetFails(w) \/ SetMisread(w)
       PROVE  Guard!GuardNext
  <2>1. call[w].sig \in Sig /\ call[w].ex \in Nat /\ NonceOf[call[w].sig] \in Key
    BY <1>1, WindowAssumption DEF RedisTypeOK, Call
  <2>2. stored' \in {stored, Executed(NonceOf[call[w].sig], call[w].ex)}
        /\ verdict'.rc = "ABORT" /\ UNCHANGED <<now, accepts>>
    BY <1>14 DEF SetFails, SetMisread, Unanswered, GivesUp, Returns
  <2>3. Entered' \in {Entered, Entered \cup {NonceOf[call[w].sig]}}
    <3>1. CASE stored' = stored
      BY <2>2, <3>1 DEF Held
    <3>2. CASE stored' = Executed(NonceOf[call[w].sig], call[w].ex)
      BY <1>1, <2>1, <2>2, <3>2, ExecutedEnters
    <3> QED BY <2>2, <3>1, <3>2
  <2> QED BY <1>5, <2>1, <2>2, <2>3
<1>15. ASSUME NEW w \in Worker, SetAnswered(w)
       PROVE  Guard!GuardNext
  <2> DEFINE c == call[w]
             k == NonceOf[c.sig]
             rc == IF Held(k) THEN NilMeans(c.pc) ELSE "OK"
  <2>1. /\ c.sig \in Sig /\ c.loc \in Location /\ k \in Key /\ c.ex \in Nat \ {0}
        /\ now' = now /\ stored' = Executed(k, c.ex) /\ Returns(w, rc)
    BY <1>1, <1>15, AnswerKeeps
  <2>2. verdict'.rc = rc
        /\ accepts' = IF rc = "OK" /\ now <= WindowEnd(c.sig, c.loc)
                      THEN [accepts EXCEPT ![c.sig] = @ + 1] ELSE accepts
    BY <2>1 DEF Returns
  <2>3. Entered' = Entered \cup {k} /\ (Held(k) => Entered' = Entered)
    BY <1>1, <2>1, ExecutedEnters
  <2> HIDE DEF c
  <2>4. CASE Held(k)
    <3>1. accepts' = accepts /\ rc \in {"DECLINED", "ABORT"} /\ k \in Entered
      BY <2>1, <2>2, <2>4 DEF NilMeans
    <3>2. CASE rc = "DECLINED"
      BY <1>2, <2>1, <2>2, <2>3, <2>4, <3>1, <3>2 DEF Guard!GuardNext, Guard!Decline
    <3>3. CASE rc = "ABORT"
      BY <1>5, <2>1, <2>2, <2>3, <2>4, <3>1, <3>3
    <3> QED BY <3>1, <3>2, <3>3
  <2>5. CASE ~Held(k)
    <3>1. rc = "OK" /\ stored[k] <= now
      BY <1>1, <2>1, <2>5 DEF Held
    <3>2. k \in Guard!Free(OpenAt(now))
      BY <1>1, <2>1, <3>1, UnheldNonce
    <3>3. {s \in Sig : accepts'[s] # 0}
            = {s \in Sig : accepts[s] # 0} \cup ({c.sig} \cap OpenAt(now))
      <4>1. c.sig \in OpenAt(now) <=> now <= WindowEnd(c.sig, c.loc)
        BY <2>1, OneWindow
      <4>2. accepts \in [Sig -> Nat]
        BY <1>1 DEF RedisTypeOK
      <4>3. CASE now <= WindowEnd(c.sig, c.loc)
        BY <2>1, <2>2, <3>1, <4>1, <4>2, <4>3
      <4>4. CASE ~(now <= WindowEnd(c.sig, c.loc))
        BY <2>2, <4>1, <4>4
      <4> QED BY <4>3, <4>4
    <3>4. PICK s \in Sig : s = c.sig
      BY <2>1
    <3>5. Guard!Accept(s)
      BY <1>2, <2>1, <2>2, <2>3, <3>1, <3>2, <3>3, <3>4 DEF Guard!Accept, Guard!Makes
    <3> QED BY <3>5 DEF Guard!GuardNext
  <2> QED BY <2>4, <2>5
<1> QED BY <1>6, <1>7, <1>8, <1>9, <1>10, <1>11, <1>12, <1>13, <1>14, <1>15
        DEF RedisNext

\* With one max_skew for every location, every behaviour of the server and its
\* clients is one that the contract of a nonce store allows, although SETs are
\* lost, repeated and executed late and clocks lag.
THEOREM ServerImplementsGuard ==
    ASSUME UniformSkew PROVE RedisSpec => ServerKeepsPromise
<1>1. RedisInit => Guard!GuardInit
  BY DEF RedisInit, Guard!GuardInit, OpenAt, Held
<1>2. RedisInit => PromiseInv
  BY RedisInvInit DEF RedisInit, PromiseInv, AcceptedOnServer
<1>3. PromiseInv /\ [RedisNext]_redisVars => [Guard!GuardNext]_Guard!guardVars
  BY GuardStep
<1> QED BY <1>1, <1>2, <1>3, PromiseNext, PTL
        DEF RedisSpec, ServerKeepsPromise, Guard!GuardSpec
=============================================================================
