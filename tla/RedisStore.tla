----------------------------- MODULE RedisStore -----------------------------
(***************************************************************************)
(* The Redis nonce store: ngx_auth_httpsig_nonce_store_redis_check() with  *)
(* the connection, the retry and the back-off each worker keeps for it.    *)
(*                                                                         *)
(* The call blocks its worker, so a worker runs one check at a time, but   *)
(* other workers, the server and the time go on between its round trips:   *)
(* every connect and every SET is a step of its own.  The server is        *)
(* external: it executes "SET key 1 NX EX n", expires the key after n      *)
(* seconds of real time and loses nothing before.  What may go wrong on    *)
(* the way is a choice: the connection is refused, a command is lost, its  *)
(* reply is lost, or it is executed long after the worker gave up on it.   *)
(***************************************************************************)
EXTENDS NonceWindow, FiniteSets

CONSTANTS
    Worker,
    BackoffMax,  \* backoff_max of auth_httpsig_nonce_store_redis
    MaxLate,     \* bound on the SETs that are on their way at one time
    MaxTime      \* bound on real time

ASSUME RedisAssumption ==
    /\ BackoffMax \in Nat /\ MaxLate \in Nat /\ MaxTime \in Nat
    /\ Sig # {} /\ Location # {}

VARIABLES
    now,          \* real time, which the server goes by
    clock,        \* clock[w]: worker w's ngx_time(), which lags real time
    stored,       \* the server: when each key expires, 0 for one never set
    late,         \* SETs given up by their worker, yet to be executed
    connected,    \* workers whose connection is open
    retry_after,  \* per worker: no attempt before this time, 0 if none
    backoff,      \* per worker: the back-off in effect, in seconds
    call,         \* call[w]: the check worker w is in
    verdict,      \* history: the last check's result, and whether that check
                  \* had itself entered the key before
    accepts,      \* history: OK verdicts per signature inside its real window
    failedAt      \* history: when a worker last armed its back-off, 0 if never

workerVars == <<connected, retry_after, backoff, call, failedAt>>
redisVars  == <<now, clock, stored, late, connected, retry_after, backoff,
                call, verdict, accepts, failedAt>>

\* "connect" and "set" are the first attempt, the others the one retry.
Pc == {"idle", "connect", "set", "reconnect", "retry"}

Call == [pc : Pc, sig : Sig, loc : Location, ex : Nat, wrote : BOOLEAN]

NoCall == [pc |-> "idle", sig |-> CHOOSE s \in Sig : TRUE,
           loc |-> CHOOSE l \in Location : TRUE, ex |-> 0, wrote |-> FALSE]

RedisTypeOK ==
    /\ now \in Nat
    /\ clock \in [Worker -> Nat]
    /\ stored \in [Key -> Nat]
    /\ late \subseteq [key : Key, ex : Nat]
    /\ connected \subseteq Worker
    /\ retry_after \in [Worker -> Nat]
    /\ backoff \in [Worker -> Nat]
    /\ call \in [Worker -> Call]
    /\ verdict \in [rc : {"none", "OK", "DECLINED", "ABORT"}, own : BOOLEAN]
    /\ accepts \in [Sig -> Nat]
    /\ failedAt \in [Worker -> Nat]

RedisInit ==
    /\ now = 1
    /\ clock = [w \in Worker |-> 1]
    /\ stored = [k \in Key |-> 0]
    /\ late = {}
    /\ connected = {}
    /\ retry_after = [w \in Worker |-> 0]
    /\ backoff = [w \in Worker |-> 0]
    /\ call = [w \in Worker |-> NoCall]
    /\ verdict = [rc |-> "none", own |-> FALSE]
    /\ accepts = [s \in Sig |-> 0]
    /\ failedAt = [w \in Worker |-> 0]

-----------------------------------------------------------------------------
(* The server. *)

Held(k) == stored[k] > now

\* SET k 1 NX EX ex, executed now.
Executed(k, ex) ==
    IF Held(k) THEN stored ELSE [stored EXCEPT ![k] = now + ex]

\* A command the worker gave up on reaches the server after all.
LandsLate(c) ==
    /\ c \in late
    /\ late' = late \ {c}
    /\ stored' = Executed(c.key, c.ex)
    /\ UNCHANGED <<now, clock, workerVars, verdict, accepts>>

-----------------------------------------------------------------------------
(* How a check ends. *)

CappedMax == IF BackoffMax < 1 THEN 1 ELSE BackoffMax

\* redis_next_backoff()
NextBackoff(current) ==
    IF current < 1 THEN 1
    ELSE IF current * 2 > CappedMax THEN CappedMax ELSE current * 2

\* The check of worker w returns rc.
Returns(w, rc) ==
    LET c == call[w] IN
    /\ call' = [call EXCEPT ![w] = NoCall]
    /\ verdict' = [rc |-> rc, own |-> c.wrote]
    /\ accepts' = IF rc = "OK" /\ now <= WindowEnd(c.sig, c.loc)
                  THEN [accepts EXCEPT ![c.sig] = @ + 1] ELSE accepts

\* Faulty variant of GivesUp: the back-off starts from the time the worker
\* had cached before it was blocked.
GivesUpStale(w) ==
    /\ Returns(w, "ABORT")
    /\ connected' = connected \ {w}
    /\ backoff' = [backoff EXCEPT ![w] = NextBackoff(@)]
    /\ retry_after' = [retry_after EXCEPT ![w] = clock[w] + backoff'[w]]
    /\ failedAt' = [failedAt EXCEPT ![w] = now]
    /\ UNCHANGED clock

\* redis_close(), redis_arm_backoff() with its ngx_time_update(), NGX_ABORT.
GivesUp(w) ==
    /\ Returns(w, "ABORT")
    /\ connected' = connected \ {w}
    /\ clock' = [clock EXCEPT ![w] = now]
    /\ backoff' = [backoff EXCEPT ![w] = NextBackoff(@)]
    /\ retry_after' = [retry_after EXCEPT ![w] = now + backoff'[w]]
    /\ failedAt' = [failedAt EXCEPT ![w] = now]

-----------------------------------------------------------------------------
(* redis_check(), one round trip at a time. *)

\* Faulty variant of ExOf: no second for the inclusive end of the window.
ExOfExclusive(s, l, t) == StoreTtl(s, l, t)

ExOf(s, l, t) == StoreTtl(s, l, t) + 1

HeldOff(w) == retry_after[w] # 0 /\ clock[w] < retry_after[w]

\* A check that arrives while the worker backs off.
CheckHeldOff(w, s, l) ==
    /\ call[w].pc = "idle"
    /\ InWindow(s, l, clock[w])
    /\ HeldOff(w)
    /\ verdict' = [rc |-> "ABORT", own |-> FALSE]
    /\ UNCHANGED <<now, clock, stored, late, workerVars, accepts>>

\* A check that goes to the server, over the open connection or a new one.
CheckStarts(w, s, l) ==
    /\ call[w].pc = "idle"
    /\ InWindow(s, l, clock[w])
    /\ ~HeldOff(w)
    /\ call' = [call EXCEPT ![w] =
                   [pc |-> IF w \in connected THEN "set" ELSE "connect",
                    sig |-> s, loc |-> l, ex |-> ExOf(s, l, clock[w]),
                    wrote |-> FALSE]]
    /\ UNCHANGED <<now, clock, stored, late, connected, retry_after, backoff,
                   verdict, accepts, failedAt>>

\* redis_connect(): connect, set the timeout, SELECT.
Connects(w) ==
    /\ call[w].pc \in {"connect", "reconnect"}
    /\ connected' = connected \cup {w}
    /\ call' = [call EXCEPT ![w].pc = IF @ = "connect" THEN "set" ELSE "retry"]
    /\ UNCHANGED <<now, clock, stored, late, retry_after, backoff, verdict,
                   accepts, failedAt>>

ConnectFails(w) ==
    /\ call[w].pc \in {"connect", "reconnect"}
    /\ GivesUp(w)
    /\ UNCHANGED <<now, stored, late>>

\* Faulty variant of NilMeans: the retry is forgotten.
NilMeansReplay(pc) == "DECLINED"

\* Faulty variant of NilMeans: NIL is reported as a caller bug.
NilMeansError(pc) == "ERROR"

\* After a retry NIL may be this very check's own write.
NilMeans(pc) == IF pc = "retry" THEN "ABORT" ELSE "DECLINED"

\* The SET is executed and answered, OK or NIL.
SetAnswered(w) ==
    LET c  == call[w]
        k  == NonceOf[c.sig]
        rc == IF Held(k) THEN NilMeans(c.pc) ELSE "OK"
    IN /\ c.pc \in {"set", "retry"}
       /\ stored' = Executed(k, c.ex)
       /\ Returns(w, rc)
       /\ IF rc = "ABORT" THEN UNCHANGED <<retry_after, backoff>>
          ELSE /\ retry_after' = [retry_after EXCEPT ![w] = 0]
               /\ backoff' = [backoff EXCEPT ![w] = 0]
       /\ UNCHANGED <<now, clock, late, connected, failedAt>>

\* What became of a SET that was not answered: never executed, executed with
\* only the reply lost, or still on its way.
Unanswered(w) ==
    LET k == NonceOf[call[w].sig] IN
    \/ UNCHANGED <<stored, late>>
    \/ stored' = Executed(k, call[w].ex) /\ UNCHANGED late
    \/ /\ Cardinality(late) < MaxLate
       /\ late' = late \cup {[key |-> k, ex |-> call[w].ex]}
       /\ UNCHANGED stored

\* REDIS_ERR_IO or REDIS_ERR_EOF on the first SET: close, reconnect, retry.
SetBroken(w) ==
    /\ call[w].pc = "set"
    /\ Unanswered(w)
    /\ connected' = connected \ {w}
    /\ call' = [call EXCEPT ![w].pc = "reconnect",
                            ![w].wrote = stored' # stored]
    /\ UNCHANGED <<now, clock, retry_after, backoff, verdict, accepts, failedAt>>

\* A timeout, any failure of the retry, or an error reply (which says that
\* the SET was not executed; Unanswered allows that).
SetFails(w) ==
    /\ call[w].pc \in {"set", "retry"}
    /\ Unanswered(w)
    /\ GivesUp(w)
    /\ UNCHANGED now

\* A reply of another shape: the stream is out of step, so close, without
\* backing off.
SetMisread(w) ==
    /\ call[w].pc \in {"set", "retry"}
    /\ Unanswered(w)
    /\ connected' = connected \ {w}
    /\ Returns(w, "ABORT")
    /\ UNCHANGED <<now, clock, retry_after, backoff, failedAt>>

-----------------------------------------------------------------------------
RedisTick ==
    /\ now < MaxTime
    /\ now' = now + 1
    /\ UNCHANGED <<clock, stored, late, workerVars, verdict, accepts>>

\* The event loop refreshes the cached clock, when no check blocks it.
RedisUpdateTime(w) ==
    /\ call[w].pc = "idle"
    /\ clock' = [clock EXCEPT ![w] = now]
    /\ UNCHANGED <<now, stored, late, workerVars, verdict, accepts>>

\* A worker exits or dies and a new one takes its place.
Restart(w) ==
    /\ clock' = [clock EXCEPT ![w] = now]
    /\ connected' = connected \ {w}
    /\ retry_after' = [retry_after EXCEPT ![w] = 0]
    /\ backoff' = [backoff EXCEPT ![w] = 0]
    /\ call' = [call EXCEPT ![w] = NoCall]
    /\ failedAt' = [failedAt EXCEPT ![w] = 0]
    /\ UNCHANGED <<now, stored, late, verdict, accepts>>

RedisNext ==
    \/ RedisTick
    \/ \E c \in late : LandsLate(c)
    \/ \E w \in Worker :
          \/ RedisUpdateTime(w) \/ Restart(w)
          \/ \E s \in Sig, l \in Location :
                CheckHeldOff(w, s, l) \/ CheckStarts(w, s, l)
          \/ Connects(w) \/ ConnectFails(w)
          \/ SetAnswered(w) \/ SetBroken(w) \/ SetFails(w) \/ SetMisread(w)

RedisSpec == RedisInit /\ [][RedisNext]_redisVars

-----------------------------------------------------------------------------
(* Properties. *)

\* A check is never told "replayed" because of its own SET, whose reply was
\* lost before the retry.
NoSelfReplay == verdict.rc = "DECLINED" => ~verdict.own

\* A worker that failed leaves the server alone for the whole back-off, in
\* real time, however long the failing call had blocked it.
BackoffObserved ==
    [][\A w \in Worker :
          /\ call[w].pc = "idle" /\ call'[w].pc # "idle"
          /\ backoff[w] # 0
          => now - failedAt[w] >= backoff[w]]_redisVars

Guard == INSTANCE ReplayGuard WITH
    open    <- OpenAt(now),
    used    <- {s \in Sig : accepts[s] # 0},
    entered <- {k \in Key : Held(k)},
    answer  <- verdict.rc

\* The server and its clients keep the promise of a nonce store although SETs
\* are lost, repeated and executed late and the workers' clocks disagree with
\* the server's: a nonce is kept past the inclusive end of the window of the
\* location that entered it.  It needs UniformSkew.
ServerKeepsPromise == Guard!GuardSpec
=============================================================================
