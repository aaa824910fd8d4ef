------------------------------- MODULE Access -------------------------------
(***************************************************************************)
(* One request through ngx_http_auth_httpsig_module.c: the PREACCESS       *)
(* handler, evaluate() with its nonce check, the ACCESS handler, and the   *)
(* internal redirects that clear r->ctx and run the phases again, on top   *)
(* of the shared nonce store.                                              *)
(*                                                                         *)
(* Here the key directory is abstracted to what it leaves in the request   *)
(* (KeyDirectory has its inside); Profile has the verdict on a message and *)
(* Keys the keys it is checked with.                                       *)
(***************************************************************************)
EXTENDS NonceStore, Profile

CONSTANTS
    Request,     \* request slots; a slot is reused once its request ended
    WorkerOf,    \* the worker that serves a slot
    Msg,         \* Msg[s]: the message s
    NonceLen,    \* NonceLen[s]: its nonce is absent, within 256 bytes or longer
    Published,   \* Published[d]: the document d of a key directory
    StaticKeys,  \* the key set of auth_httpsig_jwks, <<>> without one
    Conf,        \* Conf[l]: the merged configuration of location l
    EarlyReads,  \* does the configuration read $httpsig_* before ACCESS?
    MaxShown     \* MaxShown[k]: bound on the requests that present key k

Status == {"400", "401", "403", "429", "503"}

LocConf == [mode : {"off", "observe", "enforce"}, require : BOOLEAN,
            directory : BOOLEAN, nonce_store : BOOLEAN,
            nonce_required : BOOLEAN, closed : BOOLEAN, satisfy_any : BOOLEAN,
            keyid_fallback_allow : BOOLEAN,
            status : [{"missing", "invalid", "parse_error", "replay"} -> Status]]

\* merge_loc_conf() refuses require with mode off.
ASSUME AccessAssumption ==
    /\ WorkerOf \in [Request -> Worker]
    /\ DOMAIN Msg = Sig
    /\ \A s \in Sig : Msg[s] \in Message
    /\ NonceLen \in [Sig -> {"none", "fits", "long"}]
    /\ \A d \in DOMAIN Published : Published[d] \in Jwks
    /\ "none" \notin DOMAIN Published
    /\ StaticKeys \in Handle
    /\ Conf \in [Location -> LocConf]
    /\ \A l \in Location : Conf[l].require => Conf[l].mode # "off"
    /\ EarlyReads \in BOOLEAN
    /\ MaxShown \in [Key -> Nat]
    /\ Sig # {} /\ Location # {}

VARIABLES
    req,   \* req[r]: the request in slot r
    shown  \* history: requests that presented each store key

accessVars == <<now, clock, record, verdict, accepts, req, shown>>

Result == {"NOT_SIGNED", "OK", "PARSE_ERROR", "PROFILE_MISMATCH", "EXPIRED",
           "UNKNOWN_KEYID", "KEYID_NOT_THUMBPRINT", "SIGNATURE_MISMATCH",
           "KEY_UNAVAILABLE",
           "NONCE_REPLAYED", "NONCE_TOO_LONG", "NONCE_MISSING",
           "NONCE_STORE_UNAVAILABLE"}

\* The key sets of the documents, and the documents that pass
\* directory_done()'s check before they are kept.
KeysOf == [d \in DOMAIN Published |-> LoadJwks(Published[d])]
Document == {d \in DOMAIN Published : KeysOf[d] # <<>>}

\* The fetch reasons the evaluation tells apart: all of the directory phase's
\* failures are one.
FetchReason == {"OK", "FAILED", "INVALID"}

\* The fields of ctx that evaluate() and the handlers read.  starved is a
\* history: keys_chain() had no memory.
Ctx == [done : BOOLEAN, jwks : Document \cup {"none"},
        keys_unavailable : BOOLEAN, directory_reason : FetchReason,
        internal_error : BOOLEAN, nonce_store_unavailable : BOOLEAN,
        result : Result, starved : BOOLEAN]

\* r->ctx == NULL, or zeroed by an internal redirect.
NoCtx == [done |-> FALSE, jwks |-> "none", keys_unavailable |-> FALSE,
          directory_reason |-> "OK", internal_error |-> FALSE,
          nonce_store_unavailable |-> FALSE, result |-> "NOT_SIGNED",
          starved |-> FALSE]

\* The nonce verdict on r->pool; known is FALSE when there is none.  at is a
\* history: the location that asked for it.
Memo == [known : BOOLEAN, result : Result, unavailable : BOOLEAN,
         internal_error : BOOLEAN, at : Location]

NoMemo == [known |-> FALSE, result |-> "OK", unavailable |-> FALSE,
           internal_error |-> FALSE, at |-> CHOOSE l \in Location : TRUE]

\* What the ACCESS handler returned; "internal" is its fixed 500.
Decision == {"none", "OK", "DECLINED", "internal"} \cup Status

Pc == {"idle", "preaccess", "fetching", "access", "decided"}

Req == [pc : Pc, sig : Sig, loc : Location, ctx : Ctx, memo : Memo,
        decision : Decision]

IdleReq ==
    [pc |-> "idle", sig |-> CHOOSE s \in Sig : TRUE,
     loc |-> CHOOSE l \in Location : TRUE, ctx |-> NoCtx, memo |-> NoMemo,
     decision |-> "none"]

AccessTypeOK ==
    /\ NonceTypeOK
    /\ req \in [Request -> Req]
    /\ shown \in [Key -> Nat]

AccessInit ==
    /\ NonceInit
    /\ req = [r \in Request |-> IdleReq]
    /\ shown = [k \in Key |-> 0]

-----------------------------------------------------------------------------
(* The request and its directory phase. *)

Arrive(r, s, l) ==
    /\ req[r].pc = "idle"
    /\ shown[NonceOf[s]] < MaxShown[NonceOf[s]]
    /\ req' = [req EXCEPT ![r] = [IdleReq EXCEPT !.pc = "preaccess",
                                                 !.sig = s, !.loc = l]]
    /\ shown' = [shown EXCEPT ![NonceOf[s]] = @ + 1]
    /\ UNCHANGED nonceVars

DirectoryOn(l) == Conf[l].mode # "off" /\ Conf[l].directory

\* directory_handler() goes on to the host: both fields are there, a label
\* is worth a fetch, and nobody evaluated the request before.
Eligible(r) ==
    /\ DirectoryOn(req[r].loc)
    /\ ~req[r].ctx.done
    /\ Msg[req[r].sig].agent
    /\ SelectLabel(Msg[req[r].sig])

DirectorySkips(r) ==
    /\ req[r].pc = "preaccess"
    /\ ~Eligible(r)
    /\ req' = [req EXCEPT ![r].pc = "access"]
    /\ UNCHANGED <<nonceVars, shown>>

\* directory_handler() runs out of memory before it has a host: NGX_ERROR ends
\* the request.
DirectoryErrors(r) ==
    /\ req[r].pc = "preaccess"
    /\ DirectoryOn(req[r].loc)
    /\ ~req[r].ctx.done
    /\ req' = [req EXCEPT ![r] = IdleReq]
    /\ UNCHANGED <<nonceVars, shown>>

\* The directory phase ends with the document of a hit or of a fetch; or it
\* fails, open: an earlier document, found before a rotation refetch, is kept,
\* and without one the keys are unavailable.
Learnt(q) ==
    LET phase == [q EXCEPT !.pc = "access"] IN
    {[phase EXCEPT !.ctx.jwks = doc] : doc \in Document}
    \cup {[phase EXCEPT !.ctx.jwks = doc, !.ctx.directory_reason = "FAILED",
                        !.ctx.keys_unavailable = (doc = "none")] :
             doc \in Document \cup {"none"}}

\* A host that is not allowed, an answer from the cache, or a failure before
\* the subrequest.
DirectoryLookup(r) ==
    /\ req[r].pc = "preaccess"
    /\ Eligible(r)
    /\ \E q \in Learnt(req[r]) : req' = [req EXCEPT ![r] = q]
    /\ UNCHANGED <<nonceVars, shown>>

\* A fetch subrequest is posted and the request waits.
DirectoryPosts(r) ==
    /\ req[r].pc = "preaccess"
    /\ Eligible(r)
    /\ req' = [req EXCEPT ![r].pc = "fetching"]
    /\ UNCHANGED <<nonceVars, shown>>

DirectoryDone(r) ==
    /\ req[r].pc = "fetching"
    /\ \E q \in Learnt(req[r]) : req' = [req EXCEPT ![r] = q]
    /\ UNCHANGED <<nonceVars, shown>>

-----------------------------------------------------------------------------
(* evaluate() *)

\* resolve_keys() may have no memory for the key set, or keys_chain() for the
\* chain.
Resolved(q) ==
    LET dynamic == IF q.ctx.jwks = "none" THEN {<<>>}
                   ELSE {KeysOf[q.ctx.jwks], <<>>}
        chain(d) == {Chain(d, StaticKeys)}
                    \cup (IF d # <<>> /\ StaticKeys # <<>> THEN {<<>>} ELSE {})
    IN UNION {{[dynamic |-> d, keys |-> c] : c \in chain(d)} : d \in dynamic}

\* A document that yields no keys counts as none.
Unresolved(q, k) == q.ctx.jwks # "none" /\ k.dynamic = <<>>

\* The verdict before the nonce check.
Verified(q, t, k) ==
    LET result == ProfileVerify(Msg[q.sig], InWindow(q.sig, q.loc, t), k.keys,
                                FallbackKeys(Conf[q.loc].keyid_fallback_allow,
                                             k.dynamic, StaticKeys))
    IN IF /\ result \in {"UNKNOWN_KEYID", "KEYID_NOT_THUMBPRINT"}
          /\ q.ctx.keys_unavailable \/ Unresolved(q, k)
       THEN "KEY_UNAVAILABLE" ELSE result

\* evaluate() leaves result, with the given flags and memo.
Evaluated(q, k, result, internal, unavailable, memo) ==
    [q EXCEPT !.ctx.done = TRUE, !.ctx.result = result,
              !.ctx.keys_unavailable = @ \/ Unresolved(q, k),
              !.ctx.directory_reason = IF Unresolved(q, k) THEN "INVALID" ELSE @,
              !.ctx.internal_error = internal,
              !.ctx.nonce_store_unavailable = unavailable,
              !.ctx.starved = (k.keys = <<>> /\ k.dynamic # <<>>),
              !.memo = memo]

\* Somebody calls evaluate() for the first time since ctx was created: the
\* ACCESS handler (unless mode and require leave it nothing to do), a reader
\* of the variables after it or, in some configurations, before it.
MayEvaluate(r) ==
    /\ ~req[r].ctx.done
    /\ Conf[req[r].loc].mode # "off"
    /\ \/ req[r].pc \in {"access", "decided"}
       \/ EarlyReads /\ req[r].pc \in {"preaccess", "fetching"}

\* Faulty variant of AsksStore: the nonce is spent before the verdict is known.
AsksStoreFirst(q, t, k) ==
    /\ InWindow(q.sig, q.loc, t)
    /\ Conf[q.loc].nonce_store
    /\ NonceLen[q.sig] # "none"
    /\ ~q.memo.known

\* check_nonce() has to ask the store.
AsksStore(q, t, k) ==
    /\ Verified(q, t, k) = "OK"
    /\ Conf[q.loc].nonce_store
    /\ NonceLen[q.sig] # "none"
    /\ ~q.memo.known

\* evaluate() without the store: the verdict is not OK, no check is due, or
\* the request has a nonce verdict from before a redirect.
EvaluatePlain(r) ==
    LET q == req[r]
        t == clock[WorkerOf[r]]
    IN /\ MayEvaluate(r)
       /\ \E k \in Resolved(q) :
             LET result == Verified(q, t, k) IN
             /\ ~AsksStore(q, t, k)
             /\ req' = [req EXCEPT ![r] =
                  IF result # "OK" \/ ~Conf[q.loc].nonce_store
                  THEN Evaluated(q, k, result, FALSE, FALSE, q.memo)
                  ELSE IF NonceLen[q.sig] = "none"
                  THEN Evaluated(q, k, IF Conf[q.loc].nonce_required
                                       THEN "NONCE_MISSING" ELSE "OK",
                                 FALSE, FALSE, q.memo)
                  ELSE Evaluated(q, k, q.memo.result, q.memo.internal_error,
                                 q.memo.unavailable, q.memo)]
       /\ UNCHANGED <<nonceVars, shown>>

\* The request snapshot (before the keys are looked at) or the verification
\* fails for want of memory.
EvaluateFails(r) ==
    LET q == req[r] IN
    /\ MayEvaluate(r)
    /\ Msg[q.sig].input # "absent"
    /\ \/ req' = [req EXCEPT ![r].ctx.done = TRUE,
                             ![r].ctx.internal_error = TRUE]
       \/ \E k \in Resolved(q) :
             req' = [req EXCEPT ![r] =
                        Evaluated(q, k, "NOT_SIGNED", TRUE, FALSE, q.memo)]
    /\ UNCHANGED <<nonceVars, shown>>

\* A memo made at q's location, before the store answered.
NewMemo(q) == [NoMemo EXCEPT !.known = TRUE, !.at = q.loc]

\* check_nonce() ends before it asks: no memory for the memo (which leaves no
\* memo) or for the key, or the nonce is too long.
NonceNotAsked(r) ==
    LET q == req[r] IN
    /\ MayEvaluate(r)
    /\ \E k \in Resolved(q) :
          /\ AsksStore(q, clock[WorkerOf[r]], k)
          /\ \/ req' = [req EXCEPT ![r] =
                           Evaluated(q, k, "OK", TRUE, FALSE, NoMemo)]
             \/ /\ NonceLen[q.sig] = "long"
                /\ req' = [req EXCEPT ![r] =
                      Evaluated(q, k, "NONCE_TOO_LONG", FALSE, FALSE,
                                [NewMemo(q) EXCEPT !.result = "NONCE_TOO_LONG"])]
             \/ /\ NonceLen[q.sig] = "fits"
                /\ req' = [req EXCEPT ![r] =
                      Evaluated(q, k, "OK", TRUE, FALSE,
                                [NewMemo(q) EXCEPT !.internal_error = TRUE])]
    /\ UNCHANGED <<nonceVars, shown>>

\* Faulty variant of StoreResult: the store's code is passed on.
StoreResultRaw(l, rc) == IF rc = "DECLINED" THEN "NONCE_REPLAYED" ELSE rc

\* Faulty variant of StoreResult: auth_httpsig_nonce_store_failure is ignored.
StoreResultOpen(l, rc) == IF rc = "DECLINED" THEN "NONCE_REPLAYED" ELSE "OK"

\* check_nonce() maps the store's answer; the failure policy is the location's.
StoreResult(l, rc) ==
    CASE rc = "OK"       -> "OK"
      [] rc = "DECLINED" -> "NONCE_REPLAYED"
      [] rc = "ABORT"    -> IF Conf[l].closed THEN "NONCE_STORE_UNAVAILABLE"
                            ELSE "OK"

\* Faulty variant of NonceAsked: the verdict is not kept for a later redirect.
NonceAskedForgetful(r) ==
    LET q == req[r] IN
    /\ MayEvaluate(r)
    /\ \E k \in Resolved(q) :
          /\ AsksStore(q, clock[WorkerOf[r]], k)
          /\ NonceLen[q.sig] = "fits"
          /\ Check(WorkerOf[r], q.sig, q.loc)
          /\ req' = [req EXCEPT ![r] =
                Evaluated(q, k, StoreResult(q.loc, verdict'.rc), FALSE,
                          verdict'.rc = "ABORT", NoMemo)]
    /\ UNCHANGED shown

\* check_nonce() asks the store and keeps the answer on r->pool.
NonceAsked(r) ==
    LET q == req[r] IN
    /\ MayEvaluate(r)
    /\ \E k \in Resolved(q) :
          /\ AsksStore(q, clock[WorkerOf[r]], k)
          /\ NonceLen[q.sig] = "fits"
          /\ Check(WorkerOf[r], q.sig, q.loc)
          /\ LET result == StoreResult(q.loc, verdict'.rc)
                 unavailable == verdict'.rc = "ABORT"
             IN req' = [req EXCEPT ![r] =
                   Evaluated(q, k, result, FALSE, unavailable,
                             [NewMemo(q) EXCEPT !.result = result,
                                                !.unavailable = unavailable])]
    /\ UNCHANGED shown

-----------------------------------------------------------------------------
(* The ACCESS handler and what follows it. *)

\* deny_code(): with "satisfy any" only 401 and 403 are aggregated.
DenyCode(l, code) ==
    IF Conf[l].satisfy_any /\ code \notin {"401", "403"} THEN "403" ELSE code

\* access_handler() after evaluate().
AccessDecision(l, ctx) ==
    LET enforce == Conf[l].mode = "enforce"
        deny(code) == IF enforce THEN DenyCode(l, code) ELSE "DECLINED"
        status == Conf[l].status
    IN IF ctx.internal_error THEN IF enforce THEN "internal" ELSE "DECLINED"
       ELSE CASE ctx.result = "OK" -> "OK"
              [] ctx.result = "NOT_SIGNED" ->
                    IF Conf[l].require THEN DenyCode(l, status["missing"])
                    ELSE "DECLINED"
              [] ctx.result = "KEY_UNAVAILABLE" -> "DECLINED"
              [] ctx.result = "NONCE_REPLAYED" -> deny(status["replay"])
              [] ctx.result = "NONCE_STORE_UNAVAILABLE" -> deny("503")
              [] ctx.result = "PARSE_ERROR" -> deny(status["parse_error"])
              [] OTHER -> deny(status["invalid"])

\* $httpsig_verified, once evaluate() has run.
VariableVerified(ctx) ==
    IF ~ctx.done \/ ctx.result \in {"NOT_SIGNED", "KEY_UNAVAILABLE"} THEN "unset"
    ELSE IF ctx.result = "OK" THEN "1" ELSE "0"

\* $httpsig_keyid, and whether $httpsig_agent has a value (SignatureAgent has
\* the host in it).
VariableKeyid(q) ==
    IF q.ctx.done /\ q.ctx.result = "OK" THEN Msg[q.sig].keyid ELSE "unset"

VariableAgentSet(q) ==
    q.ctx.done /\ q.ctx.result = "OK" /\ Msg[q.sig].agent

\* Faulty variant of VariableError: an accepted request has no error.
VariableErrorOkFirst(ctx) ==
    IF ctx.result = "OK" THEN "unset"
    ELSE IF ctx.internal_error THEN "internal"
    ELSE IF ctx.nonce_store_unavailable THEN "NONCE_STORE_UNAVAILABLE"
    ELSE IF ctx.result = "NOT_SIGNED" THEN "unset"
    ELSE IF ctx.result = "KEY_UNAVAILABLE" /\ ctx.directory_reason # "OK"
    THEN ctx.directory_reason ELSE ctx.result

\* $httpsig_error: a result, a fetch reason or "internal".
VariableError(ctx) ==
    IF ctx.internal_error THEN "internal"
    ELSE IF ctx.nonce_store_unavailable THEN "NONCE_STORE_UNAVAILABLE"
    ELSE IF ctx.result \in {"OK", "NOT_SIGNED"} THEN "unset"
    ELSE IF ctx.result = "KEY_UNAVAILABLE" /\ ctx.directory_reason # "OK"
    THEN ctx.directory_reason ELSE ctx.result

\* access_handler() has no memory for the ctx.
AccessFails(r) ==
    LET l == req[r].loc IN
    /\ req[r].pc = "access"
    /\ Conf[l].mode = "enforce" \/ Conf[l].require
    /\ ~DirectoryOn(l)
    /\ ~req[r].ctx.done
    /\ req' = [req EXCEPT ![r].pc = "decided", ![r].decision =
                  IF Conf[l].mode = "enforce" THEN "internal" ELSE "DECLINED"]
    /\ UNCHANGED <<nonceVars, shown>>

\* Decides on the evaluation, whether its own call made it or an earlier
\* reader's: evaluate() leaves in ctx all that the decision depends on, so a
\* step in between changes nothing.
AccessHandler(r) ==
    LET l == req[r].loc IN
    /\ req[r].pc = "access"
    /\ Conf[l].mode = "enforce" \/ Conf[l].require => req[r].ctx.done
    /\ req' = [req EXCEPT ![r].pc = "decided", ![r].decision =
                  IF Conf[l].mode = "enforce" \/ Conf[l].require
                  THEN AccessDecision(l, req[r].ctx) ELSE "DECLINED"]
    /\ UNCHANGED <<nonceVars, shown>>

\* ngx_http_internal_redirect(): every module's ctx is gone, the pool stays.
Redirect(r, l) ==
    /\ req[r].pc = "decided"
    /\ req' = [req EXCEPT ![r].pc = "preaccess", ![r].loc = l,
                          ![r].ctx = NoCtx, ![r].decision = "none"]
    /\ UNCHANGED <<nonceVars, shown>>

Finish(r) ==
    /\ req[r].pc = "decided"
    /\ req' = [req EXCEPT ![r] = IdleReq]
    /\ UNCHANGED <<nonceVars, shown>>

-----------------------------------------------------------------------------
Evaluate(r) ==
    EvaluatePlain(r) \/ EvaluateFails(r) \/ NonceNotAsked(r) \/ NonceAsked(r)

DirectoryPhase(r) ==
    \/ DirectorySkips(r) \/ DirectoryErrors(r) \/ DirectoryLookup(r)
    \/ DirectoryPosts(r) \/ DirectoryDone(r)

AccessNext ==
    \/ NonceTick /\ UNCHANGED <<req, shown>>
    \/ \E w \in Worker : NonceUpdateTime(w) /\ UNCHANGED <<req, shown>>
    \/ \E r \in Request :
          \/ \E s \in Sig, l \in Location : Arrive(r, s, l)
          \/ DirectoryPhase(r) \/ Evaluate(r)
          \/ AccessFails(r) \/ AccessHandler(r)
          \/ \E l \in Location : Redirect(r, l)
          \/ Finish(r)

AccessSpec == AccessInit /\ [][AccessNext]_accessVars

-----------------------------------------------------------------------------
(* Properties. *)

\* The keys of the document at hand.
Offered(q) ==
    IF q.ctx.jwks = "none" THEN <<>> ELSE KeysOf[q.ctx.jwks]

\* The signer may speak under the keyid, by the document at hand, the static
\* JWKS and the fallback the location allows.
SignerVouched(q) ==
    Authentic(Offered(q), StaticKeys, Conf[q.loc].keyid_fallback_allow,
              Msg[q.sig].keyid, Msg[q.sig].signer)

\* A store answered the request that kept the memo m: its nonce is new.
FoundNew(m) ==
    m.known /\ m.result = "OK" /\ ~m.unavailable /\ ~m.internal_error

\* The store could not answer the request q, which is told in its ctx, where
\* that lets a request pass.
FailedOpen(q) ==
    /\ q.memo.known /\ q.memo.unavailable /\ ~Conf[q.memo.at].closed
    /\ q.ctx.nonce_store_unavailable

\* A request counts as verified, by the ACCESS handler's NGX_OK (which
\* "satisfy any" takes as an unconditional pass), by $httpsig_verified or by
\* the identity in $httpsig_keyid and $httpsig_agent, only if its message is
\* well signed, with its Signature-Agent covered, by a key that the operator
\* or the directory supplied under that keyid (a raw kid is good only for a key
\* of the directory, and only with auth_httpsig_keyid_fallback_allow).  NGX_OK
\* also means that there was no internal error and that, where nonces are
\* checked, the store found this one new, maybe before an internal redirect; or
\* the store failed, the location that had asked lets its failures pass
\* (auth_httpsig_nonce_store_failure open), and ctx still says that it failed.
OkMeansVerified ==
    \A r \in Request :
        LET q == req[r] IN
        /\ \/ q.decision = "OK" \/ VariableVerified(q.ctx) = "1"
           \/ VariableKeyid(q) # "unset" \/ VariableAgentSet(q)
           => WellSigned(Msg[q.sig]) /\ SignerVouched(q)
        /\ q.decision = "OK" =>
              /\ ~q.ctx.internal_error
              /\ Conf[q.loc].nonce_store /\ NonceLen[q.sig] # "none"
                 => FoundNew(q.memo) \/ FailedOpen(q)

\* A well-signed message is denied only for what its sender or the operator
\* did: it is out of its window (or was not in it yet, by a clock that lags),
\* the keys at hand do not vouch for its signer (and no others were to be
\* had), its nonce was presented by another request, is missing where required
\* or too long, or the store failed and the operator had closed its failures
\* in the location that asked (the answer outlives an internal redirect).
\* Directory failures and internal redirects never deny it, nor do internal
\* errors, whose fixed 500 is an error and no denial; the one exception is a
\* chain of key sets for which there was no memory.
ValidNotRejected ==
    \A r \in Request :
        LET q == req[r]
            consulted == Conf[q.loc].directory /\ Msg[q.sig].agent
        IN q.decision \in Status /\ WellSigned(Msg[q.sig]) =>
            \/ now > WindowEnd(q.sig, q.loc) \/ WindowStart(q.sig, q.loc) > 0
            \/ /\ ~SignerVouched(q)
               /\ \/ q.ctx.jwks # "none" \/ ~consulted
                  \/ Has(StaticKeys, Msg[q.sig].keyid)
            \/ shown[NonceOf[q.sig]] > 1
            \/ NonceLen[q.sig] = "long"
            \/ NonceLen[q.sig] = "none" /\ Conf[q.loc].nonce_required
            \/ Conf[q.memo.at].closed /\ q.ctx.nonce_store_unavailable
            \/ q.ctx.starved

\* $httpsig_error tells every incomplete check: it is unset, for a message
\* that is signed for the profile, only if all was checked and found good.
\* What "enforce" lets pass open, for want of keys or of a store, can
\* therefore be told from what was verified.
SilentMeansChecked ==
    \A r \in Request :
        LET q == req[r]
            m == Msg[q.sig]
        IN /\ q.ctx.done
           /\ m.input # "absent" /\ Tagged(m) # {}
           /\ VariableError(q.ctx) = "unset"
           => /\ WellSigned(m) /\ SignerVouched(q)
              /\ Conf[q.loc].nonce_store /\ NonceLen[q.sig] = "fits"
                 => FoundNew(q.memo)

\* A nonce is entered in the store only on behalf of a message whose signature
\* verified with a known key, so nobody else can use a signer's nonce up.
NonceSpentByVerified ==
    [][\A k \in Key : record'[k] \notin {0, record[k]} =>
          \E r \in Request : /\ NonceOf[req'[r].sig] = k
                             /\ WellSigned(Msg[req'[r].sig])
                             /\ SignerVouched(req[r])
                             /\ req'[r].ctx.done /\ ~req[r].ctx.done]_accessVars

\* A message that is not signed for the profile, or does not match it, never
\* makes the server fetch a key directory: no keys change its verdict.  One that
\* is out of its window or has a garbled signature may, as these are looked at
\* after the fetch.
FetchOnlyProfiled ==
    [][\A r \in Request :
          req'[r].pc = "fetching" /\ req[r].pc # "fetching" =>
             ProfileVerify(Msg[req[r].sig], TRUE, <<>>, <<>>)
                \notin {"NOT_SIGNED", "PROFILE_MISMATCH"}]_accessVars

\* "auth_httpsig_nonce_store_failure closed": no request gets NGX_OK whose nonce
\* could not be checked, unless a location with open failures had asked for
\* the check before an internal redirect.
ClosedMeansChecked ==
    \A r \in Request :
        /\ req[r].decision = "OK"
        /\ Conf[req[r].loc].closed
        /\ req[r].ctx.nonce_store_unavailable
        => ~Conf[req[r].memo.at].closed

\* The ACCESS handler said NGX_OK to the request q after a nonce store did.
Admitted(q) ==
    /\ q.decision = "OK" /\ ~q.ctx.nonce_store_unavailable
    /\ Conf[q.loc].nonce_store /\ NonceLen[q.sig] # "none"

\* Of the requests in service that present one nonce, in the same message or
\* in another with the same keyid and agent, one is admitted while their
\* messages can still be accepted: across the workers' lagging clocks, internal
\* redirects that evaluate a request again, and a zone that reclaims and reuses
\* its records.  It needs UniformSkew.
AdmittedOnce ==
    \A r, t \in Request :
        /\ r # t
        /\ NonceOf[req[r].sig] = NonceOf[req[t].sig]
        /\ Admitted(req[r]) /\ Admitted(req[t])
        => ~({req[r].sig, req[t].sig} \subseteq OpenAt(now))
=============================================================================
