---------------------------- MODULE AccessProofs ----------------------------
(***************************************************************************)
(* TLAPS proofs about Access, for every message, key directory and         *)
(* configuration, and any number of requests, redirects and locations.     *)
(***************************************************************************)
EXTENDS Access, NonceStoreProofs, ProfileProofs

-----------------------------------------------------------------------------
(* What holds of every request by itself. *)

NonceResult == {"OK", "NONCE_TOO_LONG", "NONCE_REPLAYED", "NONCE_STORE_UNAVAILABLE"}

\* The kept nonce verdict m of the message s: a store that failed let nobody by
\* where failures were closed.
MemoOK(s, m) ==
    /\ m.result \in NonceResult
    /\ m.result = "OK" /\ m.unavailable => ~Conf[m.at].closed
    /\ m.result = "NONCE_TOO_LONG" => NonceLen[s] = "long"
    /\ m.result = "NONCE_STORE_UNAVAILABLE" => m.unavailable /\ Conf[m.at].closed

\* The verdict of evaluate(): OK means what it says, also about the nonce;
\* "not signed" is said of such messages only; a failed store is remembered.
VerdictOK(q) ==
    /\ q.ctx.result = "OK" => WellSigned(Msg[q.sig]) /\ SignerVouched(q)
    /\ /\ q.ctx.result = "OK" /\ ~q.ctx.internal_error
       /\ Conf[q.loc].nonce_store /\ NonceLen[q.sig] # "none"
       => /\ q.memo.known /\ q.memo.result = "OK" /\ ~q.memo.internal_error
          /\ q.memo.unavailable = q.ctx.nonce_store_unavailable
    /\ q.ctx.result = "NOT_SIGNED" /\ ~q.ctx.internal_error =>
          Msg[q.sig].input = "absent" \/ Tagged(Msg[q.sig]) = {}
    /\ q.ctx.nonce_store_unavailable =>
          q.memo.known /\ q.memo.unavailable /\ q.ctx.result = q.memo.result

\* A request: nothing is decided before its time, the directory phase alone
\* brings a document, and ctx is empty until evaluate() has run.
ReqOK(q) ==
    /\ q.pc # "decided" => q.decision = "none"
    /\ q.pc \in {"idle", "preaccess", "fetching"} => q.ctx.jwks = "none"
    /\ ~q.ctx.done => /\ q.ctx.result = "NOT_SIGNED" /\ ~q.ctx.internal_error
                      /\ ~q.ctx.nonce_store_unavailable
    /\ q.decision = "OK" =>
          q.ctx.done /\ q.ctx.result = "OK" /\ ~q.ctx.internal_error
    /\ MemoOK(q.sig, q.memo)
    /\ q.ctx.done => VerdictOK(q)

AccessInv ==
    /\ ZoneInv /\ AccessTypeOK
    /\ \A r \in Request : ReqOK(req[r])

-----------------------------------------------------------------------------
(* The keys at hand and the verdict on a message. *)

\* keys_load_jwks() yields a key set.
LEMMA KeysOfType == \A d \in DOMAIN Published : KeysOf[d] \in Handle
<1> SUFFICES ASSUME NEW d \in DOMAIN Published PROVE LoadJwks(Published[d]) \in Handle
  BY DEF KeysOf
<1> DEFINE doc == Published[d]
<1>1. doc.keys \in Seq(Jwk)
  BY AccessAssumption DEF Jwks
<1>2. \A j \in DOMAIN doc.keys : doc.keys[j].thumbprint \in STRING /\ doc.keys[j].kid \in STRING
  <2> HIDE DEF doc
  <2>1. \A j \in DOMAIN doc.keys : doc.keys[j] \in Jwk
    BY <1>1
  <2> QED BY <2>1 DEF Jwk
<1>3. UsableKeys(doc) \subseteq PublicKey
  BY <1>2 DEF UsableKeys, PublicKey
<1>4. <<>> \in Handle /\ <<UsableKeys(doc)>> \in Handle
  BY <1>3 DEF Handle
<1> QED BY <1>4 DEF LoadJwks

\* What resolve_keys() and keys_chain() leave: the document's keys or, for
\* want of memory, none; and the chain of them with the static ones, unless
\* there was no memory for that.
LEMMA ResolvedType ==
    ASSUME NEW q \in Req, NEW k \in Resolved(q)
    PROVE  /\ Offered(q) \in Handle
           /\ k.dynamic \in {<<>>, Offered(q)}
           /\ k.keys = Chain(k.dynamic, StaticKeys) \/ (k.keys = <<>> /\ k.dynamic # <<>>)
<1>1. q.ctx.jwks \in Document \cup {"none"}
  BY DEF Req, Ctx
<1>2. Offered(q) \in Handle
  <2>1. <<>> \in Handle
    BY DEF Handle
  <2> QED BY <1>1, <2>1, KeysOfType DEF Offered, Document
<1>3. PICK d \in (IF q.ctx.jwks = "none" THEN {<<>>} ELSE {KeysOf[q.ctx.jwks], <<>>}) :
        \E c \in {Chain(d, StaticKeys)}
                 \cup (IF d # <<>> /\ StaticKeys # <<>> THEN {<<>>} ELSE {}) :
           k = [dynamic |-> d, keys |-> c]
  BY DEF Resolved
<1>4. k.dynamic = d
  BY <1>3
<1>5. k.keys = Chain(d, StaticKeys) \/ (k.keys = <<>> /\ d # <<>>)
  BY <1>3
<1> QED BY <1>2, <1>3, <1>4, <1>5 DEF Offered

\* Who may speak with the static keys alone may speak with a document too.
LEMMA StaticSuffices ==
    ASSUME NEW d, NEW allowed, NEW keyid, NEW signer,
           Authentic(<<>>, StaticKeys, allowed, keyid, signer)
    PROVE  Authentic(d, StaticKeys, allowed, keyid, signer)
<1>1. ~Has(<<>>, keyid)
  BY DEF Has
<1>2. signer = keyid /\ Has(StaticKeys, keyid)
  BY <1>1 DEF Authentic
<1> QED BY <1>2 DEF Authentic

\* The verdict of profile_verify() with what evaluate() gives it.
ProfileResult(q, t, k) ==
    ProfileVerify(Msg[q.sig], InWindow(q.sig, q.loc, t), k.keys,
                  FallbackKeys(Conf[q.loc].keyid_fallback_allow, k.dynamic, StaticKeys))

\* The nine answers of profile_verify().
LEMMA ProfileVerdicts ==
    ASSUME NEW m, NEW inWindow, NEW keys, NEW fallback
    PROVE  ProfileVerify(m, inWindow, keys, fallback)
              \in {"NOT_SIGNED", "PARSE_ERROR", "PROFILE_MISMATCH", "EXPIRED",
                   "UNKNOWN_KEYID", "KEYID_NOT_THUMBPRINT", "SIGNATURE_MISMATCH", "OK"}
BY Ed25519Verdicts DEF ProfileVerify

\* Only a message without a label of the profile counts as not signed.
LEMMA NotSignedMeans ==
    ASSUME NEW m, NEW inWindow, NEW keys, NEW fallback,
           ProfileVerify(m, inWindow, keys, fallback) = "NOT_SIGNED"
    PROVE  m.input = "absent" \/ Tagged(m) = {}
BY Ed25519Verdicts DEF ProfileVerify

\* evaluate() adds one answer, and takes two of them back for it.
LEMMA VerifiedIs ==
    ASSUME NEW q, NEW t, NEW k
    PROVE  /\ Verified(q, t, k) \in Result
           /\ \/ Verified(q, t, k) = ProfileResult(q, t, k)
              \/ /\ Verified(q, t, k) = "KEY_UNAVAILABLE"
                 /\ ProfileResult(q, t, k) \in {"UNKNOWN_KEYID", "KEYID_NOT_THUMBPRINT"}
           /\ Verified(q, t, k) # "NOT_SIGNED" \/ ProfileResult(q, t, k) = "NOT_SIGNED"
           /\ Verified(q, t, k) \notin {"NONCE_REPLAYED", "NONCE_TOO_LONG",
                                        "NONCE_MISSING", "NONCE_STORE_UNAVAILABLE"}
<1>1. Verified(q, t, k) =
        IF /\ ProfileResult(q, t, k) \in {"UNKNOWN_KEYID", "KEYID_NOT_THUMBPRINT"}
           /\ q.ctx.keys_unavailable \/ Unresolved(q, k)
        THEN "KEY_UNAVAILABLE" ELSE ProfileResult(q, t, k)
  BY DEF Verified, ProfileResult
<1>2. ProfileResult(q, t, k)
         \in {"NOT_SIGNED", "PARSE_ERROR", "PROFILE_MISMATCH", "EXPIRED",
              "UNKNOWN_KEYID", "KEYID_NOT_THUMBPRINT", "SIGNATURE_MISMATCH", "OK"}
  BY ProfileVerdicts DEF ProfileResult
<1> QED BY <1>1, <1>2 DEF Result

\* The types that every verdict takes its arguments from.
LEMMA RequestData ==
    ASSUME NEW q \in Req
    PROVE  /\ q.sig \in Sig /\ q.loc \in Location /\ Msg[q.sig] \in Message
           /\ Conf[q.loc] \in LocConf /\ StaticKeys \in Handle
           /\ Conf[q.loc].keyid_fallback_allow \in BOOLEAN
BY AccessAssumption DEF Req, LocConf

\* OK is said only of a well-signed message whose signer the keys at hand
\* vouch for, even if the document's keys could not be loaded.
LEMMA OkIsVouched ==
    ASSUME NEW q \in Req, NEW t \in Nat, NEW k \in Resolved(q), Verified(q, t, k) = "OK"
    PROVE  WellSigned(Msg[q.sig]) /\ SignerVouched(q)
<1> DEFINE m == Msg[q.sig]
           inWindow == InWindow(q.sig, q.loc, t)
           allowed == Conf[q.loc].keyid_fallback_allow
<1>1. m \in Message /\ inWindow \in BOOLEAN /\ allowed \in BOOLEAN
  BY RequestData DEF InWindow
<1>2. /\ Offered(q) \in Handle /\ k.dynamic \in {<<>>, Offered(q)}
      /\ k.keys = Chain(k.dynamic, StaticKeys) \/ (k.keys = <<>> /\ k.dynamic # <<>>)
  BY ResolvedType
<1>3. k.dynamic \in Handle /\ StaticKeys \in Handle
  <2>1. <<>> \in Handle
    BY DEF Handle
  <2> QED BY <1>2, <2>1, RequestData
<1>4. ProfileVerify(m, inWindow, k.keys, FallbackKeys(allowed, k.dynamic, StaticKeys)) = "OK"
  BY VerifiedIs DEF ProfileResult
<1> HIDE DEF m, inWindow, allowed
<1>5. k.keys # <<>>
  <2>1. VerifyEd25519(<<>>, m.keyid, m.signer, m.sized,
                      FallbackKeys(allowed, k.dynamic, StaticKeys)) = "UNKNOWN_KEYID"
    BY DEF VerifyEd25519
  <2> QED BY <1>4, <2>1 DEF ProfileVerify
<1>6. WellSigned(m) /\ Authentic(k.dynamic, StaticKeys, allowed, m.keyid, m.signer)
  BY <1>1, <1>2, <1>3, <1>4, <1>5, VerifyExact
<1>7. Authentic(Offered(q), StaticKeys, allowed, m.keyid, m.signer)
  BY <1>2, <1>6, StaticSuffices
<1> QED BY <1>6, <1>7 DEF SignerVouched, m, allowed

-----------------------------------------------------------------------------
(* The parts of a step. *)

\* A slot without a request.
LEMMA IdleType ==
    /\ NoCtx \in Ctx /\ NoMemo \in Memo /\ IdleReq \in Req
    /\ ReqOK(IdleReq) /\ \A s : MemoOK(s, NoMemo)
    /\ IdleReq.ctx = NoCtx /\ IdleReq.memo = NoMemo /\ ~NoMemo.known
<1>1. (CHOOSE s \in Sig : TRUE) \in Sig /\ (CHOOSE l \in Location : TRUE) \in Location
  BY AccessAssumption
<1>2. NoCtx \in Ctx
  BY DEF NoCtx, Ctx, Result, FetchReason
<1>3. NoMemo \in Memo /\ ~NoMemo.known /\ \A s : MemoOK(s, NoMemo)
  BY <1>1 DEF NoMemo, Memo, Result, MemoOK, NonceResult
<1>4. IdleReq \in Req /\ IdleReq.ctx = NoCtx /\ IdleReq.memo = NoMemo
  BY <1>1, <1>2, <1>3 DEF IdleReq, Req, Pc, Decision
<1>5. ReqOK(IdleReq)
  BY <1>3, <1>4 DEF IdleReq, NoCtx, ReqOK
<1> QED BY <1>2, <1>3, <1>4, <1>5

\* What evaluate() leaves in p of the request q.
EvaluatedAs(p, q, k, result, internal, unavailable, memo) ==
    /\ p \in Req
    /\ p.pc = q.pc /\ p.sig = q.sig /\ p.loc = q.loc
    /\ p.decision = q.decision /\ p.memo = memo
    /\ p.ctx.done /\ p.ctx.result = result /\ p.ctx.jwks = q.ctx.jwks
    /\ p.ctx.internal_error = internal
    /\ p.ctx.nonce_store_unavailable = unavailable
    /\ p.ctx.keys_unavailable = (q.ctx.keys_unavailable \/ Unresolved(q, k))
    /\ p.ctx.starved = (k.keys = <<>> /\ k.dynamic # <<>>)

\* evaluate() changes the verdict, its flags and the memo, and nothing else.
LEMMA EvaluatedFields ==
    ASSUME NEW q \in Req, NEW k, NEW result \in Result, NEW internal,
           NEW unavailable, {internal, unavailable} \subseteq BOOLEAN, NEW memo \in Memo,
           NEW p, p = Evaluated(q, k, result, internal, unavailable, memo)
    PROVE  EvaluatedAs(p, q, k, result, internal, unavailable, memo)
<1> DEFINE u == Unresolved(q, k)
           starved == k.keys = <<>> /\ k.dynamic # <<>>
           ku == q.ctx.keys_unavailable \/ u
           reason == IF u THEN "INVALID" ELSE q.ctx.directory_reason
           c == [q.ctx EXCEPT
                   !.done = TRUE, !.result = result, !.keys_unavailable = ku,
                   !.directory_reason = reason, !.internal_error = internal,
                   !.nonce_store_unavailable = unavailable, !.starved = starved]
<1>1. u \in BOOLEAN /\ starved \in BOOLEAN /\ ku \in BOOLEAN
  BY DEF Unresolved
<1>2. q.ctx \in Ctx
  BY DEF Req
<1>3. reason \in FetchReason
  BY <1>2 DEF Ctx, FetchReason
<1>4. p = [q EXCEPT !.ctx = c, !.memo = memo]
  BY DEF Evaluated, Req, Ctx
<1> HIDE DEF u, starved, ku, reason
<1>5. c \in Ctx
  BY <1>1, <1>2, <1>3 DEF Ctx
<1>6. /\ c.done = TRUE /\ c.result = result /\ c.jwks = q.ctx.jwks
      /\ c.internal_error = internal
      /\ c.nonce_store_unavailable = unavailable
      /\ c.keys_unavailable = ku
      /\ c.starved = starved
  BY <1>2 DEF Ctx
<1> HIDE DEF c
<1>7. /\ p \in Req
      /\ p.pc = q.pc /\ p.sig = q.sig /\ p.loc = q.loc
      /\ p.decision = q.decision /\ p.memo = memo /\ p.ctx = c
  BY <1>4, <1>5 DEF Req
<1> QED BY <1>6, <1>7 DEF EvaluatedAs, ku, u, starved

\* What evaluate() may say of the request q, with the flags and the memo it
\* leaves.
Sayable(q, result, internal, unavailable, memo) ==
    /\ MemoOK(q.sig, memo)
    /\ result = "OK" => WellSigned(Msg[q.sig]) /\ SignerVouched(q)
    /\ /\ result = "OK" /\ ~internal
       /\ Conf[q.loc].nonce_store /\ NonceLen[q.sig] # "none"
       => /\ memo.known /\ memo.result = "OK" /\ ~memo.internal_error
          /\ memo.unavailable = unavailable
    /\ result = "NOT_SIGNED" /\ ~internal =>
          Msg[q.sig].input = "absent" \/ Tagged(Msg[q.sig]) = {}
    /\ unavailable => memo.known /\ memo.unavailable /\ result = memo.result

\* A verdict that evaluate() may say leaves the request in order.
LEMMA EvaluatedOK ==
    ASSUME NEW q \in Req, ReqOK(q), ~q.ctx.done, NEW k, NEW result \in Result,
           NEW internal, NEW unavailable, {internal, unavailable} \subseteq BOOLEAN,
           NEW memo \in Memo, Sayable(q, result, internal, unavailable, memo),
           NEW p, p = Evaluated(q, k, result, internal, unavailable, memo)
    PROVE  p \in Req /\ ReqOK(p)
<1>1. /\ p \in Req
      /\ p.pc = q.pc /\ p.sig = q.sig /\ p.loc = q.loc
      /\ p.decision = q.decision /\ p.memo = memo
      /\ p.ctx.done /\ p.ctx.result = result /\ p.ctx.jwks = q.ctx.jwks
      /\ p.ctx.internal_error = internal
      /\ p.ctx.nonce_store_unavailable = unavailable
  <2>1. EvaluatedAs(p, q, k, result, internal, unavailable, memo)
    BY EvaluatedFields
  <2> QED BY <2>1 DEF EvaluatedAs
<1>2. SignerVouched(p) = SignerVouched(q)
  BY <1>1 DEF SignerVouched, Offered
<1>3. VerdictOK(p)
  BY <1>1, <1>2 DEF VerdictOK, Sayable
<1>4. ReqOK(p)
  BY <1>1, <1>3 DEF ReqOK, Sayable
<1> QED BY <1>1, <1>4

\* A step that changes one request.
LEMMA ReqReplaced ==
    ASSUME AccessInv, NEW r \in Request, NEW p \in Req, ReqOK(p),
           req' = [req EXCEPT ![r] = p], ZoneInv', shown' \in [Key -> Nat]
    PROVE  AccessInv'
<1>1. req \in [Request -> Req] /\ \A x \in Request : ReqOK(req[x])
  BY DEF AccessInv, AccessTypeOK
<1>2. req' \in [Request -> Req] /\ \A x \in Request : ReqOK(req'[x])
  BY <1>1
<1>3. \A x \in Request : ReqOK(req[x])'
  BY <1>2 DEF ReqOK, MemoOK, VerdictOK, SignerVouched, Offered
<1>4. NonceTypeOK'
  BY DEF ZoneInv
<1> QED BY <1>2, <1>3, <1>4 DEF AccessInv, AccessTypeOK

\* No step of a request but the nonce check touches the store.
LEMMA ZoneKept ==
    ASSUME AccessInv, UNCHANGED nonceVars
    PROVE  ZoneInv'
BY ZoneInvNext DEF AccessInv

\* Nothing has happened yet.
LEMMA AccessInvInit == AccessInit => AccessInv
<1> SUFFICES ASSUME AccessInit PROVE AccessInv
  OBVIOUS
<1>1. ZoneInv /\ NonceTypeOK
  BY ZoneInvInit DEF AccessInit, ZoneInv
<1>2. req \in [Request -> Req] /\ \A r \in Request : ReqOK(req[r])
  BY IdleType DEF AccessInit
<1>3. shown \in [Key -> Nat]
  BY DEF AccessInit
<1> QED BY <1>1, <1>2, <1>3 DEF AccessInv, AccessTypeOK

-----------------------------------------------------------------------------
(* The steps. *)

\* What a verdict before the nonce check says.
LEMMA VerifiedSays ==
    ASSUME NEW q \in Req, NEW t \in Nat, NEW k \in Resolved(q), NEW res,
           res = Verified(q, t, k)
    PROVE  /\ res \in Result
           /\ res = "OK" => WellSigned(Msg[q.sig]) /\ SignerVouched(q)
           /\ res = "NOT_SIGNED" => Msg[q.sig].input = "absent" \/ Tagged(Msg[q.sig]) = {}
           /\ res \notin {"NONCE_REPLAYED", "NONCE_TOO_LONG",
                          "NONCE_MISSING", "NONCE_STORE_UNAVAILABLE"}
<1>1. res = "NOT_SIGNED" => Msg[q.sig].input = "absent" \/ Tagged(Msg[q.sig]) = {}
  BY VerifiedIs, NotSignedMeans DEF ProfileResult
<1> QED BY <1>1, VerifiedIs, OkIsVouched

\* evaluate() starts on a request that nobody evaluated.
LEMMA EvaluateStarts ==
    ASSUME AccessInv, NEW r \in Request, MayEvaluate(r)
    PROVE  /\ req[r] \in Req /\ ReqOK(req[r]) /\ ~req[r].ctx.done
           /\ clock[WorkerOf[r]] \in Nat /\ shown \in [Key -> Nat]
BY AccessAssumption DEF AccessInv, AccessTypeOK, MayEvaluate, ZoneInv, NonceTypeOK

\* evaluate() without the store.
LEMMA EvaluatePlainOK ==
    ASSUME AccessInv, NEW r \in Request, EvaluatePlain(r)
    PROVE  AccessInv'
<1>1. PICK q \in Req : q = req[r] /\ ReqOK(q) /\ ~q.ctx.done
  BY EvaluateStarts DEF EvaluatePlain
<1>2. PICK t \in Nat : t = clock[WorkerOf[r]]
  BY EvaluateStarts DEF EvaluatePlain
<1> DEFINE plain(k, res) == Evaluated(q, k, res, FALSE, FALSE, q.memo)
           missing(k) == Evaluated(q, k, IF Conf[q.loc].nonce_required
                                         THEN "NONCE_MISSING" ELSE "OK",
                                   FALSE, FALSE, q.memo)
           kept(k) == Evaluated(q, k, q.memo.result, q.memo.internal_error,
                                q.memo.unavailable, q.memo)
<1>3. PICK k \in Resolved(q) :
        /\ ~AsksStore(q, t, k)
        /\ req' = [req EXCEPT ![r] =
             IF Verified(q, t, k) # "OK" \/ ~Conf[q.loc].nonce_store
             THEN plain(k, Verified(q, t, k))
             ELSE IF NonceLen[q.sig] = "none" THEN missing(k) ELSE kept(k)]
  BY <1>1, <1>2 DEF EvaluatePlain
<1>4. PICK res : res = Verified(q, t, k)
  OBVIOUS
<1>5. /\ res \in Result
      /\ res = "OK" => WellSigned(Msg[q.sig]) /\ SignerVouched(q)
      /\ res = "NOT_SIGNED" => Msg[q.sig].input = "absent" \/ Tagged(Msg[q.sig]) = {}
  BY <1>4, VerifiedSays
<1>6. q.memo \in Memo /\ MemoOK(q.sig, q.memo)
  BY <1>1 DEF Req, ReqOK
<1>7. ZoneInv' /\ shown' \in [Key -> Nat]
  BY ZoneKept, EvaluateStarts DEF EvaluatePlain
<1>8. ASSUME NEW p \in Req, ReqOK(p), req' = [req EXCEPT ![r] = p]
      PROVE  AccessInv'
  BY <1>7, <1>8, ReqReplaced
<1>9. CASE res # "OK" \/ ~Conf[q.loc].nonce_store
  <2>1. PICK p : p = plain(k, res)
    OBVIOUS
  <2>2. Sayable(q, res, FALSE, FALSE, q.memo)
    BY <1>5, <1>6, <1>9 DEF Sayable
  <2>3. p \in Req /\ ReqOK(p)
    BY <1>1, <1>5, <1>6, <2>1, <2>2, EvaluatedOK
  <2>4. req' = [req EXCEPT ![r] = p]
    BY <1>3, <1>4, <1>9, <2>1
  <2> QED BY <1>8, <2>3, <2>4
<1>10. CASE res = "OK" /\ Conf[q.loc].nonce_store /\ NonceLen[q.sig] = "none"
  <2>1. PICK x : x = IF Conf[q.loc].nonce_required THEN "NONCE_MISSING" ELSE "OK"
    OBVIOUS
  <2>2. PICK p : p = Evaluated(q, k, x, FALSE, FALSE, q.memo)
    OBVIOUS
  <2>3. x \in {"NONCE_MISSING", "OK"} /\ x \in Result
    BY <2>1 DEF Result
  <2>4. Sayable(q, x, FALSE, FALSE, q.memo)
    BY <1>5, <1>6, <1>10, <2>3 DEF Sayable
  <2>5. p \in Req /\ ReqOK(p)
    BY <1>1, <1>6, <2>2, <2>3, <2>4, EvaluatedOK
  <2>6. req' = [req EXCEPT ![r] = p]
    BY <1>3, <1>4, <1>10, <2>1, <2>2
  <2> QED BY <1>8, <2>5, <2>6
<1>11. CASE res = "OK" /\ Conf[q.loc].nonce_store /\ NonceLen[q.sig] # "none"
  <2>1. PICK p : p = kept(k)
    OBVIOUS
  <2>2. q.memo.known
    BY <1>3, <1>4, <1>11 DEF AsksStore
  <2>3. /\ q.memo.result \in Result
        /\ {q.memo.internal_error, q.memo.unavailable} \subseteq BOOLEAN
    BY <1>6 DEF Memo
  <2>4. Sayable(q, q.memo.result, q.memo.internal_error, q.memo.unavailable, q.memo)
    BY <1>5, <1>6, <1>11, <2>2, <2>3 DEF Sayable, MemoOK, NonceResult
  <2>5. p \in Req /\ ReqOK(p)
    BY <1>1, <1>6, <2>1, <2>3, <2>4, EvaluatedOK
  <2>6. req' = [req EXCEPT ![r] = p]
    BY <1>3, <1>4, <1>11, <2>1
  <2> QED BY <1>8, <2>5, <2>6
<1> QED BY <1>9, <1>10, <1>11

\* evaluate() without memory.
LEMMA EvaluateFailsOK ==
    ASSUME AccessInv, NEW r \in Request, EvaluateFails(r)
    PROVE  AccessInv'
<1>1. PICK q \in Req : q = req[r] /\ ReqOK(q) /\ ~q.ctx.done
  BY EvaluateStarts DEF EvaluateFails
<1>2. q.memo \in Memo /\ MemoOK(q.sig, q.memo) /\ q.ctx \in Ctx
  BY <1>1 DEF Req, ReqOK
<1>3. ZoneInv' /\ shown' \in [Key -> Nat]
  BY ZoneKept, EvaluateStarts DEF EvaluateFails
<1>4. ASSUME NEW p \in Req, ReqOK(p), req' = [req EXCEPT ![r] = p]
      PROVE  AccessInv'
  BY <1>3, <1>4, ReqReplaced
<1>5. CASE req' = [req EXCEPT ![r].ctx.done = TRUE, ![r].ctx.internal_error = TRUE]
  <2> DEFINE c == [q.ctx EXCEPT !.done = TRUE, !.internal_error = TRUE]
             p == [q EXCEPT !.ctx = c]
  <2>1. req' = [req EXCEPT ![r] = p]
    <3>1. req \in [Request -> Req]
      BY DEF AccessInv, AccessTypeOK
    <3> QED BY <1>1, <1>2, <1>5, <3>1 DEF Req, Ctx
  <2>2. c \in Ctx /\ c.done /\ c.internal_error
        /\ c.result = q.ctx.result /\ c.jwks = q.ctx.jwks
        /\ c.nonce_store_unavailable = q.ctx.nonce_store_unavailable
    BY <1>2 DEF Ctx
  <2> HIDE DEF c
  <2>3. /\ p \in Req /\ p.ctx = c /\ p.pc = q.pc /\ p.sig = q.sig /\ p.loc = q.loc
        /\ p.memo = q.memo /\ p.decision = q.decision
    BY <2>2 DEF Req
  <2> HIDE DEF p
  <2>4. q.ctx.result = "NOT_SIGNED" /\ ~q.ctx.nonce_store_unavailable
    BY <1>1 DEF ReqOK
  <2>5. VerdictOK(p)
    BY <2>2, <2>3, <2>4 DEF VerdictOK
  <2>6. ReqOK(p)
    BY <1>1, <2>2, <2>3, <2>5 DEF ReqOK
  <2> QED BY <1>4, <2>1, <2>3, <2>6
<1>6. ASSUME NEW k \in Resolved(q),
             req' = [req EXCEPT ![r] = Evaluated(q, k, "NOT_SIGNED", TRUE, FALSE, q.memo)]
      PROVE  AccessInv'
  <2>1. PICK p : p = Evaluated(q, k, "NOT_SIGNED", TRUE, FALSE, q.memo)
    OBVIOUS
  <2>2. Sayable(q, "NOT_SIGNED", TRUE, FALSE, q.memo) /\ "NOT_SIGNED" \in Result
    BY <1>2 DEF Sayable, Result
  <2>3. p \in Req /\ ReqOK(p)
    BY <1>1, <1>2, <2>1, <2>2, EvaluatedOK
  <2> QED BY <1>4, <1>6, <2>1, <2>3
<1> QED BY <1>1, <1>5, <1>6 DEF EvaluateFails

\* A memo that was just made.
LEMMA NewMemoIs ==
    ASSUME NEW q \in Req
    PROVE  /\ NewMemo(q) \in Memo
           /\ NewMemo(q).known = TRUE /\ NewMemo(q).result = "OK"
           /\ NewMemo(q).unavailable = FALSE /\ NewMemo(q).internal_error = FALSE
           /\ NewMemo(q).at = q.loc
<1>1. /\ NoMemo \in Memo /\ NoMemo.result = "OK"
      /\ NoMemo.unavailable = FALSE /\ NoMemo.internal_error = FALSE
  BY IdleType DEF NoMemo
<1>2. q.loc \in Location
  BY DEF Req
<1> QED BY <1>1, <1>2 DEF NewMemo, Memo

\* check_nonce() without the store.
LEMMA NonceNotAskedOK ==
    ASSUME AccessInv, NEW r \in Request, NonceNotAsked(r)
    PROVE  AccessInv'
<1>1. PICK q \in Req : q = req[r] /\ ReqOK(q) /\ ~q.ctx.done
  BY EvaluateStarts DEF NonceNotAsked
<1>2. PICK t \in Nat : t = clock[WorkerOf[r]]
  BY EvaluateStarts DEF NonceNotAsked
<1> DEFINE long == [NewMemo(q) EXCEPT !.result = "NONCE_TOO_LONG"]
           failed == [NewMemo(q) EXCEPT !.internal_error = TRUE]
<1>3. PICK k \in Resolved(q) :
        /\ AsksStore(q, t, k)
        /\ \/ req' = [req EXCEPT ![r] = Evaluated(q, k, "OK", TRUE, FALSE, NoMemo)]
           \/ /\ NonceLen[q.sig] = "long"
              /\ req' = [req EXCEPT ![r] =
                           Evaluated(q, k, "NONCE_TOO_LONG", FALSE, FALSE, long)]
           \/ /\ NonceLen[q.sig] = "fits"
              /\ req' = [req EXCEPT ![r] = Evaluated(q, k, "OK", TRUE, FALSE, failed)]
  BY <1>1, <1>2 DEF NonceNotAsked
<1>4. WellSigned(Msg[q.sig]) /\ SignerVouched(q)
  BY <1>3, OkIsVouched DEF AsksStore
<1>5. ZoneInv' /\ shown' \in [Key -> Nat]
  BY ZoneKept, EvaluateStarts DEF NonceNotAsked
<1>6. ASSUME NEW p \in Req, ReqOK(p), req' = [req EXCEPT ![r] = p]
      PROVE  AccessInv'
  BY <1>5, <1>6, ReqReplaced
<1>7. "OK" \in Result /\ "NONCE_TOO_LONG" \in Result
  BY DEF Result
<1>8. ASSUME NEW m \in Memo, MemoOK(q.sig, m),
             req' = [req EXCEPT ![r] = Evaluated(q, k, "OK", TRUE, FALSE, m)]
      PROVE  AccessInv'
  <2>1. PICK p : p = Evaluated(q, k, "OK", TRUE, FALSE, m)
    OBVIOUS
  <2>2. Sayable(q, "OK", TRUE, FALSE, m)
    BY <1>4, <1>8 DEF Sayable
  <2>3. p \in Req /\ ReqOK(p)
    BY <1>1, <1>7, <2>1, <2>2, EvaluatedOK
  <2> QED BY <1>6, <1>8, <2>1, <2>3
<1>9. CASE /\ NonceLen[q.sig] = "long"
           /\ req' = [req EXCEPT ![r] =
                        Evaluated(q, k, "NONCE_TOO_LONG", FALSE, FALSE, long)]
  <2>1. /\ long \in Memo /\ long.result = "NONCE_TOO_LONG"
        /\ long.unavailable = FALSE /\ long.at = q.loc
    BY <1>7, NewMemoIs DEF Memo
  <2>2. long \in Memo /\ MemoOK(q.sig, long)
    BY <1>9, <2>1 DEF MemoOK, NonceResult
  <2> HIDE DEF long
  <2>3. PICK p : p = Evaluated(q, k, "NONCE_TOO_LONG", FALSE, FALSE, long)
    OBVIOUS
  <2>4. Sayable(q, "NONCE_TOO_LONG", FALSE, FALSE, long)
    BY <2>2 DEF Sayable
  <2>5. p \in Req /\ ReqOK(p)
    BY <1>1, <1>7, <2>2, <2>3, <2>4, EvaluatedOK
  <2> QED BY <1>6, <1>9, <2>3, <2>5
<1>10. failed \in Memo /\ MemoOK(q.sig, failed)
  <2>1. /\ failed \in Memo /\ failed.result = "OK"
        /\ failed.unavailable = FALSE /\ failed.at = q.loc
    BY NewMemoIs DEF Memo
  <2> QED BY <2>1 DEF MemoOK, NonceResult
<1> HIDE DEF failed
<1> QED BY <1>3, <1>8, <1>9, <1>10, IdleType

\* With the keys k, the store is asked about the request q of slot r, answers
\* rc, and that is kept.
Asked(r, q, t, k, rc) ==
    /\ AsksStore(q, t, k) /\ NonceLen[q.sig] = "fits"
    /\ Check(WorkerOf[r], q.sig, q.loc) /\ rc = verdict'.rc
    /\ req' = [req EXCEPT ![r] =
          Evaluated(q, k, StoreResult(q.loc, rc), FALSE, rc = "ABORT",
                    [NewMemo(q) EXCEPT !.result = StoreResult(q.loc, rc),
                                       !.unavailable = (rc = "ABORT")])]

\* What check_nonce() does with the store.
LEMMA NonceAskedDoes ==
    ASSUME NEW r \in Request, NonceAsked(r), NEW q, q = req[r],
           NEW t, t = clock[WorkerOf[r]]
    PROVE  \E k, rc : k \in Resolved(q) /\ Asked(r, q, t, k, rc)
<1>1. PICK k \in Resolved(q) :
        /\ AsksStore(q, t, k) /\ NonceLen[q.sig] = "fits"
        /\ Check(WorkerOf[r], req[r].sig, req[r].loc)
        /\ req' = [req EXCEPT ![r] =
              Evaluated(q, k, StoreResult(q.loc, verdict'.rc), FALSE, verdict'.rc = "ABORT",
                        [NewMemo(q) EXCEPT !.result = StoreResult(q.loc, verdict'.rc),
                                           !.unavailable = (verdict'.rc = "ABORT")])]
  BY DEF NonceAsked
<1>2. Check(WorkerOf[r], q.sig, q.loc)
  BY <1>1 DEF Check
<1>3. PICK rc : rc = verdict'.rc
  OBVIOUS
<1> QED BY <1>1, <1>2, <1>3 DEF Asked

\* The answers of the store.
LEMMA StoreResults ==
    ASSUME NEW l, NEW rc \in {"OK", "DECLINED", "ABORT"}
    PROVE  /\ StoreResult(l, rc) \in NonceResult \ {"NONCE_TOO_LONG"}
           /\ StoreResult(l, rc) = "OK" /\ rc = "ABORT" => ~Conf[l].closed
           /\ StoreResult(l, rc) = "NONCE_STORE_UNAVAILABLE" =>
                 rc = "ABORT" /\ Conf[l].closed
           /\ StoreResult(l, rc) = "NONCE_REPLAYED" => rc = "DECLINED"
BY DEF StoreResult, NonceResult

\* check_nonce() with the store.
LEMMA NonceAskedOK ==
    ASSUME AccessInv, NEW r \in Request, NonceAsked(r)
    PROVE  AccessInv'
<1>1. PICK q \in Req : q = req[r] /\ ReqOK(q) /\ ~q.ctx.done
  BY EvaluateStarts DEF NonceAsked
<1>2. PICK t \in Nat : t = clock[WorkerOf[r]]
  BY EvaluateStarts DEF NonceAsked
<1>3. PICK k, rc : k \in Resolved(q) /\ Asked(r, q, t, k, rc)
  BY <1>1, <1>2, NonceAskedDoes
<1> DEFINE x == StoreResult(q.loc, rc)
           u == rc = "ABORT"
<1>4. WellSigned(Msg[q.sig]) /\ SignerVouched(q)
  BY <1>3, OkIsVouched DEF Asked, AsksStore
<1>5. ZoneInv' /\ verdict'.rc \in {"OK", "DECLINED", "ABORT"}
  <2>1. WorkerOf[r] \in Worker /\ q.sig \in Sig /\ q.loc \in Location
    BY AccessAssumption DEF Req
  <2> QED BY <1>3, <2>1, CheckStep DEF AccessInv, Asked, ZoneStep
<1>6. shown' \in [Key -> Nat]
  BY EvaluateStarts DEF NonceAsked
<1>7. /\ x \in NonceResult \ {"NONCE_TOO_LONG"} /\ u \in BOOLEAN
      /\ x = "OK" /\ u => ~Conf[q.loc].closed
      /\ x = "NONCE_STORE_UNAVAILABLE" => u /\ Conf[q.loc].closed
  BY <1>3, <1>5, StoreResults DEF Asked
<1> HIDE DEF x, u
<1>8. PICK m : m = [NewMemo(q) EXCEPT !.result = x, !.unavailable = u]
  OBVIOUS
<1>9. x \in Result
  BY <1>7 DEF NonceResult, Result
<1>10. /\ m \in Memo /\ m.known = TRUE /\ m.result = x /\ m.unavailable = u
       /\ m.internal_error = FALSE /\ m.at = q.loc
  BY <1>7, <1>8, <1>9, NewMemoIs DEF Memo
<1>11. MemoOK(q.sig, m)
  BY <1>7, <1>10 DEF MemoOK, NonceResult
<1>12. Sayable(q, x, FALSE, u, m)
  BY <1>4, <1>7, <1>10, <1>11 DEF Sayable, NonceResult
<1>13. PICK p : p = Evaluated(q, k, x, FALSE, u, m)
  OBVIOUS
<1>14. p \in Req /\ ReqOK(p)
  BY <1>1, <1>7, <1>9, <1>10, <1>12, <1>13, EvaluatedOK
<1>15. req' = [req EXCEPT ![r] = p]
  BY <1>3, <1>8, <1>13 DEF Asked, x, u
<1> QED BY <1>5, <1>6, <1>14, <1>15, ReqReplaced

\* A request that goes on to the next phase, with or without a decision.
LEMMA MovedOK ==
    ASSUME NEW q \in Req, ReqOK(q), NEW pc \in Pc, NEW d \in Decision,
           pc # "decided" => d = "none",
           pc \in {"idle", "preaccess", "fetching"} => q.ctx.jwks = "none",
           d = "OK" => q.ctx.done /\ q.ctx.result = "OK" /\ ~q.ctx.internal_error,
           NEW p, p = [q EXCEPT !.pc = pc, !.decision = d]
    PROVE  p \in Req /\ ReqOK(p)
<1>1. /\ p \in Req /\ p.pc = pc /\ p.decision = d /\ p.sig = q.sig
      /\ p.loc = q.loc /\ p.ctx = q.ctx /\ p.memo = q.memo
  BY DEF Req
<1>2. VerdictOK(p) = VerdictOK(q)
  BY <1>1 DEF VerdictOK, SignerVouched, Offered
<1> QED BY <1>1, <1>2 DEF ReqOK

\* p is the request q after its directory phase.
LearntAs(p, q) ==
    /\ p \in Req /\ p.pc = "access" /\ p.sig = q.sig /\ p.loc = q.loc
    /\ p.memo = q.memo /\ p.decision = q.decision
    /\ p.ctx.done = q.ctx.done /\ p.ctx.result = q.ctx.result
    /\ p.ctx.internal_error = q.ctx.internal_error
    /\ p.ctx.nonce_store_unavailable = q.ctx.nonce_store_unavailable
    /\ p.ctx.jwks = "none" => p.ctx.keys_unavailable

\* The directory phase brings a document or says that it could not, and
\* changes nothing else.
LEMMA LearntFields ==
    ASSUME NEW q \in Req, NEW p \in Learnt(q)
    PROVE  LearntAs(p, q)
<1> DEFINE phase == [q EXCEPT !.pc = "access"]
<1>1. phase \in Req /\ phase.ctx \in Ctx /\ phase.ctx = q.ctx
      /\ phase.pc = "access" /\ phase.sig = q.sig /\ phase.loc = q.loc
      /\ phase.memo = q.memo /\ phase.decision = q.decision
  BY DEF Req, Pc
<1>2. p \in {[phase EXCEPT !.ctx.jwks = doc] : doc \in Document}
         \cup {[phase EXCEPT !.ctx.jwks = doc, !.ctx.directory_reason = "FAILED",
                             !.ctx.keys_unavailable = (doc = "none")] :
                  doc \in Document \cup {"none"}}
  BY DEF Learnt
<1> HIDE DEF phase
<1>3. ASSUME NEW doc \in Document \cup {"none"}, NEW why \in FetchReason,
             NEW lost \in BOOLEAN, doc = "none" => lost, NEW c,
             c = [phase.ctx EXCEPT !.jwks = doc, !.directory_reason = why,
                                   !.keys_unavailable = lost],
             p = [phase EXCEPT !.ctx = c]
      PROVE  LearntAs(p, q)
  <2>1. c \in Ctx /\ c.done = q.ctx.done /\ c.result = q.ctx.result
        /\ c.internal_error = q.ctx.internal_error
        /\ c.nonce_store_unavailable = q.ctx.nonce_store_unavailable
        /\ c.jwks = doc /\ c.keys_unavailable = lost
    BY <1>1, <1>3 DEF Ctx
  <2>2. /\ p \in Req /\ p.pc = phase.pc /\ p.sig = phase.sig /\ p.loc = phase.loc
        /\ p.memo = phase.memo /\ p.decision = phase.decision /\ p.ctx = c
    BY <1>1, <1>3, <2>1 DEF Req
  <2> QED BY <1>1, <1>3, <2>1, <2>2 DEF LearntAs
<1>4. CASE p \in {[phase EXCEPT !.ctx.jwks = doc] : doc \in Document}
  <2>1. PICK doc \in Document : p = [phase EXCEPT !.ctx.jwks = doc]
    BY <1>4
  <2>2. phase.ctx.directory_reason \in FetchReason /\ phase.ctx.keys_unavailable \in BOOLEAN
    BY <1>1 DEF Ctx
  <2>3. doc # "none"
    BY AccessAssumption DEF Document
  <2>4. p = [phase EXCEPT !.ctx = [phase.ctx EXCEPT
               !.jwks = doc, !.directory_reason = phase.ctx.directory_reason,
               !.keys_unavailable = phase.ctx.keys_unavailable]]
    BY <1>1, <2>1 DEF Req, Ctx
  <2> QED BY <1>3, <2>2, <2>3, <2>4
<1>5. CASE p \in {[phase EXCEPT !.ctx.jwks = doc, !.ctx.directory_reason = "FAILED",
                                !.ctx.keys_unavailable = (doc = "none")] :
                    doc \in Document \cup {"none"}}
  <2>1. PICK doc \in Document \cup {"none"} :
          p = [phase EXCEPT !.ctx.jwks = doc, !.ctx.directory_reason = "FAILED",
                            !.ctx.keys_unavailable = (doc = "none")]
    BY <1>5
  <2>2. PICK lost \in BOOLEAN : lost = (doc = "none")
    OBVIOUS
  <2>3. p = [phase EXCEPT !.ctx = [phase.ctx EXCEPT
               !.jwks = doc, !.directory_reason = "FAILED", !.keys_unavailable = lost]]
    BY <1>1, <2>1, <2>2 DEF Req, Ctx
  <2>4. "FAILED" \in FetchReason
    BY DEF FetchReason
  <2> QED BY <1>3, <2>2, <2>3, <2>4
<1> QED BY <1>2, <1>4, <1>5

\* What the request learns does not take back a verdict that an early reader
\* asked for.
LEMMA LearntOK ==
    ASSUME NEW q \in Req, ReqOK(q), q.pc \in {"preaccess", "fetching"},
           NEW p \in Learnt(q)
    PROVE  p \in Req /\ ReqOK(p)
<1>1. LearntAs(p, q)
  BY LearntFields
<1>2. q.ctx.jwks = "none" /\ q.decision = "none"
  BY DEF ReqOK
<1>3. SignerVouched(q) => SignerVouched(p)
  <2>1. Offered(q) = <<>>
    BY <1>2 DEF Offered
  <2> QED BY <1>1, <2>1, StaticSuffices DEF LearntAs, SignerVouched
<1>4. VerdictOK(q) => VerdictOK(p)
  BY <1>1, <1>3 DEF LearntAs, VerdictOK
<1> QED BY <1>1, <1>2, <1>4 DEF LearntAs, ReqOK

\* The ACCESS handler says OK only after a complete evaluation that says so.
LEMMA DecisionType ==
    ASSUME NEW l \in Location, NEW c \in Ctx, NEW d, d = AccessDecision(l, c)
    PROVE  d \in Decision /\ (d = "OK" => c.result = "OK" /\ ~c.internal_error)
<1> DEFINE st == Conf[l].status
<1>1. st \in [{"missing", "invalid", "parse_error", "replay"} -> Status]
  BY AccessAssumption DEF LocConf
<1>2. \A code \in Status : DenyCode(l, code) \in Status
  BY DEF DenyCode, Status
<1> HIDE DEF st
<1>3. /\ st["missing"] \in Status /\ st["invalid"] \in Status
      /\ st["parse_error"] \in Status /\ st["replay"] \in Status /\ "503" \in Status
  BY <1>1 DEF Status
<1>4. "OK" \notin Status
  BY DEF Status
<1>5. d \in {"internal", "DECLINED", "OK", DenyCode(l, st["missing"]),
             DenyCode(l, st["invalid"]), DenyCode(l, st["parse_error"]),
             DenyCode(l, st["replay"]), DenyCode(l, "503")}
  BY DEF AccessDecision, st
<1>6. d \in {"internal", "DECLINED", "OK"} \cup Status
  BY <1>2, <1>3, <1>5
<1>7. d = "OK" => c.result = "OK" /\ ~c.internal_error
  BY <1>2, <1>3, <1>4 DEF AccessDecision, st
<1> QED BY <1>6, <1>7 DEF Decision

\* A step of a request that leaves the store alone.
LEMMA RequestStepOK ==
    ASSUME AccessInv, NEW r \in Request,
           \/ \E s \in Sig, l \in Location : Arrive(r, s, l)
           \/ DirectoryPhase(r) \/ AccessFails(r) \/ AccessHandler(r)
           \/ \E l \in Location : Redirect(r, l)
           \/ Finish(r)
    PROVE  AccessInv'
<1>1. PICK q \in Req : q = req[r] /\ ReqOK(q)
  BY DEF AccessInv, AccessTypeOK
<1>2. req \in [Request -> Req] /\ shown \in [Key -> Nat]
  BY DEF AccessInv, AccessTypeOK
<1>3. ASSUME NEW p \in Req, ReqOK(p), req' = [req EXCEPT ![r] = p],
             UNCHANGED nonceVars, shown' \in [Key -> Nat]
      PROVE  AccessInv'
  BY <1>3, ZoneKept, ReqReplaced
<1>4. ASSUME NEW pc \in Pc, NEW d \in Decision,
             pc # "decided" => d = "none",
             pc \in {"idle", "preaccess", "fetching"} => q.ctx.jwks = "none",
             d = "OK" => q.ctx.done /\ q.ctx.result = "OK" /\ ~q.ctx.internal_error,
             req' = [req EXCEPT ![r] = [q EXCEPT !.pc = pc, !.decision = d]],
             UNCHANGED <<nonceVars, shown>>
      PROVE  AccessInv'
  <2>1. PICK p : p = [q EXCEPT !.pc = pc, !.decision = d]
    OBVIOUS
  <2>2. p \in Req /\ ReqOK(p)
    BY <1>1, <1>4, <2>1, MovedOK
  <2> QED BY <1>2, <1>3, <1>4, <2>1, <2>2
<1>5. ASSUME NEW s \in Sig, NEW l \in Location, Arrive(r, s, l)
      PROVE  AccessInv'
  <2> DEFINE p == [IdleReq EXCEPT !.pc = "preaccess", !.sig = s, !.loc = l]
  <2>1. /\ p \in Req /\ p.pc = "preaccess" /\ p.decision = IdleReq.decision
        /\ p.ctx = NoCtx /\ p.memo = NoMemo
    BY IdleType DEF Req, Pc
  <2>2. p.decision = "none"
    BY <2>1 DEF IdleReq
  <2> HIDE DEF p
  <2>3. ReqOK(p)
    BY <2>1, <2>2, IdleType DEF ReqOK, NoCtx
  <2>4. NonceOf[s] \in Key
    BY WindowAssumption
  <2>5. shown' \in [Key -> Nat]
    <3>1. shown' = [shown EXCEPT ![NonceOf[s]] = @ + 1]
      BY <1>5 DEF Arrive
    <3> QED BY <1>2, <2>4, <3>1
  <2> QED BY <1>3, <1>5, <2>1, <2>3, <2>5 DEF Arrive, p
<1>6. CASE DirectorySkips(r)
  <2>1. q.decision = "none"
    BY <1>1, <1>6 DEF DirectorySkips, ReqOK
  <2>2. req' = [req EXCEPT ![r] = [q EXCEPT !.pc = "access", !.decision = "none"]]
    BY <1>1, <1>2, <1>6, <2>1 DEF DirectorySkips, Req
  <2> QED BY <1>4, <1>6, <2>2 DEF DirectorySkips, Pc, Decision
<1>7. CASE DirectoryErrors(r) \/ Finish(r)
  BY <1>2, <1>3, <1>7, IdleType DEF DirectoryErrors, Finish
<1>8. CASE DirectoryLookup(r) \/ DirectoryDone(r)
  <2>1. PICK p \in Learnt(q) : req' = [req EXCEPT ![r] = p]
    BY <1>1, <1>8 DEF DirectoryLookup, DirectoryDone
  <2>2. p \in Req /\ ReqOK(p)
    BY <1>1, <1>8, <2>1, LearntOK DEF DirectoryLookup, DirectoryDone
  <2> QED BY <1>2, <1>3, <1>8, <2>1, <2>2 DEF DirectoryLookup, DirectoryDone
<1>9. CASE DirectoryPosts(r)
  <2>1. q.decision = "none" /\ q.ctx.jwks = "none"
    BY <1>1, <1>9 DEF DirectoryPosts, ReqOK
  <2>2. req' = [req EXCEPT ![r] = [q EXCEPT !.pc = "fetching", !.decision = "none"]]
    BY <1>1, <1>2, <1>9, <2>1 DEF DirectoryPosts, Req
  <2> QED BY <1>4, <1>9, <2>1, <2>2 DEF DirectoryPosts, Pc, Decision
<1>10. CASE AccessFails(r)
  <2>1. PICK d \in {"internal", "DECLINED"} :
           req' = [req EXCEPT ![r] = [q EXCEPT !.pc = "decided", !.decision = d]]
    BY <1>1, <1>2, <1>10 DEF AccessFails, Req
  <2> QED BY <1>4, <1>10, <2>1 DEF AccessFails, Pc, Decision
<1>11. CASE AccessHandler(r)
  <2>1. PICK d : d = IF Conf[q.loc].mode = "enforce" \/ Conf[q.loc].require
                     THEN AccessDecision(q.loc, q.ctx) ELSE "DECLINED"
    OBVIOUS
  <2>2. req' = [req EXCEPT ![r] = [q EXCEPT !.pc = "decided", !.decision = d]]
    BY <1>1, <1>2, <1>11, <2>1 DEF AccessHandler, Req
  <2>3. q.loc \in Location /\ q.ctx \in Ctx
    BY DEF Req
  <2>4. /\ d \in Decision
        /\ d = "OK" => q.ctx.done /\ q.ctx.result = "OK" /\ ~q.ctx.internal_error
    <3>1. CASE Conf[q.loc].mode = "enforce" \/ Conf[q.loc].require
      <4>1. q.ctx.done
        BY <1>1, <1>11, <3>1 DEF AccessHandler
      <4> QED BY <2>1, <2>3, <3>1, <4>1, DecisionType
    <3>2. CASE ~(Conf[q.loc].mode = "enforce" \/ Conf[q.loc].require)
      BY <2>1, <3>2 DEF Decision
    <3> QED BY <3>1, <3>2
  <2> QED BY <1>4, <1>11, <2>2, <2>4 DEF AccessHandler, Pc
<1>12. ASSUME NEW l \in Location, Redirect(r, l)
       PROVE  AccessInv'
  <2> DEFINE p == [q EXCEPT !.pc = "preaccess", !.loc = l, !.ctx = NoCtx,
                            !.decision = "none"]
  <2>1. req' = [req EXCEPT ![r] = p]
    BY <1>1, <1>2, <1>12 DEF Redirect, Req
  <2>2. /\ p \in Req /\ p.pc = "preaccess" /\ p.decision = "none"
        /\ p.ctx = NoCtx /\ p.memo = q.memo /\ p.sig = q.sig
    BY IdleType DEF Req, Pc, Decision
  <2> HIDE DEF p
  <2>3. ReqOK(p)
    BY <1>1, <2>2 DEF ReqOK, NoCtx
  <2> QED BY <1>2, <1>3, <1>12, <2>1, <2>2, <2>3 DEF Redirect
<1> QED BY <1>5, <1>6, <1>7, <1>8, <1>9, <1>10, <1>11, <1>12 DEF DirectoryPhase

\* Every step keeps AccessInv.
LEMMA AccessInvNext == AccessInv /\ [AccessNext]_accessVars => AccessInv'
<1> SUFFICES ASSUME AccessInv, [AccessNext]_accessVars PROVE AccessInv'
  OBVIOUS
<1>1. ASSUME [NonceNext]_nonceVars, UNCHANGED <<req, shown>>
      PROVE  AccessInv'
  <2>1. ZoneInv' /\ NonceTypeOK'
    BY <1>1, ZoneInvNext DEF AccessInv, ZoneInv
  <2>2. \A r \in Request : ReqOK(req[r])'
    BY <1>1 DEF AccessInv, ReqOK, MemoOK, VerdictOK, SignerVouched, Offered
  <2> QED BY <1>1, <2>1, <2>2 DEF AccessInv, AccessTypeOK
<1>2. CASE UNCHANGED accessVars
  BY <1>1, <1>2 DEF accessVars, nonceVars
<1>3. CASE NonceTick /\ UNCHANGED <<req, shown>>
  BY <1>1, <1>3 DEF NonceNext
<1>4. ASSUME NEW w \in Worker, NonceUpdateTime(w), UNCHANGED <<req, shown>>
      PROVE  AccessInv'
  BY <1>1, <1>4 DEF NonceNext
<1>5. ASSUME NEW r \in Request, Evaluate(r)
      PROVE  AccessInv'
  BY <1>5, EvaluatePlainOK, EvaluateFailsOK, NonceNotAskedOK, NonceAskedOK DEF Evaluate
<1> QED BY <1>2, <1>3, <1>4, <1>5, RequestStepOK DEF AccessNext

-----------------------------------------------------------------------------
(* The theorems. *)

\* Every variable of the request model keeps its type.
THEOREM AccessTypeCorrect == AccessSpec => []AccessTypeOK
<1>1. AccessInv => AccessTypeOK
  BY DEF AccessInv
<1> QED BY <1>1, AccessInvInit, AccessInvNext, PTL DEF AccessSpec

\* A request counts as verified only if its message is well signed by a signer
\* that the keys at hand vouch for and, with NGX_OK, if its nonce was new or a
\* failed store was let pass by the location that asked it, and is told in ctx:
\* for any messages, key documents, configurations, early readers and redirects.
THEOREM VerifiedIsVerified == AccessSpec => []OkMeansVerified
<1>1. AccessInv => OkMeansVerified
  <2> SUFFICES ASSUME AccessInv, NEW r \in Request, NEW q, q = req[r]
               PROVE  /\ (\/ q.decision = "OK" \/ VariableVerified(q.ctx) = "1"
                          \/ VariableKeyid(q) # "unset" \/ VariableAgentSet(q))
                         => WellSigned(Msg[q.sig]) /\ SignerVouched(q)
                      /\ q.decision = "OK" =>
                            /\ ~q.ctx.internal_error
                            /\ Conf[q.loc].nonce_store /\ NonceLen[q.sig] # "none"
                               => FoundNew(q.memo) \/ FailedOpen(q)
    BY DEF OkMeansVerified
  <2>1. ReqOK(q)
    BY DEF AccessInv
  <2>2. (\/ q.decision = "OK" \/ VariableVerified(q.ctx) = "1"
         \/ VariableKeyid(q) # "unset" \/ VariableAgentSet(q))
        => q.ctx.done /\ q.ctx.result = "OK"
    BY <2>1 DEF ReqOK, VariableVerified, VariableKeyid, VariableAgentSet
  <2>3. ASSUME q.decision = "OK", Conf[q.loc].nonce_store, NonceLen[q.sig] # "none"
        PROVE  FoundNew(q.memo) \/ FailedOpen(q)
    <3>1. /\ q.memo.known /\ q.memo.result = "OK" /\ ~q.memo.internal_error
          /\ q.memo.unavailable = q.ctx.nonce_store_unavailable
      BY <2>1, <2>3 DEF ReqOK, VerdictOK
    <3>2. q.memo.unavailable => ~Conf[q.memo.at].closed
      BY <2>1, <3>1 DEF ReqOK, MemoOK
    <3> QED BY <3>1, <3>2 DEF FoundNew, FailedOpen
  <2> QED BY <2>1, <2>2, <2>3 DEF ReqOK, VerdictOK
<1> QED BY <1>1, AccessInvInit, AccessInvNext, PTL DEF AccessSpec

\* With nonce_store_failure closed nobody passes whose nonce was not checked,
\* unless an open location had asked for the check.
THEOREM ClosedIsClosed == AccessSpec => []ClosedMeansChecked
<1>1. AccessInv => ClosedMeansChecked
  BY DEF AccessInv, ReqOK, VerdictOK, MemoOK, ClosedMeansChecked
<1> QED BY <1>1, AccessInvInit, AccessInvNext, PTL DEF AccessSpec

\* A check that was not completed is told by $httpsig_error.
THEOREM SilenceIsVerified == AccessSpec => []SilentMeansChecked
<1>1. AccessInv => SilentMeansChecked
  <2> SUFFICES ASSUME AccessInv, NEW r \in Request, NEW q, q = req[r], q.ctx.done,
                      Msg[q.sig].input # "absent", Tagged(Msg[q.sig]) # {},
                      VariableError(q.ctx) = "unset"
               PROVE  /\ WellSigned(Msg[q.sig]) /\ SignerVouched(q)
                      /\ Conf[q.loc].nonce_store /\ NonceLen[q.sig] = "fits"
                         => FoundNew(q.memo)
    BY DEF SilentMeansChecked
  <2>1. VerdictOK(q) /\ q.ctx.result \in Result /\ q.ctx.directory_reason \in FetchReason
    BY DEF AccessInv, ReqOK, AccessTypeOK, Req, Ctx
  <2>2. /\ q.ctx.result \in {"OK", "NOT_SIGNED"} /\ ~q.ctx.internal_error
        /\ ~q.ctx.nonce_store_unavailable
    BY <2>1 DEF VariableError, Result, FetchReason
  <2> QED BY <2>1, <2>2 DEF VerdictOK, FoundNew
<1> QED BY <1>1, AccessInvInit, AccessInvNext, PTL DEF AccessSpec

-----------------------------------------------------------------------------
(* What an evaluation makes of a request. *)

\* p is the request q after an evaluation at time t.  The verdict is that on
\* the message with the keys at hand, that of the nonce check, or none.
Outcome(p, q, t) ==
    /\ p.pc = q.pc /\ p.sig = q.sig /\ p.loc = q.loc /\ p.decision = q.decision
    /\ p.ctx.done /\ p.ctx.jwks = q.ctx.jwks
    /\ q.ctx.keys_unavailable => p.ctx.keys_unavailable
    /\ p.memo # q.memo => ~q.memo.known
    /\ \/ p.ctx.internal_error
       \/ \E k \in Resolved(q) : /\ p.ctx.result = Verified(q, t, k)
                                 /\ p.ctx.starved = (k.keys = <<>> /\ k.dynamic # <<>>)
       \/ p.ctx.result = "OK"
       \/ /\ p.ctx.result = "NONCE_MISSING"
          /\ NonceLen[q.sig] = "none" /\ Conf[q.loc].nonce_required
       \/ /\ p.ctx.result = p.memo.result
          /\ p.ctx.nonce_store_unavailable = p.memo.unavailable

\* The outcome that leaves the memo m.
Leaves(p, q, t, m) == Outcome(p, q, t) /\ p.memo = m

\* The verdicts that make an Outcome.
Verdict(q, t, k, result, internal, unavailable, memo) ==
    /\ memo # q.memo => ~q.memo.known
    /\ \/ internal
       \/ k \in Resolved(q) /\ result = Verified(q, t, k)
       \/ result = "OK"
       \/ /\ result = "NONCE_MISSING"
          /\ NonceLen[q.sig] = "none" /\ Conf[q.loc].nonce_required
       \/ result = memo.result /\ unavailable = memo.unavailable

\* An Evaluated request is an Outcome.
LEMMA EvaluatedOutcome ==
    ASSUME NEW q \in Req, NEW k, NEW result \in Result, NEW internal,
           NEW unavailable, {internal, unavailable} \subseteq BOOLEAN, NEW memo \in Memo,
           NEW t, Verdict(q, t, k, result, internal, unavailable, memo),
           NEW p, p = Evaluated(q, k, result, internal, unavailable, memo)
    PROVE  Leaves(p, q, t, memo)
<1>1. EvaluatedAs(p, q, k, result, internal, unavailable, memo)
  BY EvaluatedFields
<1> QED BY <1>1 DEF EvaluatedAs, Verdict, Outcome, Leaves

\* Every evaluation has an outcome; a new memo says "replayed" only if the nonce
\* was on record, and there is one if a nonce is entered.
LEMMA EvaluateOutcome ==
    ASSUME AccessInv, NEW r \in Request, Evaluate(r)
    PROVE  \E p : /\ req' = [req EXCEPT ![r] = p]
                  /\ Outcome(p, req[r], clock[WorkerOf[r]])
                  /\ p.memo # req[r].memo /\ p.memo.result = "NONCE_REPLAYED"
                     => record[NonceOf[req[r].sig]] # 0
                  /\ \A n \in Key : record'[n] # 0 /\ record[n] = 0
                     => n = NonceOf[req[r].sig] /\ p.memo.known
<1>1. MayEvaluate(r)
  BY DEF Evaluate, EvaluatePlain, EvaluateFails, NonceNotAsked, NonceAsked
<1>2. req \in [Request -> Req]
  BY DEF AccessInv, AccessTypeOK
<1>q. PICK q \in Req : q = req[r]
  BY <1>2
<1>t. PICK t \in Nat : t = clock[WorkerOf[r]]
  BY <1>1, EvaluateStarts
<1> SUFFICES \E p : /\ req' = [req EXCEPT ![r] = p] /\ Outcome(p, q, t)
                    /\ p.memo # q.memo /\ p.memo.result = "NONCE_REPLAYED"
                       => record[NonceOf[q.sig]] # 0
                    /\ \A n \in Key : record'[n] # 0 /\ record[n] = 0
                       => n = NonceOf[q.sig] /\ p.memo.known
  BY <1>q, <1>t
<1>r. EvaluatePlain(r) \/ EvaluateFails(r) \/ NonceNotAsked(r) => record' = record
  BY DEF EvaluatePlain, EvaluateFails, NonceNotAsked, nonceVars
<1>3. /\ q.memo \in Memo /\ q.memo.result \in Result /\ q.ctx \in Ctx
      /\ {q.memo.internal_error, q.memo.unavailable} \subseteq BOOLEAN
  BY <1>2 DEF Req, Memo
<1>4. /\ "NOT_SIGNED" \in Result /\ "OK" \in Result
      /\ "NONCE_MISSING" \in Result /\ "NONCE_TOO_LONG" \in Result
  BY DEF Result
<1>5. CASE EvaluatePlain(r)
  <2>1. PICK k \in Resolved(q) :
          /\ ~AsksStore(q, t, k)
          /\ req' = [req EXCEPT ![r] =
               IF Verified(q, t, k) # "OK" \/ ~Conf[q.loc].nonce_store
               THEN Evaluated(q, k, Verified(q, t, k), FALSE, FALSE, q.memo)
               ELSE IF NonceLen[q.sig] = "none"
               THEN Evaluated(q, k, IF Conf[q.loc].nonce_required
                                    THEN "NONCE_MISSING" ELSE "OK", FALSE, FALSE, q.memo)
               ELSE Evaluated(q, k, q.memo.result, q.memo.internal_error,
                              q.memo.unavailable, q.memo)]
    BY <1>5, <1>q, <1>t DEF EvaluatePlain
  <2>2. PICK res \in Result : res = Verified(q, t, k)
    BY VerifiedIs
  <2>3. CASE res # "OK" \/ ~Conf[q.loc].nonce_store
    <3>1. PICK p : p = Evaluated(q, k, res, FALSE, FALSE, q.memo)
      OBVIOUS
    <3>2. Leaves(p, q, t, q.memo)
      <4>1. Verdict(q, t, k, res, FALSE, FALSE, q.memo)
        BY <2>2 DEF Verdict
      <4> QED BY <1>2, <1>3, <3>1, <4>1, EvaluatedOutcome
    <3> QED BY <1>5, <1>r, <2>1, <2>2, <2>3, <3>1, <3>2 DEF Leaves
  <2>4. CASE res = "OK" /\ Conf[q.loc].nonce_store /\ NonceLen[q.sig] = "none"
    <3>1. PICK x : x = IF Conf[q.loc].nonce_required THEN "NONCE_MISSING" ELSE "OK"
      OBVIOUS
    <3>2. PICK p : p = Evaluated(q, k, x, FALSE, FALSE, q.memo)
      OBVIOUS
    <3>3. x \in Result /\ (x = "OK" \/ (x = "NONCE_MISSING" /\ Conf[q.loc].nonce_required))
      BY <1>4, <3>1
    <3>4. Leaves(p, q, t, q.memo)
      <4>1. Verdict(q, t, k, x, FALSE, FALSE, q.memo)
        BY <2>4, <3>3 DEF Verdict
      <4> QED BY <1>2, <1>3, <3>2, <3>3, <4>1, EvaluatedOutcome
    <3> QED BY <1>5, <1>r, <2>1, <2>2, <2>4, <3>1, <3>2, <3>4 DEF Leaves
  <2>5. CASE res = "OK" /\ Conf[q.loc].nonce_store /\ NonceLen[q.sig] # "none"
    <3>1. PICK p : p = Evaluated(q, k, q.memo.result, q.memo.internal_error,
                                 q.memo.unavailable, q.memo)
      OBVIOUS
    <3>2. Leaves(p, q, t, q.memo)
      <4>1. Verdict(q, t, k, q.memo.result, q.memo.internal_error, q.memo.unavailable, q.memo)
        BY DEF Verdict
      <4> QED BY <1>2, <1>3, <3>1, <4>1, EvaluatedOutcome
    <3> QED BY <1>5, <1>r, <2>1, <2>2, <2>5, <3>1, <3>2 DEF Leaves
  <2> QED BY <2>3, <2>4, <2>5
<1>6. CASE EvaluateFails(r)
  <2>1. CASE req' = [req EXCEPT ![r].ctx.done = TRUE, ![r].ctx.internal_error = TRUE]
    <3> DEFINE c == [q.ctx EXCEPT !.done = TRUE, !.internal_error = TRUE]
               p == [q EXCEPT !.ctx = c]
    <3>1. req' = [req EXCEPT ![r] = p]
      BY <1>2, <1>3, <1>q, <2>1 DEF Req, Ctx
    <3>2. /\ c.done /\ c.internal_error /\ c.jwks = q.ctx.jwks
          /\ c.keys_unavailable = q.ctx.keys_unavailable
      BY <1>3 DEF Ctx
    <3> HIDE DEF c
    <3>3. /\ p.ctx = c /\ p.pc = q.pc /\ p.sig = q.sig /\ p.loc = q.loc
          /\ p.memo = q.memo /\ p.decision = q.decision
      BY <1>2 DEF Req
    <3> HIDE DEF p
    <3> QED BY <1>6, <1>r, <3>1, <3>2, <3>3 DEF Outcome
  <2>2. CASE \E k \in Resolved(q) : req' = [req EXCEPT ![r] =
                      Evaluated(q, k, "NOT_SIGNED", TRUE, FALSE, q.memo)]
    <3>1. PICK k, p : /\ p = Evaluated(q, k, "NOT_SIGNED", TRUE, FALSE, q.memo)
                      /\ req' = [req EXCEPT ![r] = p]
      BY <2>2
    <3>2. Leaves(p, q, t, q.memo)
      <4>1. Verdict(q, t, k, "NOT_SIGNED", TRUE, FALSE, q.memo)
        BY DEF Verdict
      <4> QED BY <1>2, <1>3, <1>4, <3>1, <4>1, EvaluatedOutcome
    <3> QED BY <1>6, <1>r, <3>1, <3>2 DEF Leaves
  <2> QED BY <1>6, <1>q, <2>1, <2>2 DEF EvaluateFails
<1>7. CASE NonceNotAsked(r)
  <2> DEFINE long == [NewMemo(q) EXCEPT !.result = "NONCE_TOO_LONG"]
             failed == [NewMemo(q) EXCEPT !.internal_error = TRUE]
  <2>1. PICK k \in Resolved(q) :
          /\ AsksStore(q, t, k)
          /\ \/ req' = [req EXCEPT ![r] = Evaluated(q, k, "OK", TRUE, FALSE, NoMemo)]
             \/ req' = [req EXCEPT ![r] =
                          Evaluated(q, k, "NONCE_TOO_LONG", FALSE, FALSE, long)]
             \/ req' = [req EXCEPT ![r] = Evaluated(q, k, "OK", TRUE, FALSE, failed)]
    BY <1>7, <1>q, <1>t DEF NonceNotAsked
  <2>2. ~q.memo.known
    BY <2>1 DEF AsksStore
  <2>3. long \in Memo /\ long.result = "NONCE_TOO_LONG" /\ long.unavailable = FALSE
    BY <1>2, <1>4, NewMemoIs DEF Memo
  <2>4. failed \in Memo /\ failed.result = "OK"
    BY <1>2, NewMemoIs DEF Memo
  <2>5. NoMemo \in Memo /\ NoMemo.result = "OK"
    BY IdleType DEF NoMemo
  <2> HIDE DEF long, failed
  <2>6. ASSUME NEW m \in Memo, m.result = "OK", NEW p,
               p = Evaluated(q, k, "OK", TRUE, FALSE, m)
        PROVE  Leaves(p, q, t, m)
    <3>1. Verdict(q, t, k, "OK", TRUE, FALSE, m)
      BY <2>2 DEF Verdict
    <3> QED BY <1>2, <1>4, <2>6, <3>1, EvaluatedOutcome
  <2>7. ASSUME NEW p, p = Evaluated(q, k, "NONCE_TOO_LONG", FALSE, FALSE, long)
        PROVE  Leaves(p, q, t, long)
    <3>1. Verdict(q, t, k, "NONCE_TOO_LONG", FALSE, FALSE, long)
      BY <2>2, <2>3 DEF Verdict
    <3> QED BY <1>2, <1>4, <2>3, <2>7, <3>1, EvaluatedOutcome
  <2>8. PICK p, m : /\ req' = [req EXCEPT ![r] = p] /\ Leaves(p, q, t, m)
                    /\ m.result # "NONCE_REPLAYED"
    <3>1. CASE req' = [req EXCEPT ![r] = Evaluated(q, k, "OK", TRUE, FALSE, NoMemo)]
      BY <2>5, <2>6, <3>1
    <3>2. CASE req' = [req EXCEPT ![r] = Evaluated(q, k, "OK", TRUE, FALSE, failed)]
      BY <2>4, <2>6, <3>2
    <3>3. CASE req' = [req EXCEPT ![r] =
                         Evaluated(q, k, "NONCE_TOO_LONG", FALSE, FALSE, long)]
      <4>1. PICK p : p = Evaluated(q, k, "NONCE_TOO_LONG", FALSE, FALSE, long)
        OBVIOUS
      <4>2. Leaves(p, q, t, long) /\ long.result # "NONCE_REPLAYED"
        BY <2>3, <2>7, <4>1
      <4> QED BY <3>3, <4>1, <4>2
    <3> QED BY <2>1, <3>1, <3>2, <3>3
  <2> QED BY <1>7, <1>r, <2>8 DEF Leaves
<1>8. CASE NonceAsked(r)
  <2>1. PICK k, rc : k \in Resolved(q) /\ Asked(r, q, t, k, rc)
    BY <1>8, <1>q, <1>t, NonceAskedDoes
  <2>2. ~q.memo.known
    BY <2>1 DEF Asked, AsksStore
  <2>3. /\ rc \in {"OK", "DECLINED", "ABORT"}
        /\ rc = "DECLINED" => record[NonceOf[q.sig]] # 0
        /\ \A n \in Key : record'[n] # 0 /\ record[n] = 0 => n = NonceOf[q.sig]
    <3>1. WorkerOf[r] \in Worker /\ q.sig \in Sig /\ q.loc \in Location
      BY <1>2, AccessAssumption DEF Req
    <3>2. Check(WorkerOf[r], q.sig, q.loc) /\ rc = verdict'.rc
      BY <2>1 DEF Asked
    <3> QED BY <3>1, <3>2, CheckStep DEF AccessInv, ZoneStep, Live
  <2> DEFINE x == StoreResult(q.loc, rc)
             u == rc = "ABORT"
  <2>4. x \in NonceResult /\ u \in BOOLEAN /\ (x = "NONCE_REPLAYED" => rc = "DECLINED")
    BY <2>3, StoreResults
  <2> HIDE DEF x, u
  <2>5. x \in Result
    BY <2>4 DEF NonceResult, Result
  <2>6. PICK m : m = [NewMemo(q) EXCEPT !.result = x, !.unavailable = u]
    OBVIOUS
  <2>7. m \in Memo /\ m.known /\ m.result = x /\ m.unavailable = u
    BY <1>2, <2>4, <2>5, <2>6, NewMemoIs DEF Memo
  <2>8. PICK p : p = Evaluated(q, k, x, FALSE, u, m)
    OBVIOUS
  <2>9. Leaves(p, q, t, m)
    <3>1. Verdict(q, t, k, x, FALSE, u, m)
      BY <2>2, <2>7 DEF Verdict
    <3> QED BY <1>2, <2>4, <2>5, <2>7, <2>8, <3>1, EvaluatedOutcome
  <2>10. req' = [req EXCEPT ![r] = p]
    BY <2>1, <2>6, <2>8 DEF Asked, x, u
  <2> QED BY <2>3, <2>4, <2>7, <2>9, <2>10 DEF Leaves
<1> QED BY <1>5, <1>6, <1>7, <1>8 DEF Evaluate

-----------------------------------------------------------------------------
(* What a step may never do. *)

\* A subrequest is posted by DirectoryPosts only.
LEMMA OnlyPosts ==
    ASSUME AccessInv, AccessNext, NEW x \in Request,
           req'[x].pc = "fetching", req[x].pc # "fetching"
    PROVE  Eligible(x)
<1>1. req \in [Request -> Req]
  BY DEF AccessInv, AccessTypeOK
<1>2. PICK r \in Request :
        \/ \E s \in Sig, l \in Location : Arrive(r, s, l)
        \/ DirectoryPhase(r) \/ Evaluate(r) \/ AccessFails(r) \/ AccessHandler(r)
        \/ \E l \in Location : Redirect(r, l)
        \/ Finish(r)
  BY DEF AccessNext
<1>3. PICK q \in Req : q = req[r]
  BY <1>1
<1>4. ASSUME NEW p, req' = [req EXCEPT ![r] = p], p.pc # "fetching" \/ p.pc = q.pc
      PROVE  FALSE
  BY <1>1, <1>3, <1>4
<1>5. ASSUME NEW s \in Sig, NEW l \in Location, Arrive(r, s, l)
      PROVE  FALSE
  <2> DEFINE p == [IdleReq EXCEPT !.pc = "preaccess", !.sig = s, !.loc = l]
  <2>1. p.pc = "preaccess" /\ req' = [req EXCEPT ![r] = p]
    BY <1>5, IdleType DEF Arrive, Req
  <2> HIDE DEF p
  <2> QED BY <1>4, <2>1
<1>6. ASSUME DirectorySkips(r) \/ DirectoryErrors(r) \/ AccessFails(r)
             \/ AccessHandler(r) \/ Finish(r)
      PROVE  FALSE
  <2>1. req'[r].pc \in {"access", "idle", "decided"} /\ \A y \in Request \ {r} : req'[y] = req[y]
    BY <1>1, <1>6 DEF DirectorySkips, DirectoryErrors, AccessFails, AccessHandler,
                      Finish, IdleReq, Req
  <2> QED BY <2>1
<1>7. CASE DirectoryLookup(r) \/ DirectoryDone(r)
  <2>1. PICK p \in Learnt(q) : req' = [req EXCEPT ![r] = p]
    BY <1>3, <1>7 DEF DirectoryLookup, DirectoryDone
  <2>2. p.pc = "access"
    BY <2>1, LearntFields DEF LearntAs
  <2> QED BY <1>4, <2>1, <2>2
<1>8. CASE DirectoryPosts(r)
  <2>1. x = r
    BY <1>1, <1>8 DEF DirectoryPosts
  <2> QED BY <1>8, <2>1 DEF DirectoryPosts
<1>9. CASE Evaluate(r)
  BY <1>3, <1>4, <1>9, EvaluateOutcome DEF Outcome
<1>10. ASSUME NEW l \in Location, Redirect(r, l)
       PROVE  FALSE
  <2>1. req'[r].pc = "preaccess" /\ \A y \in Request \ {r} : req'[y] = req[y]
    BY <1>1, <1>10 DEF Redirect, Req
  <2> QED BY <2>1
<1> QED BY <1>2, <1>5, <1>6, <1>7, <1>8, <1>9, <1>10 DEF DirectoryPhase

\* No message that is unsigned for the profile, or does not match it, makes
\* the server fetch a key directory.
THEOREM FetchesAreProfiled == AccessSpec => FetchOnlyProfiled
<1> DEFINE Profiled ==
        \A r \in Request :
            req'[r].pc = "fetching" /\ req[r].pc # "fetching" =>
               ProfileVerify(Msg[req[r].sig], TRUE, <<>>, <<>>)
                  \notin {"NOT_SIGNED", "PROFILE_MISMATCH"}
<1>1. AccessInv /\ [AccessNext]_accessVars => [Profiled]_accessVars
  <2> SUFFICES ASSUME AccessInv, AccessNext, NEW r \in Request,
                      req'[r].pc = "fetching", req[r].pc # "fetching"
               PROVE  ProfileVerify(Msg[req[r].sig], TRUE, <<>>, <<>>)
                         \notin {"NOT_SIGNED", "PROFILE_MISMATCH"}
    OBVIOUS
  <2>1. SelectLabel(Msg[req[r].sig])
    BY OnlyPosts DEF Eligible
  <2>2. Msg[req[r].sig] \in Message
    BY RequestData DEF AccessInv, AccessTypeOK
  <2>3. <<>> \in Handle
    BY DEF Handle
  <2> QED BY <2>1, <2>2, <2>3, NoFetchInVain
<1> QED BY <1>1, AccessInvInit, AccessInvNext, PTL DEF AccessSpec, FetchOnlyProfiled

\* Only check_nonce() of a verified request enters a nonce in the store.
THEOREM NoncesSpentByVerified == AccessSpec => NonceSpentByVerified
<1> DEFINE Spent ==
        \A k \in Key : record'[k] \notin {0, record[k]} =>
            \E r \in Request : /\ NonceOf[req'[r].sig] = k
                               /\ WellSigned(Msg[req'[r].sig])
                               /\ SignerVouched(req[r])
                               /\ req'[r].ctx.done /\ ~req[r].ctx.done
<1>1. AccessInv /\ [AccessNext]_accessVars => [Spent]_accessVars
  <2> SUFFICES ASSUME AccessInv, AccessNext, NEW n \in Key,
                      record'[n] \notin {0, record[n]}
               PROVE  \E r \in Request : /\ NonceOf[req'[r].sig] = n
                                         /\ WellSigned(Msg[req'[r].sig])
                                         /\ SignerVouched(req[r])
                                         /\ req'[r].ctx.done /\ ~req[r].ctx.done
    OBVIOUS
  <2>1. PICK r \in Request : NonceAsked(r)
    BY DEF AccessNext, DirectoryPhase, Evaluate, nonceVars, NonceTick, NonceUpdateTime,
           Arrive, DirectorySkips, DirectoryErrors, DirectoryLookup, DirectoryPosts,
           DirectoryDone, EvaluatePlain, EvaluateFails, NonceNotAsked, AccessFails,
           AccessHandler, Redirect, Finish
  <2>2. PICK q \in Req : q = req[r] /\ ~q.ctx.done
    BY <2>1, EvaluateStarts DEF NonceAsked
  <2>3. PICK t \in Nat : t = clock[WorkerOf[r]]
    BY <2>1, EvaluateStarts DEF NonceAsked
  <2>4. PICK k, rc : k \in Resolved(q) /\ Asked(r, q, t, k, rc)
    BY <2>1, <2>2, <2>3, NonceAskedDoes
  <2>5. WellSigned(Msg[q.sig]) /\ SignerVouched(q)
    BY <2>4, OkIsVouched DEF Asked, AsksStore
  <2>6. n = NonceOf[q.sig]
    <3>1. WorkerOf[r] \in Worker /\ q.sig \in Sig /\ q.loc \in Location
      BY AccessAssumption DEF Req
    <3>2. Check(WorkerOf[r], q.sig, q.loc)
      BY <2>4 DEF Asked
    <3> QED BY <3>1, <3>2, CheckStep DEF AccessInv, ZoneStep
  <2>7. PICK p : req' = [req EXCEPT ![r] = p] /\ Outcome(p, q, t)
    BY <2>1, <2>2, <2>3, EvaluateOutcome DEF Evaluate
  <2>8. req'[r] = p
    BY <2>7 DEF AccessInv, AccessTypeOK
  <2> QED BY <2>2, <2>5, <2>6, <2>7, <2>8 DEF Outcome
<1> QED BY <1>1, AccessInvInit, AccessInvNext, PTL DEF AccessSpec, NonceSpentByVerified

-----------------------------------------------------------------------------
(* Who presented a nonce: a record, or a request under way, stands for one    *)
(* request that did, and a request whose nonce is already on record, or is    *)
(* also carried by another request, for two.                                  *)

Twice(k) == shown[k] >= 2

ShownInv ==
    /\ \A k \in Key : record[k] # 0 => shown[k] >= 1
    /\ \A r \in Request :
          LET k == NonceOf[req[r].sig] IN
          req[r].pc # "idle" =>
             /\ shown[k] >= 1
             /\ record[k] # 0 /\ ~req[r].memo.known => Twice(k)
             /\ req[r].memo.result = "NONCE_REPLAYED" => Twice(k)
    /\ \A r, x \in Request :
          /\ r # x /\ req[r].pc # "idle" /\ req[x].pc # "idle"
          /\ NonceOf[req[r].sig] = NonceOf[req[x].sig]
          => Twice(NonceOf[req[r].sig])

\* Nothing was presented yet.
LEMMA ShownInit == AccessInit => ShownInv
<1> SUFFICES ASSUME AccessInit PROVE ShownInv
  OBVIOUS
<1>1. \A k \in Key : record[k] = 0
  BY DEF AccessInit, NonceInit
<1>2. \A r \in Request : req[r].pc = "idle"
  BY DEF AccessInit, IdleReq
<1> QED BY <1>1, <1>2 DEF ShownInv

\* A step that changes one request and presents no nonce: the request goes on
\* with its message and keeps its memo once it has one.
LEMMA ShownKept ==
    ASSUME AccessInv, ShownInv, NEW r \in Request, NEW p,
           req' = [req EXCEPT ![r] = p], shown' = shown,
           p.pc # "idle" =>
              /\ req[r].pc # "idle" /\ p.sig = req[r].sig
              /\ p.memo # req[r].memo =>
                    /\ ~req[r].memo.known
                    /\ p.memo.result = "NONCE_REPLAYED" => record[NonceOf[p.sig]] # 0,
           \A k \in Key : record'[k] # 0 /\ record[k] = 0
              => p.pc # "idle" /\ k = NonceOf[p.sig] /\ p.memo.known
    PROVE  ShownInv'
<1>1. req \in [Request -> Req] /\ shown \in [Key -> Nat]
  BY DEF AccessInv, AccessTypeOK
<1>2. /\ req'[r] = p
      /\ \A x \in Request \ {r} : req'[x] = req[x]
  BY <1>1
<1>3. \A x \in Request : NonceOf[req[x].sig] \in Key
  BY <1>1, WindowAssumption DEF Req
<1>4. p.pc # "idle" => NonceOf[p.sig] \in Key
  BY <1>3
<1>5. ASSUME NEW k \in Key, record'[k] # 0
      PROVE  shown[k] >= 1
  BY <1>5 DEF ShownInv
<1>6. ASSUME NEW x \in Request, req'[x].pc # "idle", NEW k, k = NonceOf[req'[x].sig]
      PROVE  /\ shown[k] >= 1
             /\ record'[k] # 0 /\ ~req'[x].memo.known => shown[k] >= 2
             /\ req'[x].memo.result = "NONCE_REPLAYED" => shown[k] >= 2
  <2>1. CASE x = r
    BY <1>2, <1>4, <1>6, <2>1 DEF ShownInv, Twice
  <2>2. CASE x # r
    <3>1. req'[x] = req[x] /\ k \in Key
      BY <1>2, <1>3, <1>6, <2>2
    <3>2. CASE record'[k] # 0 /\ record[k] = 0
      BY <1>6, <2>2, <3>1, <3>2 DEF ShownInv, Twice
    <3>3. CASE record'[k] = 0 \/ record[k] # 0
      BY <1>6, <3>1, <3>3 DEF ShownInv, Twice
    <3> QED BY <3>2, <3>3
  <2> QED BY <2>1, <2>2
<1>7. ASSUME NEW y \in Request, NEW x \in Request, y # x, req'[y].pc # "idle",
             req'[x].pc # "idle", NonceOf[req'[y].sig] = NonceOf[req'[x].sig]
      PROVE  shown[NonceOf[req'[y].sig]] >= 2
  <2>1. \A z \in {x, y} : req[z].pc # "idle" /\ req'[z].sig = req[z].sig
    BY <1>2, <1>7
  <2> QED BY <1>7, <2>1 DEF ShownInv, Twice
<1> QED BY <1>5, <1>6, <1>7 DEF ShownInv, Twice

\* The other steps of a request leave its message and its memo alone.
LEMMA RequestKeeps ==
    ASSUME AccessInv, NEW r \in Request,
           \/ DirectoryPhase(r) \/ AccessFails(r) \/ AccessHandler(r)
           \/ \E l \in Location : Redirect(r, l)
           \/ Finish(r)
    PROVE  /\ \E p : /\ req' = [req EXCEPT ![r] = p]
                     /\ p.pc # "idle" => /\ req[r].pc # "idle" /\ p.sig = req[r].sig
                                         /\ p.memo = req[r].memo
           /\ UNCHANGED <<nonceVars, shown>>
<1>1. req \in [Request -> Req]
  BY DEF AccessInv, AccessTypeOK
<1>2. PICK q \in Req : q = req[r]
  BY <1>1
<1>3. CASE DirectorySkips(r) \/ DirectoryPosts(r)
  <2>1. PICK pc : req' = [req EXCEPT ![r] = [q EXCEPT !.pc = pc]]
    BY <1>1, <1>2, <1>3 DEF DirectorySkips, DirectoryPosts
  <2>2. PICK p : p = [q EXCEPT !.pc = pc]
    OBVIOUS
  <2>3. p.sig = q.sig /\ p.memo = q.memo
    BY <2>2 DEF Req
  <2> QED BY <1>2, <1>3, <2>1, <2>2, <2>3 DEF DirectorySkips, DirectoryPosts
<1>4. CASE DirectoryErrors(r) \/ Finish(r)
  BY <1>4 DEF DirectoryErrors, Finish, IdleReq
<1>5. CASE DirectoryLookup(r) \/ DirectoryDone(r)
  <2>1. PICK p \in Learnt(q) : req' = [req EXCEPT ![r] = p]
    BY <1>2, <1>5 DEF DirectoryLookup, DirectoryDone
  <2>2. p.sig = q.sig /\ p.memo = q.memo
    BY <2>1, LearntFields DEF LearntAs
  <2> QED BY <1>2, <1>5, <2>1, <2>2 DEF DirectoryLookup, DirectoryDone
<1>6. CASE AccessFails(r) \/ AccessHandler(r)
  <2>1. PICK d : req' = [req EXCEPT ![r] = [q EXCEPT !.pc = "decided", !.decision = d]]
    BY <1>1, <1>2, <1>6 DEF AccessFails, AccessHandler, Req
  <2>2. PICK p : p = [q EXCEPT !.pc = "decided", !.decision = d]
    OBVIOUS
  <2>3. p.sig = q.sig /\ p.memo = q.memo
    BY <2>2 DEF Req
  <2> QED BY <1>2, <1>6, <2>1, <2>2, <2>3 DEF AccessFails, AccessHandler
<1>7. ASSUME NEW l \in Location, Redirect(r, l)
      PROVE  /\ \E p : /\ req' = [req EXCEPT ![r] = p] /\ p.sig = q.sig /\ p.memo = q.memo
             /\ q.pc # "idle" /\ UNCHANGED <<nonceVars, shown>>
  <2>1. PICK p : p = [q EXCEPT !.pc = "preaccess", !.loc = l, !.ctx = NoCtx,
                               !.decision = "none"]
    OBVIOUS
  <2>2. p.sig = q.sig /\ p.memo = q.memo
    BY <2>1 DEF Req
  <2>3. req' = [req EXCEPT ![r] = p]
    BY <1>1, <1>2, <1>7, <2>1 DEF Redirect, Req
  <2> QED BY <1>2, <1>7, <2>2, <2>3 DEF Redirect
<1> QED BY <1>2, <1>3, <1>4, <1>5, <1>6, <1>7 DEF DirectoryPhase

\* A request that arrives presents its nonce.
LEMMA ShownArrive ==
    ASSUME AccessInv, ShownInv, NEW r \in Request, NEW s \in Sig, NEW l \in Location,
           Arrive(r, s, l)
    PROVE  ShownInv'
<1> DEFINE n == NonceOf[s]
<1>1. req \in [Request -> Req] /\ shown \in [Key -> Nat] /\ n \in Key
  BY WindowAssumption DEF AccessInv, AccessTypeOK
<1>2. PICK p : p = [IdleReq EXCEPT !.pc = "preaccess", !.sig = s, !.loc = l]
  OBVIOUS
<1>3. p.sig = s /\ p.memo = NoMemo /\ p.pc = "preaccess"
  BY <1>2, IdleType DEF Req
<1>4. req' = [req EXCEPT ![r] = p] /\ shown' = [shown EXCEPT ![n] = @ + 1]
  BY <1>2 DEF Arrive
<1>5. record' = record /\ req[r].pc = "idle"
  BY DEF Arrive, nonceVars
<1> HIDE DEF n
<1>6. /\ shown'[n] = shown[n] + 1 /\ shown[n] \in Nat
      /\ \A k \in Key : shown'[k] \in Nat /\ shown'[k] >= shown[k] /\ shown[k] \in Nat
  BY <1>1, <1>4
<1>7. req'[r] = p /\ \A x \in Request \ {r} : req'[x] = req[x]
  BY <1>1, <1>4
<1>8. \A x \in Request : NonceOf[req[x].sig] \in Key
  BY <1>1, WindowAssumption DEF Req
<1>9. ASSUME NEW k \in Key, record[k] # 0
      PROVE  shown'[k] >= 1
  BY <1>6, <1>9 DEF ShownInv
<1>10. ASSUME NEW x \in Request, req'[x].pc # "idle", NEW k, k = NonceOf[req'[x].sig]
       PROVE  /\ shown'[k] >= 1
              /\ record[k] # 0 /\ ~req'[x].memo.known => shown'[k] >= 2
              /\ req'[x].memo.result = "NONCE_REPLAYED" => shown'[k] >= 2
  <2>1. CASE x = r
    <3>1. k = n /\ k \in Key
      BY <1>1, <1>3, <1>7, <1>10, <2>1 DEF n
    <3>2. req'[x].memo.result = "OK"
      BY <1>3, <1>7, <2>1 DEF NoMemo
    <3>3. record[k] # 0 => shown[k] >= 1
      BY <3>1 DEF ShownInv
    <3> QED BY <1>6, <3>1, <3>2, <3>3
  <2>2. CASE x # r
    <3>1. req'[x] = req[x] /\ k \in Key
      BY <1>7, <1>8, <1>10, <2>2
    <3>2. /\ shown[k] >= 1
          /\ record[k] # 0 /\ ~req[x].memo.known => shown[k] >= 2
          /\ req[x].memo.result = "NONCE_REPLAYED" => shown[k] >= 2
      BY <1>10, <3>1 DEF ShownInv, Twice
    <3> QED BY <1>6, <3>1, <3>2
  <2> QED BY <2>1, <2>2
<1>11. ASSUME NEW y \in Request, NEW x \in Request, y # x, req'[y].pc # "idle",
              req'[x].pc # "idle", NonceOf[req'[y].sig] = NonceOf[req'[x].sig]
       PROVE  shown'[NonceOf[req'[y].sig]] >= 2
  <2>1. CASE x # r /\ y # r
    <3>1. req'[x] = req[x] /\ req'[y] = req[y]
      BY <1>7, <2>1
    <3>2. shown[NonceOf[req[y].sig]] >= 2
      BY <1>11, <3>1 DEF ShownInv, Twice
    <3> QED BY <1>6, <1>8, <3>1, <3>2
  <2>2. CASE x = r \/ y = r
    <3>1. PICK z \in {x, y} : z # r
      BY <1>11
    <3>2. req'[z] = req[z] /\ NonceOf[req[z].sig] = n /\ NonceOf[req'[y].sig] = n
      BY <1>3, <1>7, <1>11, <2>2, <3>1 DEF n
    <3>3. shown[n] >= 1
      BY <1>11, <3>1, <3>2 DEF ShownInv
    <3> QED BY <1>6, <3>2, <3>3
  <2> QED BY <2>1, <2>2
<1> QED BY <1>5, <1>9, <1>10, <1>11 DEF ShownInv, Twice

\* Every step keeps ShownInv.
LEMMA ShownNext ==
    ASSUME AccessInv, ShownInv, [AccessNext]_accessVars
    PROVE  ShownInv'
<1>1. ASSUME UNCHANGED <<record, req, shown>>
      PROVE  ShownInv'
  BY <1>1 DEF ShownInv, Twice
<1>2. CASE UNCHANGED accessVars
  BY <1>1, <1>2 DEF accessVars
<1>3. CASE NonceTick /\ UNCHANGED <<req, shown>>
  BY <1>1, <1>3 DEF NonceTick
<1>4. ASSUME NEW w \in Worker, NonceUpdateTime(w), UNCHANGED <<req, shown>>
      PROVE  ShownInv'
  BY <1>1, <1>4 DEF NonceUpdateTime
<1>5. ASSUME NEW r \in Request, Evaluate(r)
      PROVE  ShownInv'
  <2>1. PICK p : /\ req' = [req EXCEPT ![r] = p]
                 /\ Outcome(p, req[r], clock[WorkerOf[r]])
                 /\ p.memo # req[r].memo /\ p.memo.result = "NONCE_REPLAYED"
                    => record[NonceOf[req[r].sig]] # 0
                 /\ \A n \in Key : record'[n] # 0 /\ record[n] = 0
                    => n = NonceOf[req[r].sig] /\ p.memo.known
    BY <1>5, EvaluateOutcome
  <2>2. /\ p.pc = req[r].pc /\ p.sig = req[r].sig
        /\ p.memo # req[r].memo => ~req[r].memo.known
    BY <2>1 DEF Outcome
  <2>3. shown' = shown /\ req[r].pc # "idle"
    BY <1>5 DEF Evaluate, EvaluatePlain, EvaluateFails, NonceNotAsked, NonceAsked, MayEvaluate
  <2> QED BY <1>5, <2>1, <2>2, <2>3, ShownKept
<1>6. ASSUME NEW r \in Request,
             \/ DirectoryPhase(r) \/ AccessFails(r) \/ AccessHandler(r)
             \/ \E l \in Location : Redirect(r, l)
             \/ Finish(r)
      PROVE  ShownInv'
  <2>1. PICK p : /\ req' = [req EXCEPT ![r] = p]
                 /\ p.pc # "idle" => /\ req[r].pc # "idle" /\ p.sig = req[r].sig
                                     /\ p.memo = req[r].memo
    BY <1>6, RequestKeeps
  <2>2. shown' = shown /\ record' = record
    BY <1>6, RequestKeeps DEF nonceVars
  <2> QED BY <1>6, <2>1, <2>2, ShownKept
<1> QED BY <1>2, <1>3, <1>4, <1>5, <1>6, ShownArrive DEF AccessNext

-----------------------------------------------------------------------------
(* Why a request is denied. *)

\* The verdict on the well-signed message of q, given at real time t with its
\* nonce presented n times, has a reason.
Reason(q, t, n) ==
    LET m == Msg[q.sig] IN
    /\ q.ctx.result \in Result \ {"NOT_SIGNED", "PARSE_ERROR", "PROFILE_MISMATCH"}
    /\ q.ctx.result = "EXPIRED" =>
          t > WindowEnd(q.sig, q.loc) \/ WindowStart(q.sig, q.loc) > 0
    /\ q.ctx.result \in {"UNKNOWN_KEYID", "KEYID_NOT_THUMBPRINT", "SIGNATURE_MISMATCH"} =>
          \/ q.ctx.starved
          \/ /\ ~SignerVouched(q)
             /\ \/ q.ctx.jwks # "none" \/ ~(Conf[q.loc].directory /\ m.agent)
                \/ Has(StaticKeys, m.keyid)
    /\ q.ctx.result = "NONCE_REPLAYED" => n >= 2
    /\ q.ctx.result = "NONCE_TOO_LONG" => NonceLen[q.sig] = "long"
    /\ q.ctx.result = "NONCE_MISSING" =>
          NonceLen[q.sig] = "none" /\ Conf[q.loc].nonce_required
    /\ q.ctx.result = "NONCE_STORE_UNAVAILABLE" =>
          Conf[q.memo.at].closed /\ q.ctx.nonce_store_unavailable

\* Without early readers a request is evaluated after its directory phase,
\* which leaves a request that could use it with a document or with
\* keys_unavailable; a denial follows a complete evaluation.
Justified(q, t, n) ==
    /\ q.pc \in {"idle", "preaccess", "fetching"} => ~q.ctx.done
    /\ /\ q.pc \in {"access", "decided"} /\ DirectoryOn(q.loc) /\ Msg[q.sig].agent
       /\ q.ctx.jwks = "none" /\ ~q.ctx.keys_unavailable
       => ~SelectLabel(Msg[q.sig])
    /\ q.ctx.done /\ ~q.ctx.internal_error /\ WellSigned(Msg[q.sig]) => Reason(q, t, n)
    /\ q.decision \in Status =>
          /\ q.ctx.done /\ ~q.ctx.internal_error
          /\ q.ctx.result \notin {"OK", "KEY_UNAVAILABLE"}

DenyInv ==
    /\ AccessInv /\ ShownInv
    /\ \A r \in Request : Justified(req[r], now, shown[NonceOf[req[r].sig]])

\* The verdict on a well-signed message is a matter of time and keys, and its
\* directory is asked.
LEMMA WellSignedVerdict ==
    ASSUME NEW m \in Message, WellSigned(m), NEW inWindow, NEW keys, NEW fallback
    PROVE  /\ ProfileVerify(m, inWindow, keys, fallback) =
                 IF ~inWindow THEN "EXPIRED"
                 ELSE VerifyEd25519(keys, m.keyid, m.signer, m.sized, fallback)
           /\ m.agent => SelectLabel(m)
<1>1. PICK i \in Tagged(m) :
        /\ \A j \in Tagged(m) : i <= j
        /\ m.entries[i].inner /\ m.entries[i].typed
        /\ Match(m.entries[i])
        /\ m.agent => "signature-agent" \in m.entries[i].covered
        /\ m.entries[i].label \in m.labels
  BY DEF WellSigned
<1>2. SelectEntry(m) = m.entries[i]
  BY <1>1, FirstTagged, FirstTaggedUnique
<1>3. /\ m.input = "proper" /\ m.signature = "proper" /\ m.lifetime /\ m.base
      /\ Tagged(m) # {}
  BY <1>1 DEF WellSigned
<1> DEFINE e == SelectEntry(m)
<1>4. /\ e.inner /\ e.typed /\ Match(e) /\ e.label \in m.labels
      /\ m.agent => AgentCovered(e)
  BY <1>1, <1>2 DEF AgentCovered
<1> HIDE DEF e
<1>5. ProfileVerify(m, inWindow, keys, fallback) =
        IF ~inWindow THEN "EXPIRED"
        ELSE VerifyEd25519(keys, m.keyid, m.signer, m.sized, fallback)
  BY <1>3, <1>4 DEF ProfileVerify, e
<1>6. m.agent => SelectLabel(m)
  BY <1>3, <1>4 DEF SelectLabel, e
<1> QED BY <1>5, <1>6

\* A mismatch is found with a key that has the keyid for its thumbprint.
LEMMA MismatchHas ==
    ASSUME NEW keys, NEW keyid, NEW signer, NEW fallback,
           VerifyEd25519(keys, keyid, signer, TRUE, fallback) = "SIGNATURE_MISMATCH"
    PROVE  Has(keys, keyid) /\ signer # keyid
BY VerifyKeyIsHas DEF VerifyEd25519

\* A well-signed message of an authentic signer is accepted in its window.
LEMMA AuthenticAccepted ==
    ASSUME NEW m \in Message, NEW directory \in Handle, NEW static \in Handle,
           NEW allowed \in BOOLEAN, WellSigned(m), NEW inWindow, inWindow,
           Authentic(directory, static, allowed, m.keyid, m.signer)
    PROVE  ProfileVerify(m, inWindow, Chain(directory, static),
                         FallbackKeys(allowed, directory, static)) = "OK"
<1> DEFINE keys == Chain(directory, static)
           fallback == FallbackKeys(allowed, directory, static)
<1>1. m.keyid # "" /\ m.sized
  BY DEF WellSigned
<1>2. VerifyEd25519(keys, m.keyid, m.signer, m.sized, fallback) = "OK"
  BY <1>1, SignerExact
<1> HIDE DEF keys, fallback
<1>3. ProfileVerify(m, inWindow, keys, fallback) = "OK"
  BY <1>2, WellSignedVerdict
<1> QED BY <1>3 DEF keys, fallback

\* The keys refuse a well-signed message only if they do not vouch for its
\* signer and no others were to be had, or if there was no memory to chain them.
LEMMA KeysRefuse ==
    ASSUME NEW q \in Req, NEW t \in Nat, NEW k \in Resolved(q),
           WellSigned(Msg[q.sig]),
           Verified(q, t, k) \in {"UNKNOWN_KEYID", "KEYID_NOT_THUMBPRINT",
                                  "SIGNATURE_MISMATCH"},
           q.ctx.jwks = "none" /\ ~q.ctx.keys_unavailable =>
              ~(Conf[q.loc].directory /\ Msg[q.sig].agent)
    PROVE  \/ k.keys = <<>> /\ k.dynamic # <<>>
           \/ /\ ~SignerVouched(q)
              /\ \/ q.ctx.jwks # "none"
                 \/ ~(Conf[q.loc].directory /\ Msg[q.sig].agent)
                 \/ Has(StaticKeys, Msg[q.sig].keyid)
<1> DEFINE m == Msg[q.sig]
           inWindow == InWindow(q.sig, q.loc, t)
           allowed == Conf[q.loc].keyid_fallback_allow
           fallback == FallbackKeys(allowed, k.dynamic, StaticKeys)
<1>1. m \in Message /\ inWindow \in BOOLEAN /\ allowed \in BOOLEAN /\ StaticKeys \in Handle
  BY RequestData DEF InWindow
<1>2. /\ Offered(q) \in Handle /\ k.dynamic \in {<<>>, Offered(q)}
      /\ k.keys = Chain(k.dynamic, StaticKeys) \/ (k.keys = <<>> /\ k.dynamic # <<>>)
  BY ResolvedType
<1>3. k.dynamic \in Handle
  <2>1. <<>> \in Handle
    BY DEF Handle
  <2> QED BY <1>2, <2>1
<1>4. PICK res : res = ProfileVerify(m, inWindow, k.keys, fallback)
  OBVIOUS
<1>5. /\ res = Verified(q, t, k)
      /\ q.ctx.keys_unavailable \/ Unresolved(q, k) => res = "SIGNATURE_MISMATCH"
  BY <1>4 DEF Verified
<1>6. WellSigned(m) /\ (res = "SIGNATURE_MISMATCH" => Has(k.keys, m.keyid) /\ m.signer # m.keyid)
  <2>1. WellSigned(m) /\ m.sized = TRUE
    BY <1>1 DEF WellSigned, Message
  <2>2. res = "SIGNATURE_MISMATCH" =>
          VerifyEd25519(k.keys, m.keyid, m.signer, TRUE, fallback) = "SIGNATURE_MISMATCH"
    BY <1>1, <1>4, <2>1, WellSignedVerdict
  <2> QED BY <2>1, <2>2, MismatchHas
<1> SUFFICES ASSUME ~(k.keys = <<>> /\ k.dynamic # <<>>)
             PROVE  /\ ~SignerVouched(q)
                    /\ \/ q.ctx.jwks # "none" \/ ~(Conf[q.loc].directory /\ m.agent)
                       \/ Has(StaticKeys, m.keyid)
  OBVIOUS
<1>7. k.keys = Chain(k.dynamic, StaticKeys)
  BY <1>2
<1>8. res # "OK"
  BY <1>5
<1>9. SignerVouched(q) = Authentic(Offered(q), StaticKeys, allowed, m.keyid, m.signer)
  BY DEF SignerVouched
<1> HIDE DEF m, inWindow, allowed
<1>10. \A x : ~Has(<<>>, x)
  BY DEF Has
<1>11. CASE Unresolved(q, k)
  <2>1. q.ctx.jwks # "none" /\ k.dynamic = <<>> /\ res = "SIGNATURE_MISMATCH"
    BY <1>5, <1>11 DEF Unresolved
  <2>2. Has(StaticKeys, m.keyid) /\ m.signer # m.keyid
    BY <1>1, <1>3, <1>6, <1>7, <1>10, <2>1, ChainHas
  <2> QED BY <1>9, <2>1, <2>2 DEF Authentic
<1>12. CASE ~Unresolved(q, k)
  <2>1. k.dynamic = Offered(q)
    BY <1>2, <1>12 DEF Unresolved, Offered
  <2>2. inWindow
    <3>1. res # "EXPIRED"
      BY <1>5
    <3> QED BY <1>1, <1>4, <1>6, <3>1, WellSignedVerdict
  <2>3. ~Authentic(Offered(q), StaticKeys, allowed, m.keyid, m.signer)
    <3>1. ProfileVerify(m, inWindow, Chain(k.dynamic, StaticKeys),
                        FallbackKeys(allowed, k.dynamic, StaticKeys)) # "OK"
      BY <1>4, <1>7, <1>8
    <3>2. ~Authentic(k.dynamic, StaticKeys, allowed, m.keyid, m.signer)
      <4> SUFFICES ASSUME Authentic(k.dynamic, StaticKeys, allowed, m.keyid, m.signer)
                   PROVE  ProfileVerify(m, inWindow, Chain(k.dynamic, StaticKeys),
                             FallbackKeys(allowed, k.dynamic, StaticKeys)) = "OK"
        BY <3>1
      <4>1. WellSigned(m) /\ inWindow
        BY <1>6, <2>2
      <4> QED BY <1>1, <1>3, <4>1, AuthenticAccepted
    <3> QED BY <2>1, <3>2
  <2>4. CASE q.ctx.jwks = "none" /\ q.ctx.keys_unavailable
    <3>1. k.dynamic = <<>> /\ res = "SIGNATURE_MISMATCH"
      BY <1>5, <2>1, <2>4 DEF Offered
    <3>2. Has(StaticKeys, m.keyid)
      BY <1>1, <1>3, <1>6, <1>7, <1>10, <3>1, ChainHas
    <3> QED BY <1>9, <2>3, <3>2
  <2>5. CASE q.ctx.jwks # "none" \/ ~q.ctx.keys_unavailable
    BY <1>9, <2>3, <2>5 DEF m
  <2> QED BY <2>4, <2>5
<1> QED BY <1>11, <1>12

\* The verdict of an evaluation after the directory phase, by a clock that does
\* not run ahead of real time, has a reason.
LEMMA OutcomeReason ==
    ASSUME NEW q \in Req, NEW p \in Req, ReqOK(p), NEW c \in Nat, NEW t \in Nat, c <= t,
           NEW n \in Nat, Outcome(p, q, c), ~p.ctx.internal_error,
           WellSigned(Msg[q.sig]),
           q.ctx.jwks = "none" /\ ~q.ctx.keys_unavailable =>
              ~(Conf[q.loc].directory /\ Msg[q.sig].agent),
           p.memo.result = "NONCE_REPLAYED" => n >= 2
    PROVE  Reason(p, t, n)
<1>1. /\ p.sig = q.sig /\ p.loc = q.loc /\ p.ctx.jwks = q.ctx.jwks
      /\ p.ctx.result \in Result
  BY DEF Outcome, Req, Ctx
<1>2. SignerVouched(p) = SignerVouched(q)
  BY <1>1 DEF SignerVouched, Offered
<1>3. CASE p.ctx.result \in {"OK", "KEY_UNAVAILABLE"}
  BY <1>3 DEF Reason, Result
<1>4. CASE p.ctx.result = "NONCE_MISSING" /\ NonceLen[q.sig] = "none"
           /\ Conf[q.loc].nonce_required
  BY <1>1, <1>4 DEF Reason, Result
<1>5. CASE /\ p.ctx.result = p.memo.result
           /\ p.ctx.nonce_store_unavailable = p.memo.unavailable
  <2>1. MemoOK(p.sig, p.memo)
    BY DEF ReqOK
  <2> QED BY <1>1, <1>5, <2>1 DEF MemoOK, NonceResult, Reason, Result
<1>6. ASSUME NEW k \in Resolved(q), p.ctx.result = Verified(q, c, k),
             p.ctx.starved = (k.keys = <<>> /\ k.dynamic # <<>>)
      PROVE  Reason(p, t, n)
  <2>1. PICK res : res = ProfileResult(q, c, k)
    OBVIOUS
  <2>2. \/ p.ctx.result = res
        \/ p.ctx.result = "KEY_UNAVAILABLE"
    BY <1>6, <2>1, VerifiedIs
  <2>3. Msg[q.sig] \in Message /\ InWindow(q.sig, q.loc, c) \in BOOLEAN
    BY RequestData DEF InWindow
  <2>4. res \in {"EXPIRED", "UNKNOWN_KEYID", "KEYID_NOT_THUMBPRINT",
                 "SIGNATURE_MISMATCH", "OK"}
        /\ (res = "EXPIRED" => ~InWindow(q.sig, q.loc, c))
    BY <2>1, <2>3, WellSignedVerdict, Ed25519Verdicts DEF ProfileResult
  <2>5. CASE p.ctx.result = "EXPIRED"
    <3>1. ~InWindow(q.sig, q.loc, c)
      BY <2>2, <2>4, <2>5
    <3>2. WindowEnd(q.sig, q.loc) \in Int /\ WindowStart(q.sig, q.loc) \in Int
      BY WindowAssumption DEF Req, WindowEnd, WindowStart
    <3>3. t > WindowEnd(q.sig, q.loc) \/ WindowStart(q.sig, q.loc) > 0
      BY <3>1, <3>2 DEF InWindow
    <3> QED BY <1>1, <2>5, <3>3 DEF Reason, Result
  <2>6. CASE p.ctx.result \in {"UNKNOWN_KEYID", "KEYID_NOT_THUMBPRINT", "SIGNATURE_MISMATCH"}
    <3>1. \/ k.keys = <<>> /\ k.dynamic # <<>>
          \/ /\ ~SignerVouched(q)
             /\ \/ q.ctx.jwks # "none"
                \/ ~(Conf[q.loc].directory /\ Msg[q.sig].agent)
                \/ Has(StaticKeys, Msg[q.sig].keyid)
      BY <1>6, <2>6, KeysRefuse
    <3> QED BY <1>1, <1>2, <1>6, <2>6, <3>1 DEF Reason, Result
  <2> QED BY <1>3, <2>2, <2>4, <2>5, <2>6
<1> QED BY <1>3, <1>4, <1>5, <1>6 DEF Outcome

\* A reason stays good.
LEMMA JustifiedStays ==
    ASSUME NEW q \in Req, NEW t \in Nat, NEW n \in Nat, Justified(q, t, n),
           NEW u \in Nat, NEW v \in Nat, t <= u, n <= v
    PROVE  Justified(q, u, v)
<1>1. WindowEnd(q.sig, q.loc) \in Nat
  BY WindowAssumption DEF Req, WindowEnd
<1>2. Reason(q, t, n) => Reason(q, u, v)
  BY <1>1 DEF Reason
<1> QED BY <1>2 DEF Justified

\* A step that changes one request.
LEMMA DenyReplaced ==
    ASSUME DenyInv, AccessInv', ShownInv', NEW r \in Request, NEW p \in Req,
           req' = [req EXCEPT ![r] = p],
           now <= now', \A k \in Key : shown[k] <= shown'[k],
           Justified(p, now', shown'[NonceOf[p.sig]])
    PROVE  DenyInv'
<1>1. /\ req \in [Request -> Req] /\ now \in Nat /\ now' \in Nat
      /\ shown \in [Key -> Nat] /\ shown' \in [Key -> Nat]
  BY DEF DenyInv, AccessInv, AccessTypeOK, ZoneInv, NonceTypeOK
<1>2. ASSUME NEW x \in Request
      PROVE  Justified(req'[x], now', shown'[NonceOf[req'[x].sig]])
  <2>1. CASE x = r
    BY <1>1, <2>1
  <2>2. CASE x # r
    <3>1. PICK q \in Req : q = req[x] /\ q = req'[x]
      BY <1>1, <2>2
    <3>2. NonceOf[q.sig] \in Key
      BY WindowAssumption DEF Req
    <3>3. Justified(q, now, shown[NonceOf[q.sig]])
      BY <3>1 DEF DenyInv
    <3>4. Justified(q, now', shown'[NonceOf[q.sig]])
      BY <1>1, <3>2, <3>3, JustifiedStays
    <3> QED BY <3>1, <3>4
  <2> QED BY <2>1, <2>2
<1>3. \A x \in Request : Justified(req[x], now, shown[NonceOf[req[x].sig]])'
  BY <1>2 DEF Justified, Reason, SignerVouched, Offered
<1> QED BY <1>3 DEF DenyInv

\* A denial is for the verdict of a complete evaluation.
LEMMA DecisionDenies ==
    ASSUME NEW l, NEW c, NEW d, d = AccessDecision(l, c), d \in Status
    PROVE  ~c.internal_error /\ c.result \notin {"OK", "KEY_UNAVAILABLE"}
BY DEF AccessDecision, Status

\* A request without a verdict.
LEMMA FreshJustified ==
    ASSUME NEW p, p.pc \in {"idle", "preaccess", "fetching"}, ~p.ctx.done,
           p.decision = "none", NEW t, NEW n
    PROVE  Justified(p, t, n)
<1>1. "none" \notin Status
  BY DEF Status
<1> QED BY <1>1 DEF Justified

\* Nothing was denied yet.
LEMMA DenyInit == AccessInit => DenyInv
<1> SUFFICES ASSUME AccessInit PROVE DenyInv
  OBVIOUS
<1>1. \A r \in Request : req[r] = IdleReq
  BY DEF AccessInit
<1>2. IdleReq.pc = "idle" /\ ~IdleReq.ctx.done /\ IdleReq.decision = "none"
  BY DEF IdleReq, NoCtx
<1>3. \A r \in Request : Justified(req[r], now, shown[NonceOf[req[r].sig]])
  BY <1>1, <1>2, FreshJustified
<1> QED BY <1>3, AccessInvInit, ShownInit DEF DenyInv

\* An evaluation, which without early readers comes after the directory phase.
LEMMA EvaluateJustified ==
    ASSUME ~EarlyReads, DenyInv, AccessInv', ShownInv', NEW r \in Request, Evaluate(r)
    PROVE  DenyInv'
<1>1. PICK p : req' = [req EXCEPT ![r] = p] /\ Outcome(p, req[r], clock[WorkerOf[r]])
  BY EvaluateOutcome DEF DenyInv
<1>2. /\ req \in [Request -> Req] /\ req' \in [Request -> Req]
      /\ shown \in [Key -> Nat] /\ now \in Nat
  BY DEF DenyInv, AccessInv, AccessTypeOK, ZoneInv, NonceTypeOK
<1>3. req'[r] = p /\ p \in Req
  BY <1>1, <1>2
<1>4. PICK q \in Req : q = req[r]
  BY <1>2
<1>5. PICK c \in Nat : c = clock[WorkerOf[r]] /\ c <= now
  BY AccessAssumption DEF DenyInv, AccessInv, ZoneInv, NonceTypeOK, NonceClocksOK
<1>6. Outcome(p, q, c)
  BY <1>1, <1>4, <1>5
<1>7. now' = now /\ shown' = shown
  BY DEF Evaluate, EvaluatePlain, EvaluateFails, NonceNotAsked, NonceAsked, Check, nonceVars
<1>8. /\ q.pc \in {"access", "decided"} /\ ~q.ctx.done
      /\ Conf[q.loc].mode # "off"
  BY <1>4 DEF Evaluate, EvaluatePlain, EvaluateFails, NonceNotAsked, NonceAsked, MayEvaluate
<1>9. Justified(q, now, shown[NonceOf[q.sig]])
  BY <1>4 DEF DenyInv
<1>10. ReqOK(p)
  <2>1. \A x \in Request : ReqOK(req[x])'
    BY DEF AccessInv
  <2>2. ReqOK(req[r])'
    BY <2>1
  <2> QED BY <1>3, <2>2 DEF ReqOK, MemoOK, VerdictOK, SignerVouched, Offered
<1>11. PICK n \in Nat : n = shown[NonceOf[q.sig]]
  BY <1>2, WindowAssumption DEF Req
<1>12. p.memo.result = "NONCE_REPLAYED" => n >= 2
  <2>1. p.pc # "idle" /\ p.sig = q.sig
    BY <1>6, <1>8 DEF Outcome
  <2>2. p.memo.result = "NONCE_REPLAYED" => shown'[NonceOf[p.sig]] >= 2
    BY <1>3, <2>1 DEF ShownInv, Twice
  <2> QED BY <1>7, <1>11, <2>1, <2>2
<1>13. WellSigned(Msg[q.sig]) /\ q.ctx.jwks = "none" /\ ~q.ctx.keys_unavailable =>
          ~(Conf[q.loc].directory /\ Msg[q.sig].agent)
  <2>1. Msg[q.sig] \in Message
    BY RequestData
  <2>2. WellSigned(Msg[q.sig]) /\ Msg[q.sig].agent => SelectLabel(Msg[q.sig])
    BY <2>1, WellSignedVerdict
  <2> QED BY <1>8, <1>9, <2>2 DEF Justified, DirectoryOn
<1>14. WellSigned(Msg[q.sig]) /\ ~p.ctx.internal_error => Reason(p, now, n)
  BY <1>2, <1>3, <1>5, <1>6, <1>10, <1>12, <1>13, OutcomeReason
<1>15. /\ p.pc = q.pc /\ p.sig = q.sig /\ p.loc = q.loc /\ p.decision = q.decision
       /\ p.ctx.jwks = q.ctx.jwks /\ (q.ctx.keys_unavailable => p.ctx.keys_unavailable)
  BY <1>6 DEF Outcome
<1>16. Justified(p, now, n)
  BY <1>8, <1>9, <1>14, <1>15 DEF Justified
<1>17. Justified(p, now', shown'[NonceOf[p.sig]])
  BY <1>7, <1>11, <1>15, <1>16
<1>18. now <= now' /\ \A k \in Key : shown[k] <= shown'[k]
  BY <1>2, <1>7
<1> QED BY <1>1, <1>3, <1>17, <1>18, DenyReplaced

\* The other steps of a request.
LEMMA RequestJustified ==
    ASSUME DenyInv, AccessInv', ShownInv', NEW r \in Request,
           \/ \E s \in Sig, l \in Location : Arrive(r, s, l)
           \/ DirectoryPhase(r) \/ AccessFails(r) \/ AccessHandler(r)
           \/ \E l \in Location : Redirect(r, l)
           \/ Finish(r)
    PROVE  DenyInv'
<1>1. /\ req \in [Request -> Req] /\ req' \in [Request -> Req]
      /\ shown \in [Key -> Nat] /\ now \in Nat
  BY DEF DenyInv, AccessInv, AccessTypeOK, ZoneInv, NonceTypeOK
<1>2. PICK q \in Req : q = req[r] /\ ReqOK(q)
  BY <1>1 DEF DenyInv, AccessInv
<1>3. Justified(q, now, shown[NonceOf[q.sig]])
  BY <1>2 DEF DenyInv
<1>4. now' = now
  BY DEF Arrive, DirectoryPhase, DirectorySkips, DirectoryErrors, DirectoryLookup,
         DirectoryPosts, DirectoryDone, AccessFails, AccessHandler, Redirect, Finish,
         nonceVars
<1>5. ASSUME NEW p, req' = [req EXCEPT ![r] = p],
             Justified(p, now, shown'[NonceOf[p.sig]]),
             \A k \in Key : shown[k] <= shown'[k]
      PROVE  DenyInv'
  <2>1. p \in Req
    BY <1>1, <1>5
  <2>2. now <= now' /\ Justified(p, now', shown'[NonceOf[p.sig]])
    BY <1>1, <1>4, <1>5
  <2> QED BY <1>5, <2>1, <2>2, DenyReplaced
<1>6. shown' = shown => \A k \in Key : shown[k] <= shown'[k]
  BY <1>1
<1>7. ASSUME NEW s \in Sig, NEW l \in Location, Arrive(r, s, l)
      PROVE  DenyInv'
  <2>1. PICK p : p = [IdleReq EXCEPT !.pc = "preaccess", !.sig = s, !.loc = l]
    OBVIOUS
  <2>2. p.pc = "preaccess" /\ p.ctx = IdleReq.ctx /\ p.decision = IdleReq.decision
    BY <2>1, IdleType DEF Req
  <2>3. ~p.ctx.done /\ p.decision = "none"
    BY <2>2 DEF IdleReq, NoCtx
  <2>4. req' = [req EXCEPT ![r] = p] /\ shown' = [shown EXCEPT ![NonceOf[s]] = @ + 1]
    BY <1>7, <2>1 DEF Arrive
  <2>5. \A k \in Key : shown[k] <= shown'[k]
    BY <1>1, <2>4
  <2>6. Justified(p, now, shown'[NonceOf[p.sig]])
    BY <2>2, <2>3, FreshJustified
  <2> QED BY <1>5, <2>4, <2>5, <2>6
<1>8. CASE DirectorySkips(r) \/ DirectoryPosts(r)
  <2>1. PICK pc \in {"access", "fetching"} :
          /\ req' = [req EXCEPT ![r] = [q EXCEPT !.pc = pc]]
          /\ pc = "access" => ~Eligible(r)
    BY <1>1, <1>2, <1>8 DEF DirectorySkips, DirectoryPosts
  <2>2. PICK p : p = [q EXCEPT !.pc = pc]
    OBVIOUS
  <2>3. /\ p.pc = pc /\ p.sig = q.sig /\ p.loc = q.loc /\ p.ctx = q.ctx
        /\ p.decision = q.decision
    BY <2>2 DEF Req
  <2>4. q.pc = "preaccess" /\ q.decision = "none" /\ ~q.ctx.done /\ shown' = shown
    BY <1>2, <1>3, <1>8 DEF DirectorySkips, DirectoryPosts, ReqOK, Justified
  <2>5. pc = "access" /\ DirectoryOn(q.loc) /\ Msg[q.sig].agent => ~SelectLabel(Msg[q.sig])
    BY <1>2, <2>1, <2>4 DEF Eligible
  <2>6. Justified(p, now, shown'[NonceOf[p.sig]])
    BY <2>3, <2>4, <2>5 DEF Justified, Status
  <2> QED BY <1>5, <1>6, <2>1, <2>2, <2>4, <2>6
<1>9. CASE DirectoryErrors(r) \/ Finish(r)
  <2>1. req' = [req EXCEPT ![r] = IdleReq] /\ shown' = shown
    BY <1>9 DEF DirectoryErrors, Finish
  <2>2. IdleReq.pc = "idle" /\ ~IdleReq.ctx.done /\ IdleReq.decision = "none"
    BY DEF IdleReq, NoCtx
  <2>3. Justified(IdleReq, now, shown'[NonceOf[IdleReq.sig]])
    BY <2>2, FreshJustified
  <2> QED BY <1>5, <1>6, <2>1, <2>3
<1>10. CASE DirectoryLookup(r) \/ DirectoryDone(r)
  <2>1. PICK p \in Learnt(q) : req' = [req EXCEPT ![r] = p]
    BY <1>2, <1>10 DEF DirectoryLookup, DirectoryDone
  <2>2. LearntAs(p, q)
    BY <2>1, LearntFields
  <2>3. /\ q.pc \in {"preaccess", "fetching"} /\ q.decision = "none" /\ ~q.ctx.done
        /\ shown' = shown
    BY <1>2, <1>3, <1>10 DEF DirectoryLookup, DirectoryDone, ReqOK, Justified
  <2>4. Justified(p, now, shown'[NonceOf[p.sig]])
    BY <2>2, <2>3 DEF LearntAs, Justified, Status
  <2> QED BY <1>5, <1>6, <2>1, <2>3, <2>4
<1>11. ASSUME NEW d, req' = [req EXCEPT ![r] = [q EXCEPT !.pc = "decided", !.decision = d]],
              q.pc = "access", shown' = shown,
              d \in Status => /\ q.ctx.done /\ ~q.ctx.internal_error
                              /\ q.ctx.result \notin {"OK", "KEY_UNAVAILABLE"}
       PROVE  DenyInv'
  <2>1. PICK p : p = [q EXCEPT !.pc = "decided", !.decision = d]
    OBVIOUS
  <2>2. /\ p.pc = "decided" /\ p.sig = q.sig /\ p.loc = q.loc /\ p.ctx = q.ctx
        /\ p.decision = d /\ p.memo = q.memo
    BY <2>1 DEF Req
  <2>3. Reason(q, now, shown[NonceOf[q.sig]]) => Reason(p, now, shown[NonceOf[q.sig]])
    BY <2>2 DEF Reason, SignerVouched, Offered
  <2>4. Justified(p, now, shown'[NonceOf[p.sig]])
    BY <1>3, <1>11, <2>2, <2>3 DEF Justified
  <2> QED BY <1>5, <1>6, <1>11, <2>1, <2>4
<1>12. CASE AccessFails(r)
  <2>1. PICK d \in {"internal", "DECLINED"} :
           req' = [req EXCEPT ![r] = [q EXCEPT !.pc = "decided", !.decision = d]]
    BY <1>1, <1>2, <1>12 DEF AccessFails, Req
  <2> QED BY <1>2, <1>11, <1>12, <2>1 DEF AccessFails, Status
<1>13. CASE AccessHandler(r)
  <2>1. PICK d : d = IF Conf[q.loc].mode = "enforce" \/ Conf[q.loc].require
                     THEN AccessDecision(q.loc, q.ctx) ELSE "DECLINED"
    OBVIOUS
  <2>2. req' = [req EXCEPT ![r] = [q EXCEPT !.pc = "decided", !.decision = d]]
    BY <1>1, <1>2, <1>13, <2>1 DEF AccessHandler, Req
  <2>3. d \in Status => /\ q.ctx.done /\ ~q.ctx.internal_error
                        /\ q.ctx.result \notin {"OK", "KEY_UNAVAILABLE"}
    <3>1. CASE Conf[q.loc].mode = "enforce" \/ Conf[q.loc].require
      <4>1. q.ctx.done
        BY <1>2, <1>13, <3>1 DEF AccessHandler
      <4> QED BY <2>1, <3>1, <4>1, DecisionDenies
    <3>2. CASE ~(Conf[q.loc].mode = "enforce" \/ Conf[q.loc].require)
      BY <2>1, <3>2 DEF Status
    <3> QED BY <3>1, <3>2
  <2> QED BY <1>2, <1>11, <1>13, <2>2, <2>3 DEF AccessHandler
<1>14. ASSUME NEW l \in Location, Redirect(r, l)
       PROVE  DenyInv'
  <2>1. PICK p : p = [q EXCEPT !.pc = "preaccess", !.loc = l, !.ctx = NoCtx,
                               !.decision = "none"]
    OBVIOUS
  <2>2. req' = [req EXCEPT ![r] = p] /\ shown' = shown
    BY <1>1, <1>2, <1>14, <2>1 DEF Redirect, Req
  <2>3. p.pc = "preaccess" /\ p.ctx = NoCtx /\ p.decision = "none"
    BY <2>1 DEF Req
  <2>4. Justified(p, now, shown'[NonceOf[p.sig]])
    BY <2>3, FreshJustified DEF NoCtx
  <2> QED BY <1>5, <1>6, <2>2, <2>4
<1> QED BY <1>7, <1>8, <1>9, <1>10, <1>12, <1>13, <1>14 DEF DirectoryPhase

\* Every step keeps DenyInv.
LEMMA DenyNext ==
    ASSUME ~EarlyReads
    PROVE  DenyInv /\ [AccessNext]_accessVars => DenyInv'
<1> SUFFICES ASSUME DenyInv, [AccessNext]_accessVars PROVE DenyInv'
  OBVIOUS
<1>1. AccessInv' /\ ShownInv'
  BY AccessInvNext, ShownNext DEF DenyInv
<1>2. ASSUME UNCHANGED <<req, shown>>, now <= now'
      PROVE  DenyInv'
  <2>1. /\ req \in [Request -> Req] /\ shown \in [Key -> Nat]
        /\ now \in Nat /\ now' \in Nat
    BY <1>1 DEF DenyInv, AccessInv, AccessTypeOK, ZoneInv, NonceTypeOK
  <2>2. ASSUME NEW x \in Request
        PROVE  Justified(req[x], now', shown[NonceOf[req[x].sig]])
    <3>1. PICK q \in Req : q = req[x] /\ Justified(q, now, shown[NonceOf[q.sig]])
      BY <2>1 DEF DenyInv
    <3>2. shown[NonceOf[q.sig]] \in Nat
      BY <2>1, WindowAssumption DEF Req
    <3>3. Justified(q, now', shown[NonceOf[q.sig]])
      BY <1>2, <2>1, <3>1, <3>2, JustifiedStays
    <3> QED BY <3>1, <3>3
  <2>3. \A x \in Request : Justified(req[x], now, shown[NonceOf[req[x].sig]])'
    BY <1>2, <2>2 DEF Justified, Reason, SignerVouched, Offered
  <2> QED BY <1>1, <2>3 DEF DenyInv
<1>3. now \in Nat
  BY DEF DenyInv, AccessInv, ZoneInv, NonceTypeOK
<1>4. CASE UNCHANGED accessVars
  BY <1>2, <1>3, <1>4 DEF accessVars
<1>5. CASE NonceTick /\ UNCHANGED <<req, shown>>
  BY <1>2, <1>3, <1>5 DEF NonceTick
<1>6. ASSUME NEW w \in Worker, NonceUpdateTime(w), UNCHANGED <<req, shown>>
      PROVE  DenyInv'
  BY <1>2, <1>3, <1>6 DEF NonceUpdateTime
<1> QED BY <1>1, <1>4, <1>5, <1>6, EvaluateJustified, RequestJustified DEF AccessNext

\* A well-signed message is denied only for what its sender or the operator
\* did, in every configuration that does not read the variables early: those
\* that do are the early_violation run's.
THEOREM ValidIsServed == ASSUME ~EarlyReads PROVE AccessSpec => []ValidNotRejected
<1>1. DenyInv => ValidNotRejected
  <2> SUFFICES ASSUME DenyInv, NEW r \in Request, req[r].decision \in Status,
                      WellSigned(Msg[req[r].sig])
               PROVE  LET q == req[r]
                          consulted == Conf[q.loc].directory /\ Msg[q.sig].agent
                      IN \/ now > WindowEnd(q.sig, q.loc) \/ WindowStart(q.sig, q.loc) > 0
                         \/ /\ ~SignerVouched(q)
                            /\ \/ q.ctx.jwks # "none" \/ ~consulted
                               \/ Has(StaticKeys, Msg[q.sig].keyid)
                         \/ shown[NonceOf[q.sig]] > 1
                         \/ NonceLen[q.sig] = "long"
                         \/ NonceLen[q.sig] = "none" /\ Conf[q.loc].nonce_required
                         \/ Conf[q.memo.at].closed /\ q.ctx.nonce_store_unavailable
                         \/ q.ctx.starved
    BY DEF ValidNotRejected
  <2>1. PICK q \in Req : q = req[r]
    BY DEF DenyInv, AccessInv, AccessTypeOK
  <2>2. PICK n \in Nat : n = shown[NonceOf[q.sig]]
    BY WindowAssumption DEF DenyInv, AccessInv, AccessTypeOK, Req
  <2>3. Justified(q, now, n)
    BY <2>1, <2>2 DEF DenyInv
  <2>4. Reason(q, now, n) /\ q.ctx.result \notin {"OK", "KEY_UNAVAILABLE"}
    BY <2>1, <2>3 DEF Justified
  <2>5. n >= 2 => shown[NonceOf[q.sig]] > 1
    BY <2>2
  <2> QED BY <2>1, <2>4, <2>5 DEF Reason, Result
<1> QED BY <1>1, DenyInit, DenyNext, PTL DEF AccessSpec

-----------------------------------------------------------------------------
(* Access on top of the store: what NonceStore and ReplayGuard promise holds *)
(* of the whole server.                                                     *)

\* A request asks the store on behalf of the worker that serves it.
LEMMA AskedIsCheck ==
    ASSUME AccessInv, NEW r \in Request, NonceAsked(r)
    PROVE  /\ Check(WorkerOf[r], req[r].sig, req[r].loc)
           /\ WorkerOf[r] \in Worker /\ req[r].sig \in Sig /\ req[r].loc \in Location
<1>1. PICK q \in Req : q = req[r]
  BY EvaluateStarts DEF NonceAsked
<1>2. PICK t : t = clock[WorkerOf[r]]
  OBVIOUS
<1>3. PICK k, rc : Asked(r, q, t, k, rc)
  BY <1>1, <1>2, NonceAskedDoes
<1>4. Check(WorkerOf[r], q.sig, q.loc)
  BY <1>3 DEF Asked
<1>5. WorkerOf[r] \in Worker /\ q.sig \in Sig /\ q.loc \in Location
  BY AccessAssumption DEF Req
<1> QED BY <1>1, <1>4, <1>5

\* The store sees a request's steps as its own, or not at all.
LEMMA StoreStep == AccessInv /\ [AccessNext]_accessVars => [NonceNext]_nonceVars
<1> SUFFICES ASSUME AccessInv, AccessNext PROVE [NonceNext]_nonceVars
  BY DEF accessVars, nonceVars
<1>1. CASE NonceTick \/ \E w \in Worker : NonceUpdateTime(w)
  BY <1>1 DEF NonceNext
<1>2. ASSUME NEW r \in Request, Evaluate(r)
      PROVE  [NonceNext]_nonceVars
  <2>1. CASE NonceAsked(r)
    BY <2>1, AskedIsCheck DEF NonceNext
  <2>2. CASE EvaluatePlain(r) \/ EvaluateFails(r) \/ NonceNotAsked(r)
    BY <2>2 DEF EvaluatePlain, EvaluateFails, NonceNotAsked
  <2> QED BY <1>2, <2>1, <2>2 DEF Evaluate
<1>3. ASSUME NEW r \in Request, NEW s \in Sig, NEW l \in Location, Arrive(r, s, l)
      PROVE  UNCHANGED nonceVars
  BY <1>3 DEF Arrive
<1> QED BY <1>1, <1>2, <1>3, RequestKeeps DEF AccessNext

\* Whatever its requests do, a server uses its nonce store as NonceStore says:
\* with checks of signatures inside their window, at the time of the worker
\* that evaluates them.
THEOREM RequestsUseStore == AccessSpec => NonceSpec
<1>1. AccessInit => NonceInit
  BY DEF AccessInit
<1> QED BY <1>1, AccessInvInit, AccessInvNext, StoreStep, PTL DEF AccessSpec, NonceSpec

\* With one max_skew, the zone keeps its promise to the server's requests, and
\* they have no signature accepted twice.
THEOREM RequestsAreGuarded ==
    ASSUME UniformSkew
    PROVE  AccessSpec => ZoneKeepsPromise /\ []NoReplay
BY RequestsUseStore, ZoneImplementsGuard, ReplayRejected, PTL

-----------------------------------------------------------------------------
(* One nonce admits one request.                                            *)

\* The store's OK is on the pool of the request q.
Granted(q) ==
    /\ q.memo.known /\ q.memo.result = "OK"
    /\ ~q.memo.unavailable /\ ~q.memo.internal_error

\* A grant in service whose message can still be accepted is known to the
\* store, and no other such grant has its nonce.  A second one would be an OK
\* of the store for a nonce that an accepted signature still needs.
AdmitInv ==
    /\ AccessInv /\ ReplayInv
    /\ \A r \in Request :
          /\ req[r].pc # "idle" /\ Granted(req[r]) /\ req[r].sig \in OpenAt(now)
          => accepts[req[r].sig] # 0
    /\ \A r, t \in Request :
          /\ r # t /\ req[r].pc # "idle" /\ req[t].pc # "idle"
          /\ Granted(req[r]) /\ Granted(req[t])
          /\ NonceOf[req[r].sig] = NonceOf[req[t].sig]
          => ~({req[r].sig, req[t].sig} \subseteq OpenAt(now))

\* Who is admitted has the store's OK.
LEMMA AdmittedGranted ==
    ASSUME AccessInv, NEW r \in Request, Admitted(req[r])
    PROVE  req[r].pc # "idle" /\ Granted(req[r])
<1>1. PICK q \in Req : q = req[r] /\ ReqOK(q)
  BY DEF AccessInv, AccessTypeOK
<1>2. q.ctx.done /\ q.ctx.result = "OK" /\ ~q.ctx.internal_error /\ q.pc = "decided"
  BY <1>1 DEF Admitted, ReqOK
<1>3. VerdictOK(q)
  BY <1>1, <1>2 DEF ReqOK
<1> QED BY <1>1, <1>2, <1>3 DEF VerdictOK, Admitted, Granted

\* evaluate() keeps who is evaluated and leaves the memo it is given.
LEMMA EvaluatedMemo ==
    ASSUME NEW q \in Req, NEW k, NEW result, NEW internal, NEW unavailable, NEW memo,
           NEW p, p = Evaluated(q, k, result, internal, unavailable, memo)
    PROVE  p.pc = q.pc /\ p.sig = q.sig /\ p.memo = memo
BY DEF Evaluated, Req

\* p follows the request q, and has no grant that q had not.
Ungranted(p, q) == p.pc = q.pc /\ p.sig = q.sig /\ (Granted(p) => Granted(q))

\* Without the store nothing is granted.
LEMMA PlainGrantsNothing ==
    ASSUME AccessInv, NEW r \in Request,
           EvaluatePlain(r) \/ EvaluateFails(r) \/ NonceNotAsked(r)
    PROVE  /\ UNCHANGED nonceVars
           /\ \E p : req' = [req EXCEPT ![r] = p] /\ Ungranted(p, req[r])
<1>1. PICK q \in Req : q = req[r]
  BY DEF AccessInv, AccessTypeOK
<1>2. UNCHANGED nonceVars
  BY DEF EvaluatePlain, EvaluateFails, NonceNotAsked
<1>3. ASSUME NEW k, NEW result, NEW internal, NEW unavailable, NEW memo,
             memo = q.memo \/ ~memo.known \/ memo.result # "OK" \/ memo.internal_error,
             req' = [req EXCEPT ![r] = Evaluated(q, k, result, internal, unavailable, memo)]
      PROVE  \E p : req' = [req EXCEPT ![r] = p] /\ Ungranted(p, q)
  <2>1. PICK p : p = Evaluated(q, k, result, internal, unavailable, memo)
    OBVIOUS
  <2>2. p.pc = q.pc /\ p.sig = q.sig /\ p.memo = memo
    BY <2>1, EvaluatedMemo
  <2> QED BY <1>3, <2>1, <2>2 DEF Ungranted, Granted
<1>4. CASE EvaluatePlain(r)
  <2>1. PICK k, result, internal, unavailable :
          req' = [req EXCEPT ![r] = Evaluated(q, k, result, internal, unavailable, q.memo)]
    BY <1>1, <1>4 DEF EvaluatePlain
  <2> QED BY <1>1, <1>2, <1>3, <2>1
<1>5. CASE EvaluateFails(r)
  <2>1. CASE req' = [req EXCEPT ![r].ctx.done = TRUE, ![r].ctx.internal_error = TRUE]
    <3> DEFINE c == [q.ctx EXCEPT !.done = TRUE, !.internal_error = TRUE]
    <3>1. PICK p : p = [q EXCEPT !.ctx = c]
      OBVIOUS
    <3>2. req' = [req EXCEPT ![r] = p]
      BY <1>1, <2>1, <3>1 DEF AccessInv, AccessTypeOK, Req, Ctx
    <3> HIDE DEF c
    <3>3. p.pc = q.pc /\ p.sig = q.sig /\ p.memo = q.memo
      BY <3>1 DEF Req
    <3> QED BY <1>1, <1>2, <3>2, <3>3 DEF Ungranted, Granted
  <2>2. CASE \E k \in Resolved(q) : req' = [req EXCEPT ![r] =
                      Evaluated(q, k, "NOT_SIGNED", TRUE, FALSE, q.memo)]
    <3>1. PICK k, internal, unavailable :
            req' = [req EXCEPT ![r] =
                      Evaluated(q, k, "NOT_SIGNED", internal, unavailable, q.memo)]
      BY <2>2
    <3> QED BY <1>1, <1>2, <1>3, <3>1
  <2> QED BY <1>1, <1>5, <2>1, <2>2 DEF EvaluateFails
<1>6. CASE NonceNotAsked(r)
  <2> DEFINE long == [NewMemo(q) EXCEPT !.result = "NONCE_TOO_LONG"]
             failed == [NewMemo(q) EXCEPT !.internal_error = TRUE]
  <2>1. PICK k : \/ req' = [req EXCEPT ![r] = Evaluated(q, k, "OK", TRUE, FALSE, NoMemo)]
                 \/ req' = [req EXCEPT ![r] =
                              Evaluated(q, k, "NONCE_TOO_LONG", FALSE, FALSE, long)]
                 \/ req' = [req EXCEPT ![r] = Evaluated(q, k, "OK", TRUE, FALSE, failed)]
    BY <1>1, <1>6 DEF NonceNotAsked
  <2>2. long.result = "NONCE_TOO_LONG" /\ failed.internal_error = TRUE /\ ~NoMemo.known
    BY NewMemoIs, IdleType DEF Memo
  <2> HIDE DEF long, failed
  <2>3. PICK result, internal, unavailable, memo :
          /\ memo \in {NoMemo, long, failed}
          /\ req' = [req EXCEPT ![r] = Evaluated(q, k, result, internal, unavailable, memo)]
    BY <2>1
  <2> QED BY <1>1, <1>2, <1>3, <2>2, <2>3
<1> QED BY <1>4, <1>5, <1>6

\* The store's OK alone grants.
LEMMA StoreGrants ==
    ASSUME AccessInv, NEW r \in Request, NonceAsked(r)
    PROVE  \E p : /\ req' = [req EXCEPT ![r] = p]
                  /\ p.pc = req[r].pc /\ p.sig = req[r].sig
                  /\ Granted(p) => verdict'.rc = "OK"
<1>1. PICK q \in Req : q = req[r]
  BY EvaluateStarts DEF NonceAsked
<1>2. PICK t : t = clock[WorkerOf[r]]
  OBVIOUS
<1>3. PICK k, rc : Asked(r, q, t, k, rc)
  BY <1>1, <1>2, NonceAskedDoes
<1> DEFINE x == StoreResult(q.loc, rc)
           u == rc = "ABORT"
<1>4. rc = verdict'.rc /\ rc \in {"OK", "DECLINED", "ABORT"}
  <2>1. WorkerOf[r] \in Worker /\ q.sig \in Sig /\ q.loc \in Location
    BY AccessAssumption DEF Req
  <2>2. Check(WorkerOf[r], q.sig, q.loc) /\ rc = verdict'.rc
    BY <1>3 DEF Asked
  <2> QED BY <2>1, <2>2, CheckStep DEF AccessInv, ZoneStep
<1>5. x = "OK" /\ ~u => rc = "OK"
  BY <1>4 DEF StoreResult
<1>6. req' = [req EXCEPT ![r] = Evaluated(q, k, x, FALSE, u,
                [NewMemo(q) EXCEPT !.result = x, !.unavailable = u])]
  BY <1>3 DEF Asked
<1> HIDE DEF x, u
<1>7. PICK m : m = [NewMemo(q) EXCEPT !.result = x, !.unavailable = u]
  OBVIOUS
<1>8. m.result = x /\ m.unavailable = u
  BY <1>7, NewMemoIs DEF Memo
<1>9. PICK internal, p : internal = FALSE /\ p = Evaluated(q, k, x, internal, u, m)
  OBVIOUS
<1>10. p.pc = q.pc /\ p.sig = q.sig /\ p.memo = m
  BY <1>9, EvaluatedMemo
<1>11. req' = [req EXCEPT ![r] = p]
  BY <1>6, <1>7, <1>9
<1>12. Granted(p) => rc = "OK"
  BY <1>5, <1>8, <1>10 DEF Granted
<1> QED BY <1>1, <1>4, <1>10, <1>11, <1>12

\* A request that is replaced by one with no new grant.
LEMMA AdmitKept ==
    ASSUME AdmitInv, AccessInv', ReplayInv', UNCHANGED nonceVars, NEW r \in Request,
           NEW p, req' = [req EXCEPT ![r] = p],
           p.pc # "idle" => \/ ~Granted(p)
                            \/ /\ req[r].pc # "idle" /\ p.sig = req[r].sig
                               /\ Granted(req[r])
    PROVE  AdmitInv'
<1>1. req \in [Request -> Req]
  BY DEF AdmitInv, AccessInv, AccessTypeOK
<1>2. req'[r] = p /\ \A x \in Request \ {r} : req'[x] = req[x]
  BY <1>1
<1>3. ASSUME NEW x \in Request, req'[x].pc # "idle", Granted(req'[x])
      PROVE  req[x].pc # "idle" /\ req'[x].sig = req[x].sig /\ Granted(req[x])
  BY <1>2, <1>3
<1>4. now' = now /\ accepts' = accepts
  BY DEF nonceVars
<1>5. OpenAt(now)' = OpenAt(now)
  BY <1>4 DEF OpenAt, WindowEnd
<1>6. \A x \in Request : Granted(req[x])' = Granted(req'[x])
  BY DEF Granted
<1> QED BY <1>3, <1>4, <1>5, <1>6 DEF AdmitInv

\* Time and clocks move on: windows end, and nothing is granted.
LEMMA AdmitPasses ==
    ASSUME AdmitInv, AccessInv', ReplayInv', UNCHANGED <<req, accepts>>,
           OpenAt(now') \subseteq OpenAt(now)
    PROVE  AdmitInv'
<1>1. OpenAt(now)' = OpenAt(now')
  BY DEF OpenAt, WindowEnd
<1>2. \A x \in Request : Granted(req[x])' = Granted(req[x])
  BY DEF Granted
<1> QED BY <1>1, <1>2 DEF AdmitInv

\* The store's answer: a grant is a nonce that no accepted signature needs.
LEMMA AdmitAsked ==
    ASSUME UniformSkew, AdmitInv, AccessInv', ReplayInv', NEW r \in Request, NonceAsked(r)
    PROVE  AdmitInv'
<1>1. req \in [Request -> Req] /\ accepts \in [Sig -> Nat]
  BY DEF AdmitInv, AccessInv, AccessTypeOK, NonceTypeOK
<1>2. PICK q \in Req : q = req[r]
  BY <1>1
<1>3. PICK p : /\ req' = [req EXCEPT ![r] = p]
               /\ p.pc = q.pc /\ p.sig = q.sig
               /\ Granted(p) => verdict'.rc = "OK"
  BY <1>2, StoreGrants DEF AdmitInv
<1>4. PICK w \in Worker, s \in Sig, l \in Location : Check(w, s, l) /\ s = q.sig
  BY <1>2, AskedIsCheck DEF AdmitInv
<1>5. now' = now
  BY <1>4 DEF Check
<1>6. PICK rc : /\ rc = verdict'.rc
                /\ accepts' = IF rc = "OK" /\ now <= WindowEnd(s, l)
                              THEN [accepts EXCEPT ![s] = @ + 1] ELSE accepts
  BY <1>4, CheckStep DEF AdmitInv, AccessInv
<1>7. \A x \in Sig : accepts[x] # 0 => accepts'[x] # 0
  BY <1>1, <1>6
<1>8. req'[r] = p /\ \A x \in Request \ {r} : req'[x] = req[x]
  BY <1>1, <1>3
<1>9. OpenAt(now)' = OpenAt(now) /\ \A x \in Request : Granted(req[x])' = Granted(req'[x])
  BY <1>5 DEF OpenAt, WindowEnd, Granted
<1>10. \A x \in Request : req[x].sig \in Sig
  BY <1>1 DEF Req
\* What the store's OK says of the nonce.
<1>11. ASSUME rc = "OK"
       PROVE  /\ \A x \in Sig : accepts[x] # 0 /\ x \in OpenAt(now) => NonceOf[x] # NonceOf[s]
              /\ s \in OpenAt(now) => accepts'[s] # 0
  <2>1. Guard!Accept(s) \/ Guard!Decline(s) \/ Guard!GiveUp(s)
    BY <1>4, CheckAnswers DEF AdmitInv
  <2>2. Guard!Accept(s)
    BY <1>6, <1>11, <2>1 DEF Guard!Decline, Guard!GiveUp
  <2>3. NonceOf[s] \in Guard!Free(OpenAt(now))
    BY <2>2 DEF Guard!Accept
  <2>4. s \in OpenAt(now) => now <= WindowEnd(s, l)
    BY OneWindow
  <2> QED BY <1>1, <1>6, <1>11, <2>3, <2>4 DEF Guard!Free
<1>12. ASSUME NEW x \in Request, req'[x].pc # "idle", Granted(req'[x]),
              req'[x].sig \in OpenAt(now)
       PROVE  accepts'[req'[x].sig] # 0
  <2>1. CASE x = r
    BY <1>3, <1>4, <1>6, <1>8, <1>11, <1>12, <2>1
  <2>2. CASE x # r
    BY <1>7, <1>8, <1>10, <1>12, <2>2 DEF AdmitInv
  <2> QED BY <2>1, <2>2
<1>13. ASSUME NEW x \in Request, x # r, Granted(p), req[x].pc # "idle",
              Granted(req[x]), NonceOf[req[x].sig] = NonceOf[p.sig]
       PROVE  req[x].sig \notin OpenAt(now)
  <2>1. \A y \in Sig : accepts[y] # 0 /\ y \in OpenAt(now) => NonceOf[y] # NonceOf[s]
    BY <1>3, <1>6, <1>11, <1>13
  <2> QED BY <1>3, <1>4, <1>10, <1>13, <2>1 DEF AdmitInv
<1>14. ASSUME NEW x \in Request, NEW y \in Request, x # y,
              req'[x].pc # "idle", req'[y].pc # "idle",
              Granted(req'[x]), Granted(req'[y]),
              NonceOf[req'[x].sig] = NonceOf[req'[y].sig]
       PROVE  ~({req'[x].sig, req'[y].sig} \subseteq OpenAt(now))
  <2>1. CASE x # r /\ y # r
    BY <1>8, <1>14, <2>1 DEF AdmitInv
  <2>2. CASE x = r
    BY <1>8, <1>13, <1>14, <2>2
  <2>3. CASE y = r
    BY <1>8, <1>13, <1>14, <2>3
  <2> QED BY <2>1, <2>2, <2>3
<1> QED BY <1>9, <1>12, <1>14 DEF AdmitInv

\* Nobody was granted anything yet.
LEMMA AdmitInit == AccessInit => AdmitInv
<1> SUFFICES ASSUME AccessInit PROVE AdmitInv
  OBVIOUS
<1>1. AccessInv /\ ReplayInv
  BY AccessInvInit, ReplayInit DEF AccessInit
<1>2. \A r \in Request : req[r].pc = "idle"
  BY DEF AccessInit, IdleReq
<1> QED BY <1>1, <1>2 DEF AdmitInv

\* Every step keeps AdmitInv.
LEMMA AdmitNext ==
    ASSUME UniformSkew
    PROVE  AdmitInv /\ [AccessNext]_accessVars => AdmitInv'
<1> SUFFICES ASSUME AdmitInv, [AccessNext]_accessVars PROVE AdmitInv'
  OBVIOUS
<1>1. AccessInv /\ AccessInv' /\ ReplayInv /\ ReplayInv'
  BY AccessInvNext, StoreStep, ReplayNext DEF AdmitInv
<1>2. CASE UNCHANGED accessVars
  BY <1>1, <1>2, AdmitPasses DEF accessVars
<1>3. CASE NonceTick /\ UNCHANGED <<req, shown>>
  <2>1. OpenAt(now') \subseteq OpenAt(now)
    <3> SUFFICES ASSUME NEW s \in Sig, NEW l \in Location, now' <= WindowEnd(s, l)
                 PROVE  now <= WindowEnd(s, l)
      BY DEF OpenAt
    <3>1. now \in Nat /\ WindowEnd(s, l) \in Nat /\ now' = now + 1
      BY <1>1, <1>3, WindowAssumption DEF AccessInv, ZoneInv, NonceTypeOK, WindowEnd, NonceTick
    <3> QED BY <3>1
  <2> QED BY <1>1, <1>3, <2>1, AdmitPasses DEF NonceTick
<1>4. ASSUME NEW w \in Worker, NonceUpdateTime(w), UNCHANGED <<req, shown>>
      PROVE  AdmitInv'
  BY <1>1, <1>4, AdmitPasses DEF NonceUpdateTime
<1>5. ASSUME NEW r \in Request, NEW s \in Sig, NEW l \in Location, Arrive(r, s, l)
      PROVE  AdmitInv'
  <2>1. PICK p : p = [IdleReq EXCEPT !.pc = "preaccess", !.sig = s, !.loc = l]
    OBVIOUS
  <2>2. ~Granted(p)
    BY <2>1, IdleType DEF Req, Granted
  <2> QED BY <1>1, <1>5, <2>1, <2>2, AdmitKept DEF Arrive
<1>6. ASSUME NEW r \in Request,
             \/ DirectoryPhase(r) \/ AccessFails(r) \/ AccessHandler(r)
             \/ \E l \in Location : Redirect(r, l)
             \/ Finish(r)
      PROVE  AdmitInv'
  <2>1. PICK p : /\ req' = [req EXCEPT ![r] = p]
                 /\ p.pc # "idle" => /\ req[r].pc # "idle" /\ p.sig = req[r].sig
                                     /\ p.memo = req[r].memo
    BY <1>1, <1>6, RequestKeeps
  <2>2. UNCHANGED nonceVars
    BY <1>1, <1>6, RequestKeeps
  <2>3. p.pc # "idle" => (Granted(p) <=> Granted(req[r]))
    BY <2>1 DEF Granted
  <2> QED BY <1>1, <2>1, <2>2, <2>3, AdmitKept
<1>7. ASSUME NEW r \in Request, EvaluatePlain(r) \/ EvaluateFails(r) \/ NonceNotAsked(r)
      PROVE  AdmitInv'
  <2>1. PICK p : req' = [req EXCEPT ![r] = p] /\ Ungranted(p, req[r])
    BY <1>1, <1>7, PlainGrantsNothing
  <2>2. UNCHANGED nonceVars
    BY <1>1, <1>7, PlainGrantsNothing
  <2> QED BY <1>1, <2>1, <2>2, AdmitKept DEF Ungranted
<1> QED BY <1>1, <1>2, <1>3, <1>4, <1>5, <1>6, <1>7, AdmitAsked DEF AccessNext, Evaluate

\* With one max_skew, two requests in service with one nonce are never both
\* admitted while both their messages can still be accepted: for any messages,
\* configurations, lags of the clocks, reclaiming and internal redirects.
THEOREM OneAdmission == ASSUME UniformSkew PROVE AccessSpec => []AdmittedOnce
<1>1. AdmitInv => AdmittedOnce
  <2> SUFFICES ASSUME AdmitInv, NEW r \in Request, NEW t \in Request, r # t,
                      NonceOf[req[r].sig] = NonceOf[req[t].sig],
                      Admitted(req[r]), Admitted(req[t])
               PROVE  ~({req[r].sig, req[t].sig} \subseteq OpenAt(now))
    BY DEF AdmittedOnce
  <2>1. \A x \in {r, t} : req[x].pc # "idle" /\ Granted(req[x])
    BY AdmittedGranted DEF AdmitInv
  <2> QED BY <2>1 DEF AdmitInv
<1> QED BY <1>1, AdmitInit, AdmitNext, PTL DEF AccessSpec
=============================================================================
