------------------------------ MODULE MCAccess ------------------------------
(* TLC instances of Access. *)
EXTENDS Access, TLC

CONSTANTS w1, r1, r2, k1, k2, l1, l2

\* A message of the profile, with Signature-Agent.
Good == [input |-> "proper", signature |-> "proper", labels |-> {"sig1"},
         entries |-> <<[label |-> "other", tagged |-> FALSE, inner |-> FALSE,
                        typed |-> FALSE, params |-> {}, ed25519 |-> FALSE,
                        covered |-> {}],
                       [label |-> "sig1", tagged |-> TRUE, inner |-> TRUE,
                        typed |-> TRUE, params |-> RequiredParams \cup {"nonce"},
                        ed25519 |-> FALSE,
                        covered |-> {"@authority", "signature-agent"}]>>,
         agent |-> TRUE, lifetime |-> TRUE, base |-> TRUE,
         keyid |-> "T1", signer |-> "T1", sized |-> TRUE]

\* Messages are named after what sets them apart: no signature, a forgery of
\* the valid one, which does not cover Signature-Agent, no nonce and no
\* Signature-Agent, a raw kid for a keyid, the same kid used by the owner of
\* the static key, that key under its own name: in l2 only this one gets as far
\* as the store, whose failures are open there.  The others are well signed,
\* "long" with a nonce that is too long.
MCMsg ==
    [s \in Sig |->
        CASE s = "unsigned" -> [Good EXCEPT !.input = "absent", !.entries = <<>>]
          [] s = "forged"   -> [Good EXCEPT !.signer = "nobody",
                                            !.entries[2].covered = {"@authority"}]
          [] s = "named"    -> [Good EXCEPT !.keyid = "name"]
          [] s = "borrowed" -> [Good EXCEPT !.keyid = "name", !.signer = "T0"]
          [] s = "bare"     -> [Good EXCEPT !.agent = FALSE, !.keyid = "T0",
                                            !.signer = "T0"]
          [] s = "static"   -> [Good EXCEPT !.keyid = "T0", !.signer = "T0"]
          [] OTHER          -> Good]

MCJwk == [ed25519 |-> TRUE, usable |-> TRUE, thumbprint |-> "T1",
          kid |-> "name"]

\* A document with the signers' key, one without it and one that is refused for
\* a key of another type.
MCPublished ==
    [covers |-> [large |-> FALSE, shaped |-> TRUE,
                 keys |-> <<MCJwk, [MCJwk EXCEPT !.usable = FALSE]>>],
     lacks |-> [large |-> FALSE, shaped |-> TRUE,
                keys |-> <<[MCJwk EXCEPT !.thumbprint = "T2", !.kid = "T2"]>>],
     mixed |-> [large |-> FALSE, shaped |-> TRUE,
                keys |-> <<MCJwk, [MCJwk EXCEPT !.ed25519 = FALSE]>>]]

\* The static key has the raw kid of the directory's.
OneStatic == <<{[thumbprint |-> "T0", kid |-> "name"]}>>

NoStatic == <<>>

MCNonceLen ==
    [s \in Sig |-> CASE s = "bare" -> "none" [] s = "long" -> "long"
                     [] OTHER -> "fits"]

\* A forged message carries the nonce of the valid one; k2 stands for the
\* nonce of whichever other message is presented.
MCNonceOf == [s \in Sig |-> IF s \in {"valid", "forged"} THEN k1 ELSE k2]

\* The valid message, or a forgery of it, can meet another of its kind.
TwoOfOne == [k \in Key |-> IF k = k1 THEN 2 ELSE 1]

OneOfEach == [k \in Key |-> 1]

\* The window of "bare" has not begun when the clocks start, that of "named" is
\* the first to end.
MCCreatedOf == [s \in Sig |-> IF s = "bare" THEN 2 ELSE 0]

MCExpiresOf == [s \in Sig |-> IF s = "named" THEN 1 ELSE 2]

NoSkew == [l \in Location |-> 0]

OneNode == {S \in SUBSET Key : Cardinality(S) <= 1}

\* One worker serves both request slots.
OneWorker == [r \in Request |-> w1]

\* No action reads the history of the store's checks, and no property of
\* these runs is about it.
WithoutHistory == <<now, clock, record, req, shown>>

RequestSymmetry == Permutations({r1, r2})

Statuses == [missing |-> "401", invalid |-> "403", parse_error |-> "400",
             replay |-> "429"]

Enforcing == [mode |-> "enforce", require |-> TRUE, directory |-> TRUE,
              nonce_store |-> TRUE, nonce_required |-> TRUE, closed |-> TRUE,
              satisfy_any |-> FALSE, keyid_fallback_allow |-> TRUE,
              status |-> Statuses]

Observing == [mode |-> "observe", require |-> TRUE, directory |-> FALSE,
              nonce_store |-> TRUE, nonce_required |-> FALSE, closed |-> FALSE,
              satisfy_any |-> TRUE, keyid_fallback_allow |-> FALSE,
              status |-> Statuses]

\* l1 enforces, with the directory and closed failures; l2 observes, without
\* it and with open ones.
MCConf == [l \in Location |-> IF l = l1 THEN Enforcing ELSE Observing]

\* Failures of the store are open everywhere.
OpenConf == [l \in Location |-> [Enforcing EXCEPT !.closed = FALSE]]
=============================================================================
