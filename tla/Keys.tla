-------------------------------- MODULE Keys --------------------------------
(***************************************************************************)
(* ngx_auth_httpsig_keys.c and verify_ed25519(): key sets loaded from JWKS *)
(* documents, chains of them, and the verdict on a signature.              *)
(*                                                                         *)
(* A key is its RFC 7638 thumbprint and the kid its document gives it.  A  *)
(* signature is the thumbprint of the key that made it over the signature  *)
(* base ("nobody" when no key did).  A handle is the sequence of the sets  *)
(* it tries in order: <<>> is NULL, <<S>> a JWKS, longer ones are chains.  *)
(***************************************************************************)
EXTENDS Integers, Sequences

CONSTANT MaxJwksKeys  \* NGX_AUTH_HTTPSIG_MAX_JWKS_KEYS

ASSUME MaxJwksKeysAssumption == MaxJwksKeys \in Nat

\* An element of "keys".  ed25519: its kty and crv say so; usable: the parser
\* of nxe_jwx does not skip it.
Jwk == [ed25519 : BOOLEAN, usable : BOOLEAN, thumbprint : STRING, kid : STRING]

\* A document.  large: longer than MAX_JWKS_SIZE; shaped: a JSON object with
\* an array "keys".
Jwks == [large : BOOLEAN, shaped : BOOLEAN, keys : Seq(Jwk)]

PublicKey == [thumbprint : STRING, kid : STRING]

Handle == Seq(SUBSET PublicKey)

\* check_ed25519_only(): one key of another type spoils the document.
Ed25519Only(doc) ==
    /\ doc.shaped
    /\ Len(doc.keys) <= MaxJwksKeys
    /\ \A i \in DOMAIN doc.keys : doc.keys[i].ed25519

\* What nxe_jwx_jwks_parse() makes of a document.
UsableKeys(doc) ==
    {[thumbprint |-> doc.keys[i].thumbprint, kid |-> doc.keys[i].kid] :
        i \in {j \in DOMAIN doc.keys : doc.keys[j].usable}}

\* keys_load_jwks(), when there is memory for it; NULL for NGX_ERROR.
LoadJwks(doc) ==
    IF doc.large \/ ~Ed25519Only(doc) THEN <<>> ELSE <<UsableKeys(doc)>>

\* keys_chain(), when there is memory for it.
Chain(first, second) == first \o second

\* Faulty variant of FallbackKeys: the static keys of a chain are not left out.
FallbackKeysChain(allowed, directory, static) ==
    IF allowed THEN directory \o static ELSE <<>>

\* The keys a raw kid may name: the directory's, if the operator said so, and
\* never the static ones.
FallbackKeys(allowed, directory, static) ==
    IF allowed THEN directory ELSE <<>>

\* keys_has() of a JWKS or, set by set, of a chain.
Has(keys, keyid) ==
    \E i \in DOMAIN keys : \E k \in keys[i] : k.thumbprint = keyid

\* keys_has_kid()
HasKid(keys, kid) == \E i \in DOMAIN keys : \E k \in keys[i] : k.kid = kid

\* keys_verify(): a chain goes on after any NGX_DECLINED.
VerifyKey(keys, keyid, signer) ==
    \E i \in DOMAIN keys :
        \E k \in keys[i] : k.thumbprint = keyid /\ k.thumbprint = signer

\* keys_verify_kid()
VerifyKid(keys, kid, signer) ==
    \E i \in DOMAIN keys :
        \E k \in keys[i] : k.kid = kid /\ k.thumbprint = signer

\* verify_ed25519(); sized: the signature has 64 bytes.
VerifyEd25519(keys, keyid, signer, sized, fallback) ==
    IF keys = <<>> \/ keyid = "" THEN "UNKNOWN_KEYID"
    ELSE IF ~sized THEN "SIGNATURE_MISMATCH"
    ELSE IF ~Has(keys, keyid) THEN
            IF ~HasKid(keys, keyid) THEN "UNKNOWN_KEYID"
            ELSE IF VerifyKid(fallback, keyid, signer) THEN "OK"
            ELSE "KEYID_NOT_THUMBPRINT"
    ELSE IF VerifyKey(keys, keyid, signer) THEN "OK"
    ELSE "SIGNATURE_MISMATCH"

\* Who may speak under a keyid: the key of which it is the thumbprint, if the
\* directory or the static JWKS has it; with the fallback, and only if no key
\* has that thumbprint, also a key the directory itself calls so.
Authentic(directory, static, allowed, keyid, signer) ==
    \/ /\ signer = keyid
       /\ Has(directory, keyid) \/ Has(static, keyid)
    \/ /\ allowed
       /\ ~Has(directory, keyid) /\ ~Has(static, keyid)
       /\ \E i \in DOMAIN directory :
             [thumbprint |-> signer, kid |-> keyid] \in directory[i]
=============================================================================
