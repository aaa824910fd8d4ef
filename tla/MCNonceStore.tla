---------------------------- MODULE MCNonceStore ----------------------------
(* TLC instances of NonceStore. *)
EXTENDS NonceStore, TLC

CONSTANTS w1, w2, a, b, c, l1, l2

\* Signatures are named after their nonce; b2 reuses b's nonce.
CONSTANT b2

MCNonceOf == [s \in Sig |-> IF s = b2 THEN b ELSE s]

\* Lifetimes that end at different times, so reclaim order matters.
MCExpiresOf == [s \in Sig |-> IF s = a THEN 3 ELSE IF s = c THEN 1 ELSE 2]

\* With a skew of one, the window of a begins at 1.
MCCreatedOf == [s \in Sig |-> IF s = a THEN 2 ELSE 0]

SameSkew == [l \in Location |-> 1]

\* One location lenient, the other strict.
TwoSkews == [l \in Location |-> IF l = l1 THEN 0 ELSE 2]

\* Nodes of one size: room for any two.
TwoNodes == {S \in SUBSET Key : Cardinality(S) <= 2}
=============================================================================
