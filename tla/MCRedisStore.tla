---------------------------- MODULE MCRedisStore ----------------------------
(* TLC instance of RedisStore. *)
EXTENDS RedisStore, TLC

CONSTANTS w1, w2, a, b, k1, l1

\* Two signatures of different lifetimes that carry the same nonce.
SharedNonce == [s \in Sig |-> k1]

MCExpiresOf == [s \in Sig |-> IF s = a THEN 2 ELSE 1]

\* With the skew, the window of a begins at 1.
MCCreatedOf == [s \in Sig |-> IF s = a THEN 2 ELSE 0]

MCSkew == [l \in Location |-> 1]

WorkerSymmetry == Permutations({w1, w2})
=============================================================================
