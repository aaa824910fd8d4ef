---------------------------- MODULE NonceWindow -----------------------------
(***************************************************************************)
(* What the replay check knows of a signature: its store key (agent host,  *)
(* keyid and nonce, joined with NULs none of them can contain; two         *)
(* signatures may share it) and its time window in the location where it   *)
(* arrived, which decides how long a nonce store keeps the key.            *)
(***************************************************************************)
EXTENDS Integers

CONSTANTS
    Sig,        \* signatures carrying a nonce that verify with a trusted key
    NonceOf,    \* NonceOf[s]: the store key of s
    CreatedOf,  \* CreatedOf[s]: its created parameter
    ExpiresOf,  \* ExpiresOf[s]: its expires parameter
    Key,
    Location,
    MaxSkew     \* MaxSkew[l]: auth_httpsig_max_skew in l

ASSUME WindowAssumption ==
    /\ NonceOf \in [Sig -> Key]
    /\ CreatedOf \in [Sig -> Nat]
    /\ ExpiresOf \in [Sig -> Nat]
    /\ MaxSkew \in [Location -> Nat]

WindowEnd(s, l) == ExpiresOf[s] + MaxSkew[l]

WindowStart(s, l) == CreatedOf[s] - MaxSkew[l]

\* profile_verify()'s time window, both ends included.
InWindow(s, l, t) == WindowStart(s, l) <= t /\ t <= WindowEnd(s, l)

\* Faulty variant of StoreTtl: the skew is forgotten.
StoreTtlBare(s, l, t) == IF ExpiresOf[s] - t < 1 THEN 1 ELSE ExpiresOf[s] - t

\* nonce_store_ttl()
StoreTtl(s, l, t) ==
    IF WindowEnd(s, l) - t < 1 THEN 1 ELSE WindowEnd(s, l) - t

\* The signatures whose window, in some location, has not ended at time t.
OpenAt(t) == {s \in Sig : \E l \in Location : t <= WindowEnd(s, l)}

\* Every location has the same max_skew.
UniformSkew == \A l, m \in Location : MaxSkew[l] = MaxSkew[m]
=============================================================================
