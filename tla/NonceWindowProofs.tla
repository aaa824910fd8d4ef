------------------------- MODULE NonceWindowProofs --------------------------
(***************************************************************************)
(* TLAPS proofs of what both nonce stores rely on about time windows.      *)
(***************************************************************************)
EXTENDS NonceWindow, TLAPS

\* The windows and ttls of signatures are well typed, and a record written
\* now lasts to the end of the window.
LEMMA WindowType ==
    ASSUME NEW s \in Sig, NEW l \in Location, NEW t \in Nat
    PROVE  /\ WindowEnd(s, l) \in Nat
           /\ StoreTtl(s, l, t) \in Nat \ {0}
           /\ t + StoreTtl(s, l, t) >= WindowEnd(s, l)
<1>1. WindowEnd(s, l) \in Nat
  BY WindowAssumption DEF WindowEnd
<1> QED BY <1>1 DEF StoreTtl

\* With one skew, the window a check sees is the one that is open or not.
LEMMA OneWindow ==
    ASSUME UniformSkew, NEW s \in Sig, NEW l \in Location, NEW t
    PROVE  s \in OpenAt(t) <=> t <= WindowEnd(s, l)
<1>1. \A m \in Location : WindowEnd(s, m) = WindowEnd(s, l)
  BY DEF UniformSkew, WindowEnd
<1> QED BY <1>1 DEF OpenAt
=============================================================================
