-------------------------- MODULE DirectoryProofs ---------------------------
(***************************************************************************)
(* TLAPS proofs about Directory, for every answer an origin can give.      *)
(***************************************************************************)
EXTENDS Directory, WellFoundedInduction, TLAPS

\* A non-empty set of positions of a sequence has a last one.
LEMMA LastPosition ==
    ASSUME NEW n \in Nat, NEW T \in SUBSET (1 .. n), T # {}
    PROVE  \E i \in T : \A j \in T : j <= i
<1> DEFINE D == {n - i : i \in T}
<1>1. D \subseteq Nat /\ D # {}
  <2>1. \A i \in T : n - i \in Nat
    OBVIOUS
  <2>2. PICK i \in T : TRUE
    OBVIOUS
  <2>3. n - i \in D
    OBVIOUS
  <2> QED BY <2>1, <2>3
<1>2. PICK x \in D : \A y \in D : ~ (<<y, x>> \in OpToRel(<, Nat))
  BY <1>1, NatLessThanWellFounded, WFMin
<1>3. PICK i \in T : x = n - i
  BY <1>2
<1>4. ASSUME NEW j \in T PROVE j <= i
  <2>1. n - j \in D
    OBVIOUS
  <2>2. ~ (n - j < n - i)
    BY <1>1, <1>2, <1>3, <2>1 DEF OpToRel
  <2> QED BY <2>2
<1> QED BY <1>3, <1>4

\* The number the last "max-age" or "s-maxage" leaves is a natural number.
LEMMA LastValueType ==
    ASSUME NEW cc \in Seq(Directive), NEW name, Named(cc, name) # {}
    PROVE  LastValue(cc, name) \in Nat
<1> DEFINE T == Named(cc, name)
           last == CHOOSE i \in T : \A j \in T : j <= i
<1>1. T \in SUBSET (1 .. Len(cc)) /\ Len(cc) \in Nat
  BY DEF Named
<1>2. \E i \in T : \A j \in T : j <= i
  BY <1>1, LastPosition
<1>3. last \in T
  BY <1>2
<1>4. cc[last] \in Directive
  BY <1>1, <1>3
<1> QED BY <1>4 DEF LastValue, Directive

\* The lifetime the origin asks for is a natural number.
LEMMA DerivedType == \A cc \in Seq(Directive) : Derived(cc) \in Nat
<1> SUFFICES ASSUME NEW cc \in Seq(Directive) PROVE Derived(cc) \in Nat
  OBVIOUS
<1>1. \A name : Has(cc, name) => Named(cc, name) # {}
  BY DEF Has
<1>2. \A name : Has(cc, name) => LastValue(cc, name) \in Nat
  BY <1>1, LastValueType
<1> QED BY <1>2 DEF Derived

\* Whatever Cache-Control and Age an origin sends, directory_ttl() stays
\* between the configured bounds: an origin can neither make every request
\* fetch nor pin a document for longer than the operator allows.
THEOREM TtlInBounds ==
    ASSUME NEW cc \in Seq(Directive), NEW age \in Nat,
           NEW min_ttl \in Nat, NEW max_ttl \in Nat, min_ttl <= max_ttl
    PROVE  DirectoryTtl(cc, age, min_ttl, max_ttl) \in min_ttl .. max_ttl
BY DerivedType DEF DirectoryTtl

\* An answer whose caching is forbidden is cached for min_ttl, neither more
\* nor less.
THEOREM ForbiddenIsFloor ==
    ASSUME NEW cc \in Seq(Directive), NEW age \in Nat,
           NEW min_ttl \in Nat \ {0}, NEW max_ttl \in Nat,
           NEW i \in DOMAIN cc, cc[i].name = "forbid"
    PROVE  DirectoryTtl(cc, age, min_ttl, max_ttl) = min_ttl
<1>1. Derived(cc) = 0
  BY DEF Derived, Named
<1> QED BY <1>1 DEF DirectoryTtl
=============================================================================
