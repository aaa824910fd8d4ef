----------------------------- MODULE KeysCache ------------------------------
(***************************************************************************)
(* The worker-local cache of parsed key sets (ngx_auth_httpsig_keys_cache.c)*)
(* as operators on one worker's slots.                                     *)
(*                                                                         *)
(* put() evicts any slot of the same host before it takes one, so a host   *)
(* occupies at most one slot and the slots are a function of the host;     *)
(* generation 0 marks a host without a slot (get() and put() refuse 0).    *)
(* The touched stamps are used only to find the least recently touched     *)
(* slot, so they are kept as ages: how many slots were touched since.      *)
(* A parsed key set is named by the document it was parsed from.           *)
(***************************************************************************)
EXTENDS Integers, FiniteSets

CONSTANT KeySlots  \* NGX_AUTH_HTTPSIG_MAX_KEYS_CACHE_ENTRIES

ASSUME KeySlotsAssumption == KeySlots \in Nat \ {0}

Slot == [generation : Nat, keys : Nat, age : Nat]

FreeSlot == [generation |-> 0, keys |-> 0, age |-> 0]

\* keys_cache_create(): ngx_pcalloc()ed, every slot free.
EmptyKeysCache(hosts) == [h \in hosts |-> FreeSlot]

Occupied(kc) == {h \in DOMAIN kc : kc[h].generation # 0}

\* find() and the generation test of get().
CacheHolds(kc, h, gen) == gen # 0 /\ kc[h].generation = gen

\* `touched = ++clock` on h's slot, which was `old` touches old.
Touch(kc, h, old) ==
    [x \in DOMAIN kc |->
        IF x = h THEN [kc[x] EXCEPT !.age = 0]
        ELSE IF x \in Occupied(kc) /\ kc[x].age < old
             THEN [kc[x] EXCEPT !.age = @ + 1]
             ELSE kc[x]]

\* get(), when it hits.
CacheGet(kc, h) == Touch(kc, h, kc[h].age)

\* Faulty variant of Evicted: the most recently touched slot goes.
EvictedNewest(kc, h) ==
    IF h \in Occupied(kc) \/ Cardinality(Occupied(kc)) < KeySlots THEN {}
    ELSE {CHOOSE v \in Occupied(kc) :
             \A x \in Occupied(kc) : kc[x].age >= kc[v].age}

\* slot_for(): the same host's slot, else a free one, else the least recently
\* touched one is evicted.
Evicted(kc, h) ==
    IF h \in Occupied(kc) \/ Cardinality(Occupied(kc)) < KeySlots THEN {}
    ELSE {CHOOSE v \in Occupied(kc) :
             \A x \in Occupied(kc) : kc[x].age <= kc[v].age}

\* put(), once the document parsed.
CachePut(kc, h, gen, keys) ==
    LET kept == [x \in DOMAIN kc |-> IF x \in Evicted(kc, h) THEN FreeSlot
                                ELSE kc[x]]
        old  == IF h \in Occupied(kc) THEN kc[h].age
                ELSE Cardinality(Occupied(kc))
    IN [Touch(kept, h, old) EXCEPT
           ![h] = [generation |-> gen, keys |-> keys, age |-> 0]]

-----------------------------------------------------------------------------
\* The slots in use are at most the slots there are, and their ages rank them:
\* n slots have the ages 0 .. n - 1, one each.  So the one to evict is
\* never in doubt, as it is not for the code's stamps.
Ranked(kc) ==
    LET n == Cardinality(Occupied(kc)) IN
    /\ IsFiniteSet(Occupied(kc)) /\ n <= KeySlots
    /\ \A x \in Occupied(kc) : kc[x].age < n
    /\ \A x, y \in Occupied(kc) : x # y => kc[x].age # kc[y].age
=============================================================================
