------------------------ MODULE ConfigurationProofs -------------------------
(***************************************************************************)
(* TLAPS proofs about Configuration, for every tree of blocks and every    *)
(* set of directives.                                                      *)
(***************************************************************************)
EXTENDS Configuration, TLAPS

\* No list of hosts in the http block itself, which is never checked.
AllowBelowHttp == Http \notin AllowAt

\* The inductive invariant: a list of hosts has been checked against the zone
\* in the block that declares it, and only such lists are inherited.
ZoneInv ==
    /\ decl \in [Block -> {decl[b] : b \in Block}]
    /\ conf \in [Block -> {conf[b] : b \in Block}]
    /\ merged \subseteq Block \ {Http}
    /\ phase = "parsing" => merged = {}
    /\ phase = "started" => merged = Block \ {Http}
    /\ \A b \in Block : "allow" \in DOMAIN decl[b] => b \in AllowAt
    /\ "allow" \notin DOMAIN conf[Http]
    /\ \A b \in merged : conf[b]["allow"] = "list" => "key_cache_zone" \in resources

\* Nothing is merged and nothing declared at first.
LEMMA InitZone == ConfInit => ZoneInv
BY ConfigurationAssumption DEF ConfInit, ZoneInv, Nothing

\* Parsing, merging and starting preserve the invariant.
LEMMA NextZone ==
    ASSUME AllowBelowHttp, ZoneInv, [ConfNext]_confVars
    PROVE  ZoneInv'
<1>1. ASSUME NEW b \in Block, NEW f \in DOMAIN Values, NEW v \in Values[f],
             Declare(b, f, v)
      PROVE  ZoneInv'
  <2>1. \A c \in Block : DOMAIN decl'[c] =
            IF c = b THEN DOMAIN decl[b] \cup {f} ELSE DOMAIN decl[c]
    BY <1>1 DEF Declare, ZoneInv
  <2>2. \A c \in Block : "allow" \in DOMAIN decl'[c] => c \in AllowAt
    BY <1>1, <2>1 DEF Declare, ZoneInv
  <2>3. decl' \in [Block -> {decl'[c] : c \in Block}]
    BY <1>1 DEF Declare, ZoneInv
  <2> QED BY <1>1, <2>2, <2>3 DEF Declare, ZoneInv
<1>2. ASSUME NEW x \in Resource, DeclareResource(x)
      PROVE  ZoneInv'
  BY <1>2 DEF DeclareResource, ZoneInv
<1>3. CASE ParseEnds
  BY <1>3, ConfigurationAssumption DEF ParseEnds, ZoneInv, AllowBelowHttp
<1>4. ASSUME NEW b \in Block, Merge(b)
      PROVE  ZoneInv'
  <2> DEFINE c == Merged(b)
  <2>1. b # Http /\ Parent[b] \in merged \cup {Http} /\ b \in Block
    BY <1>4 DEF Merge, Due
  <2>2. c["allow"] = IF Declares(b, "allow") THEN decl[b]["allow"]
                     ELSE IF "allow" \in DOMAIN conf[Parent[b]]
                     THEN conf[Parent[b]]["allow"] ELSE "none"
    BY DEF Merged, Directives, Defaults
  <2>3. c["allow"] = "list" => "key_cache_zone" \in resources
    <3>1. CASE Declares(b, "allow")
      BY <1>4, <3>1 DEF Merge, Usable, AllowUsable
    <3>2. CASE ~Declares(b, "allow")
      BY <2>1, <2>2, <3>2 DEF ZoneInv
    <3> QED BY <3>1, <3>2
  <2> HIDE DEF c
  <2>4. /\ conf' = [conf EXCEPT ![b] = c] /\ merged' = merged \cup {b}
        /\ UNCHANGED <<decl, resources, phase>> /\ phase = "merging"
    BY <1>4 DEF Merge, Due, c
  <2> QED BY <2>1, <2>3, <2>4 DEF ZoneInv
<1>5. ASSUME NEW b \in Block, Refuse(b)
      PROVE  ZoneInv'
  BY <1>5 DEF Refuse, ZoneInv
<1>6. CASE Start
  BY <1>6 DEF Start, ZoneInv
<1>7. CASE UNCHANGED confVars
  BY <1>7 DEF confVars, ZoneInv
<1> QED BY <1>1, <1>2, <1>3, <1>4, <1>5, <1>6, <1>7 DEF ConfNext

\* Where every list of hosts is in a server or a location, no request meets an
\* enabled directory without a zone to cache it in.
THEOREM ZoneBehindDirectory ==
    ASSUME AllowBelowHttp PROVE ConfSpec => []DirectoryHasZone
<1>1. ZoneInv => DirectoryHasZone
  BY DEF ZoneInv, DirectoryHasZone, Serving, Enabled
<1> QED BY <1>1, InitZone, NextZone, PTL DEF ConfSpec
-----------------------------------------------------------------------------
(* The merged configuration: one store, keys to verify with, and demands     *)
(* that are met.                                                             *)

\* The types, with what the invariants below need of them: nothing is merged
\* before parsing ends and all of it when nginx starts, and a store has one of
\* the three names wherever it is set.
TypeInv ==
    /\ ConfTypeOK
    /\ decl \in [Block -> {decl[b] : b \in Block}]
    /\ conf \in [Block -> {conf[b] : b \in Block}]
    /\ phase = "parsing" => merged = {} /\ DOMAIN conf[Http] = {}
    /\ phase = "started" => merged = Block \ {Http}
    /\ \A b \in Block : "nonce_store" \in DOMAIN decl[b] =>
          decl[b]["nonce_store"] \in NonceBackend
    /\ "nonce_store" \in DOMAIN conf[Http] =>
          conf[Http]["nonce_store"] \in NonceBackend
    /\ \A b \in merged : conf[b]["nonce_store"] \in NonceBackend

\* Every store selected so far is the backend, and what it needs is declared.
StoreInv ==
    \A b \in merged : conf[b]["nonce_store"] # "off" =>
        /\ conf[b]["nonce_store"] = backend
        /\ backend = "shm" => "nonce_zone" \in resources
        /\ backend = "redis" => "nonce_redis" \in resources

\* A list of hosts, wherever it was inherited from, is one that some block
\* declares; a block that verifies has keys.
KeysInv ==
    /\ "allow" \in DOMAIN conf[Http] /\ conf[Http]["allow"] = "list" => Dynamic
    /\ \A b \in merged :
          /\ conf[b]["allow"] = "list" => Dynamic
          /\ conf[b]["mode"] # "off" =>
                conf[b]["jwks"] # "none" \/ Enabled(conf[b])

\* A demand made so far has been noted, in a block that verifies.
DemandInv ==
    \A b \in merged : UsesAccess(conf[b]) => access_used /\ conf[b]["mode"] # "off"

ConfInv == TypeInv /\ StoreInv /\ KeysInv /\ DemandInv

\* Nothing is merged and nothing declared at first.
LEMMA InitConf == ConfInit => ConfInv
BY ConfigurationAssumption
   DEF ConfInit, ConfInv, TypeInv, ConfTypeOK, StoreInv, KeysInv, DemandInv,
       Nothing, NonceBackend

\* A directive declared adds to what a block declares and changes nothing
\* else: a list of hosts declared before stays declared.
LEMMA DeclareConf ==
    ASSUME ConfInv, NEW b \in Block, NEW f \in DOMAIN Values, NEW v \in Values[f],
           Declare(b, f, v)
    PROVE  ConfInv'
<1> USE DEF ConfInv
<1>1. /\ decl' = [decl EXCEPT ![b] =
                    [g \in DOMAIN decl[b] \cup {f} |-> IF g = f THEN v ELSE decl[b][g]]]
      /\ UNCHANGED <<resources, conf, merged, backend, access_used, phase>>
      /\ phase = "parsing" /\ f \notin DOMAIN decl[b]
  BY DEF Declare
<1>2. \A c \in Block \ {b} : decl'[c] = decl[c]
  BY <1>1 DEF TypeInv
<1>3. decl'[b] = [g \in DOMAIN decl[b] \cup {f} |-> IF g = f THEN v ELSE decl[b][g]]
  BY <1>1 DEF TypeInv
<1>4. decl' \in [Block -> {decl'[c] : c \in Block}]
  BY <1>1 DEF TypeInv
<1>5. \A c \in Block : DOMAIN decl'[c] \subseteq Directives
  <2>1. f \in Directives
    BY ConfigurationAssumption
  <2>2. DOMAIN decl'[b] = DOMAIN decl[b] \cup {f}
    BY <1>3
  <2> QED BY <1>2, <2>1, <2>2 DEF TypeInv, ConfTypeOK
<1>6. \A c \in Block : "nonce_store" \in DOMAIN decl'[c] =>
          decl'[c]["nonce_store"] \in NonceBackend
  <2>1. "nonce_store" \in DOMAIN decl'[b] => decl'[b]["nonce_store"] \in NonceBackend
    <3>1. CASE f = "nonce_store"
      BY <1>3, <3>1, ConfigurationAssumption
    <3>2. CASE f # "nonce_store"
      BY <1>3, <3>2 DEF TypeInv
    <3> QED BY <3>1, <3>2
  <2> QED BY <2>1, <1>2 DEF TypeInv
<1>7. ConfTypeOK'
  BY <1>1, <1>5 DEF TypeInv, ConfTypeOK
<1>8. TypeInv'
  BY <1>1, <1>4, <1>6, <1>7 DEF TypeInv
<1>9. merged' = {} /\ DOMAIN conf'[Http] = {}
  BY <1>1 DEF TypeInv
<1> QED BY <1>8, <1>9 DEF StoreInv, KeysInv, DemandInv

\* The end of parsing gives the http block what it declares, unchecked.
LEMMA ParseEndsConf ==
    ASSUME ConfInv, ParseEnds
    PROVE  ConfInv'
<1> USE DEF ConfInv
<1>1. /\ conf' = [conf EXCEPT ![Http] = decl[Http]] /\ phase' = "merging"
      /\ phase = "parsing" /\ merged = {}
      /\ UNCHANGED <<decl, resources, merged, backend, access_used>>
  BY DEF ParseEnds, TypeInv
<1>2. conf'[Http] = decl[Http] /\ conf' \in [Block -> {conf'[b] : b \in Block}]
  BY <1>1, ConfigurationAssumption DEF TypeInv
<1>3. TypeInv'
  <2>1. ConfTypeOK'
    BY <1>1 DEF TypeInv, ConfTypeOK
  <2> QED BY <1>1, <1>2, <2>1, ConfigurationAssumption DEF TypeInv
<1>4. "allow" \in DOMAIN conf'[Http] /\ conf'[Http]["allow"] = "list" => Dynamic'
  BY <1>1, <1>2, ConfigurationAssumption DEF Dynamic
<1> QED BY <1>1, <1>3, <1>4 DEF StoreInv, KeysInv, DemandInv

\* merge_loc_conf() on one block keeps what it established for the blocks
\* before it: it selects no second store, and what it inherits was declared.
LEMMA MergeConf ==
    ASSUME ConfInv, NEW b \in Block, Merge(b)
    PROVE  ConfInv'
<1> USE DEF ConfInv
<1> DEFINE c == Merged(b)
<1>1. /\ b # Http /\ b \notin merged /\ Parent[b] \in merged \cup {Http}
      /\ phase = "merging" /\ Usable(b, c)
      /\ conf' = [conf EXCEPT ![b] = c] /\ merged' = merged \cup {b}
      /\ backend' = IF c["nonce_store"] = "off" THEN backend ELSE c["nonce_store"]
      /\ access_used' = (access_used \/ UsesAccess(c))
      /\ UNCHANGED <<decl, resources, phase>>
  BY DEF Merge, Due
<1>2. DOMAIN c = Directives
  BY DEF Merged
<1>3. \A f \in Directives : c[f] = IF f \in DOMAIN decl[b] THEN decl[b][f]
          ELSE IF f \in DOMAIN conf[Parent[b]] THEN conf[Parent[b]][f]
          ELSE Defaults[f]
  BY DEF Merged, Declares
<1>4. {"nonce_store", "allow", "mode"} \subseteq Directives
      /\ Defaults["nonce_store"] = "off" /\ Defaults["allow"] = "none"
  BY DEF Directives, Defaults
<1> HIDE DEF c
<1>5. conf'[b] = c /\ (\A a \in Block \ {b} : conf'[a] = conf[a])
      /\ conf' \in [Block -> {conf'[a] : a \in Block}]
  BY <1>1 DEF TypeInv
<1>6. c["nonce_store"] \in NonceBackend
  <2>1. CASE "nonce_store" \in DOMAIN decl[b]
    BY <1>3, <1>4, <2>1 DEF TypeInv
  <2>2. CASE "nonce_store" \notin DOMAIN decl[b] /\ "nonce_store" \in DOMAIN conf[Parent[b]]
    BY <1>1, <1>3, <1>4, <2>2 DEF TypeInv
  <2>3. CASE "nonce_store" \notin DOMAIN decl[b] /\ "nonce_store" \notin DOMAIN conf[Parent[b]]
    BY <1>3, <1>4, <2>3 DEF NonceBackend
  <2> QED BY <2>1, <2>2, <2>3
<1>7. backend' \in NonceBackend /\ access_used' \in BOOLEAN
  BY <1>1, <1>6 DEF TypeInv, ConfTypeOK
<1>8. ConfTypeOK'
  BY <1>1, <1>2, <1>5, <1>7 DEF TypeInv, ConfTypeOK
<1>9. TypeInv'
  <2>1. \A a \in merged' : conf'[a]["nonce_store"] \in NonceBackend
    BY <1>1, <1>5, <1>6 DEF TypeInv, ConfTypeOK
  <2>2. conf'[Http] = conf[Http]
    BY <1>1, <1>5, ConfigurationAssumption
  <2> QED BY <1>1, <1>5, <1>8, <2>1, <2>2 DEF TypeInv
<1>10. StoreInv'
  <2>1. c["nonce_store"] # "off" =>
            /\ backend \in {"off", c["nonce_store"]}
            /\ c["nonce_store"] = "redis" => "nonce_redis" \in resources
            /\ c["nonce_store"] = "shm" => "nonce_zone" \in resources
    BY <1>1 DEF Usable, NonceUsable
  <2> SUFFICES ASSUME NEW a \in merged', conf'[a]["nonce_store"] # "off"
               PROVE  /\ conf'[a]["nonce_store"] = backend'
                      /\ backend' = "shm" => "nonce_zone" \in resources'
                      /\ backend' = "redis" => "nonce_redis" \in resources'
    BY DEF StoreInv
  <2>2. CASE a = b
    BY <1>1, <1>5, <2>1, <2>2
  <2>3. CASE a # b
    <3>1. a \in merged /\ conf'[a] = conf[a]
      BY <1>1, <1>5, <2>3 DEF TypeInv, ConfTypeOK
    <3>2. backend = conf[a]["nonce_store"] /\ backend # "off"
      BY <3>1 DEF StoreInv
    <3>3. backend' = backend
      BY <1>1, <2>1, <3>2
    <3> QED BY <1>1, <3>1, <3>2, <3>3 DEF StoreInv
  <2> QED BY <2>2, <2>3
<1>11. Dynamic' = Dynamic
  BY <1>1 DEF Dynamic
<1>12. c["allow"] = "list" => Dynamic
  <2>1. CASE "allow" \in DOMAIN decl[b]
    BY <1>3, <1>4, <2>1 DEF Dynamic
  <2>2. CASE "allow" \notin DOMAIN decl[b] /\ "allow" \in DOMAIN conf[Parent[b]]
    BY <1>1, <1>3, <1>4, <2>2 DEF KeysInv
  <2>3. CASE "allow" \notin DOMAIN decl[b] /\ "allow" \notin DOMAIN conf[Parent[b]]
    BY <1>3, <1>4, <2>3
  <2> QED BY <2>1, <2>2, <2>3
<1>13. c["mode"] # "off" => c["jwks"] # "none" \/ Enabled(c)
  BY <1>1 DEF Usable, ModeUsable
<1>14. KeysInv'
  <2>1. \A a \in merged : a # b /\ a # Http /\ a \in Block
    BY <1>1 DEF TypeInv, ConfTypeOK
  <2>2. conf'[Http] = conf[Http]
    BY <1>1, <1>5, ConfigurationAssumption
  <2> QED BY <1>1, <1>5, <1>11, <1>12, <1>13, <2>1, <2>2 DEF KeysInv
<1>15. UsesAccess(c) => c["mode"] # "off"
  BY <1>1 DEF Usable, ModeUsable, UsesAccess
<1>16. DemandInv'
  <2>1. \A a \in merged : a # b /\ a \in Block
    BY <1>1 DEF TypeInv, ConfTypeOK
  <2> QED BY <1>1, <1>5, <1>15, <2>1 DEF DemandInv
<1> QED BY <1>9, <1>10, <1>14, <1>16

\* Every step preserves the invariant.
LEMMA NextConf ==
    ASSUME ConfInv, [ConfNext]_confVars
    PROVE  ConfInv'
<1> USE DEF ConfInv
<1>1. ASSUME NEW x \in Resource, DeclareResource(x)
      PROVE  ConfInv'
  <2>1. resources' = resources \cup {x} /\ phase = "parsing"
        /\ UNCHANGED <<decl, conf, merged, backend, access_used, phase>>
    BY <1>1 DEF DeclareResource
  <2>2. TypeInv'
    BY <2>1 DEF TypeInv, ConfTypeOK
  <2>3. KeysInv'
    BY <2>1 DEF KeysInv, Dynamic
  <2> QED BY <2>1, <2>2, <2>3 DEF StoreInv, DemandInv
<1>2. ASSUME NEW b \in Block, Refuse(b)
      PROVE  ConfInv'
  <2>1. UNCHANGED <<decl, resources, conf, merged, backend, access_used>>
        /\ phase = "merging" /\ phase' = "refused"
    BY <1>2 DEF Refuse, Due
  <2>2. TypeInv'
    <3>1. ConfTypeOK'
      BY <2>1 DEF TypeInv, ConfTypeOK
    <3> QED BY <2>1, <3>1 DEF TypeInv
  <2> QED BY <2>1, <2>2 DEF StoreInv, KeysInv, DemandInv, Dynamic, Enabled, UsesAccess
<1>3. CASE Start
  <2>1. UNCHANGED <<decl, resources, conf, merged, backend, access_used>>
        /\ merged = Block \ {Http} /\ phase' = "started"
    BY <1>3 DEF Start
  <2>2. TypeInv'
    <3>1. ConfTypeOK'
      BY <2>1 DEF TypeInv, ConfTypeOK
    <3> QED BY <2>1, <3>1 DEF TypeInv
  <2> QED BY <2>1, <2>2 DEF StoreInv, KeysInv, DemandInv, Dynamic, Enabled, UsesAccess
<1>4. CASE UNCHANGED confVars
  <2>1. TypeInv'
    BY <1>4 DEF confVars, TypeInv, ConfTypeOK
  <2> QED BY <1>4, <2>1
          DEF confVars, StoreInv, KeysInv, DemandInv, Dynamic, Enabled, UsesAccess
<1> QED BY DeclareConf, ParseEndsConf, MergeConf, <1>1, <1>2, <1>3, <1>4 DEF ConfNext

\* The inductive invariant holds throughout parsing, merging and serving.
LEMMA ConfInvariant == ConfSpec => []ConfInv
BY InitConf, NextConf, PTL DEF ConfSpec

\* Blocks have their directives, and are merged from the outside in.
THEOREM ConfTypeCorrect == ConfSpec => []ConfTypeOK
<1>1. ConfInv => ConfTypeOK
  BY DEF ConfInv, TypeInv
<1> QED BY <1>1, ConfInvariant, PTL

\* The blocks nginx serves with use one nonce store between them, whose zone
\* or server was declared, wherever the selection was inherited from.
THEOREM StoresAgree == ConfSpec => []OneNonceBackend
<1>1. ConfInv => OneNonceBackend
  BY DEF ConfInv, TypeInv, StoreInv, OneNonceBackend, Serving
<1> QED BY <1>1, ConfInvariant, PTL

\* A block that verifies has static keys, or a directory and the handler that
\* fetches it.
THEOREM VerifiersSupplied == ConfSpec => []VerifierHasKeys
<1>1. ConfInv => VerifierHasKeys
  BY DEF ConfInv, TypeInv, KeysInv, VerifierHasKeys, Serving, Enabled,
         PreaccessRegistered
<1> QED BY <1>1, ConfInvariant, PTL

\* Where a signature is enforced or required, access_handler() is registered
\* and the block verifies.
THEOREM DemandsMet == ConfSpec => []DemandsAreEnforced
<1>1. ConfInv => DemandsAreEnforced
  BY DEF ConfInv, TypeInv, DemandInv, DemandsAreEnforced, AccessRegistered,
         UsesAccess
<1> QED BY <1>1, ConfInvariant, PTL
=============================================================================
