--------------------------- MODULE ProfileProofs ----------------------------
(***************************************************************************)
(* TLAPS proofs about Profile, for every message a client can send.        *)
(***************************************************************************)
EXTENDS Profile, WellFoundedInduction, TLAPS

\* A message with a label of this profile has a first one, and
\* profile_select_entry() finds it.
LEMMA FirstTagged ==
    ASSUME NEW m \in Message, Tagged(m) # {}
    PROVE  \E i \in Tagged(m) : /\ \A j \in Tagged(m) : i <= j
                                /\ SelectEntry(m) = m.entries[i]
<1> DEFINE T == Tagged(m)
           first == CHOOSE i \in T : \A j \in T : i <= j
<1>1. T \subseteq Nat
  BY DEF Tagged, Message
<1>2. PICK i \in T : \A j \in T : ~ (<<j, i>> \in OpToRel(<, Nat))
  BY <1>1, NatLessThanWellFounded, WFMin
<1>3. ASSUME NEW j \in T PROVE i <= j
  <2>1. ~ (j < i)
    BY <1>1, <1>2 DEF OpToRel
  <2> QED BY <1>1, <2>1
<1>4. first \in T /\ \A j \in T : first <= j
  BY <1>3
<1> QED BY <1>4 DEF SelectEntry

\* There is only one first label.
LEMMA FirstTaggedUnique ==
    ASSUME NEW m \in Message,
           NEW i \in Tagged(m), \A k \in Tagged(m) : i <= k,
           NEW j \in Tagged(m), \A k \in Tagged(m) : j <= k
    PROVE  i = j
<1>1. i \in Nat /\ j \in Nat /\ i <= j /\ j <= i
  BY DEF Tagged, Message
<1> QED BY <1>1

\* A chain has a keyid if one of its parts has it.
LEMMA ChainHas ==
    ASSUME NEW first \in Handle, NEW second \in Handle, NEW keyid
    PROVE  Has(Chain(first, second), keyid)
              <=> Has(first, keyid) \/ Has(second, keyid)
<1> DEFINE both == first \o second
<1>1. /\ \A i \in DOMAIN first : i \in DOMAIN both /\ both[i] = first[i]
      /\ \A i \in DOMAIN second :
            Len(first) + i \in DOMAIN both /\ both[Len(first) + i] = second[i]
      /\ \A i \in DOMAIN both :
            \/ i \in DOMAIN first /\ both[i] = first[i]
            \/ i - Len(first) \in DOMAIN second
               /\ both[i] = second[i - Len(first)]
  BY DEF Handle
<1> QED BY <1>1 DEF Has, Chain

\* The same for a key's thumbprint and signature, and for a raw kid.
LEMMA ChainVerifies ==
    ASSUME NEW first \in Handle, NEW second \in Handle, NEW keyid, NEW signer
    PROVE  /\ VerifyKey(Chain(first, second), keyid, signer)
                 <=> VerifyKey(first, keyid, signer)
                     \/ VerifyKey(second, keyid, signer)
           /\ HasKid(first, keyid) => HasKid(Chain(first, second), keyid)
<1> DEFINE both == first \o second
<1>1. /\ \A i \in DOMAIN first : i \in DOMAIN both /\ both[i] = first[i]
      /\ \A i \in DOMAIN second :
            Len(first) + i \in DOMAIN both /\ both[Len(first) + i] = second[i]
      /\ \A i \in DOMAIN both :
            \/ i \in DOMAIN first /\ both[i] = first[i]
            \/ i - Len(first) \in DOMAIN second
               /\ both[i] = second[i - Len(first)]
  BY DEF Handle
<1>2. VerifyKey(both, keyid, signer) <=> VerifyKey(first, keyid, signer)
                                         \/ VerifyKey(second, keyid, signer)
  BY <1>1 DEF VerifyKey
<1>3. HasKid(first, keyid) => HasKid(both, keyid)
  BY <1>1 DEF HasKid
<1> QED BY <1>2, <1>3 DEF Chain

\* A thumbprint names its own key and no other.
LEMMA VerifyKeyIsHas ==
    ASSUME NEW keys, NEW keyid, NEW signer
    PROVE  VerifyKey(keys, keyid, signer) <=> signer = keyid /\ Has(keys, keyid)
BY DEF VerifyKey, Has

\* keys_verify_kid() finds a key that its document calls kid.
LEMMA VerifyKidNames ==
    ASSUME NEW keys \in Handle, NEW kid \in STRING, NEW signer \in STRING
    PROVE  /\ VerifyKid(keys, kid, signer) <=>
                 \E i \in DOMAIN keys :
                    [thumbprint |-> signer, kid |-> kid] \in keys[i]
           /\ VerifyKid(keys, kid, signer) => HasKid(keys, kid)
<1>1. \A i \in DOMAIN keys : \A k \in keys[i] :
         k = [thumbprint |-> k.thumbprint, kid |-> k.kid]
  BY DEF Handle, PublicKey
<1>2. ASSUME NEW i \in DOMAIN keys
      PROVE  (\E k \in keys[i] : k.kid = kid /\ k.thumbprint = signer)
                <=> [thumbprint |-> signer, kid |-> kid] \in keys[i]
  BY <1>1
<1> QED BY <1>2 DEF VerifyKid, HasKid

\* verify_ed25519(), with the chain and the fallback that evaluate() gives it,
\* accepts a signature exactly when its signer may speak under the keyid: the
\* order of the chain, its falling through and the test of the raw kid in the
\* whole chain let nobody else in, in particular no kid of the static JWKS.
THEOREM SignerExact ==
    ASSUME NEW directory \in Handle, NEW static \in Handle,
           NEW allowed \in BOOLEAN, NEW m \in Message
    PROVE  VerifyEd25519(Chain(directory, static), m.keyid, m.signer, m.sized,
                         FallbackKeys(allowed, directory, static)) = "OK"
              <=> /\ m.keyid # "" /\ m.sized
                  /\ Authentic(directory, static, allowed, m.keyid, m.signer)
<1> DEFINE keyid == m.keyid
           signer == m.signer
           sized == m.sized
           keys == Chain(directory, static)
           fallback == FallbackKeys(allowed, directory, static)
           named == \E i \in DOMAIN directory :
                       [thumbprint |-> signer, kid |-> keyid] \in directory[i]
<1>0. keyid \in STRING /\ signer \in STRING /\ sized \in BOOLEAN
  BY DEF Message
<1> HIDE DEF keyid, signer, sized
<1>1. Has(keys, keyid) <=> Has(directory, keyid) \/ Has(static, keyid)
  BY ChainHas
<1>2. VerifyKey(keys, keyid, signer) <=> signer = keyid /\ Has(keys, keyid)
  BY VerifyKeyIsHas
<1>3. VerifyKid(fallback, keyid, signer) <=> allowed /\ named
  <2>1. ~VerifyKid(<<>>, keyid, signer)
    BY DEF VerifyKid
  <2> QED BY <1>0, <2>1, VerifyKidNames DEF FallbackKeys
<1>4. named => HasKid(keys, keyid)
  BY <1>0, VerifyKidNames, ChainVerifies
<1>5. keys = <<>> => ~Has(keys, keyid) /\ ~HasKid(keys, keyid)
  BY DEF Has, HasKid
<1> HIDE DEF keys, fallback, named
<1>6. Authentic(directory, static, allowed, keyid, signer) <=>
         \/ signer = keyid /\ Has(keys, keyid)
         \/ allowed /\ ~Has(keys, keyid) /\ named
  BY <1>1 DEF Authentic, named
<1>7. VerifyEd25519(keys, keyid, signer, sized, fallback) = "OK" <=>
         /\ keys # <<>> /\ keyid # "" /\ sized
         /\ \/ Has(keys, keyid) /\ VerifyKey(keys, keyid, signer)
            \/ /\ ~Has(keys, keyid) /\ HasKid(keys, keyid)
               /\ VerifyKid(fallback, keyid, signer)
  BY DEF VerifyEd25519
<1>8. VerifyEd25519(keys, keyid, signer, sized, fallback) = "OK" <=>
         /\ keyid # "" /\ sized
         /\ Authentic(directory, static, allowed, keyid, signer)
  BY <1>0, <1>2, <1>3, <1>4, <1>5, <1>6, <1>7
<1> QED BY <1>8 DEF keyid, signer, sized, keys, fallback

\* The steps of profile_verify() accept a message exactly when it is well
\* signed, inside its time window and signed by somebody who may speak under
\* its keyid, whatever the order of the steps and whatever other labels it
\* carries.
THEOREM VerifyExact ==
    ASSUME NEW m \in Message, NEW inWindow \in BOOLEAN,
           NEW directory \in Handle, NEW static \in Handle,
           NEW allowed \in BOOLEAN
    PROVE  ProfileVerify(m, inWindow, Chain(directory, static),
                         FallbackKeys(allowed, directory, static)) = "OK"
              <=> /\ WellSigned(m) /\ inWindow
                  /\ Authentic(directory, static, allowed, m.keyid, m.signer)
<1> DEFINE keys == Chain(directory, static)
           fallback == FallbackKeys(allowed, directory, static)
           verdict == VerifyEd25519(keys, m.keyid, m.signer, m.sized, fallback)
           authentic == Authentic(directory, static, allowed, m.keyid, m.signer)
<1>1. verdict = "OK" <=> m.keyid # "" /\ m.sized /\ authentic
  BY SignerExact
<1> HIDE DEF keys, fallback, authentic
<1>2. CASE Tagged(m) = {}
  BY <1>2 DEF ProfileVerify, WellSigned, keys, fallback
<1>3. CASE Tagged(m) # {}
  <2>1. PICK i \in Tagged(m) : /\ \A j \in Tagged(m) : i <= j
                               /\ SelectEntry(m) = m.entries[i]
    BY <1>3, FirstTagged
  <2>2. WellSigned(m) <=>
          /\ m.input = "proper" /\ m.signature = "proper"
          /\ m.lifetime /\ m.base /\ m.sized /\ m.keyid # ""
          /\ m.entries[i].inner /\ m.entries[i].typed
          /\ Match(m.entries[i])
          /\ m.agent => "signature-agent" \in m.entries[i].covered
          /\ m.entries[i].label \in m.labels
    BY <2>1, FirstTaggedUnique DEF WellSigned
  <2>3. AgentCovered(m.entries[i]) <=>
          "signature-agent" \in m.entries[i].covered
    BY DEF AgentCovered, RequireAgentCovered
  <2> HIDE DEF verdict
  <2>4. ProfileVerify(m, inWindow, keys, fallback) = "OK" <=>
          /\ m.input = "proper" /\ m.signature = "proper"
          /\ SelectEntry(m).inner /\ SelectEntry(m).typed
          /\ Match(SelectEntry(m))
          /\ m.agent => AgentCovered(SelectEntry(m))
          /\ inWindow /\ m.lifetime
          /\ SelectEntry(m).label \in m.labels /\ m.base
          /\ verdict = "OK"
    BY <1>3 DEF ProfileVerify, verdict
  <2>5. ProfileVerify(m, inWindow, keys, fallback) = "OK" <=>
          WellSigned(m) /\ inWindow /\ authentic
    BY <1>1, <2>1, <2>2, <2>3, <2>4
  <2> QED BY <2>5 DEF keys, fallback, authentic
<1> QED BY <1>2, <1>3

\* verify_ed25519() has four answers.
LEMMA Ed25519Verdicts ==
    ASSUME NEW keys, NEW keyid, NEW signer, NEW sized, NEW fallback
    PROVE  VerifyEd25519(keys, keyid, signer, sized, fallback)
              \in {"UNKNOWN_KEYID", "KEYID_NOT_THUMBPRINT",
                   "SIGNATURE_MISMATCH", "OK"}
BY DEF VerifyEd25519

\* profile_select_label() and profile_verify() agree on what deserves a fetch:
\* a label it selects is never found unsigned or mismatched later, so that no
\* key is fetched in vain for the profile's sake.
THEOREM NoFetchInVain ==
    ASSUME NEW m \in Message, SelectLabel(m), NEW inWindow \in BOOLEAN,
           NEW keys \in Handle, NEW fallback \in Handle
    PROVE  ProfileVerify(m, inWindow, keys, fallback)
              \notin {"NOT_SIGNED", "PROFILE_MISMATCH"}
BY Ed25519Verdicts DEF SelectLabel, ProfileVerify

\* The other direction: whenever the keys decide the verdict on a message with
\* Signature-Agent, profile_select_label() had selected its label.
THEOREM NoFetchMissed ==
    ASSUME NEW m \in Message, m.agent, NEW inWindow \in BOOLEAN,
           NEW keys \in Handle, NEW fallback \in Handle,
           ProfileVerify(m, inWindow, keys, fallback)
              \in {"UNKNOWN_KEYID", "KEYID_NOT_THUMBPRINT",
                   "SIGNATURE_MISMATCH", "OK"}
    PROVE  SelectLabel(m)
BY DEF SelectLabel, ProfileVerify
=============================================================================
