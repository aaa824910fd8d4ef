------------------------------ MODULE Profile -------------------------------
(***************************************************************************)
(* ngx_auth_httpsig_profile.c: which label of a signed message a profile   *)
(* takes, whether it matches, and the verdict of the fifteen steps of      *)
(* profile_verify().  The profile is the only one there is, web-bot-auth.  *)
(***************************************************************************)
EXTENDS Keys

\* An SFV field after its lines were joined: absent, not a dictionary, a
\* dictionary with a repeated label, or a proper one.
Field == {"absent", "garbled", "repeated", "proper"}

Param == {"created", "expires", "keyid", "alg", "nonce", "tag"}

\* The components of the profile's table; others set no bit.
Component == {"@method", "@target-uri", "@authority", "@scheme",
              "@request-target", "@path", "@query", "signature-agent"}

\* One member of Signature-Input.  tagged: it has a String parameter "tag"
\* equal to the profile's; inner: it is an Inner List; typed: every parameter
\* the module knows has the type it should have; ed25519: what "alg" says.
Entry == [label : STRING, tagged : BOOLEAN, inner : BOOLEAN, typed : BOOLEAN,
          params : SUBSET Param, ed25519 : BOOLEAN,
          covered : SUBSET Component]

\* A message as the verifier sees it.  labels: those of Signature whose value
\* is a Byte Sequence; agent: Signature-Agent is present; lifetime: from
\* created to expires, not negative and within expires_max; base: the
\* signature base can be built; keyid: that of the label verified, signer and
\* sized: see Keys.
Message == [input : Field, entries : Seq(Entry), signature : Field,
            labels : SUBSET STRING, agent : BOOLEAN, lifetime : BOOLEAN,
            base : BOOLEAN, keyid : STRING, signer : STRING, sized : BOOLEAN]

RequiredParams == {"created", "expires", "keyid", "tag"}
AnyOfComponents == {"@target-uri", "@authority"}
AllOfComponents == {}
RequireAgentCovered == TRUE

Tagged(m) == {i \in DOMAIN m.entries : m.entries[i].tagged}

\* profile_select_entry(): the first label with the profile's tag.
SelectEntry(m) ==
    m.entries[CHOOSE i \in Tagged(m) : \A j \in Tagged(m) : i <= j]

\* profile_match()
Match(e) ==
    /\ RequiredParams \subseteq e.params
    /\ "alg" \in e.params => e.ed25519
    /\ AnyOfComponents # {} => AnyOfComponents \cap e.covered # {}
    /\ AllOfComponents \subseteq e.covered

\* Step 10, for a message with Signature-Agent.
AgentCovered(e) == RequireAgentCovered => "signature-agent" \in e.covered

\* Faulty variant of SelectLabel: the tag is enough.
SelectLabelByTag(m) == m.input = "proper" /\ Tagged(m) # {}

\* profile_select_label() finds a label worth a fetch, in a message that is
\* known to carry Signature-Agent.
SelectLabel(m) ==
    /\ m.input = "proper"
    /\ Tagged(m) # {}
    /\ LET e == SelectEntry(m) IN
       e.inner /\ e.typed /\ Match(e) /\ AgentCovered(e)

\* profile_verify(): the first step that fails decides.  inWindow is the time
\* window of step 11, keys and fallback are what verify_ed25519() may use.
ProfileVerify(m, inWindow, keys, fallback) ==
    LET e == SelectEntry(m) IN
    IF m.input = "absent" THEN "NOT_SIGNED"
    ELSE IF m.input # "proper" \/ m.signature # "proper" THEN "PARSE_ERROR"
    ELSE IF Tagged(m) = {} THEN "NOT_SIGNED"
    ELSE IF ~e.inner \/ ~e.typed THEN "PARSE_ERROR"
    ELSE IF ~Match(e) \/ (m.agent /\ ~AgentCovered(e)) THEN "PROFILE_MISMATCH"
    ELSE IF ~inWindow \/ ~m.lifetime THEN "EXPIRED"
    ELSE IF e.label \notin m.labels \/ ~m.base THEN "PARSE_ERROR"
    ELSE VerifyEd25519(keys, m.keyid, m.signer, m.sized, fallback)

\* What a message has to be like for a verifier to accept it, whatever order
\* it looks at things in and whoever signed it: its first tagged label matches
\* the profile, covers the Signature-Agent it comes with, and has a signature.
WellSigned(m) ==
    /\ m.input = "proper" /\ m.signature = "proper"
    /\ m.lifetime /\ m.base /\ m.sized /\ m.keyid # ""
    /\ \E i \in Tagged(m) :
          /\ \A j \in Tagged(m) : i <= j
          /\ m.entries[i].inner /\ m.entries[i].typed
          /\ Match(m.entries[i])
          /\ m.agent => "signature-agent" \in m.entries[i].covered
          /\ m.entries[i].label \in m.labels
=============================================================================
