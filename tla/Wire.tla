-------------------------------- MODULE Wire --------------------------------
(***************************************************************************)
(* The texts a request brings, and what the readers make of them.  A text  *)
(* grows chunk by chunk until a reader has refused it; the properties say  *)
(* what must hold of every text on the way.  Each form of text has its own *)
(* chunks: a dictionary byte by byte, the lines of one, a query string,    *)
(* the URL of a Signature-Agent, its field lines, and the components a     *)
(* signature covers.                                                       *)
(***************************************************************************)
EXTENDS SignatureBase, SignatureAgent, FiniteSets

CONSTANTS
    Chunk,       \* Chunk[f]: the chunks of a text of form f
    MaxChunks,   \* MaxChunks[f]: bound on the number of chunks
    ParamName,   \* values of the parameter "name" of @query-param
    AllowList,   \* entries of auth_httpsig_agent_allow
    SigLabel,    \* labels of signatures
    RawRequest   \* requests as nginx hands them over

Form == DOMAIN Chunk

ASSUME WireAssumption ==
    /\ \A f \in Form : Chunk[f] \subseteq STRING
    /\ MaxChunks \in [Form -> Nat]
    /\ ParamName \subseteq STRING /\ AllowList \subseteq STRING
    /\ SigLabel \subseteq STRING

VARIABLES form, chunks

wireVars == <<form, chunks>>

text == Concat(chunks)

\* The pieces between the line ends.
Split(s) ==
    LET from[p \in 1 .. Len(s) + 1] ==
            LET end == FindAny(s, p, {"\n"}) IN
            <<SubSeq(s, p, end - 1)>>
                \o IF end > Len(s) THEN <<>> ELSE from[end + 1]
    IN from[1]

\* The field lines as build_request() keeps them, and joined.
FieldLines(s) == [i \in DOMAIN Split(s) |-> Strip(Split(s)[i])]
Joined(s) == Join(FieldLines(s), ", ")

\* What was read of s is all right, or only s is too short.
Unfinished(s, read) == read.rc = "OK" \/ read.pos > Len(s)

\* More text can still make s one that its reader takes.
Open(s) ==
    CASE form \in {"dictionary", "lines", "agent"} ->
            Unfinished(Joined(s), ParseDictionary(Joined(s)))
      [] form = "url" ->
            s = "" \/ (Len(s) >= 8 /\ Lowercase(SubSeq(s, 1, 8)) = "https://")
      [] OTHER -> TRUE

WireInit == form \in Form /\ chunks = <<>>

Extend(c) ==
    /\ Len(chunks) < MaxChunks[form]
    /\ Open(text)
    /\ chunks' = Append(chunks, c)
    /\ UNCHANGED form

WireNext == \E c \in Chunk[form] : Extend(c)

WireSpec == WireInit /\ [][WireNext]_wireVars

-----------------------------------------------------------------------------
(* Structured fields. *)

\* The dictionary that was read is the entry e alone.
IsOnly(dict, e) == dict.rc = "OK" /\ dict.val.entries = <<e>>

\* Each entry of a dictionary that was read, when it is written, reads back.
ReadsBack(dict) ==
    dict.rc = "OK" =>
        \A i \in DOMAIN dict.val.entries :
            LET e == dict.val.entries[i] IN
            IsOnly(ParseDictionary(e.key \o "=" \o Serialize(e.value)), e)

\* Every member that was read is written so that it reads back as itself:
\* the label and parameter lines of a signature base, which are written from
\* what was read and not copied from the request, stand for one value only.
CanonicalForm ==
    form \in {"dictionary", "lines"} => ReadsBack(ParseDictionary(Joined(text)))

\* whole is what the dictionaries dicts make together.
IsUnion(whole, dicts) ==
    LET parts == [i \in DOMAIN dicts |-> dicts[i].val.entries]
        keys  == {parts[i][j].key : <<i, j>> \in
                    UNION {{i} \X DOMAIN parts[i] : i \in DOMAIN parts}}
        Has2(k) == \E i, j \in DOMAIN parts :
                      i # j /\ HasKey(parts[i], k) /\ HasKey(parts[j], k)
        LastOf(k) == Max({i \in DOMAIN parts : HasKey(parts[i], k)})
        listed == FlattenSeq([i \in DOMAIN parts |->
                     [j \in DOMAIN parts[i] |-> parts[i][j].key]])
        First(k) == Min({i \in DOMAIN listed : listed[i] = k})
    IN Cardinality(keys) <= MaxItems =>
       /\ whole.rc = "OK"
       /\ Len(whole.val.entries) = Cardinality(keys)
       /\ \A k \in keys :
             /\ HasKey(whole.val.entries, k)
             /\ Get(whole.val.entries, k) = Get(parts[LastOf(k)], k)
       /\ \A i, j \in DOMAIN whole.val.entries :
             i < j => First(whole.val.entries[i].key)
                         < First(whole.val.entries[j].key)
       /\ whole.val.duplicate_keys <=>
             \/ \E k \in keys : Has2(k)
             \/ \E i \in DOMAIN dicts : dicts[i].val.duplicate_keys

AllRead(dicts) == \A i \in DOMAIN dicts : dicts[i].rc = "OK"

MergeTo(whole, dicts) ==
    AllRead(dicts) => IsUnion(whole, dicts)

ParseEach(lines) == [i \in DOMAIN lines |-> ParseDictionary(lines[i])]

\* Field lines that are dictionaries each read, when they are joined, as the
\* one dictionary they make together: the later value of a repeated label in
\* the place of the first, and the repetition noticed wherever it occurs.
LinesMerge ==
    /\ form \in {"dictionary", "lines"}
    /\ Len(Joined(text)) <= MaxLength
    /\ \A i \in DOMAIN FieldLines(text) : FieldLines(text)[i] # ""
    => MergeTo(ParseDictionary(Joined(text)), ParseEach(FieldLines(text)))

-----------------------------------------------------------------------------
(* @query-param *)

\* What a form-urlencoded text stands for: escapes do not overlap, so it can
\* be told byte by byte.
FormDecode(s) ==
    LET escapes == {i \in 1 .. Len(s) - 2 : /\ At(s, i) = "%"
                                            /\ At(s, i + 1) \in Hex
                                            /\ At(s, i + 2) \in Hex}
    IN Concat([i \in 1 .. Len(s) |->
                  IF i \in escapes
                  THEN Chr[16 * HexVal(At(s, i + 1)) + HexVal(At(s, i + 2))]
                  ELSE IF i - 1 \in escapes \/ i - 2 \in escapes THEN ""
                  ELSE IF At(s, i) = "+" THEN " " ELSE At(s, i)])

\* Where the pairs of a query start; its last one may be empty and is none.
PairStarts(q) ==
    {p \in 1 .. Len(q) : p = 1 \/ At(q, p - 1) = "&"}

PairKey(q, p) == SubSeq(q, p, FindAny(q, p, {"=", "&"}) - 1)

PairValue(q, p) ==
    SubSeq(q, FindAny(q, p, {"=", "&"}) + 1, FindAny(q, p, {"&"}) - 1)

Name(n) == Item(Bare("STRING", "@query-param", 0),
                <<[key |-> "name", value |-> Bare("STRING", n, 0)]>>)

\* @query-param has a value exactly if one pair of the query has the name,
\* both taken for what they stand for, and then the value stands for that
\* pair's and holds no byte that could end a line of the base or pass for
\* another encoding.
QueryParamExact ==
    form = "query" =>
        \A n \in ParamName :
            LET pairs == {p \in PairStarts(text) :
                             FormDecode(PairKey(text, p)) = FormDecode(n)}
                value == QueryParam([query |-> text], Name(n))
            IN /\ value.rc = "OK" <=> Cardinality(pairs) = 1
               /\ \A p \in pairs : value.rc = "OK" =>
                     /\ FormDecode(value.val) = FormDecode(PairValue(text, p))
                     /\ \A i \in 1 .. Len(value.val) :
                           At(value.val, i) \in Unreserved \cup {"%", "+"}

-----------------------------------------------------------------------------
(* The agent. *)

\* What a URL is about: its host and port, the default port filled in.
Origin(url) ==
    LET a == AgentAuthority(url)
        h == AgentHost(url)
    IN <<h, IF a = h THEN "443" ELSE SubSeq(a, Len(h) + 2, Len(a))>>

\* For every URL that names a host, the allow-list lets a fetch happen
\* exactly for the hosts and ports the operator listed, however entry and URL
\* are spelled, and the host that is then asked for its keys is the one
\* $httpsig_agent reports and the nonces are filed under.
AllowListExact ==
    form = "url" /\ AgentBounds(text).rc = "OK" =>
        LET host == NormalizeHost(AgentAuthority(text)) IN
        /\ host.rc = "OK"
        /\ Hostname(host.val) = AgentHost(text)
        /\ Allowed({NormalizeHost(e).val : e \in AllowList}, host.val) <=>
              \E e \in AllowList : Origin("https://" \o e) = Origin(text)

\* url, of the lines that joined make the dictionary whole, is also the one
\* that is found in the joined value and, where the signature covers the
\* member under its label, the one that member holds.
Vouched(url, joined, whole, member, label) ==
    whole.rc = "OK" /\ ~whole.val.duplicate_keys =>
        /\ url = joined
        /\ HasKey(whole.val.entries, label) /\ Usable(Get(whole.val.entries, label))
           => url.val = ParseItem(member.val).val.bare.value

AgentRequest(lines) ==
    [headers |-> [i \in DOMAIN lines |->
                     [name |-> "signature-agent", value |-> lines[i]]]]

\* The agent is told by what the signature base holds of Signature-Agent,
\* where it is a dictionary with one value per key: the joined field value
\* (the same agent however the lines were split) or, under ";key" with the
\* label of the signature, that member alone.
AgentVouched ==
    form = "agent" /\ AllRead(ParseEach(FieldLines(text))) =>
        \A l \in SigLabel :
            Vouched(AgentUrl(FieldLines(text), l), AgentUrl(<<Joined(text)>>, l),
                    ParseDictionary(Joined(text)),
                    AgentMember(AgentRequest(FieldLines(text)), l), l)

-----------------------------------------------------------------------------
(* The base. *)

\* The covered list as Signature-Input brings it.
Covered == ReadInnerList("(" \o Join(chunks, " ") \o ");keyid=\"k\"", 1).val

\* What a covered component says about a request.
Meaning(req, c) ==
    LET name == c.bare.value IN
    CASE name = "@target-uri" -> <<req.scheme, req.authority, EffectivePath(req),
                                   req.has_query, req.query>>
      [] name = "@query"      -> req.query
      [] name = "@query-param" ->
            {FormDecode(PairValue(req.query, p)) : p \in
               {p \in PairStarts(req.query) :
                   FormDecode(PairKey(req.query, p))
                       = FormDecode(Get(c.params, "name").value)}}
      [] name = "signature-agent" /\ c.params # <<>> ->
            Get(ParseDictionary(FieldValue(req, name).val).val.entries,
                Get(c.params, "key").value)
      [] OTHER -> ComponentValue(req, c).val

\* base is made of as many lines as covered has items and one more, which
\* reads as covered.
EndsIn(base, covered) ==
    LET lines  == Split(base)
        last   == lines[Len(lines)]
        prefix == Len("\"@signature-params\": ")
    IN /\ Len(lines) = Len(covered.items) + 1
       /\ ReadInnerList(SubSeq(last, prefix + 1, Len(last)), 1).val = covered

\* bases[r] is what became of covered for the request r.
Binds(covered, bases) ==
    LET based == {r \in DOMAIN bases : bases[r].rc = "OK"} IN
    /\ \A r \in based : EndsIn(bases[r].val, covered)
    /\ \A r, q \in based : bases[r] = bases[q] =>
          \A i \in DOMAIN covered.items :
             Meaning(r, covered.items[i]) = Meaning(q, covered.items[i])

BasesOf(covered) ==
    [r \in {BuildRequest(raw) : raw \in RawRequest} |-> BaseBuild(r, covered)]

\* A signature base has one line for each covered component and a last one
\* from which the covered list and its parameters can be read back, and two
\* requests with the same base agree in all that the list covers.
BaseBinds == form = "base" => Binds(Covered, BasesOf(Covered))
=============================================================================
