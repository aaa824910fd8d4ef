--------------------------- MODULE SignatureBase ----------------------------
(***************************************************************************)
(* ngx_auth_httpsig_base.c: the signature base of a request, and the       *)
(* snapshot it is built from (build_request() of                           *)
(* ngx_http_auth_httpsig_module.c).  Running out of memory is left out.    *)
(***************************************************************************)
EXTENDS StructuredField

CONSTANT MaxBase   \* NGX_AUTH_HTTPSIG_MAX_BASE_LENGTH, 16384

ASSUME BaseAssumption == MaxBase \in Nat

\* A value, or the reason why there is none.
Text(text) == [rc |-> "OK", val |-> text]
Declined(reason) == [rc |-> "DECLINED", reason |-> reason]

-----------------------------------------------------------------------------
(* The request.  A raw request has the method, the value of the variable   *)
(* auth_httpsig_scheme_var names, the host, the request target and the     *)
(* header lines, which nginx has freed of line breaks.                     *)

\* The text without the suffix of its scheme's default port.
StripPort(scheme, authority) ==
    LET suffix == CASE Lowercase(scheme) = "http"  -> ":80"
                    [] Lowercase(scheme) = "https" -> ":443"
                    [] OTHER                       -> ""
        rest == Len(authority) - Len(suffix)
    IN IF rest > 0 /\ SubSeq(authority, rest + 1, Len(authority)) = suffix
       THEN SubSeq(authority, 1, rest) ELSE authority

\* The part of a request target after "scheme://authority", if it has that.
PathQuery(target) ==
    LET colon == EndOf(target, 1, Lower \cup Upper \cup Digit \cup {"+", "-", "."})
    IN IF colon > 1 /\ Len(target) >= colon + 2
                    /\ SubSeq(target, colon, colon + 2) = "://"
       THEN SubSeq(target, FindAny(target, colon + 3, {"/", "?"}), Len(target))
       ELSE target

\* Without the optional white space around it.
Strip(value) ==
    LET start == EndOf(value, 1, OWS)
        end   == Max({start - 1} \cup
                     {i \in start .. Len(value) : At(value, i) \notin OWS})
    IN SubSeq(value, start, end)

\* build_request()
BuildRequest(raw) ==
    LET defined == raw.method # "CONNECT" /\ raw.target # "*"
        pq      == IF defined THEN PathQuery(raw.target) ELSE ""
        qmark   == FindAny(pq, 1, {"?"})
    IN [method         |-> raw.method,
        scheme         |-> raw.scheme,
        authority      |-> StripPort(raw.scheme, Lowercase(raw.host)),
        path           |-> SubSeq(pq, 1, qmark - 1),
        query          |-> SubSeq(pq, qmark + 1, Len(pq)),
        has_query      |-> qmark <= Len(pq),
        request_target |-> raw.target,
        target_defined |-> defined,
        headers        |-> [i \in DOMAIN raw.headers |->
                               [name  |-> Lowercase(raw.headers[i].name),
                                value |-> Strip(raw.headers[i].value)]]]

\* The values of the lines of one field.
Values(req, name) ==
    LET mine == SelectSeq(req.headers, LAMBDA h : h.name = name)
    IN [i \in DOMAIN mine |-> mine[i].value]

\* base_field_value()
FieldValue(req, name) ==
    IF Values(req, name) = <<>> THEN Declined("MISSING_FIELD")
    ELSE Text(Join(Values(req, name), ", "))

-----------------------------------------------------------------------------
(* @query-param *)

\* Faulty variant of QsUnit: an escape at the very end is not decoded.
QsUnitShort(s, i) ==
    IF At(s, i) = "+" THEN [byte |-> " ", next |-> i + 1]
    ELSE IF /\ At(s, i) = "%" /\ i + 2 < Len(s)
            /\ At(s, i + 1) \in Hex /\ At(s, i + 2) \in Hex
    THEN [byte |-> Chr[16 * HexVal(At(s, i + 1)) + HexVal(At(s, i + 2))],
          next |-> i + 3]
    ELSE [byte |-> At(s, i), next |-> i + 1]

\* The byte that the encoded text s holds at i, and where the next one is.
QsUnit(s, i) ==
    IF At(s, i) = "+" THEN [byte |-> " ", next |-> i + 1]
    ELSE IF /\ At(s, i) = "%" /\ i + 2 <= Len(s)
            /\ At(s, i + 1) \in Hex /\ At(s, i + 2) \in Hex
    THEN [byte |-> Chr[16 * HexVal(At(s, i + 1)) + HexVal(At(s, i + 2))],
          next |-> i + 3]
    ELSE [byte |-> At(s, i), next |-> i + 1]

QsDecode(s) ==
    LET rest[i \in 1 .. Len(s) + 1] ==
            IF i > Len(s) THEN "" ELSE QsUnit(s, i).byte \o rest[QsUnit(s, i).next]
    IN rest[1]

\* qs_key_eq() decodes as it compares.
QsKeyEq(raw, target) ==
    LET eq[i \in 1 .. Len(raw) + 1, j \in 1 .. Len(target) + 1] ==
            IF i > Len(raw) THEN j > Len(target)
            ELSE /\ j <= Len(target)
                 /\ At(target, j) = QsUnit(raw, i).byte
                 /\ eq[QsUnit(raw, i).next, j + 1]
    IN eq[1, 1]

Unreserved == Digit \cup Upper \cup Lower \cup {"*", "-", ".", "_"}

\* Faulty variant of QsEncode: the value goes into the base as it is.
QsEncodeNot(s) == s

QsEncode(s) ==
    Concat([i \in 1 .. Len(s) |->
               LET c == At(s, i) IN
               IF c = " " THEN "+"
               ELSE IF c \in Unreserved THEN c
               ELSE "%" \o HexDigit(Ord[c] \div 16) \o HexDigit(Ord[c] % 16)])

\* The raw values of the key name (decoded) in a query, in their order.
QueryValues(query, name) ==
    LET from[p \in 1 .. Len(query) + 1] ==
            LET end  == FindAny(query, p, {"&"})
                eq   == FindAny(query, p, {"&", "="})
                rest == IF end > Len(query) THEN <<>> ELSE from[end + 1]
            IN IF p > Len(query) THEN <<>>
               ELSE IF ~QsKeyEq(SubSeq(query, p, eq - 1), name) THEN rest
               ELSE IF eq = end THEN <<"">> \o rest
               ELSE <<SubSeq(query, eq + 1, end - 1)>> \o rest
    IN from[1]

\* base_query_param()
QueryParam(req, component) ==
    IF \/ ~HasKey(component.params, "name")
       \/ Get(component.params, "name").type # "STRING"
    THEN Declined("UNKNOWN_COMPONENT")
    ELSE IF Len(component.params) # 1 THEN Declined("UNSUPPORTED_PARAM")
    ELSE LET name   == QsDecode(Get(component.params, "name").value)
             values == QueryValues(req.query, name)
         IN IF Len(values) # 1 THEN Declined("MISSING_FIELD")
            ELSE Text(QsEncode(QsDecode(values[1])))

-----------------------------------------------------------------------------
(* The other components. *)

EffectivePath(req) == IF req.path = "" THEN "/" ELSE req.path

\* An absent query counts as an empty one.
BaseQuery(req) == "?" \o req.query

TargetUri(req) ==
    req.scheme \o "://" \o req.authority \o EffectivePath(req)
        \o IF req.has_query THEN "?" \o req.query ELSE ""

NeedsTarget == {"@path", "@query", "@query-param", "@target-uri"}

\* The table of derived components, but for @query-param.
DerivedValue(req, name) ==
    CASE name = "@method"         -> req.method
      [] name = "@scheme"         -> req.scheme
      [] name = "@authority"      -> req.authority
      [] name = "@path"           -> EffectivePath(req)
      [] name = "@query"          -> BaseQuery(req)
      [] name = "@request-target" -> req.request_target
      [] name = "@target-uri"     -> TargetUri(req)

Derivable == {"@method", "@scheme", "@authority", "@path", "@query",
              "@query-param", "@request-target", "@target-uri"}

\* base_derive_component()
DeriveComponent(req, component) ==
    LET name == component.bare.value IN
    IF name \notin Derivable THEN Declined("UNKNOWN_COMPONENT")
    ELSE IF name # "@query-param" /\ component.params # <<>>
    THEN Declined("UNSUPPORTED_PARAM")
    ELSE IF name \in NeedsTarget /\ ~req.target_defined
    THEN Declined("UNDEFINED_TARGET")
    ELSE IF name = "@query-param" THEN QueryParam(req, component)
    ELSE Text(DerivedValue(req, name))

\* base_field_agent_key(): "key" alone, or with a true "sf".
NamesMember(component) ==
    LET params == component.params IN
    /\ component.bare.value = "signature-agent"
    /\ Len(params) \in {1, 2}
    /\ HasKey(params, "key") /\ Get(params, "key").type = "STRING"
    /\ Len(params) = 2 => HasKey(params, "sf") /\ Get(params, "sf") = True

\* The member, not the bytes it was sent as.
MemberValue(dict, key) ==
    IF dict.rc # "OK" THEN Declined("MISSING_FIELD")
    ELSE IF ~HasKey(dict.val.entries, key) THEN Declined("MISSING_FIELD")
    ELSE Text(Serialize(Get(dict.val.entries, key)))

\* base_field_agent_member()
AgentMember(req, key) ==
    LET raw == FieldValue(req, "signature-agent") IN
    IF raw.rc # "OK" THEN raw ELSE MemberValue(ParseDictionary(raw.val), key)

\* base_field()
FieldComponent(req, component) ==
    LET name == component.bare.value IN
    IF \E i \in 1 .. Len(name) : At(name, i) \in Upper
    THEN Declined("UNKNOWN_COMPONENT")
    ELSE IF NamesMember(component)
    THEN AgentMember(req, Get(component.params, "key").value)
    ELSE IF component.params # <<>> THEN Declined("UNSUPPORTED_PARAM")
    ELSE FieldValue(req, name)

-----------------------------------------------------------------------------
(* base_build() *)

Label(component) == WriteItem(component)

ComponentValue(req, component) ==
    IF At(component.bare.value, 1) = "@" THEN DeriveComponent(req, component)
    ELSE FieldComponent(req, component)

\* Why component i cannot be taken into the base, "OK" if it can; values are
\* those of the components.
Refusal(items, values, i) ==
    IF items[i].bare.type # "STRING" THEN "UNKNOWN_COMPONENT"
    ELSE IF \E j \in 1 .. i - 1 : Label(items[j]) = Label(items[i])
    THEN "DUPLICATE_COMPONENT"
    ELSE IF values[i].rc # "OK" THEN values[i].reason
    ELSE "OK"

\* The lines of the first n components.
Lines(items, values, n) ==
    Concat([i \in 1 .. n |-> Label(items[i]) \o ": " \o values[i].val \o "\n"])

\* The first component that is refused, or that no longer fits, decides.
BaseOf(covered, values) ==
    LET items   == covered.items
        refused == {i \in DOMAIN items :
                       \/ Refusal(items, values, i) # "OK"
                       \/ /\ \A j \in 1 .. i : Refusal(items, values, j) = "OK"
                          /\ Len(Lines(items, values, i)) > MaxBase}
        base    == Lines(items, values, Len(items))
                       \o "\"@signature-params\": " \o Serialize(covered)
    IN IF refused # {} THEN
           LET why == Refusal(items, values, Min(refused)) IN
           Declined(IF why = "OK" THEN "TOO_LONG" ELSE why)
       ELSE IF Len(base) > MaxBase THEN Declined("TOO_LONG")
       ELSE Text(base)

BaseBuild(req, covered) ==
    BaseOf(covered, [i \in DOMAIN covered.items |->
                        ComponentValue(req, covered.items[i])])
=============================================================================
