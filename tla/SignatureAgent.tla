--------------------------- MODULE SignatureAgent ---------------------------
(***************************************************************************)
(* From the Signature-Agent lines of a request to the host it names        *)
(* (ngx_auth_httpsig_profile.c), and from there to the host whose key      *)
(* directory is asked (ngx_auth_httpsig_directory.c).                      *)
(***************************************************************************)
EXTENDS StructuredField

Found(val) == [rc |-> "OK", val |-> val]
NotFound == [rc |-> "DECLINED"]

-----------------------------------------------------------------------------
(* profile_agent_url() *)

\* profile_agent_type_ok(), for a String item.
Usable(member) ==
    /\ member.type = "ITEM" /\ member.bare.type = "STRING"
    /\ HasKey(member.params, "type") =>
          /\ Get(member.params, "type").type = "TOKEN"
          /\ Get(member.params, "type").value = "directory"

\* The URLs of a dictionary, in their order; matches are those under label.
DictUrls(entries, label) ==
    LET good == SelectSeq(entries, LAMBDA e : Usable(e.value))
        mine == SelectSeq(good, LAMBDA e : e.key = label)
        UrlsOf(es) == [i \in DOMAIN es |-> es[i].value.bare.value]
    IN [urls |-> UrlsOf(good), matches |-> UrlsOf(mine)]

\* One line: as a dictionary, else as a String item, else as it is.
LineUrls(line, label, dict, item) ==
    IF dict.rc = "OK" THEN DictUrls(dict.val.entries, label)
    ELSE IF item.rc = "OK" /\ item.val.bare.type = "STRING"
    THEN [urls |-> <<item.val.bare.value>>, matches |-> <<>>]
    ELSE [urls |-> <<line>>, matches |-> <<>>]

ReadLine(line, label) ==
    LineUrls(line, label, ParseDictionary(line), ParseItem(line))

\* Lines that are empty or too long are passed over.
Readable(lines) ==
    SelectSeq(lines, LAMBDA line : Len(line) \in 1 .. MaxLength)

ReadLines(lines, label) ==
    [i \in DOMAIN lines |-> ReadLine(lines[i], label)]

\* Faulty variant of FirstUrl: the first line that has a usable entry decides.
FirstUrlInLine(reads) ==
    LET some == {i \in DOMAIN reads : reads[i].urls # <<>>} IN
    IF some = {} THEN NotFound
    ELSE IF reads[Min(some)].matches # <<>>
    THEN Found(reads[Min(some)].matches[1])
    ELSE Found(reads[Min(some)].urls[1])

\* The first entry under the label in any line, else the first usable one.
FirstUrl(reads) ==
    LET matches == FlattenSeq([i \in DOMAIN reads |-> reads[i].matches])
        urls    == FlattenSeq([i \in DOMAIN reads |-> reads[i].urls])
    IN IF matches # <<>> THEN Found(matches[1])
       ELSE IF urls # <<>> THEN Found(urls[1])
       ELSE NotFound

AgentUrl(lines, label) == FirstUrl(ReadLines(Readable(lines), label))

-----------------------------------------------------------------------------
(* profile_agent_bounds() *)

Ipv6Char == Hex \cup {":"}
NameChar == Lower \cup Upper \cup Digit \cup {"-", "."}

\* ":" and one or more digits
IsPortSuffix(s) ==
    Len(s) >= 2 /\ At(s, 1) = ":" /\ EndOf(s, 2, Digit) > Len(s)

\* Where the host of an authority without userinfo ends, 0 if it has none.
HostEnd(authority) ==
    LET bracket == EndOf(authority, 2, Ipv6Char)
        colon   == FindAny(authority, 1, {":"})
    IN IF At(authority, 1) = "["
       THEN IF At(authority, bracket) = "]" /\ bracket > 2 THEN bracket ELSE 0
       ELSE IF EndOf(authority, 1, NameChar) = colon THEN colon - 1 ELSE 0

\* The host and the authority of an https URL.
AgentBounds(url) ==
    LET end       == FindAny(url, 9, {"/", "?", "#"})
        start     == Max({8} \cup {p \in 9 .. end - 1 : At(url, p) = "@"}) + 1
        authority == SubSeq(url, start, end - 1)
        host      == HostEnd(authority)
        port      == SubSeq(authority, host + 1, Len(authority))
    IN IF Len(url) < 8 \/ Lowercase(SubSeq(url, 1, 8)) # "https://" THEN NotFound
       ELSE IF authority = "" \/ host = 0 THEN NotFound
       ELSE IF port # "" /\ ~IsPortSuffix(port) THEN NotFound
       ELSE Found([host |-> SubSeq(authority, 1, host), authority |-> authority])

\* profile_agent_host() and profile_agent_authority(), "" for none.
AgentHost(url) ==
    IF AgentBounds(url).rc = "OK" THEN Lowercase(AgentBounds(url).val.host) ELSE ""

AgentAuthority(url) ==
    IF AgentBounds(url).rc = "OK" THEN Lowercase(AgentBounds(url).val.authority)
    ELSE ""

-----------------------------------------------------------------------------
(* ngx_auth_httpsig_directory.c *)

HostChar == Lower \cup Upper \cup Digit \cup {".", "-", ":"}

\* Faulty variant of StripDefaultPort: any port that ends in 443 is dropped.
StripDefaultPortAny(host) ==
    LET rest == Len(host) - 3 IN
    IF rest > 0 /\ SubSeq(host, rest + 1, Len(host)) = "443"
    THEN SubSeq(host, 1, FindAny(host, 1, {":"}) - 1) ELSE host

StripDefaultPort(host) ==
    LET rest == Len(host) - 4 IN
    IF rest > 0 /\ SubSeq(host, rest + 1, Len(host)) = ":443"
    THEN SubSeq(host, 1, rest) ELSE host

\* directory_normalize_host()
NormalizeHost(in) ==
    LET bracket == EndOf(in, 2, Ipv6Char)
        rest    == IF At(in, 1) = "[" THEN bracket + 1 ELSE 1
    IN IF in = "" \/ (\E p \in 1 .. Len(in) - 2 : SubSeq(in, p, p + 2) = "://")
       THEN NotFound
       ELSE IF At(in, 1) = "[" /\ (At(in, bracket) # "]" \/ bracket = 2)
       THEN NotFound
       ELSE IF EndOf(in, rest, HostChar) <= Len(in) THEN NotFound
       ELSE Found(StripDefaultPort(Lowercase(in)))

\* directory_hostname()
Hostname(host) ==
    LET bracket == FindAny(host, 1, {"]"})
        colon   == FindAny(host, 1, {":"})
        end     == IF At(host, 1) = "[" THEN bracket ELSE colon - 1
        rest    == SubSeq(host, end + 1, Len(host))
    IN IF end < Len(host) /\ IsPortSuffix(rest) THEN SubSeq(host, 1, end)
       ELSE host

\* directory_allowed(); the entries were normalized when they were read.
Allowed(allow, host) == host \in allow
=============================================================================
