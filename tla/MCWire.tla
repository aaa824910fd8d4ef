------------------------------- MODULE MCWire -------------------------------
(* TLC instance of Wire. *)
EXTENDS Wire

\* "%0A" is a line end, "%79" another spelling of "y"; no other
\* escape the chunks can make stands for a byte outside of Code.
MCChunk ==
    [dictionary |-> {"a", "b=", "0", "5", "-", ".", "\"", "\\", ":", "?", "(",
                     ")", ";", "=", ",", " ", "\t", "\n"},
     lines      |-> {"a", "b=1", "c=(a)", ";a", "=2", ",", " ", "\n"},
     query      |-> {"y", "=", "&", "+", "%", "2", "6", "%79", "%0A"},
     url        |-> {"https://", "HTTPS://", "a", "A", ":443", ":8443", ":",
                     "@", "/", "[", "]"},
     agent      |-> {"a=\"u\"", "b=\"v\"", "c=1",
                     ";type=directory", ";type=card", ";type=\"directory\"",
                     ", ", "\n"},
     base       |-> {"\"@method\"", "\"@scheme\"", "\"@authority\"", "\"@path\"",
                     "\"@query\"", "\"@query-param\";name=\"k\"",
                     "\"@query-param\"", "\"@request-target\"", "\"@target-uri\"",
                     "\"@status\"", "\"X\"", "\"x\"", "\"x\";sf",
                     "\"signature-agent\"", "\"signature-agent\";key=\"a\"",
                     "\"signature-agent\";key=\"a\";sf", "1"}]

MCMaxChunks == [dictionary |-> 5, lines |-> 6, query |-> 5, url |-> 5, agent |-> 6,
                base |-> 2]

Header(n, v) == [name |-> n, value |-> v]

\* Requests that differ in one part, or only in how it is spelled.
Plain == [method |-> "GET", scheme |-> "https", host |-> "a",
          target |-> "/p?k=1", headers |-> <<Header("X", " 1 ")>>]

MCRawRequest ==
    {Plain, [Plain EXCEPT !.method = "POST"], [Plain EXCEPT !.scheme = "http"],
     [Plain EXCEPT !.method = "CONNECT"], [Plain EXCEPT !.method = "OPTIONS", !.target = "*"]}
    \cup {[Plain EXCEPT !.host = h] : h \in {"A:443", "a:80", "b"}}
    \cup {[Plain EXCEPT !.target = t] :
             t \in {"/p", "/p?", "/p?k=%31", "/p?k=1%0A", "/p?k=+", "/p?k=2",
                    "/p?k=1&k=1", "http://a/p?k=1", "http://a", "http://a?k=1"}}
    \cup {[Plain EXCEPT !.headers = h] :
             h \in {<<>>, <<Header("x", "1"), Header("x", "2")>>,
                    <<Header("x", "1, 2")>>,
                    <<Header("Signature-Agent", "a=\"u\", b=\"v\"")>>,
                    <<Header("Signature-Agent", "a=\"u\""),
                      Header("Signature-Agent", "b=\"v\"")>>,
                    <<Header("Signature-Agent", "a=\"u\";q, b=\"w\"")>>,
                    <<Header("Signature-Agent", "\"u\"")>>}}
=============================================================================
