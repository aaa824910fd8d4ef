----------------------------- MODULE Directory ------------------------------
(***************************************************************************)
(* ngx_auth_httpsig_directory.c: whether the answer to a key-directory     *)
(* fetch is accepted, and for how long its document is cached.             *)
(***************************************************************************)
EXTENDS Integers, Sequences

\* One Cache-Control token.  "forbid" stands for no-store, no-cache and
\* private; value is the number read after "=", which saturates far above any
\* max_ttl; parsed is FALSE when there is no digit or something follows the
\* number (without a "=" it is just another token).
Directive == [name : {"forbid", "s-maxage", "max-age", "other"},
              value : Nat, parsed : BOOLEAN]

\* An answer: the upstream's scheme, its status (3xx apart), media type up to
\* the ";" (the profile's own or application/json are good), body size against
\* max_size, Cache-Control lines joined, and Age (0 if absent or malformed).
Response == [https : BOOLEAN, status : {"200", "3xx", "other"},
             media : {"good", "bad"}, body : {"empty", "fits", "large"},
             cache_control : Seq(Directive), age : Nat]

\* directory_check_response(): the first check that fails names the reason.
CheckResponse(resp) ==
    IF ~resp.https THEN "NOT_HTTPS"
    ELSE IF resp.status = "3xx" THEN "REDIRECT"
    ELSE IF resp.status # "200" THEN "STATUS"
    ELSE IF resp.media = "bad" THEN "MEDIA_TYPE"
    ELSE IF resp.body = "large" THEN "TOO_LARGE"
    ELSE IF resp.body = "empty" THEN "EMPTY"
    ELSE "OK"

Accepted(resp) == CheckResponse(resp) = "OK"

Named(cc, name) == {i \in DOMAIN cc : cc[i].name = name}

Has(cc, name) == \E i \in Named(cc, name) : cc[i].parsed

\* parse_directive() writes the number before it knows whether the token is
\* good, so the last occurrence decides, good or not.
LastValue(cc, name) ==
    cc[CHOOSE i \in Named(cc, name) : \A j \in Named(cc, name) : j <= i].value

\* The lifetime the origin asks for; s-maxage wins wherever it stands.
Derived(cc) ==
    IF Named(cc, "forbid") # {} THEN 0
    ELSE IF Has(cc, "s-maxage") THEN LastValue(cc, "s-maxage")
    ELSE IF Has(cc, "max-age") THEN LastValue(cc, "max-age")
    ELSE 0

\* directory_ttl(): the rest of that lifetime, between the configured bounds.
DirectoryTtl(cc, age, min_ttl, max_ttl) ==
    IF Derived(cc) - age < min_ttl THEN min_ttl
    ELSE IF Derived(cc) - age > max_ttl THEN max_ttl
    ELSE Derived(cc) - age
=============================================================================
