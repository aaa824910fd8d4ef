----------------------------- MODULE KeySource ------------------------------
(***************************************************************************)
(* What the key directory promises the requests of an instance, whatever   *)
(* keeps the documents: the contract between directory_handler() and       *)
(* evaluate() of ngx_http_auth_httpsig_module.c.                           *)
(*                                                                         *)
(* A request that asks for the keys of a host is told a document, or that  *)
(* there is none.  The document is the one shared by all requests, or one  *)
(* fetched for this request while it waited.  A failed fetch takes nothing *)
(* from anybody: the request keeps the document it had, and so do the      *)
(* others.  Only room for other hosts costs a document, and only the owner *)
(* of a fetch replaces one.                                                *)
(*                                                                         *)
(* There are no clocks here, no zone, no workers and no rights to fetch; a *)
(* document is the number of its version, 0 stands for none.               *)
(***************************************************************************)
EXTENDS Integers

CONSTANTS
    Host, Request,
    Exclusive      \* is a host fetched by one request at a time?

VARIABLES
    published,     \* published[h]: the document h publishes
    shared,        \* shared[h]: the document requests are served
    asked          \* asked[r]: what request r asked and was told

sourceVars == <<published, shared, asked>>

Idle == [at |-> "idle"]

\* The request waits for a fetch of h, has doc meanwhile, and the fetch has
\* brought a document or not yet.
Waiting(h, doc, brought) ==
    [at |-> "waiting", host |-> h, document |-> doc, brought |-> brought]

Told(h, doc) == [at |-> "told", host |-> h, document |-> doc]

\* r has a fetch of h under way.
Fetches(r, h) == asked[r].at = "waiting" /\ asked[r].host = h

MayFetch(h) == Exclusive => \A r \in Request : ~Fetches(r, h)

Becomes(r, a) == asked' = [asked EXCEPT ![r] = a]

\* h's document is doc now, and those of some other hosts made room.
Keeps(h, doc) ==
    \E lost \in SUBSET (Host \ {h}) :
        shared' = [x \in Host |-> IF x = h THEN doc
                                  ELSE IF x \in lost THEN 0 ELSE shared[x]]

SourceInit ==
    /\ published = [h \in Host |-> 1]
    /\ shared = [h \in Host |-> 0]
    /\ asked = [r \in Request |-> Idle]

Announce(h) ==
    /\ published' = [published EXCEPT ![h] = @ + 1]
    /\ UNCHANGED <<shared, asked>>

\* The answer is at hand: the shared document, or none.
AskTold(r, h) ==
    /\ asked[r] = Idle
    /\ \E doc \in {shared[h], 0} : Becomes(r, Told(h, doc))
    /\ Keeps(h, shared[h])
    /\ UNCHANGED published

AskWaits(r, h) ==
    /\ asked[r] = Idle
    /\ MayFetch(h)
    /\ Becomes(r, Waiting(h, 0, 0))
    /\ Keeps(h, shared[h])
    /\ UNCHANGED published

\* The document does not cover the request's keyid: look for a newer one.
AskAgain(r) ==
    LET a == asked[r] IN
    /\ a.at = "told" /\ a.document # 0
    /\ MayFetch(a.host)
    /\ Becomes(r, Waiting(a.host, a.document, 0))
    /\ UNCHANGED <<published, shared>>

\* The fetch brings what the host publishes then.
Bring(r) ==
    LET a == asked[r] IN
    /\ a.at = "waiting" /\ a.brought = 0
    /\ Becomes(r, Waiting(a.host, a.document, published[a.host]))
    /\ UNCHANGED <<published, shared>>

\* The fetch succeeded: its owner is told the new document, and shares it
\* where there is room.
Deliver(r) ==
    LET a == asked[r] IN
    /\ a.at = "waiting" /\ a.brought # 0
    /\ Becomes(r, Told(a.host, a.brought))
    /\ \E doc \in {shared[a.host], a.brought} : Keeps(a.host, doc)
    /\ UNCHANGED published

\* The fetch failed.
GiveUp(r) ==
    LET a == asked[r] IN
    /\ a.at = "waiting"
    /\ Becomes(r, Told(a.host, a.document))
    /\ UNCHANGED <<published, shared>>

\* Requests end, several at once when a worker dies.
Leave(R) ==
    /\ asked' = [r \in Request |-> IF r \in R THEN Idle ELSE asked[r]]
    /\ UNCHANGED <<published, shared>>

SourceNext ==
    \/ \E R \in SUBSET Request : Leave(R)
    \/ \E h \in Host : Announce(h)
    \/ \E r \in Request : AskAgain(r) \/ Bring(r) \/ Deliver(r) \/ GiveUp(r)
    \/ \E r \in Request, h \in Host : AskTold(r, h) \/ AskWaits(r, h)

SourceSpec == SourceInit /\ [][SourceNext]_sourceVars

-----------------------------------------------------------------------------
Answer ==
    {Idle} \cup [at : {"waiting"}, host : Host, document : Nat, brought : Nat]
           \cup [at : {"told"}, host : Host, document : Nat]

SourceTypeOK ==
    /\ published \in [Host -> Nat]
    /\ shared \in [Host -> Nat]
    /\ asked \in [Request -> Answer]

Alone ==
    Exclusive => \A r, s \in Request, h \in Host :
                    Fetches(r, h) /\ Fetches(s, h) => r = s

\* What request a has, or is about to have, is something its host published,
\* and a fetch does not take it back to an older document.
GenuineAnswer(a) ==
    /\ a.at # "idle" => a.document <= published[a.host]
    /\ a.at = "waiting" /\ a.brought # 0 =>
          /\ a.document <= a.brought /\ a.brought <= published[a.host]
          /\ Exclusive => shared[a.host] <= a.brought

\* Every document in use is one its host has published; a fetch never takes
\* its request back to an older one and, where a host is fetched by one
\* request at a time, nobody else either.
Genuine ==
    /\ \A h \in Host : shared[h] <= published[h]
    /\ \A r \in Request : GenuineAnswer(asked[r])
=============================================================================
