--------------------------- MODULE MCKeyDirectory ---------------------------
(* TLC instances of KeyDirectory. *)
EXTENDS KeyDirectory, TLC

CONSTANTS w1, w2

Answer(cc, age) ==
    [https |-> TRUE, status |-> "200", media |-> "good", body |-> "fits",
     cache_control |-> cc, age |-> age]

\* An answer that forbids caching, one to be cached for longer than MaxTtl
\* (its max-age does not count), and one without TLS.
MCResponses ==
    LET long == <<[name |-> "s-maxage", value |-> MaxTtl + 2, parsed |-> TRUE],
                  [name |-> "max-age", value |-> 0, parsed |-> TRUE]>>
    IN {Answer(<<[name |-> "forbid", value |-> 0, parsed |-> FALSE]>>, 0),
        Answer(long, 1), [Answer(long, 0) EXCEPT !.https = FALSE]}

\* One request slot per worker, named after the worker.
OneSlotEach == [r \in Request |-> r]

\* Every slot is served by the same worker.
OneWorker == [r \in Request |-> w1]

\* Workers that have one slot each are interchangeable.
WorkerSymmetry == Permutations({w1, w2})

\* Hosts are interchangeable: what tells one is read from variables, and the
\* host that IdleReq chooses is read nowhere.
HostSymmetry == Permutations(Host)

\* Bounds: what follows the first stores of the zone, enough for each host or
\* for one host before and after its eviction; and one host that rotates its
\* keys.
MaxStores == 3

FewStores == generation <= MaxStores

OneRotates == Cardinality({h \in Host : origin[h] > 1}) <= 1
=============================================================================
