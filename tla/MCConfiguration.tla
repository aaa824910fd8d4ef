-------------------------- MODULE MCConfiguration ---------------------------
(* TLC instances of Configuration. *)
EXTENDS Configuration, TLC

\* A server in http, and a location in the server.
MCParent == [b \in Block \ {Http} |-> IF b = "server" THEN Http ELSE "server"]

\* The directives that interact.
MCValues == [mode |-> {"off", "observe", "enforce"}, require |-> {"on"},
             jwks |-> {"file"}, allow |-> {"list", "off"}, request |-> {"uri"},
             nonce_store |-> {"shm", "redis"}, nonce_required |-> {"on"}]

\* Enough for a server to verify and to select a store.
Few == [b \in Block |-> CASE b = Http -> 1 [] b = "server" -> 3 [] OTHER -> 2]

ThreeEach == [b \in Block |-> 3]

\* The directives of the key directory.
DirectoryValues == [mode |-> {"enforce"}, allow |-> {"list"}, request |-> {"uri"}]
=============================================================================
