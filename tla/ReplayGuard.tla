---------------------------- MODULE ReplayGuard -----------------------------
(***************************************************************************)
(* What a nonce store promises, whatever keeps the nonces: the contract    *)
(* that shm_check() and redis_check() share in                             *)
(* ngx_auth_httpsig_nonce_store.h.  A check is answered OK, DECLINED or    *)
(* ABORT; a nonce that was accepted is not accepted again while the window *)
(* of the signature it was accepted with is open, and is not forgotten     *)
(* before that; and only a nonce that was entered is ever declined.  ABORT *)
(* promises nothing: the check may or may not have entered its nonce.      *)
(***************************************************************************)
EXTENDS Integers

CONSTANTS Sig, Key, NonceOf

VARIABLES
    open,     \* signatures whose time window has not ended
    used,     \* signatures accepted while they were open
    entered,  \* nonces the store holds
    answer    \* the result of the last check

guardVars == <<open, used, entered, answer>>

\* Nonces no accepted signature needs any more.
Free(o) == {k \in Key : \A s \in used \cap o : NonceOf[s] # k}

GuardInit ==
    /\ open \subseteq Sig
    /\ used = {} /\ entered = {}
    /\ answer = "none"

\* Time passes: windows end, and then their nonces may go.
Pass ==
    /\ UNCHANGED <<used, answer>>
    /\ open' \subseteq open
    /\ entered' \subseteq entered
    /\ entered \ entered' \subseteq Free(open')

\* The store makes room, and holds k as well if it says so.
Makes(room, k) ==
    /\ entered' \subseteq entered \cup {k}
    /\ entered \ entered' \subseteq room

Accept(s) ==
    /\ answer' = "OK"
    /\ NonceOf[s] \in Free(open)
    /\ Makes(Free(open), NonceOf[s]) /\ NonceOf[s] \in entered'
    /\ used' = used \cup ({s} \cap open)
    /\ UNCHANGED open

Decline(s) ==
    /\ answer' = "DECLINED"
    /\ NonceOf[s] \in entered
    /\ UNCHANGED <<open, used, entered>>

GiveUp(s) ==
    /\ answer' = "ABORT"
    /\ Makes(Free(open), NonceOf[s])
    /\ UNCHANGED <<open, used>>

\* A check that has not returned, or was given up before, enters its nonce.
Enter(s) ==
    /\ UNCHANGED <<answer, open, used>>
    /\ entered' = entered \cup {NonceOf[s]}

GuardNext ==
    \/ Pass
    \/ \E s \in Sig : Accept(s) \/ Decline(s) \/ GiveUp(s) \/ Enter(s)

GuardSpec == GuardInit /\ [][GuardNext]_guardVars
=============================================================================
