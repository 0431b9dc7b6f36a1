--------------------------- MODULE SessionPromise ---------------------------
(***************************************************************************)
(* What the session component promises its callers, with none of its       *)
(* statements: a token is issued once, lives, and ends for good; and a     *)
(* request is granted by a token only if that token was alive at some      *)
(* moment after the request began.  How a session expires, is refreshed or *)
(* is cleaned up is the implementation's business.                         *)
(***************************************************************************)
CONSTANTS Tokens, Requests, NoToken

VARIABLES
    life,       \* life[t] : unissued, live or gone
    since,      \* since[p] : the tokens alive when p's request began
    granted     \* granted[p] : the token p's request was authenticated by

promise == <<life, since, granted>>

Alive == {t \in Tokens : life[t] = "live"}

PromiseInit ==
    /\ life = [t \in Tokens |-> "unissued"]
    /\ since = [p \in Requests |-> {}]
    /\ granted = [p \in Requests |-> NoToken]

Issue(t) ==
    /\ life[t] = "unissued"
    /\ life' = [life EXCEPT ![t] = "live"]
    /\ UNCHANGED <<since, granted>>

End(S) ==
    /\ life' = [t \in Tokens |-> IF t \in S THEN "gone" ELSE life[t]]
    /\ UNCHANGED <<since, granted>>

Begin(p) ==
    /\ since' = [since EXCEPT ![p] = Alive]
    /\ UNCHANGED <<life, granted>>

Grant(p, t) ==
    /\ t \in since[p]
    /\ granted' = [granted EXCEPT ![p] = t]
    /\ UNCHANGED <<life, since>>

PromiseNext ==
    \/ \E t \in Tokens : Issue(t)
    \/ \E S \in SUBSET Alive : End(S)
    \/ \E p \in Requests : Begin(p)
    \/ \E p \in Requests, t \in Tokens : Grant(p, t)

PromiseSpec == PromiseInit /\ [][PromiseNext]_promise

=============================================================================
