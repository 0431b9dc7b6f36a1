---------------------------- MODULE DevicePromise ----------------------------
(***************************************************************************)
(* What the device authorization grant promises, with none of its          *)
(* statements: a code is claimed by one user, decided once, and only an    *)
(* approved code is ever spent; a spent code delivers at most one session, *)
(* and that session is the holder's.  A code that is void, because it ran  *)
(* out or was denied and cleaned up, delivers nothing.                     *)
(***************************************************************************)
CONSTANTS Codes, Users, Requests, NoUser

VARIABLES
    phase,      \* phase[c]: how far the code got
    holder,     \* holder[c]: the user who claimed it
    delivered   \* delivered[c]: the sessions it led to, <<request, user>>

promise == <<phase, holder, delivered>>

PromiseInit ==
    /\ phase = [c \in Codes |-> "unissued"]
    /\ holder = [c \in Codes |-> NoUser]
    /\ delivered = [c \in Codes |-> {}]

Move(c, from, to) ==
    /\ phase[c] \in from
    /\ phase' = [phase EXCEPT ![c] = to]
    /\ UNCHANGED <<holder, delivered>>

Claim(c, u) ==
    /\ phase[c] = "pending"
    /\ holder[c] = NoUser
    /\ holder' = [holder EXCEPT ![c] = u]
    /\ UNCHANGED <<phase, delivered>>

Decide(c, to) ==
    /\ holder[c] # NoUser
    /\ Move(c, {"pending"}, to)

Deliver(c, d) ==
    /\ phase[c] = "spent"
    /\ delivered[c] = {}
    /\ delivered' = [delivered EXCEPT ![c] = {<<d, holder[c]>>}]
    /\ UNCHANGED <<phase, holder>>

PromiseNext ==
    \/ \E c \in Codes :
          \/ Move(c, {"unissued"}, "pending")
          \/ Decide(c, "approved") \/ Decide(c, "denied")
          \/ Move(c, {"approved"}, "spent")
          \/ Move(c, {"pending", "approved", "denied"}, "void")
    \/ \E c \in Codes, u \in Users : Claim(c, u)
    \/ \E c \in Codes, d \in Requests : Deliver(c, d)

PromiseSpec == PromiseInit /\ [][PromiseNext]_promise

=============================================================================
