------------------------------ MODULE Passkeys ------------------------------
(***************************************************************************)
(* Registering passkeys and signing in with them:                          *)
(* crates/api/src/plugins/passkey.  The ceremonies themselves are those of *)
(* the webauthn-rs library: a response is bound to one challenge, and      *)
(* carries the authenticator's signature counter, which a copy of the      *)
(* authenticator repeats.                                                  *)
(***************************************************************************)
EXTENDS Profile

PasskeyOps == {"register_options", "register", "authenticate_options",
               "authenticate", "delete_passkey"}

\* The requests users can send, whatever the counter of the response.
PasskeyRequests(op) ==
    CASE op = "register_options" -> Calls([Only(op) EXCEPT !.cookie = Known("session")])
      [] op = "register" ->
           Calls([Only(op) EXCEPT !.cookie = Known("session"), !.secret = Known("register")])
      [] op = "authenticate_options" ->
           Calls([Only(op) EXCEPT !.cookie = Known("session") \cup {None}])
      [] op = "authenticate" ->
           Calls([Only(op) EXCEPT !.secret = Known("login"),
                                  !.target = {k.id : k \in db.passkeys},
                                  !.change = [counter : 0 .. MaxCount]])
      [] op = "delete_passkey" ->
           Calls([Only(op) EXCEPT !.cookie = Known("session"),
                                  !.target = {k.id : k \in db.passkeys}])

\* webauthn-rs: the counter must have gone up, if the authenticator has one.
Advances(old, new) == new > old \/ (new = 0 /\ old = 0)

\* What entitles a request of user i to its answer.
PasskeyClaim(r, d, c, i) ==
    CASE r = "who" /\ c.op \notin {"authenticate_options", "authenticate"} ->
           \E s \in Caller(d, c) : s.user = i
      [] r = "who" /\ c.op = "authenticate" -> \E k \in PasskeyOf(d, c.target) : k.user = i
      [] r = "proof" /\ c.op = "register" ->
           \E v \in VerificationOf(d, c.secret, "register") : v.about = i
      [] r = "proof" /\ c.op = "authenticate" ->
           /\ VerificationOf(d, c.secret, "login") # {}
           /\ \E k \in PasskeyOf(d, c.target) : TRUE
      [] r = "proof" /\ c.op = "delete_passkey" ->
           \E k \in PasskeyOf(d, c.target) : k.user = i
      [] r = "admitted" /\ c.op = "authenticate" ->
           AdminPlugin => \E u \in UserOf(d, i) : ~ InForce(u)
      [] OTHER -> TRUE

-----------------------------------------------------------------------------
(* Asking for a challenge.                                                 *)

\* The user's passkeys are read for the options,
OptionsArrive(p, c) ==
    \/ /\ c.op = "register_options"
       /\ \E s \in Caller(db, c) : Arrive(p, c, "list_passkeys", [Blank EXCEPT !.user = s.user])
    \/ /\ c.op = "authenticate_options"
       /\ Arrive(p, c, "list_passkeys",
                 [Blank EXCEPT !.user = IF Caller(db, c) = {} THEN None
                                        ELSE (CHOOSE s \in Caller(db, c) : TRUE).user])

ListPasskeys(p) ==
    /\ pc[p] = "list_passkeys"
    /\ UNCHANGED <<db, signed>> /\ KeepIds
    /\ Goto(p, "store_challenge",
            [local[p] EXCEPT !.keys = PasskeysOf(db, local[p].user)])

\* and a challenge is stored: to register, with the user; to sign in, with copies
\* of the passkeys that are allowed, or of none if any is.
StoreChallenge(p) ==
    LET purpose == IF call[p].op = "register_options" THEN "register" ELSE "login"
        row == IF purpose = "register" THEN NewVerification(fresh, purpose, local[p].user)
               ELSE [NewVerification(fresh, purpose, None) EXCEPT !.keys = local[p].keys]
    IN  /\ pc[p] = "store_challenge"
        /\ UNCHANGED signed
        /\ db' = CreateVerification(db, row)
        /\ Draw(<<purpose>>)
        /\ Answer(p, [local[p] EXCEPT !.got = {fresh}])

-----------------------------------------------------------------------------
(* Registering: verify_registration_core.                                  *)

RegisterArrives(p, c) ==
    /\ c.op = "register"
    /\ \E s \in Caller(db, c) :
          Arrive(p, c, "find_challenge", [Blank EXCEPT !.user = s.user])

FindRegistration(p) ==
    LET rows == VerificationOf(db, call[p].secret, "register") IN
    /\ pc[p] = "find_challenge" /\ call[p].op = "register"
    /\ UNCHANGED <<db, signed>> /\ KeepIds
    /\ \/ rows = {} /\ Refuse(p)
       \/ \E v \in rows :
             IF v.about # local[p].user THEN Refuse(p)
             ELSE Goto(p, "create_passkey", [local[p] EXCEPT !.row = v.id, !.spent = {v.id}])

\* The authenticator made its credential for this challenge.
StorePasskey(p) ==
    /\ pc[p] = "create_passkey"
    /\ UNCHANGED signed /\ KeepIds
    /\ \/ /\ ~ CanCreatePasskey(db, call[p].secret, local[p].user)
          /\ UNCHANGED db
          /\ Refuse(p)
       \/ /\ CanCreatePasskey(db, call[p].secret, local[p].user)
          /\ db' = CreatePasskey(db, call[p].secret, local[p].user, 0)
          /\ Goto(p, "drop_challenge", local[p])

-----------------------------------------------------------------------------
(* Signing in: verify_authentication_core.                                 *)

AuthenticateArrives(p, c) ==
    /\ c.op = "authenticate"
    /\ \E v \in VerificationOf(db, c.secret, "login") :
          Arrive(p, c, "find_passkey",
                 [Blank EXCEPT !.row = v.id, !.keys = v.keys, !.spent = {v.id}])

\* The counter of the passkey's copy goes up, or stays.
\* Seeded fault: it becomes what the response says.
CounterTaken(k, n) == [k EXCEPT !.counter = n]
CounterRaised(k, n) == [k EXCEPT !.counter = IF n > @ THEN n ELSE @]

\* The passkey is read; the response is held against the challenge's copy of it,
\* or against the passkey itself if any was allowed.
FindPasskey(p) ==
    LET n == call[p].change.counter
        allowed == local[p].keys
    IN  /\ pc[p] = "find_passkey"
        /\ UNCHANGED <<db, signed>> /\ KeepIds
        /\ \/ PasskeyOf(db, call[p].target) = {} /\ Refuse(p)
           \/ \E k \in PasskeyOf(db, call[p].target) :
                 IF \E old \in (IF allowed = {} THEN {k} ELSE allowed) :
                       old.id = k.id /\ Advances(old.counter, n)
                 THEN Goto(p, "update_passkey",
                           [local[p] EXCEPT !.keys = {CounterRaised(k, n)}])
                 ELSE Refuse(p)

\* The copy is written back, changed.
WritePasskey(p) ==
    /\ pc[p] = "update_passkey"
    /\ UNCHANGED signed /\ KeepIds
    /\ \E k \in local[p].keys :
          \/ PasskeyOf(db, k.id) = {} /\ UNCHANGED db /\ Refuse(p)
          \/ /\ PasskeyOf(db, k.id) # {}
             /\ db' = UpdatePasskey(db, k.id, k.counter)
             /\ Goto(p, "find_passkey_user", [local[p] EXCEPT !.user = k.user])

FindPasskeyUser(p) ==
    /\ pc[p] = "find_passkey_user"
    /\ UNCHANGED <<db, signed>> /\ KeepIds
    /\ IF UserOf(db, local[p].user) = {} THEN Refuse(p)
       ELSE Goto(p, "drop_challenge", local[p])

\* Seeded fault: the challenge stays.
ChallengeKept(i) == db
ChallengeGone(i) == DeleteVerification(db, i)

\* The challenge goes last but for the session.
DropChallenge(p) ==
    /\ pc[p] = "drop_challenge"
    /\ UNCHANGED signed /\ KeepIds
    /\ db' = ChallengeGone(local[p].row)
    /\ Continue(p, IF call[p].op = "register" THEN "answer" ELSE "issue", local[p])

SignInWithPasskey(p) ==
    /\ pc[p] = "create_session" /\ call[p].op = "authenticate"
    /\ UNCHANGED signed
    /\ StoreSession(p, None, None, "answer")

-----------------------------------------------------------------------------
(* Removing one: only its owner may.                                       *)

DeletePasskeyArrives(p, c) ==
    /\ c.op = "delete_passkey"
    /\ \E s \in Caller(db, c) :
          Arrive(p, c, "check_owner", [Blank EXCEPT !.user = s.user])

CheckOwner(p) ==
    /\ pc[p] = "check_owner"
    /\ UNCHANGED <<db, signed>> /\ KeepIds
    /\ IF \E k \in PasskeyOf(db, call[p].target) : k.user = local[p].user
       THEN Goto(p, "delete_passkey", local[p]) ELSE Refuse(p)

RemovePasskey(p) ==
    /\ pc[p] = "delete_passkey"
    /\ UNCHANGED signed /\ KeepIds
    /\ db' = DeletePasskey(db, call[p].target)
    /\ Answer(p, local[p])

PasskeyArrives(p, c) ==
    \/ OptionsArrive(p, c) \/ RegisterArrives(p, c) \/ AuthenticateArrives(p, c)
    \/ DeletePasskeyArrives(p, c)

PasskeyStep(p) ==
    \/ ListPasskeys(p) \/ StoreChallenge(p) \/ FindRegistration(p) \/ StorePasskey(p)
    \/ FindPasskey(p) \/ WritePasskey(p) \/ FindPasskeyUser(p) \/ DropChallenge(p)
    \/ SignInWithPasskey(p) \/ CheckOwner(p) \/ RemovePasskey(p)
=============================================================================
