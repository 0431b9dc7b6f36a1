---------------------------- MODULE Credentials ----------------------------
(***************************************************************************)
(* Signing up and in with a password, and losing, resetting and changing   *)
(* it: crates/api/src/plugins/email_password.rs and password_management,   *)
(* for users without a second factor (TwoFactor has those).  A password is *)
(* right when it is the one stored: passwords are never chosen twice.  The *)
(* option send_on_sign_in is off, as it is unless it is set: no sign-in    *)
(* mails a link.                                                           *)
(***************************************************************************)
EXTENDS Handlers

CONSTANTS
    SignUpEnabled,      \* config.enable_signup
    AutoSignIn,         \* config.auto_sign_in
    RequireVerified,    \* EmailVerificationConfig.require_verification_for_signin
    RequireCurrent,     \* config.require_current_password
    RevokeOnReset       \* config.revoke_sessions_on_password_reset

ASSUME CredentialsAssumption ==
    {SignUpEnabled, AutoSignIn, RequireVerified, RequireCurrent, RevokeOnReset}
        \subseteq BOOLEAN

CredentialOps == {"sign_up", "sign_in", "sign_in_username", "request_reset",
                  "reset", "change_password", "verify_password"}

\* The requests clients can send: their flag is revoke_other_sessions.
CredentialRequests(op) ==
    CASE op = "sign_up" ->
           Calls([Only(op) EXCEPT !.email = Emails, !.name = Names \cup {NoText}])
      [] op = "sign_in" ->
           Calls([Only(op) EXCEPT !.email = Emails, !.secret = Passwords])
      [] op = "sign_in_username" ->
           Calls([Only(op) EXCEPT !.name = Names, !.secret = Passwords])
      [] op = "request_reset" -> Calls([Only(op) EXCEPT !.email = Emails])
      [] op = "reset" -> Calls([Only(op) EXCEPT !.secret = Known("reset")])
      [] op = "change_password" ->
           Calls([Only(op) EXCEPT !.cookie = Known("session"), !.secret = Passwords,
                                  !.flag = BOOLEAN])
      [] op = "verify_password" ->
           Calls([Only(op) EXCEPT !.cookie = Known("session"), !.secret = Passwords])

\* What entitles a request of user i to its answer: the name is theirs, the proof
\* is right, and whoever is signed in is not banned.
PasswordIs(d, i, secret) ==
    \E a \in CredentialOf(d, i) : a.password = secret /\ secret # None
\* The user of the address or the username.
Named(d, c) == IF c.op = "sign_in_username" THEN UsersNamed(d, c.name)
               ELSE UsersMailed(d, c.email)
SignIns == {"sign_in", "sign_in_username"}

CredentialClaim(r, d, c, i) ==
    CASE r = "who" /\ c.op \in SignIns -> UserOf(d, i) \subseteq Named(d, c)
      [] r = "who" /\ c.op \in {"change_password", "verify_password"} ->
           \E s \in Caller(d, c) : s.user = i
      [] r = "proof" /\ c.op \in SignIns \cup {"verify_password"} ->
           PasswordIs(d, i, c.secret)
      [] r = "proof" /\ c.op = "change_password" ->
           RequireCurrent => PasswordIs(d, i, c.secret)
      [] r = "proof" /\ c.op = "reset" ->
           \E v \in VerificationOf(d, c.secret, "reset") : v.about = i
      [] r = "admitted" /\ c.op \in SignIns ->
           AdminPlugin => \E u \in UserOf(d, i) : ~ InForce(u)
      [] OTHER -> TRUE

-----------------------------------------------------------------------------
(* Signing up.                                                             *)

\* A username is looked for before the address is,
SignUpArrives(p, c) ==
    /\ c.op = "sign_up" /\ SignUpEnabled
    /\ UsersNamed(db, c.name) = {}
    /\ Arrive(p, c, "check_email", Blank)

\* in sign_up_core, and in admin's create_user_core.
CheckEmail(p) ==
    /\ pc[p] = "check_email"
    /\ UNCHANGED <<db, signed>> /\ KeepIds
    /\ IF UsersMailed(db, call[p].email) # {} THEN Refuse(p)
       ELSE Goto(p, IF call[p].op = "sign_up" THEN "sign_up" ELSE "create_user", local[p])

\* One transaction stores the user, the credential account and the session.
SignUp(p) ==
    LET c == call[p]
        user == NewUser(fresh, c.email, c.name, FALSE, FALSE)
        new == CreateAccount(CreateUser(db, user), NewCredential(fresh + 1, fresh, fresh + 2))
    IN  /\ pc[p] = "sign_up"
        /\ UNCHANGED signed
        /\ \/ /\ ~ CanCreateUser(db, c.email, c.name)
              /\ UNCHANGED db /\ KeepIds
              /\ Refuse(p)
           \/ /\ CanCreateUser(db, c.email, c.name)
              /\ IF AutoSignIn
                 THEN /\ db' = CreateSession(new, fresh + 3, fresh, None)
                      /\ DrawFor(<<"user", "account", "password", "session">>, fresh + 2)
                      /\ Answer(p, [local[p] EXCEPT !.got = {fresh + 3}])
                 ELSE /\ db' = new
                      /\ Draw(<<"user", "account", "password">>)
                      /\ Answer(p, local[p])

-----------------------------------------------------------------------------
(* Signing in, and asking for a reset.                                     *)

\* A request for a reset that finds nobody is answered as if it had.
NamedArrives(p, c) ==
    /\ c.op \in {"sign_in", "sign_in_username", "request_reset"}
    /\ \E u \in Named(db, c) :
          Arrive(p, c,
                 CASE c.op = "request_reset" -> "store_token"
                   [] c.op = "sign_in_username" /\ RequireVerified /\ ~ u.verified ->
                        "check_unverified"
                   [] OTHER -> "check_password",
                 [Blank EXCEPT !.user = u.id])

\* Seeded fault: any password is taken.
AnyPassword(p) == CredentialOf(db, local[p].user) # {}
PasswordRight(p) == PasswordIs(db, local[p].user, call[p].secret)

\* load_credential_password_hash and verify_password.
CheckPassword(p) ==
    /\ pc[p] = "check_password" /\ call[p].op \in CredentialOps
    /\ UNCHANGED <<db, signed>> /\ KeepIds
    /\ IF ~ PasswordRight(p) THEN Refuse(p)
       ELSE Continue(p, CASE call[p].op = "verify_password" -> "answer"
                          [] call[p].op = "change_password" -> "find_credential"
                          [] OTHER -> "issue",
                     local[p])

\* A username sign-in is refused for want of a verified address, whatever the
\* password is worth.
CheckUnverified(p) ==
    /\ pc[p] = "check_unverified"
    /\ UNCHANGED <<db, signed>> /\ KeepIds
    /\ Refuse(p)

SignIn(p) ==
    /\ pc[p] = "create_session" /\ call[p].op \in {"sign_in", "sign_in_username"}
    /\ UNCHANGED signed
    /\ StoreSession(p, None, call[p].secret, "answer")

\* request_password_reset_core stores the token and mails it.
StoreToken(p) ==
    /\ pc[p] = "store_token"
    /\ UNCHANGED signed
    /\ db' = CreateVerification(db, NewVerification(fresh, "reset", local[p].user))
    /\ Draw(<<"reset">>)
    /\ Answer(p, [local[p] EXCEPT !.got = {fresh}])

-----------------------------------------------------------------------------
(* Resetting a password.                                                   *)

\* The token's row is read, and only used, not claimed.
ResetArrives(p, c) ==
    /\ c.op = "reset"
    /\ \E v \in VerificationOf(db, c.secret, "reset") :
          Arrive(p, c, "find_credential",
                 [Blank EXCEPT !.user = v.about, !.spent = {v.id}])

\* Resetting creates the account that changing and set-user-password do without.
FindPasswordRow(p) ==
    /\ pc[p] = "find_credential"
    /\ FindCredential(p, "write_password",
           CASE call[p].op = "reset" -> Goto(p, "add_credential", local[p])
             [] call[p].op = "set_password" -> Answer(p, local[p])
             [] OTHER -> Refuse(p))

\* Whether the request goes on to delete the user's sessions.
Revokes(c) == \/ c.op = "reset" /\ RevokeOnReset
              \/ c.op = "change_password" /\ c.flag

\* Seeded fault: the token is left in place once the password is written.
AfterWriteKept(c) == IF Revokes(c) THEN "delete_sessions" ELSE "answer"
AfterWrite(c) ==
    CASE c.op = "reset" -> "delete_token"
      [] c.op = "change_password" -> IF Revokes(c) THEN "delete_sessions" ELSE "reread"
      [] OTHER -> "answer"

WriteNewPassword(p) ==
    /\ pc[p] = "write_password"
    /\ WritePassword(p, AfterWrite(call[p]), Revokes(call[p]))
AddPassword(p) == pc[p] = "add_credential" /\ AddCredential(p, AfterWrite(call[p]))

\* The token goes once the password is written, by the id read at the start.
DeleteToken(p) ==
    /\ pc[p] = "delete_token"
    /\ UNCHANGED signed /\ KeepIds
    /\ db' = DeleteVerification(db, call[p].secret)
    /\ Continue(p, IF Revokes(call[p]) THEN "delete_sessions" ELSE "answer", local[p])

-----------------------------------------------------------------------------
(* Changing it.                                                            *)

\* get_current_user, for change-password and verify-password.
CurrentUserArrives(p, c) ==
    /\ c.op \in {"change_password", "verify_password"}
    /\ \E s \in Caller(db, c) :
          Arrive(p, c,
                 IF c.op = "verify_password" \/ RequireCurrent THEN "check_password"
                 ELSE "find_credential",
                 [Blank EXCEPT !.user = s.user])

\* Every session is deleted, and change-password issues one to go on with.
RevokeSessions(p) ==
    /\ pc[p] = "delete_sessions" /\ call[p].op \in CredentialOps
    /\ DeleteSessions(p, IF call[p].op = "change_password" THEN "issue" ELSE "answer")

Reissue(p) ==
    /\ pc[p] = "create_session" /\ call[p].op = "change_password"
    /\ UNCHANGED signed
    /\ StoreSession(p, None, None, "reread")

\* The user is read once more for the answer.
Reread(p) ==
    /\ pc[p] = "reread"
    /\ UNCHANGED <<db, signed>> /\ KeepIds
    /\ IF UserOf(db, local[p].user) = {} THEN Refuse(p) ELSE Answer(p, local[p])

CredentialArrives(p, c) ==
    \/ SignUpArrives(p, c) \/ NamedArrives(p, c) \/ ResetArrives(p, c)
    \/ CurrentUserArrives(p, c)

CredentialStep(p) ==
    \/ CheckEmail(p) \/ SignUp(p)
    \/ CheckPassword(p) \/ CheckUnverified(p) \/ SignIn(p) \/ StoreToken(p)
    \/ FindPasswordRow(p) \/ WriteNewPassword(p) \/ AddPassword(p) \/ DeleteToken(p)
    \/ RevokeSessions(p) \/ Reissue(p) \/ Reread(p)
=============================================================================
