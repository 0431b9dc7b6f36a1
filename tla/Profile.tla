------------------------------- MODULE Profile -------------------------------
(***************************************************************************)
(* What users do to their own record: proving and changing their e-mail    *)
(* address (crates/api/src/plugins/email_verification and                  *)
(* user_management), deleting themselves, and creating API keys, which     *)
(* are rows with no foreign key to the user.                               *)
(***************************************************************************)
EXTENDS Administration

CONSTANTS
    Sender,             \* config.send_verification_email is set
    ConfirmChange,      \* config.change_email.send_change_email_confirmation is set
    UpdateUnverified,   \* config.change_email.update_without_verification
    AutoSignInVerified, \* config.auto_sign_in_after_verification
    VerifyDeletion      \* config.delete_user.require_verification

ASSUME ProfileAssumption ==
    {Sender, ConfirmChange, UpdateUnverified, AutoSignInVerified, VerifyDeletion}
        \subseteq BOOLEAN

ProfileOps == {"send_verification", "verify_email", "change_email", "delete_user",
               "delete_callback", "create_key"}

\* The links that have been mailed.
Mailed == signed \cap Link

\* The requests users can send: with a session or without, where that matters.
ProfileRequests(op) ==
    CASE op = "send_verification" ->
           Calls([Only(op) EXCEPT !.cookie = Known("session") \cup {None}, !.email = Emails])
      [] op = "verify_email" ->
           Calls([Only(op) EXCEPT !.cookie = Known("session") \cup {None}, !.change = Mailed])
      [] op = "change_email" ->
           Calls([Only(op) EXCEPT !.cookie = Known("session"), !.email = Emails])
      [] op = "delete_user" ->
           Calls([Only(op) EXCEPT !.cookie = Known("session"),
                                  !.secret = Passwords \cup {None},
                                  !.target = Known("delete") \cup {None}])
      [] op = "delete_callback" ->
           Calls([Only(op) EXCEPT !.cookie = Known("session"), !.target = Known("delete")])
      [] op = "create_key" -> Calls([Only(op) EXCEPT !.cookie = Known("session")])

\* What entitles a request of user i to its answer.
ProfileClaim(r, d, c, i) ==
    CASE r = "who" /\ c.op \notin {"send_verification", "verify_email"} ->
           \E s \in Caller(d, c) : s.user = i
      [] r = "proof" /\ c.op = "verify_email" ->
           \E u \in UsersMailed(d, c.change.email) : i \in {None, u.id}
      [] r = "proof" /\ c.op = "delete_user" /\ c.secret # None ->
           PasswordIs(d, i, c.secret)
      [] r = "proof" /\ c.op = "delete_callback" ->
           \E v \in VerificationOf(d, c.target, "delete") : v.about = i
      [] OTHER -> TRUE

-----------------------------------------------------------------------------
(* Asking for a link.                                                      *)

VerifyLink(e) == [type |-> "verify", email |-> e, to |-> NoText, box |-> e]

\* handle_send_verification_email: the address is the caller's own, or anybody's.
SendArrives(p, c) ==
    /\ c.op = "send_verification" /\ Sender
    /\ \E u \in UsersMailed(db, c.email) :
          /\ ~ u.verified
          /\ \A s \in Caller(db, c) : s.user = u.id
          /\ Arrive(p, c, "mail_link",
                    [Blank EXCEPT !.user = u.id, !.link = VerifyLink(c.email)])

\* change_email_core: the link names the address the user has now.  It goes to
\* that address if the change is to be confirmed there first.
\* Seeded fault: the link that changes it goes to the address the user has.
ToOldAddress(u, e) == [type |-> "change", email |-> u.email, to |-> e, box |-> u.email]
ChangeLink(u, e) ==
    IF ConfirmChange /\ u.verified
    THEN [type |-> "confirm_change", email |-> u.email, to |-> e, box |-> u.email]
    ELSE [type |-> "change", email |-> u.email, to |-> e, box |-> e]

ChangeEmailArrives(p, c) ==
    /\ c.op = "change_email"
    /\ \E s \in Caller(db, c) : \E u \in UserOf(db, s.user) :
          /\ u.email # c.email
          /\ Arrive(p, c, "check_address",
                    [Blank EXCEPT !.user = u.id,
                                  !.link = IF ~ u.verified /\ UpdateUnverified
                                           THEN NoLink ELSE ChangeLink(u, c.email)])

\* An address somebody has is refused.
CheckAddress(p) ==
    /\ pc[p] = "check_address"
    /\ UNCHANGED <<db, signed>> /\ KeepIds
    /\ IF UsersMailed(db, call[p].email) # {} THEN Refuse(p)
       ELSE Goto(p, IF local[p].link = NoLink THEN "update_address" ELSE "mail_link",
                 local[p])

\* update_user by id: the row may be gone, or the new address somebody else's.
WriteUser(p, change, label) ==
    /\ UNCHANGED signed /\ KeepIds
    /\ \/ ~ CanUpdateUser(db, local[p].user, change) /\ UNCHANGED db /\ Refuse(p)
       \/ /\ CanUpdateUser(db, local[p].user, change)
          /\ db' = UpdateUser(db, local[p].user, change)
          /\ Continue(p, label, local[p])

UpdateAddress(p) ==
    pc[p] = "update_address" /\ WriteUser(p, [email |-> call[p].email], "answer")

\* A link to confirm is followed by one to the new address.
MailLink(p) ==
    /\ pc[p] = "mail_link"
    /\ UNCHANGED db /\ KeepIds
    /\ signed' = signed \cup {local[p].link}
    /\ Answer(p, local[p])

-----------------------------------------------------------------------------
(* Following a link: verify_email_core.                                    *)

\* The caller's session, if it is one of the user the link names, is kept; a
\* link that changes an address is refused in anybody else's session.
VerifyArrives(p, c) ==
    /\ c.op = "verify_email"
    /\ LET own == {s \in Caller(db, c) :
                      \E u \in UserOf(db, s.user) : u.email = c.change.email}
           row == IF own = {} THEN None ELSE c.cookie
       IN  /\ c.change.type # "verify" => Caller(db, c) \subseteq own
           /\ Arrive(p, c, "find_by_email", [Blank EXCEPT !.row = row])

\* The user is whoever has the address when the link is followed.
NamedByLink(c) == UsersMailed(db, c.change.email)

FindByEmail(p) ==
    LET k == call[p].change
        l(u) == [local[p] EXCEPT !.user = u.id]
    IN  /\ pc[p] = "find_by_email"
        /\ UNCHANGED <<db, signed>> /\ KeepIds
        /\ \/ NamedByLink(call[p]) = {} /\ Refuse(p)
           \/ \E u \in NamedByLink(call[p]) :
                 CASE k.type = "confirm_change" ->
                        IF Sender
                        THEN Goto(p, "mail_link",
                                  [l(u) EXCEPT !.link =
                                      [k EXCEPT !.type = "change", !.box = k.to]])
                        ELSE Answer(p, l(u))
                   [] k.type = "change" ->
                        Goto(p, IF local[p].row = None THEN "issue" ELSE "change_address", l(u))
                   [] k.type = "verify" /\ u.verified -> Answer(p, l(u))
                   [] OTHER -> Goto(p, "mark_verified", l(u))

\* The session comes first, then the new address.
SessionForLink(p) ==
    /\ pc[p] = "create_session" /\ call[p].op = "verify_email"
    /\ UNCHANGED signed
    /\ StoreSession(p, None, None,
           IF call[p].change.type = "change" THEN "change_address" ELSE "answer")

ChangeAddress(p) ==
    /\ pc[p] = "change_address"
    /\ WriteUser(p, [email |-> call[p].change.to, verified |-> TRUE], "answer")

\* The address is marked as proven, whatever it is by now.
MarkVerified(p) ==
    /\ pc[p] = "mark_verified"
    /\ WriteUser(p, [verified |-> TRUE],
           IF AutoSignInVerified /\ local[p].row = None THEN "issue" ELSE "answer")

-----------------------------------------------------------------------------
(* Deleting oneself.                                                       *)

\* delete_user_core: the password if one is given, then the token if one is given,
\* a mailed token if that is asked for, or at once in a fresh session.
AfterPassword(c) ==
    CASE c.target # None -> "find_delete_token"
      [] c.target = None /\ VerifyDeletion -> "store_delete_token"
      [] OTHER -> "delete_sessions"

DeletionArrives(p, c) ==
    /\ c.op \in {"delete_user", "delete_callback"}
    /\ \E s \in Caller(db, c) :
          Arrive(p, c,
                 IF c.secret # None THEN "check_password" ELSE AfterPassword(c),
                 [Blank EXCEPT !.user = s.user])

CheckDeletionPassword(p) ==
    /\ pc[p] = "check_password" /\ call[p].op = "delete_user"
    /\ UNCHANGED <<db, signed>> /\ KeepIds
    /\ IF PasswordRight(p) THEN Goto(p, AfterPassword(call[p]), local[p]) ELSE Refuse(p)

StoreDeleteToken(p) ==
    /\ pc[p] = "store_delete_token"
    /\ UNCHANGED signed
    /\ db' = CreateVerification(db, NewVerification(fresh, "delete", local[p].user))
    /\ Draw(<<"delete">>)
    /\ Answer(p, [local[p] EXCEPT !.got = {fresh}])

\* delete_user_callback_core: the token must be the caller's own.
\* Seeded fault: anybody's will do.
AnyToken(i, user) == VerificationOf(db, i, "delete")
OwnToken(i, user) == {v \in VerificationOf(db, i, "delete") : v.about = user}

FindDeleteToken(p) ==
    LET rows == OwnToken(call[p].target, local[p].user)
    IN  /\ pc[p] = "find_delete_token"
        /\ UNCHANGED <<db, signed>> /\ KeepIds
        /\ IF rows = {} THEN Refuse(p)
           ELSE Goto(p, "delete_sessions",
                     [local[p] EXCEPT !.row = call[p].target, !.spent = {call[p].target}])

DeleteOwnSessions(p) ==
    /\ pc[p] = "delete_sessions" /\ call[p].op \in {"delete_user", "delete_callback"}
    /\ DeleteSessions(p, "list_accounts")

DeleteOneself(p) ==
    /\ call[p].op \in {"delete_user", "delete_callback"}
    /\ DeleteUserRow(p, IF local[p].row = None THEN "answer" ELSE "drop_delete_token")

DropDeleteToken(p) ==
    /\ pc[p] = "drop_delete_token"
    /\ UNCHANGED signed /\ KeepIds
    /\ db' = DeleteVerification(db, local[p].row)
    /\ Answer(p, local[p])

-----------------------------------------------------------------------------
(* Creating an API key: its owner is the session's user, who is not looked *)
(* up again (ApiKeys has the rest).                                        *)

CreateKeyArrives(p, c) ==
    /\ c.op = "create_key"
    /\ \E s \in Caller(db, c) : Arrive(p, c, "create_key", [Blank EXCEPT !.user = s.user])

CreateKey(p) ==
    /\ pc[p] = "create_key"
    /\ UNCHANGED signed
    /\ db' = CreateApiKey(db, fresh, local[p].user)
    /\ Draw(<<"key">>)
    /\ Answer(p, [local[p] EXCEPT !.got = {fresh}])

ProfileArrives(p, c) ==
    \/ SendArrives(p, c) \/ ChangeEmailArrives(p, c) \/ VerifyArrives(p, c)
    \/ DeletionArrives(p, c) \/ CreateKeyArrives(p, c)

ProfileStep(p) ==
    \/ CheckAddress(p) \/ UpdateAddress(p) \/ MailLink(p)
    \/ FindByEmail(p) \/ SessionForLink(p) \/ ChangeAddress(p) \/ MarkVerified(p)
    \/ CheckDeletionPassword(p) \/ StoreDeleteToken(p) \/ FindDeleteToken(p)
    \/ DeleteOwnSessions(p) \/ DeleteOneself(p) \/ DropDeleteToken(p) \/ CreateKey(p)
=============================================================================
