--------------------------- MODULE Administration ---------------------------
(***************************************************************************)
(* The admin plugin, crates/api/src/plugins/admin: creating, changing,     *)
(* banning, impersonating and removing other users, by users whose role    *)
(* permits all of it (the built-in role "admin") or by users whose role    *)
(* permits nothing.                                                        *)
(***************************************************************************)
EXTENDS Credentials

CONSTANTS
    BanEnds,            \* "ahead" if config.default_ban_expires_in is set, else "never"
    ImpersonateAdmins   \* config.allow_impersonating_admins

ASSUME AdministrationAssumption ==
    /\ BanEnds \in {"never", "ahead"}
    /\ ImpersonateAdmins \in BOOLEAN

AdminOps == {"create_user", "update_user", "set_role", "set_password", "ban", "unban",
             "impersonate", "stop_impersonating", "revoke_session",
             "revoke_sessions", "remove_user"}

\* The cookies that keep an administrator's session for after an impersonation.
AdminCookie(s) == [session |-> s]
AdminCookies == signed \cap {AdminCookie(i) : i \in Id}

\* What update-user and set-role can change, one field at a time.  update-user can
\* set the role too, as set-role does; a verified mark it can set is left out.
AdminChanges(op) ==
    CASE op = "set_role" -> {[admin |-> b] : b \in BOOLEAN}
      [] op = "update_user" ->
           {[email |-> e] : e \in Emails} \cup {[name |-> n] : n \in Names}
             \cup {[banned |-> FALSE], [banned |-> TRUE]}
      [] OTHER -> {Nothing}

\* The requests administrators can send: the flag gives a new user a password,
\* or a ban an end.
AdminRequests(op) ==
    Calls([Only(op) EXCEPT
        !.cookie = Known("session"),
        !.target = CASE op = "create_user" -> {None}
                     [] op = "stop_impersonating" -> {t.session : t \in AdminCookies}
                     [] op = "revoke_session" -> Known("session")
                     [] OTHER -> {u.id : u \in db.users},
        !.email = IF op = "create_user" THEN Emails ELSE {NoText},
        !.change = AdminChanges(op),
        !.flag = IF op \in {"create_user", "ban"} THEN BOOLEAN ELSE {FALSE}])

\* authorize: every permission goes with the role.
Permitted(d, c) == \E s \in Caller(d, c) : \E u \in UserOf(d, s.user) : u.admin

\* What entitles a request to its answer.
AdminClaim(r, d, c) ==
    CASE r = "who" /\ c.op # "stop_impersonating" -> Permitted(d, c)
      [] r = "who" /\ c.op = "stop_impersonating" -> \E s \in Caller(d, c) : s.by # None
      [] r = "proof" /\ c.op = "stop_impersonating" ->
           \E s \in SessionOf(d, c.cookie), own \in SessionOf(d, c.target) : own.user = s.by
      [] r = "admitted" /\ c.op = "impersonate" ->
           \E u \in UserOf(d, c.target) : ~ InForce(u) /\ (u.admin => ImpersonateAdmins)
      [] OTHER -> TRUE

\* Where a permitted request begins.
AdminStart(c) ==
    CASE c.op = "create_user" -> "check_email"
      [] c.op = "update_user" -> IF "name" \in DOMAIN c.change THEN "check_name"
                                 ELSE "update_user"
      [] c.op = "set_password" -> "find_credential"
      [] c.op = "revoke_session" -> "delete_session"
      [] c.op = "revoke_sessions" -> "delete_sessions"
      [] OTHER -> "find_target"

\* An administrator may not ban, impersonate or remove themselves.
NotOneself == {"ban", "impersonate", "remove_user"}

Authorized(d, c) == Permitted(d, c)

\* require_session and authorize come first,
AuthorizedArrives(p, c) ==
    /\ c.op \in AdminOps \ {"stop_impersonating"}
    /\ Authorized(db, c)
    /\ \E s \in Caller(db, c) :
          /\ ~ (c.op \in NotOneself /\ s.user = c.target)
          /\ Arrive(p, c, AdminStart(c), [Blank EXCEPT !.user = c.target, !.row = s.user])

\* but for stop-impersonating, where the cookie's session must be one.
StopArrives(p, c) ==
    /\ c.op = "stop_impersonating"
    /\ \E s \in SessionOf(db, c.cookie) :
          s.by # None /\ Arrive(p, c, "find_admin", [Blank EXCEPT !.user = s.by])

-----------------------------------------------------------------------------
(* Creating and changing users.                                            *)

\* create_user_core stores the user,
AdminCreateUser(p) ==
    LET c == call[p] IN
    /\ pc[p] = "create_user"
    /\ UNCHANGED signed
    /\ \/ /\ ~ CanCreateUser(db, c.email, NoText)
          /\ UNCHANGED db /\ KeepIds
          /\ Refuse(p)
       \/ /\ CanCreateUser(db, c.email, NoText)
          /\ db' = CreateUser(db, NewUser(fresh, c.email, NoText, FALSE, FALSE))
          /\ Draw(<<"user">>)
          /\ Continue(p, IF c.flag THEN "add_credential" ELSE "answer",
                      [local[p] EXCEPT !.user = fresh])

\* handle_update_user: a username somebody else has is refused,
CheckOwnName(p) ==
    LET c == call[p] IN
    /\ pc[p] = "check_name" /\ c.op = "update_user"
    /\ UNCHANGED <<db, signed>> /\ KeepIds
    /\ IF \E u \in UsersNamed(db, c.change.name) : u.id # c.target THEN Refuse(p)
       ELSE Goto(p, "update_user", local[p])

\* ban_user_core and unban_user_core.  A ban without an end writes no end.
BanChange(c) ==
    IF c.flag \/ BanEnds = "ahead" THEN [banned |-> TRUE, ends |-> "ahead"]
    ELSE [banned |-> TRUE]

\* What the request writes to its target's row.
Change(c) == CASE c.op = "ban" -> BanChange(c)
               [] c.op = "unban" -> [banned |-> FALSE]
               [] OTHER -> c.change

\* and the row is updated: update-user, set-role, ban-user and unban-user.
UpdateTarget(p) ==
    LET c == call[p] IN
    /\ pc[p] = "update_user"
    /\ UNCHANGED signed /\ KeepIds
    /\ \/ /\ ~ CanUpdateUser(db, c.target, Change(c))
          /\ UNCHANGED db
          /\ Refuse(p)
       \/ /\ CanUpdateUser(db, c.target, Change(c))
          /\ db' = UpdateUser(db, c.target, Change(c))
          /\ IF c.op = "ban"
             THEN Goto(p, "delete_sessions", [local[p] EXCEPT !.out = {c.target}])
             ELSE Answer(p, local[p])

\* The other operations ask first whether there is such a user.
FindTarget(p) ==
    LET c == call[p] IN
    /\ pc[p] = "find_target"
    /\ UNCHANGED <<db, signed>> /\ KeepIds
    /\ \/ UserOf(db, c.target) = {} /\ Refuse(p)
       \/ \E u \in UserOf(db, c.target) :
             CASE c.op = "remove_user" -> Goto(p, "delete_sessions", local[p])
               [] c.op = "impersonate" ->
                    IF (u.admin /\ ~ ImpersonateAdmins) \/ InForce(u) THEN Refuse(p)
                    ELSE Goto(p, IF u.banned THEN "lift_first" ELSE "impersonate",
                              local[p])
               [] OTHER -> Goto(p, "update_user", local[p])

-----------------------------------------------------------------------------
(* Sessions of others.                                                     *)

LiftBanFirst(p) == pc[p] = "lift_first" /\ LiftBan(p, "impersonate")

\* The session names the administrator, and a cookie keeps the administrator's own.
Impersonate(p) ==
    /\ pc[p] = "impersonate"
    /\ StoreSession(p, local[p].row, None, "answer")
    /\ signed' = IF fresh' = fresh THEN signed
                 ELSE signed \cup {AdminCookie(call[p].cookie)}

OwnSessionOf(d, i, user) == {s \in SessionOf(d, i) : s.user = user}

\* The administrator and the session the other cookie keeps are looked up,
FindAdmin(p) ==
    /\ pc[p] = "find_admin"
    /\ UNCHANGED <<db, signed>> /\ KeepIds
    /\ IF UserOf(db, local[p].user) = {} THEN Refuse(p)
       ELSE Goto(p, "find_own_session", local[p])
FindOwnSession(p) ==
    /\ pc[p] = "find_own_session"
    /\ UNCHANGED <<db, signed>> /\ KeepIds
    /\ IF OwnSessionOf(db, call[p].target, local[p].user) = {} THEN Refuse(p)
       ELSE Goto(p, "end_impersonation", local[p])

\* and the impersonation's is deleted.
EndImpersonation(p) ==
    /\ pc[p] = "end_impersonation"
    /\ UNCHANGED signed /\ KeepIds
    /\ db' = DeleteSession(db, call[p].cookie)
    /\ Answer(p, local[p])

RevokeSession(p) ==
    /\ pc[p] = "delete_session"
    /\ UNCHANGED signed /\ KeepIds
    /\ db' = DeleteSession(db, call[p].target)
    /\ Answer(p, local[p])

\* ban-user, revoke-user-sessions and remove-user.
RevokeTargetSessions(p) ==
    /\ pc[p] = "delete_sessions" /\ call[p].op \in AdminOps
    /\ DeleteSessions(p, IF call[p].op = "remove_user" THEN "list_accounts" ELSE "answer")

RemoveUser(p) == call[p].op = "remove_user" /\ DeleteUserRow(p, "answer")

AdminArrives(p, c) == AuthorizedArrives(p, c) \/ StopArrives(p, c)

AdminStep(p) ==
    \/ AdminCreateUser(p) \/ CheckOwnName(p) \/ UpdateTarget(p)
    \/ FindTarget(p) \/ LiftBanFirst(p) \/ Impersonate(p)
    \/ FindAdmin(p) \/ FindOwnSession(p) \/ EndImpersonation(p) \/ RevokeSession(p)
    \/ RevokeTargetSessions(p) \/ RemoveUser(p)
=============================================================================
