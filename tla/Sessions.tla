------------------------------ MODULE Sessions ------------------------------
(***************************************************************************)
(* The session lifecycle: SessionManager (crates/core/src/session.rs) over *)
(* the SeaORM session table (crates/seaorm/src/store/sessions.rs), driven  *)
(* by the session-management plugin's endpoints.                           *)
(*                                                                         *)
(* Handlers are async and hold no transaction: every store call is its own *)
(* database statement, so a request is a process that takes one step per   *)
(* statement and concurrent requests interleave between the statements.    *)
(* What a request computed before a statement (a row it read, the expiry   *)
(* it is about to write) is kept in its local state, as stale as it is in  *)
(* the code.                                                               *)
(***************************************************************************)
EXTENDS Integers, FiniteSets

CONSTANTS
    Users,          \* user ids
    Tokens,         \* the session tokens uuid::new_v4 may return
    Requests,       \* the requests the server handles, concurrently
    NoUser, NoToken, \* "no user authenticated", "no token presented yet"
    ExpiresIn,      \* config.session.expires_in
    UpdateAge,      \* config.session.update_age; None behaves as 0
    RefreshOn,      \* ~ config.session.disable_session_refresh
    DeferRefresh,   \* config.session.defer_session_refresh
    Faults,         \* TRUE: a database statement may fail
    Ops,            \* the endpoints the requests of this instance call
    MaxTime         \* bound on the clock

AllOps == {"get", "post_get", "sign_out", "list", "revoke",
           "revoke_all", "revoke_others"}

ASSUME SessionsAssumption ==
    /\ NoUser \notin Users
    /\ NoToken \notin Tokens
    /\ ExpiresIn \in Nat
    /\ UpdateAge \in Nat
    /\ MaxTime \in Nat
    /\ RefreshOn \in BOOLEAN
    /\ DeferRefresh \in BOOLEAN
    /\ Faults \in BOOLEAN
    /\ Ops \subseteq AllOps

VARIABLES
    now,        \* the clock Utc::now() reads
    status,     \* status[t]: no such row yet / row in the table / row deleted
    row,        \* row[t]: the columns of t's row, meaningful while it is "live"
    pc,         \* pc[p]: the statement request p sends next
    call,       \* call[p]: the endpoint, the presented token, the body's token
    me,         \* me[p]: the user require_session returned, NoUser before
    seen,       \* seen[p]: the owner of the row p read last
    write,      \* write[p]: the column values p is about to write
    todo,       \* todo[p]: the listed tokens p has still to delete
    outcome,    \* outcome[p]: the answer p was given
    snap,       \* history: the tokens live when p's request began
    skipped,    \* history: the live rows p's listing left out
    lastUse     \* history: when t was issued or last found valid by a lookup

vars == <<now, status, row, pc, call, me, seen, write, todo, outcome,
          snap, skipped, lastUse>>

table == <<status, row>>
history == <<snap, skipped>>

Time == 0 .. MaxTime
Expiry == 0 .. MaxTime + ExpiresIn
Row == [user : Users \cup {NoUser}, expires : Expiry, updated : Time]
Call == [op : AllOps, token : Tokens \cup {NoToken},
         target : Tokens \cup {NoToken}, onTarget : BOOLEAN]

Statements == {"lookup", "purge", "refresh_find", "refresh_write", "reread",
               "user", "delete_own", "list", "delete_target", "delete_all",
               "delete_each"}
Outcomes == {"none", "ok", "unauthenticated", "not_allowed", "error"}

Live == {t \in Tokens : status[t] = "live"}
LiveOf(u) == {t \in Live : row[t].user = u}

TypeOK ==
    /\ now \in Time
    /\ status \in [Tokens -> {"unissued", "live", "gone"}]
    /\ row \in [Tokens -> Row]
    /\ pc \in [Requests -> Statements \cup {"new", "done"}]
    /\ call \in [Requests -> Call]
    /\ \A p \in Requests : pc[p] # "new" =>
          call[p].token \in Tokens /\ call[p].target \in Tokens
    /\ me \in [Requests -> Users \cup {NoUser}]
    /\ seen \in [Requests -> Users \cup {NoUser}]
    /\ write \in [Requests -> [expires : Expiry, updated : Time]]
    /\ todo \in [Requests -> SUBSET Tokens]
    /\ outcome \in [Requests -> Outcomes]
    /\ snap \in [Requests -> SUBSET Tokens]
    /\ skipped \in [Requests -> SUBSET Tokens]
    /\ lastUse \in [Tokens -> Time]

BlankRow == [user |-> NoUser, expires |-> 0, updated |-> 0]
BlankWrite == [expires |-> 0, updated |-> 0]

Init ==
    /\ now = 0
    /\ status = [t \in Tokens |-> "unissued"]
    /\ row = [t \in Tokens |-> BlankRow]
    /\ pc = [p \in Requests |-> "new"]
    /\ call = [p \in Requests |-> [op |-> "get", token |-> NoToken,
                                   target |-> NoToken, onTarget |-> FALSE]]
    /\ me = [p \in Requests |-> NoUser]
    /\ seen = [p \in Requests |-> NoUser]
    /\ write = [p \in Requests |-> BlankWrite]
    /\ todo = [p \in Requests |-> {}]
    /\ outcome = [p \in Requests |-> "none"]
    /\ snap = [p \in Requests |-> {}]
    /\ skipped = [p \in Requests |-> {}]
    /\ lastUse = [t \in Tokens |-> 0]

-----------------------------------------------------------------------------
(* The session table: what each statement does to the rows.                *)

\* The expiry a new or refreshed session is given.
NewExpiry(t) == now + ExpiresIn

\* INSERT of a fresh active row.
CreateSession(t, u) ==
    /\ status[t] = "unissued"
    /\ status' = [status EXCEPT ![t] = "live"]
    /\ row' = [row EXCEPT ![t] = [user |-> u, expires |-> NewExpiry(t),
                                  updated |-> now]]

\* DELETE ... WHERE: the rows in S that exist go.
DeleteRows(S) ==
    /\ status' = [t \in Tokens |->
                     IF t \in S /\ status[t] = "live" THEN "gone" ELSE status[t]]
    /\ UNCHANGED row

\* Seeded fault: the refresh saves the whole row, inserting it when it is gone.
SaveExpiry(t, w) ==
    /\ row' = [row EXCEPT ![t].expires = w.expires, ![t].updated = w.updated]
    /\ status' = [status EXCEPT ![t] = "live"]

\* Seeded fault: the write counts the new expiry from itself, not from the use.
UpdateExpiryLate(t, w) ==
    /\ row' = IF status[t] = "live"
              THEN [row EXCEPT ![t].expires = NewExpiry(t), ![t].updated = w.updated]
              ELSE row
    /\ UNCHANGED status

\* UPDATE ... WHERE id: sets the two columns when the row is still there;
\* a vanished row is an error to the caller and is not inserted again.
UpdateExpiry(t, w) ==
    /\ row' = IF status[t] = "live"
              THEN [row EXCEPT ![t].expires = w.expires, ![t].updated = w.updated]
              ELSE row
    /\ UNCHANGED status

\* Expired for a lookup; the listing's own comparison is strict the other way.
Expired(r) == r.expires < now
Listable(t) == status[t] = "live" /\ row[t].expires > now

-----------------------------------------------------------------------------
(* A request's control flow.                                               *)

\* The handler returns; its locals are dropped.
Finish(p, answer) ==
    /\ pc' = [pc EXCEPT ![p] = "done"]
    /\ outcome' = [outcome EXCEPT ![p] = answer]
    /\ seen' = [seen EXCEPT ![p] = NoUser]
    /\ write' = [write EXCEPT ![p] = BlankWrite]
    /\ todo' = [todo EXCEPT ![p] = {}]

Goto(p, label) == pc' = [pc EXCEPT ![p] = label] /\ UNCHANGED outcome

\* What a failed or empty require_session answers: /get-session turns every
\* error into a null body, /sign-out answers success whatever happened.
Rejected(p, answer) ==
    CASE call[p].op = "sign_out" -> "ok"
      [] call[p].op \in {"get", "post_get"} -> "unauthenticated"
      [] OTHER -> answer

Looking(p) == IF call[p].onTarget THEN call[p].target ELSE call[p].token

\* get_session returned None.
ReturnNone(p) ==
    IF call[p].onTarget THEN Finish(p, "ok")
                        ELSE Finish(p, Rejected(p, "unauthenticated"))

\* Seeded fault: /revoke-session does not look at whose session it is.
AnyTarget(p, owner) == TRUE

\* The owner check of revoke_session_core.
OwnTarget(p, owner) == owner = me[p]

\* get_session returned Some session of owner: require_session goes on to load the user;
\* revoke-session deletes the target only if it belongs to the caller.
ReturnSome(p, owner) ==
    IF ~ call[p].onTarget
    THEN /\ Goto(p, "user")
         /\ seen' = [seen EXCEPT ![p] = owner]
         /\ write' = [write EXCEPT ![p] = BlankWrite]
         /\ UNCHANGED todo
    ELSE IF OwnTarget(p, owner)
    THEN /\ Goto(p, "delete_target")
         /\ seen' = [seen EXCEPT ![p] = NoUser]
         /\ write' = [write EXCEPT ![p] = BlankWrite]
         /\ UNCHANGED todo
    ELSE Finish(p, "ok")

\* A request arrives: the token it presents was issued to some client.
Begin(p, o, t, x) ==
    /\ pc[p] = "new"
    /\ o \in Ops
    /\ status[t] # "unissued"
    /\ status[x] # "unissued"
    /\ o # "revoke" => x = t
    /\ call' = [call EXCEPT ![p] = [op |-> o, token |-> t, target |-> x,
                                    onTarget |-> FALSE]]
    /\ snap' = [snap EXCEPT ![p] = Live]
    /\ IF o = "post_get" /\ ~ DeferRefresh
       THEN Finish(p, "not_allowed")
       ELSE Goto(p, "lookup") /\ UNCHANGED <<seen, write, todo>>
    /\ UNCHANGED <<now, table, me, skipped, lastUse>>

\* get_session, first statement: read the active row and decide on it.
Lookup(p) ==
    /\ pc[p] = "lookup"
    /\ LET t == Looking(p)
           r == row[t]
           due == RefreshOn /\ now - r.updated >= UpdateAge
       IN  \/ /\ status[t] # "live"
              /\ ReturnNone(p)
              /\ UNCHANGED lastUse
           \/ /\ status[t] = "live"
              /\ Expired(r)
              /\ Goto(p, "purge")
              /\ UNCHANGED <<seen, write, todo, lastUse>>
           \/ /\ status[t] = "live"
              /\ ~ Expired(r)
              /\ lastUse' = [lastUse EXCEPT ![t] = now]
              /\ IF due
                 THEN /\ Goto(p, "refresh_find")
                      /\ seen' = [seen EXCEPT ![p] = r.user]
                      /\ write' = [write EXCEPT ![p].expires = NewExpiry(t)]
                      /\ UNCHANGED todo
                 ELSE ReturnSome(p, r.user)
    /\ UNCHANGED <<now, table, call, me, history>>

\* get_session on an expired row: delete it by token, then answer None.
Purge(p) ==
    /\ pc[p] = "purge"
    /\ DeleteRows({Looking(p)})
    /\ ReturnNone(p)
    /\ UNCHANGED <<now, call, me, history, lastUse>>

\* update_session_expiry, first statement: find the row. A missing row is
\* SessionNotFound, which get_session answers with the row it read before.
RefreshFind(p) ==
    /\ pc[p] = "refresh_find"
    /\ IF status[Looking(p)] = "live"
       THEN /\ Goto(p, "refresh_write")
            /\ write' = [write EXCEPT ![p].updated = now]
            /\ UNCHANGED <<seen, todo>>
       ELSE ReturnSome(p, seen[p])
    /\ UNCHANGED <<now, table, call, me, history, lastUse>>

\* update_session_expiry, second statement.
RefreshWrite(p) ==
    /\ pc[p] = "refresh_write"
    /\ UpdateExpiry(Looking(p), write[p])
    /\ IF status[Looking(p)] = "live"
       THEN Goto(p, "reread") /\ UNCHANGED <<seen, write, todo>>
       ELSE ReturnSome(p, seen[p])
    /\ UNCHANGED <<now, call, me, history, lastUse>>

\* get_session, last statement: answer the refreshed row, or the row read
\* before the refresh when the session was revoked meanwhile.
Reread(p) ==
    /\ pc[p] = "reread"
    /\ ReturnSome(p, IF status[Looking(p)] = "live" THEN row[Looking(p)].user
                                                    ELSE seen[p])
    /\ UNCHANGED <<now, table, call, me, history, lastUse>>

-----------------------------------------------------------------------------
(* The endpoints, once require_session has the session row.                *)

\* get_user_by_id; require_session returns and the endpoint goes on.
LoadUser(p) ==
    LET own(op) == call[p].op = op IN
    /\ pc[p] = "user"
    /\ me' = [me EXCEPT ![p] = seen[p]]
    /\ \/ /\ call[p].op \in {"get", "post_get"}
          /\ Finish(p, "ok")
          /\ UNCHANGED call
       \/ /\ own("revoke")
          /\ Goto(p, "lookup")
          /\ call' = [call EXCEPT ![p].onTarget = TRUE]
          /\ UNCHANGED <<seen, write, todo>>
       \/ /\ \/ own("sign_out") /\ Goto(p, "delete_own")
             \/ own("revoke_all") /\ Goto(p, "delete_all")
             \/ call[p].op \in {"list", "revoke_others"} /\ Goto(p, "list")
          /\ UNCHANGED <<call, seen, write, todo>>
    /\ UNCHANGED <<now, table, history, lastUse>>

\* sign_out_core: the presented session is deleted.
DeleteOwn(p) ==
    /\ pc[p] = "delete_own"
    /\ DeleteRows({call[p].token})
    /\ Finish(p, "ok")
    /\ UNCHANGED <<now, call, me, history, lastUse>>

\* revoke_session_core: the target, found to be the caller's, is deleted.
DeleteTarget(p) ==
    /\ pc[p] = "delete_target"
    /\ DeleteRows({call[p].target})
    /\ Finish(p, "ok")
    /\ UNCHANGED <<now, call, me, history, lastUse>>

\* The rows delete_user_sessions deletes: the user's, whatever their state.
UserSessions(p) == LiveOf(me[p])

\* revoke_sessions_core: one DELETE by user id.
DeleteAll(p) ==
    /\ pc[p] = "delete_all"
    /\ DeleteRows(UserSessions(p))
    /\ Finish(p, "ok")
    /\ UNCHANGED <<now, call, me, history, lastUse>>

\* list_user_sessions: the unexpired rows of the caller; revoke-other-sessions
\* then deletes each of them but the current one.
List(p) ==
    /\ pc[p] = "list"
    /\ LET listed == {t \in LiveOf(me[p]) : Listable(t)}
           others == listed \ {call[p].token}
       IN  \/ /\ call[p].op = "list"
              /\ Finish(p, "ok")
              /\ UNCHANGED skipped
           \/ /\ call[p].op = "revoke_others"
              /\ skipped' = [skipped EXCEPT ![p] = LiveOf(me[p]) \ listed]
              /\ IF others = {}
                 THEN Finish(p, "ok")
                 ELSE /\ Goto(p, "delete_each")
                      /\ todo' = [todo EXCEPT ![p] = others]
                      /\ UNCHANGED <<seen, write>>
    /\ UNCHANGED <<now, table, call, me, snap, lastUse>>

\* What the loop still has to delete after t.
Remaining(p, t) == todo[p] \ {t}

\* revoke_other_sessions_core: one delete_session per listed token.
DeleteEach(p) ==
    /\ pc[p] = "delete_each"
    /\ \E t \in todo[p] :
          /\ DeleteRows({t})
          /\ IF Remaining(p, t) = {}
             THEN Finish(p, "ok")
             ELSE /\ Goto(p, "delete_each")
                  /\ todo' = [todo EXCEPT ![p] = Remaining(p, t)]
                  /\ UNCHANGED <<seen, write>>
    /\ UNCHANGED <<now, call, me, history, lastUse>>

\* Seeded fault: a failing delete of the loop goes unnoticed.
LoopIgnoresFailure(p) == IF pc[p] = "delete_each" THEN "ok" ELSE "error"

\* What an endpoint answers when its list or its delete fails.
DeleteFailed(p) == IF pc[p] = "delete_own" THEN "ok" ELSE "error"

\* The database refuses the statement request p is at. Clean-up and refresh
\* are best effort: the session is answered as it was read. Everything else
\* gives up with the endpoint's answer to an error.
StatementFails(p) ==
    /\ Faults
    /\ \/ pc[p] = "purge" /\ ReturnNone(p)
       \/ pc[p] \in {"refresh_find", "refresh_write", "reread"}
          /\ ReturnSome(p, seen[p])
       \/ pc[p] \in {"lookup", "user"} /\ Finish(p, Rejected(p, "error"))
       \/ pc[p] \in {"list", "delete_own", "delete_target", "delete_all", "delete_each"}
          /\ Finish(p, DeleteFailed(p))
    /\ UNCHANGED <<now, table, call, me, history, lastUse>>

-----------------------------------------------------------------------------
(* What happens beside the requests.                                       *)

\* SessionManager::create_session at the end of some sign-in.
Issue(t, u) ==
    /\ CreateSession(t, u)
    /\ lastUse' = [lastUse EXCEPT ![t] = now]
    /\ UNCHANGED <<now, pc, call, me, seen, write, todo, outcome, history>>

\* cleanup_expired_sessions, called by the application when it likes.
CleanupExpired ==
    /\ \E t \in Live : Expired(row[t])
    /\ DeleteRows({t \in Live : Expired(row[t])})
    /\ UNCHANGED <<now, pc, call, me, seen, write, todo, outcome, history, lastUse>>

Tick ==
    /\ now < MaxTime
    /\ now' = now + 1
    /\ UNCHANGED <<table, pc, call, me, seen, write, todo, outcome, history, lastUse>>

Step(p) ==
    \/ Lookup(p) \/ Purge(p)
    \/ RefreshFind(p) \/ RefreshWrite(p) \/ Reread(p)
    \/ LoadUser(p)
    \/ DeleteOwn(p) \/ DeleteTarget(p) \/ DeleteAll(p)
    \/ List(p) \/ DeleteEach(p)

Next ==
    \/ \E p \in Requests, o \in AllOps, t, x \in Tokens : Begin(p, o, t, x)
    \/ \E p \in Requests : Step(p) \/ StatementFails(p)
    \/ \E t \in Tokens, u \in Users : Issue(t, u)
    \/ CleanupExpired
    \/ Tick

Spec == Init /\ [][Next]_vars

-----------------------------------------------------------------------------
(* Properties.                                                             *)

\* A request is authenticated only by a token that had a row when the request
\* began, and as the user that row belongs to: a revocation that finished
\* before the request arrived is final, whatever refreshes were in flight
\* (get_session and its read-refresh-reread sequence).
AuthenticatedWasLive ==
    \A p \in Requests : me[p] # NoUser =>
        /\ call[p].token \in snap[p]
        /\ row[call[p].token].user = me[p]

\* A revoked token never gets its row back: the refresh of a concurrently
\* deleted session updates nothing (update_session_expiry).
NoResurrection ==
    [][\A t \in Tokens : status[t] = "gone" => status'[t] = "gone"]_vars

\* A session nobody uses dies ExpiresIn after its last use: however refreshes
\* interleave, none writes an expiry later than that (get_session's refresh).
IdleLimit ==
    \A t \in Live : row[t].expires <= lastUse[t] + ExpiresIn

\* When /revoke-other-sessions answers success, the only other sessions left
\* of those its user had when the request began are rows the listing left out
\* because they had run out by then; the loop stops at nothing else
\* (revoke_other_sessions_core).
OthersRevoked ==
    \A p \in Requests : call[p].op = "revoke_others" /\ outcome[p] = "ok" =>
        \A t \in snap[p] \ {call[p].token} :
            row[t].user = me[p] => status[t] = "gone" \/ t \in skipped[p]

\* No request ends a valid session of somebody else: an unexpired row is
\* deleted only on behalf of its own user, or by a lookup of that very token
\* which had read it as expired (revoke_session_core, get_session).
OnlyOwnerRevokes ==
    [][\A t \in Tokens :
         status[t] = "live" /\ ~ Expired(row[t]) /\ status'[t] = "gone" =>
            \E p \in Requests :
               \/ me[p] = row[t].user
                  /\ pc[p] \in {"delete_own", "delete_target", "delete_all", "delete_each"}
               \/ pc[p] = "purge" /\ Looking(p) = t]_vars

\* The promise the requests' callers rely on: see SessionPromise.  The token
\* table is its life, and a request past require_session is granted.
Promise == INSTANCE SessionPromise WITH
    life <- status,
    since <- snap,
    granted <- [p \in Requests |-> IF me[p] = NoUser THEN NoToken
                                   ELSE call[p].token]

KeepsPromise == Promise!PromiseSpec

=============================================================================
