------------------------------ MODULE Handlers ------------------------------
(***************************************************************************)
(* What the handlers of every identity plugin share: requests that run     *)
(* side by side on one database, one statement after another, and the      *)
(* helpers of crates/api/src/plugins/helpers.rs they call.                 *)
(*                                                                         *)
(* pc[p] names the statement request p sends next; a step sends it and     *)
(* goes on to the next one, answers, or refuses.  Nothing is shared but    *)
(* the database: what a request has read is in local[p], and may be out of *)
(* date when it is used.  A request arrives with the first statement it    *)
(* sends; one that is refused on that leaves no trace and is left out.     *)
(*                                                                         *)
(* Time is left out but for the end of a ban: a row past its lifetime      *)
(* reads as an absent one.                                                 *)
(***************************************************************************)
EXTENDS Store, Sequences

CONSTANTS
    Requests,       \* the requests the server handles at a time
    Ops,            \* the endpoints the requests of this instance call
    AdminPlugin,    \* admin_plugin_enabled
    Faults,         \* TRUE: a database statement may fail
    MaxCalls        \* bound on the number of requests

ASSUME HandlersAssumption ==
    /\ IsFiniteSet(Requests)
    /\ AdminPlugin \in BOOLEAN
    /\ Faults \in BOOLEAN
    /\ MaxCalls \in Nat

VARIABLES
    db,         \* the database
    signed,     \* the tokens and cookies the server has signed: it stores none of them
    kind,       \* kind[i]: what id i was drawn for
    pc,         \* pc[p]: the statement request p sends next
    call,       \* call[p]: what request p asks for
    local,      \* local[p]: what p has found out, and what its answer carries
    calls,      \* requests so far
    handed,     \* ids that some answer or message has given to a client
    honoured,   \* single-use secrets that an answer has rested on
    twice,      \* and those that two answers have
    via,        \* pairs of a session and the password it was given for
    ousted,     \* passwords and users some answer has said are locked out
    proven,     \* addresses whose owner has shown to read their mail
    earned,     \* earned[p]: what p has had, at some moment, of what entitles it to an answer
    undue,      \* endpoints that have answered a request never entitled to it
    broken,     \* users and accounts a failed request was at work on
    contested   \* ids two requests have been at work on at the same time

history == <<handed, honoured, twice, ousted, proven, undue, broken>>
watched == <<earned, contested>>
vars == <<db, signed, kind, via, pc, call, local, calls, history, watched>>

Kinds == {"unused", "identity", "user", "account", "password", "session", "grant",
          "replaced", "key"} \cup Purposes

\* A request: the endpoint, the session cookie, and what its body or its path
\* carries: an address, a username, a secret, the id of what it is about, the
\* changes it asks for or the token it presents, and one option.
Nothing == [f \in {} |-> None]
NoCall == [op |-> "none", cookie |-> None, email |-> NoText, name |-> NoText,
           secret |-> None, target |-> None, change |-> Nothing, flag |-> FALSE]

\* The calls of an endpoint, from what each part of them can be.
Only(op) == [op |-> {op}, cookie |-> {None}, email |-> {NoText}, name |-> {NoText},
             secret |-> {None}, target |-> {None}, change |-> {Nothing}, flag |-> {FALSE}]
Calls(part) ==
    [op : part.op, cookie : part.cookie, email : part.email, name : part.name,
     secret : part.secret, target : part.target, change : part.change, flag : part.flag]

\* A link the server mails: a signed token, of which it keeps no copy, that
\* proves or changes the address of the user who has email when it is followed.
Links == {"verify", "confirm_change", "change"}
Link == [type : Links, email : Emails, to : Emails \cup {NoText}, box : Emails]
NoLink == [type |-> "none", email |-> NoText, to |-> NoText, box |-> NoText]

\* What a request can be told to go on with once a shared statement is through.
Afterwards == {"answer", "issue", "mark_reported", "override_verified",
               "override_unverified", "refuse", "unlink"}

\* What a request keeps: the user it is about, the row it has read, the accounts
\* it still has to delete, the passkeys it has a copy of, the link it is going to
\* mail or to complete, the statement after one that every path sends, and, for
\* its answer, what that hands out, which secrets it rests on and what it says is
\* locked out.
Local == [user : IdOrNone, row : IdOrNone, todo : SUBSET Id, keys : SUBSET Passkey,
          link : [type : Links \cup {"none"}, email : Emails \cup {NoText},
                  to : Emails \cup {NoText}, box : Emails \cup {NoText}],
          then : Afterwards, got : SUBSET Id, spent : SUBSET Id, out : SUBSET Id]
Blank == [user |-> None, row |-> None, todo |-> {}, keys |-> {}, link |-> NoLink,
          then |-> "answer", got |-> {}, spent |-> {}, out |-> {}]

-----------------------------------------------------------------------------
(* Ids and control flow.                                                   *)

Busy == {p \in Requests : pc[p] # "idle"}
\* What clients hold of a kind; a password is held by whoever chose it.
Known(k) == {i \in handed : kind[i] = k}
Passwords == {i \in DOMAIN kind : kind[i] = "password"}

\* Ids are drawn in order.
fresh == Len(kind) + 1
Room(n) == fresh + n - 1 <= MaxIds

\* Ids for things of the given kinds; a session among them is given for a password,
\* or for None.
DrawFor(kinds, password) ==
    /\ Room(Len(kinds))
    /\ kind' = kind \o kinds
    /\ via' = via \cup {<<fresh + i - 1, password>> :
                           i \in {j \in 1 .. Len(kinds) :
                                     kinds[j] = "session" /\ password # None}}
Draw(kinds) == DrawFor(kinds, None)
KeepIds == UNCHANGED <<kind, via>>

Goto(p, label, l) ==
    /\ pc' = [pc EXCEPT ![p] = label]
    /\ local' = [local EXCEPT ![p] = l]
    /\ UNCHANGED <<call, history>>

Drop(p) ==
    /\ pc' = [pc EXCEPT ![p] = "idle"]
    /\ call' = [call EXCEPT ![p] = NoCall]
    /\ local' = [local EXCEPT ![p] = Blank]

\* An error answer carries nothing.
Refuse(p) == Drop(p) /\ UNCHANGED history

\* A ban is in force until its time is over, whether or not it is lifted then.
InForce(u) == u.banned /\ u.ends # "over"
Over(u) == u.banned /\ u.ends = "over"

\* What it takes to be answered: to be who one says, to prove it, to be let in.
Claims == {"who", "proof", "admitted"}

\* What an answer has said is locked out stays so: a user for as long as the ban is in
\* force, a password for good.
StillOut(d, ids) == {i \in ids : \A u \in UserOf(d, i) : InForce(u)}

\* A 200 answer.
Answer(p, l) ==
    /\ Drop(p)
    /\ handed' = handed \cup l.got
    /\ honoured' = honoured \cup l.spent
    /\ twice' = twice \cup (honoured \cap l.spent)
    /\ ousted' = StillOut(db', ousted \cup l.out)
    /\ undue' = IF earned[p] = Claims THEN undue ELSE undue \cup {call[p].op}
    /\ UNCHANGED <<proven, broken>>

\* The handler goes on, or has reached its end.
Continue(p, label, l) ==
    IF label = "answer" THEN Answer(p, l) ELSE Goto(p, label, l)

\* The ids request p is at work on.
Touched(p) ==
    IF pc[p] = "idle" THEN {}
    ELSE ({call[p].cookie, call[p].secret, call[p].target, local[p].user,
           local[p].row} \cup local[p].todo) \ {None}

\* An error answer from half-way: the rows p was at work on are left as they are.
GiveUp(p) ==
    /\ Drop(p)
    /\ broken' = broken \cup (Touched(p) \cap {r.id : r \in db.users \cup db.accounts})
    /\ UNCHANGED <<handed, honoured, twice, ousted, proven, undue>>

-----------------------------------------------------------------------------
(* Who calls.                                                              *)

\* require_session: the session of the cookie, and its user.
Caller(d, c) == {s \in SessionOf(d, c.cookie) : UserOf(d, s.user) # {}}

-----------------------------------------------------------------------------
(* issue_user_session: the user is read again, a ban that is over lifted,  *)
(* and the session stored.                                                 *)

\* Seeded fault: any ban is taken to be over.
AnyBanOver(u) == u.banned
Lifts(u) == Over(u)

ReadBan(p) ==
    LET found == UserOf(db, local[p].user) IN
    /\ pc[p] = "issue"
    /\ UNCHANGED <<db, signed>> /\ KeepIds
    /\ \/ found = {} /\ Refuse(p)
       \/ \E u \in found :
             IF ~ AdminPlugin \/ ~ u.banned THEN Goto(p, "create_session", local[p])
             ELSE IF Lifts(u) THEN Goto(p, "lift_ban", local[p])
             ELSE Refuse(p)

\* The lift names the user alone: it clears whatever ban the row has by then.
LiftBan(p, label) ==
    LET lift == [banned |-> FALSE] IN
    /\ UNCHANGED signed /\ KeepIds
    /\ \/ /\ ~ CanUpdateUser(db, local[p].user, lift)
          /\ UNCHANGED db
          /\ Refuse(p)
       \/ /\ CanUpdateUser(db, local[p].user, lift)
          /\ db' = UpdateUser(db, local[p].user, lift)
          /\ Goto(p, label, local[p])

LiftBanAndIssue(p) == pc[p] = "lift_ban" /\ LiftBan(p, "create_session")

\* The session is stored: the row comes with id fresh, or the user is gone.
StoreSession(p, by, password, label) ==
    \/ /\ ~ CanCreateSession(db, local[p].user)
       /\ UNCHANGED db /\ KeepIds
       /\ Refuse(p)
    \/ /\ CanCreateSession(db, local[p].user)
       /\ db' = CreateSession(db, fresh, local[p].user, by)
       /\ DrawFor(<<"session">>, password)
       /\ Continue(p, label, [local[p] EXCEPT !.got = @ \cup {fresh}])

-----------------------------------------------------------------------------
(* Statements several handlers send.                                       *)

\* Seeded fault: nothing is deleted.
SessionsKept(i) == db
\* delete_user_sessions(user_id).
SessionsGone(i) == DeleteUserSessions(db, i)

DeleteSessions(p, label) ==
    /\ db' = SessionsGone(local[p].user)
    /\ UNCHANGED signed /\ KeepIds
    /\ Continue(p, label, local[p])

\* remove_user and perform_user_deletion: the sessions, then every account read
\* here, then the user; an account that is gone already ends the request.
ListAccounts(p) ==
    LET ids == {a.id : a \in AccountsOf(db, local[p].user)} IN
    /\ pc[p] = "list_accounts"
    /\ UNCHANGED <<db, signed>> /\ KeepIds
    /\ Goto(p, IF ids = {} THEN "delete_keys" ELSE "delete_account",
            [local[p] EXCEPT !.todo = ids])

DeleteOneAccount(p) ==
    /\ pc[p] = "delete_account"
    /\ UNCHANGED signed /\ KeepIds
    /\ \E i \in local[p].todo :
          LET rest == local[p].todo \ {i} IN
          \/ AccountOf(db, i) = {} /\ UNCHANGED db /\ Refuse(p)
          \/ /\ AccountOf(db, i) # {}
             /\ db' = DeleteAccount(db, i)
             /\ Goto(p, IF rest = {} THEN "delete_keys" ELSE "delete_account",
                     [local[p] EXCEPT !.todo = rest])

\* delete_user: its API keys first, if it is still there,
DeleteUserKeys(p) ==
    /\ pc[p] = "delete_keys"
    /\ UNCHANGED signed /\ KeepIds
    /\ \/ UserOf(db, local[p].user) = {} /\ UNCHANGED db /\ Refuse(p)
       \/ /\ UserOf(db, local[p].user) # {}
          /\ db' = DeleteKeys(db, local[p].user)
          /\ Goto(p, "delete_user", local[p])

\* then the row itself.
DeleteUserRow(p, label) ==
    /\ pc[p] = "delete_user"
    /\ UNCHANGED signed /\ KeepIds
    /\ db' = DeleteUser(db, local[p].user)
    /\ Continue(p, label, local[p])

\* get_credential_account, and its password written over or, if there is no
\* such account, one created.
FindCredential(p, found, missing) ==
    LET rows == CredentialOf(db, local[p].user) IN
    /\ UNCHANGED <<db, signed>> /\ KeepIds
    /\ \/ rows = {} /\ missing
       \/ \E a \in rows : Goto(p, found, [local[p] EXCEPT !.row = a.id])

WritePassword(p, label, locksOut) ==
    /\ UNCHANGED signed
    /\ \/ AccountOf(db, local[p].row) = {} /\ UNCHANGED db /\ KeepIds /\ Refuse(p)
       \/ \E a \in AccountOf(db, local[p].row) :
             /\ db' = UpdateAccount(db, a.id, [password |-> fresh])
             /\ Draw(<<"password">>)
             /\ Continue(p, label,
                    IF locksOut THEN [local[p] EXCEPT !.out = {a.password} \ {None}]
                    ELSE local[p])

AddCredential(p, label) ==
    LET a == NewCredential(fresh, local[p].user, fresh + 1) IN
    /\ UNCHANGED signed
    /\ \/ ~ CanCreateAccount(db, a) /\ UNCHANGED db /\ KeepIds /\ Refuse(p)
       \/ /\ CanCreateAccount(db, a)
          /\ db' = CreateAccount(db, a)
          /\ Draw(<<"account", "password">>)
          /\ Continue(p, label, local[p])

-----------------------------------------------------------------------------
\* A statement fails, and the request with it; the rows written so far stay.
StatementFails(p) ==
    /\ Faults
    /\ p \in Busy
    /\ UNCHANGED <<db, signed>> /\ KeepIds
    /\ GiveUp(p)

\* Time passes the end of every ban that has one.
BansEnd ==
    /\ \E u \in db.users : u.banned /\ u.ends = "ahead"
    /\ db' = [db EXCEPT !.users = {IF u.ends = "ahead" THEN [u EXCEPT !.ends = "over"]
                                   ELSE u : u \in @}]
    /\ ousted' = StillOut(db', ousted)
    /\ UNCHANGED <<signed, pc, call, local, calls, handed, honoured, twice, proven, undue, broken>>
    /\ KeepIds

\* Request p arrives with call c, having found the user and the row it begins with.
\* Whoever follows a link has read the mail it came with.
Arrive(p, c, label, l) ==
    /\ pc' = [pc EXCEPT ![p] = label]
    /\ call' = [call EXCEPT ![p] = c]
    /\ local' = [local EXCEPT ![p] = l]
    /\ proven' = IF "box" \in DOMAIN c.change THEN proven \cup {c.change.box} ELSE proven
    /\ calls' = calls + 1
    /\ UNCHANGED <<db, signed, handed, honoured, twice, ousted, undue, broken>> /\ KeepIds
=============================================================================
