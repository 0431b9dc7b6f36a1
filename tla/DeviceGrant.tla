----------------------------- MODULE DeviceGrant -----------------------------
(***************************************************************************)
(* The OAuth device authorization grant: the handlers of                   *)
(* crates/api/src/plugins/device_authorization/mod.rs over the device_code *)
(* table (crates/seaorm/src/store/device_codes.rs).                        *)
(*                                                                         *)
(* A device polls /device/token while its user claims the code at /device  *)
(* and approves or denies it.  No handler holds a transaction: each reads  *)
(* the row, decides on that copy, and writes with a statement of its own,  *)
(* so polls, claims and decisions interleave between the statements.       *)
(***************************************************************************)
EXTENDS Integers, FiniteSets

CONSTANTS
    Codes,          \* device codes the generator may return
    Users,          \* user ids
    Clients,        \* OAuth client ids
    ValidClients,   \* those the validate_client callback accepts
    Requests,       \* the requests the server handles, concurrently
    NoUser,         \* not signed in; a code nobody claimed
    NoCode, NoClient, \* what a request that has not arrived carries
    Lifetime,       \* config.expires_in
    Interval,       \* config.interval, the polling interval
    Faults,         \* TRUE: a database statement may fail
    Ops,            \* the endpoints the requests of this instance call
    MaxTime         \* bound on the clock

AllOps == {"poll", "verify", "approve", "deny"}

ASSUME DeviceAssumption ==
    /\ NoUser \notin Users
    /\ NoCode \notin Codes
    /\ NoClient \notin Clients
    /\ ValidClients \subseteq Clients
    /\ Lifetime \in Nat
    /\ Interval \in Nat
    /\ MaxTime \in Nat
    /\ Faults \in BOOLEAN
    /\ Ops \subseteq AllOps

VARIABLES
    now,        \* the clock Utc::now() reads
    table,      \* table[c]: no such row yet / row in the table / row deleted
    row,        \* row[c]: the columns of c's row, meaningful while it is "live"
    pc,         \* pc[p]: the statement request p sends next
    call,       \* call[p]: the endpoint, the code, the client or signed-in user
    copy,       \* copy[p]: the row as p read it
    at,         \* at[p]: the `now` a poll captured when it had read the row
    outcome,    \* outcome[p]: the answer p was given
    session     \* session[p]: the user of the session created for poll p

vars == <<now, table, row, pc, call, copy, at, outcome, session>>

Never == -1     \* last_polled_at is NULL
Time == 0 .. MaxTime
Row == [status : {"pending", "approved", "denied"},
        user : Users \cup {NoUser},
        polled : Time \cup {Never},
        expires : 0 .. MaxTime + Lifetime,
        client : Clients \cup {NoClient}]
Call == [op : AllOps, code : Codes \cup {NoCode},
         client : Clients \cup {NoClient}, user : Users \cup {NoUser}]

Statements == {"read", "mark", "drop", "load_user", "redeem", "issue",
               "claim", "decide"}
Outcomes == {"none", "refused", "slow_down", "pending", "expired", "denied",
             "no_user", "no_session", "session", "viewed", "claimed",
             "decided", "error"}

Live == {c \in Codes : table[c] = "live"}
Decision(op) == IF op = "approve" THEN "approved" ELSE "denied"

TypeOK ==
    /\ now \in Time
    /\ table \in [Codes -> {"unissued", "live", "gone"}]
    /\ row \in [Codes -> Row]
    /\ pc \in [Requests -> Statements \cup {"new", "done"}]
    /\ call \in [Requests -> Call]
    /\ \A p \in Requests : pc[p] # "new" => call[p].code \in Codes
    /\ copy \in [Requests -> Row]
    /\ at \in [Requests -> Time \cup {Never}]
    /\ outcome \in [Requests -> Outcomes]
    /\ session \in [Requests -> Users \cup {NoUser}]

BlankRow == [status |-> "pending", user |-> NoUser, polled |-> Never,
             expires |-> 0, client |-> NoClient]

Init ==
    /\ now = 0
    /\ table = [c \in Codes |-> "unissued"]
    /\ row = [c \in Codes |-> BlankRow]
    /\ pc = [p \in Requests |-> "new"]
    /\ call = [p \in Requests |-> [op |-> "poll", code |-> NoCode,
                                   client |-> NoClient, user |-> NoUser]]
    /\ copy = [p \in Requests |-> BlankRow]
    /\ at = [p \in Requests |-> Never]
    /\ outcome = [p \in Requests |-> "none"]
    /\ session = [p \in Requests |-> NoUser]

-----------------------------------------------------------------------------
(* The device_code table: what each statement does to a row.               *)

Present(c) == table[c] = "live"
HasStatus(c, s) == Present(c) /\ row[c].status = s

\* Seeded fault: the poll time is saved with the row as the poll read it.
MarkWholeRow(p, c) ==
    row' = IF Present(c) THEN [row EXCEPT ![c] = [copy[p] EXCEPT !.polled = at[p]]]
                         ELSE row

\* update_device_code with only last_polled_at set.
MarkPolled(p, c) ==
    row' = IF Present(c) THEN [row EXCEPT ![c].polled = at[p]] ELSE row

\* The WHERE of claim_device_code.
Claimable(c) == HasStatus(c, "pending") /\ row[c].user = NoUser

\* The WHERE of update_device_code_if_status, asked for a pending row.
Decidable(c) == HasStatus(c, "pending")

\* Seeded fault: redemption is a delete by id whose row count nobody reads.
RedeemBlind(c) == TRUE

\* delete_device_code_if_status(.., approved) reports that it deleted the row.
Redeemable(c) == HasStatus(c, "approved")

DeleteRow(c) == table' = [table EXCEPT ![c] = IF @ = "live" THEN "gone" ELSE @]

-----------------------------------------------------------------------------
(* A request's control flow.                                               *)

\* The handler returns; its locals are dropped. `at` stays as history.
Finish(p, answer) ==
    /\ pc' = [pc EXCEPT ![p] = "done"]
    /\ outcome' = [outcome EXCEPT ![p] = answer]
    /\ copy' = [copy EXCEPT ![p] = BlankRow]

Goto(p, label) ==
    /\ pc' = [pc EXCEPT ![p] = label]
    /\ UNCHANGED <<outcome, copy>>

Late(r, t) == r.expires < t

\* handle_device_token's polling gate.
TooSoon(r) == r.polled # Never /\ now - r.polled < Interval

\* handle_device_decision's checks on the copy it read, in any order: each
\* refusal leaves everything as it is.
MayDecide(p, r) == ~ Late(r, now) /\ r.status = "pending" /\ r.user = call[p].user

\* handle_device_verify claims only for a signed-in caller, and only a row
\* it saw unclaimed and pending.
WouldClaim(p, r) == r.user = NoUser /\ r.status = "pending" /\ call[p].user # NoUser

\* A request arrives. Approve and deny need a session before anything else;
\* a poll needs a client the callback accepts.
Begin(p, o, c, k, u) ==
    /\ pc[p] = "new"
    /\ o \in Ops
    /\ table[c] # "unissued"
    /\ IF o = "poll" THEN u = NoUser ELSE k = NoClient
    /\ call' = [call EXCEPT ![p] = [op |-> o, code |-> c, client |-> k, user |-> u]]
    /\ IF \/ o = "poll" /\ k \notin ValidClients
          \/ o \in {"approve", "deny"} /\ u = NoUser
       THEN Finish(p, "refused")
       ELSE Goto(p, "read")
    /\ UNCHANGED <<now, table, row, at, session>>

\* get_device_code_by_device_code and the checks up to the next statement.
ReadForPoll(p) ==
    LET r == row[call[p].code] IN
    /\ call[p].op = "poll"
    /\ IF r.client # call[p].client
       THEN Finish(p, "refused") /\ UNCHANGED at
       ELSE IF TooSoon(r)
       THEN Finish(p, "slow_down") /\ UNCHANGED at
       ELSE /\ pc' = [pc EXCEPT ![p] = "mark"]
            /\ copy' = [copy EXCEPT ![p] = r]
            /\ at' = [at EXCEPT ![p] = now]
            /\ UNCHANGED outcome

ReadForVerify(p) ==
    LET r == row[call[p].code] IN
    /\ call[p].op = "verify"
    /\ IF Late(r, now)
       THEN Finish(p, "expired")
       ELSE IF WouldClaim(p, r)
       THEN Goto(p, "claim")
       ELSE Finish(p, "viewed")
    /\ UNCHANGED at

ReadForDecision(p) ==
    LET r == row[call[p].code] IN
    /\ call[p].op \in {"approve", "deny"}
    /\ IF MayDecide(p, r)
       THEN /\ pc' = [pc EXCEPT ![p] = "decide"]
            /\ copy' = [copy EXCEPT ![p] = r]
            /\ UNCHANGED outcome
       ELSE Finish(p, "refused")
    /\ UNCHANGED at

Read(p) ==
    /\ pc[p] = "read"
    /\ IF Present(call[p].code)
       THEN ReadForPoll(p) \/ ReadForVerify(p) \/ ReadForDecision(p)
       ELSE Finish(p, "refused") /\ UNCHANGED at
    /\ UNCHANGED <<now, table, row, call, session>>

-----------------------------------------------------------------------------
(* /device/token after the read.                                           *)

\* The poll time is recorded, then the handler acts on the copy it read.
\* (update_device_code finds the row and updates one column of it; a row gone
\* at either statement is the same error, so the two are one step.)
Mark(p) ==
    /\ pc[p] = "mark"
    /\ MarkPolled(p, call[p].code)
    /\ IF ~ Present(call[p].code)
       THEN Finish(p, "error")
       ELSE IF Late(copy[p], at[p]) \/ copy[p].status = "denied"
       THEN Goto(p, "drop")
       ELSE IF copy[p].status = "pending"
       THEN Finish(p, "pending")
       ELSE Goto(p, "load_user")
    /\ UNCHANGED <<now, table, call, at, session>>

\* The row of an expired or denied code is deleted, whatever it holds by now.
Drop(p) ==
    /\ pc[p] = "drop"
    /\ DeleteRow(call[p].code)
    /\ Finish(p, IF Late(copy[p], at[p]) THEN "expired" ELSE "denied")
    /\ UNCHANGED <<now, row, call, at, session>>

\* get_user_by_id of the approver in the copy; the account may be gone.
LoadUser(p) ==
    /\ pc[p] = "load_user"
    /\ \/ copy[p].user # NoUser /\ Goto(p, "redeem")
       \/ Finish(p, "no_user")
    /\ UNCHANGED <<now, table, row, call, at, session>>

\* The one statement that spends the code: whoever deletes the approved row
\* goes on to the session, everyone else is refused.
Redeem(p) ==
    /\ pc[p] = "redeem"
    /\ IF Redeemable(call[p].code)
       THEN DeleteRow(call[p].code) /\ Goto(p, "issue")
       ELSE UNCHANGED table /\ Finish(p, "refused")
    /\ UNCHANGED <<now, row, call, at, session>>

\* issue_user_session for the approver: refused for a banned or vanished
\* user, and then the code is spent for nothing.
IssueSession(p) ==
    /\ pc[p] = "issue"
    /\ \/ /\ session' = [session EXCEPT ![p] = copy[p].user]
          /\ Finish(p, "session")
       \/ /\ Finish(p, "no_session")
          /\ UNCHANGED session
    /\ UNCHANGED <<now, table, row, call, at>>

-----------------------------------------------------------------------------
(* /device, /device/approve and /device/deny after the read.               *)

\* claim_device_code: losing the race changes nothing and is not reported.
Claim(p) ==
    LET c == call[p].code IN
    /\ pc[p] = "claim"
    /\ IF Claimable(c)
       THEN row' = [row EXCEPT ![c].user = call[p].user] /\ Finish(p, "claimed")
       ELSE UNCHANGED row /\ Finish(p, "viewed")
    /\ UNCHANGED <<now, table, call, at, session>>

\* update_device_code_if_status: status and user in one conditional write.
Decide(p) ==
    LET c == call[p].code IN
    /\ pc[p] = "decide"
    /\ IF Decidable(c)
       THEN /\ row' = [row EXCEPT ![c].status = Decision(call[p].op),
                                  ![c].user = copy[p].user]
            /\ Finish(p, "decided")
       ELSE UNCHANGED row /\ Finish(p, "refused")
    /\ UNCHANGED <<now, table, call, at, session>>

\* The database refuses the statement p is at, and the handler gives up. A
\* failing session insert is answered server_error by IssueSession.
StatementFails(p) ==
    /\ Faults
    /\ pc[p] \in Statements \ {"issue"}
    /\ Finish(p, "error")
    /\ UNCHANGED <<now, table, row, call, at, session>>

-----------------------------------------------------------------------------
(* What happens beside the polls and decisions.                            *)

\* handle_device_code: a fresh pending row, nobody's, not polled yet.
NewCode(c, k) ==
    /\ table[c] = "unissued"
    /\ k \in ValidClients
    /\ table' = [table EXCEPT ![c] = "live"]
    /\ row' = [row EXCEPT ![c] = [status |-> "pending", user |-> NoUser,
                                  polled |-> Never, expires |-> now + Lifetime,
                                  client |-> k]]
    /\ UNCHANGED <<now, pc, call, copy, at, outcome, session>>

Tick ==
    /\ now < MaxTime
    /\ now' = now + 1
    /\ UNCHANGED <<table, row, pc, call, copy, at, outcome, session>>

Step(p) ==
    \/ Read(p)
    \/ Mark(p) \/ Drop(p) \/ LoadUser(p) \/ Redeem(p) \/ IssueSession(p)
    \/ Claim(p) \/ Decide(p)

Next ==
    \/ \E p \in Requests, o \in AllOps, c \in Codes,
          k \in Clients \cup {NoClient}, u \in Users \cup {NoUser} : Begin(p, o, c, k, u)
    \/ \E p \in Requests : Step(p) \/ StatementFails(p)
    \/ \E c \in Codes, k \in Clients : NewCode(c, k)
    \/ Tick

Spec == Init /\ [][Next]_vars

-----------------------------------------------------------------------------
(* Properties.                                                             *)

Polls(c) == {p \in Requests : call[p].op = "poll" /\ call[p].code = c}
Made(p, o, c) == call[p].op = o /\ call[p].code = c

\* The polls that spent code c: they deleted its approved row.
Redeemers(c) == {p \in Polls(c) : pc[p] = "issue" \/ outcome[p] \in {"session", "no_session"}}

\* A code is redeemed by at most one poll, however many saw it approved
\* (handle_device_token's conditional delete before issue_user_session).
OneRedemption == \A c \in Codes : \A p, q \in Redeemers(c) : p = q

\* A session handed to a device is the session of a user who claimed that very
\* code and approved it, signed in as themselves, and it goes to the client the
\* code was issued to (claim, decision and redemption are three requests).
SessionIsApprovers ==
    \A p \in Requests : session[p] # NoUser =>
        LET c == call[p].code IN
        /\ row[c].client = call[p].client
        /\ \E q \in Requests : /\ Made(q, "approve", c)
                               /\ outcome[q] = "decided"
                               /\ call[q].user = session[p]
        /\ \E q \in Requests : /\ Made(q, "verify", c)
                               /\ outcome[q] = "claimed"
                               /\ call[q].user = session[p]

\* A decision that was answered success stands: as long as the code's row
\* exists it shows that decision, and the user who took it. No concurrent
\* poll, claim or decision overwrites it (update_device_code's partial update,
\* update_device_code_if_status).
DecisionStands ==
    \A p \in Requests : outcome[p] = "decided" =>
        LET c == call[p].code IN
        Present(c) => /\ row[c].status = Decision(call[p].op)
                      /\ row[c].user = call[p].user

\* After a denial was answered success, no poll ever gets a session for that
\* code, not even one that was under way (handle_device_decision, and the
\* status check inside the redemption).
DeniedNeverGranted ==
    \A p, q \in Requests :
        outcome[p] = "decided" /\ call[p].op = "deny" /\ session[q] # NoUser =>
            call[p].code # call[q].code

\* "two concurrent verifiers cannot both claim the same code"
\* (core/src/store/mod.rs, claim_device_code).
OneClaim ==
    \A p, q \in Requests :
        outcome[p] = "claimed" /\ outcome[q] = "claimed" /\ call[p].code = call[q].code =>
            p = q

\* How far a code got: a row that is gone was spent by the poll that redeemed
\* it, or else it was void.
Phase(c) ==
    CASE table[c] = "unissued" -> "unissued"
      [] table[c] = "live" -> row[c].status
      [] OTHER -> IF Redeemers(c) # {} THEN "spent" ELSE "void"

\* The sessions a code led to.
Delivered(c) == {<<p, session[p]>> : p \in {q \in Polls(c) : session[q] # NoUser}}

Promise == INSTANCE DevicePromise WITH
    phase <- [c \in Codes |-> Phase(c)],
    holder <- [c \in Codes |-> row[c].user],
    delivered <- [c \in Codes |-> Delivered(c)]

\* The grant keeps the promise of DevicePromise: every statement of every
\* handler is a step of the promise or changes nothing of it.
KeepsPromise == Promise!PromiseSpec

=============================================================================
