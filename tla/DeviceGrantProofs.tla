-------------------------- MODULE DeviceGrantProofs --------------------------
(* Theorems about DeviceGrant, for every value of its constants. *)
EXTENDS DeviceGrant, TLAPS

-----------------------------------------------------------------------------
(* Type correctness.                                                       *)

\* The part of the type invariant that a handler's control flow touches.
LocalsOK ==
    /\ pc \in [Requests -> Statements \cup {"new", "done"}]
    /\ copy \in [Requests -> Row]
    /\ outcome \in [Requests -> Outcomes]

LEMMA BlankTyped == BlankRow \in Row /\ 0 \in Time
  BY DeviceAssumption DEF BlankRow, Row, Time, Never

LEMMA FinishTyped ==
    ASSUME NEW p \in Requests, NEW a \in Outcomes, LocalsOK, Finish(p, a)
    PROVE  /\ LocalsOK'
           /\ pc'[p] = "done" /\ outcome'[p] = a
           /\ \A q \in Requests \ {p} : /\ pc'[q] = pc[q]
                                        /\ outcome'[q] = outcome[q]
                                        /\ copy'[q] = copy[q]
  BY BlankTyped DEF LocalsOK, Finish

LEMMA GotoTyped ==
    ASSUME NEW p \in Requests, NEW l \in Statements, LocalsOK, Goto(p, l)
    PROVE  /\ LocalsOK'
           /\ pc'[p] = l
           /\ \A q \in Requests \ {p} : pc'[q] = pc[q]
           /\ outcome' = outcome /\ copy' = copy
  BY DEF LocalsOK, Goto

\* The copy a handler takes of a typed row is typed.
LEMMA KeepCopyTyped ==
    ASSUME NEW p \in Requests, NEW l \in Statements, NEW r \in Row, LocalsOK,
           pc' = [pc EXCEPT ![p] = l], copy' = [copy EXCEPT ![p] = r],
           UNCHANGED outcome
    PROVE  /\ LocalsOK'
           /\ pc'[p] = l /\ copy'[p] = r
           /\ \A q \in Requests \ {p} : pc'[q] = pc[q] /\ copy'[q] = copy[q]
  BY DEF LocalsOK

\* What is left to show of the type invariant once the locals are typed and
\* the call stays.
LEMMA StepTyped ==
    ASSUME TypeOK, NEW p \in Requests, pc[p] # "new", LocalsOK',
           \A q \in Requests \ {p} : pc'[q] = pc[q],
           UNCHANGED <<now, call>>,
           table' \in [Codes -> {"unissued", "live", "gone"}],
           row' \in [Codes -> Row],
           at' \in [Requests -> Time \cup {Never}],
           session' \in [Requests -> Users \cup {NoUser}]
    PROVE  TypeOK'
<1>1. \A q \in Requests : pc'[q] # "new" => call'[q].code \in Codes
  BY DEF TypeOK
<1> QED BY <1>1 DEF TypeOK, LocalsOK

\* The columns the statements write are typed.
LEMMA WriteTyped ==
    ASSUME TypeOK, NEW c \in Codes, NEW r \in Row,
           row' = [row EXCEPT ![c] = r] \/ row' = row
    PROVE  row' \in [Codes -> Row]
  BY DEF TypeOK

LEMMA DeleteTyped ==
    ASSUME TypeOK, NEW c \in Codes, DeleteRow(c)
    PROVE  table' \in [Codes -> {"unissued", "live", "gone"}]
  BY DEF TypeOK, DeleteRow

\* The type invariant: every request is at a known statement and holds values
\* of the right kind, every row has its columns, and the clock is bounded.
THEOREM TypeCorrect == Spec => []TypeOK
<1>1. Init => TypeOK
  BY DeviceAssumption, BlankTyped DEF Init, TypeOK, Call, AllOps, Outcomes
<1>2. TypeOK /\ [Next]_vars => TypeOK'
  <2> SUFFICES ASSUME TypeOK, [Next]_vars PROVE TypeOK'
    OBVIOUS
  <2>0. LocalsOK
    BY DEF TypeOK, LocalsOK
  <2>1. ASSUME NEW p \in Requests, NEW o \in AllOps, NEW c \in Codes,
               NEW k \in Clients \cup {NoClient}, NEW u \in Users \cup {NoUser},
               Begin(p, o, c, k, u)
        PROVE  TypeOK'
    <3>1. LocalsOK' /\ \A q \in Requests \ {p} : pc'[q] = pc[q]
      <4>1. Finish(p, "refused") \/ Goto(p, "read")
        BY <2>1 DEF Begin
      <4> QED BY <4>1, <2>0, FinishTyped, GotoTyped DEF Outcomes, Statements
    <3>2. call' \in [Requests -> Call] /\ call'[p].code = c
          /\ \A q \in Requests \ {p} : call'[q] = call[q]
      BY <2>1 DEF Begin, TypeOK, Call
    <3>3. \A q \in Requests : pc'[q] # "new" => call'[q].code \in Codes
      BY <3>1, <3>2 DEF TypeOK
    <3> QED BY <2>1, <3>1, <3>2, <3>3 DEF Begin, TypeOK, LocalsOK
  <2>2. ASSUME NEW p \in Requests, Step(p) \/ StatementFails(p) PROVE TypeOK'
    <3> DEFINE c == call[p].code
    <3>0. pc[p] # "new"
      BY <2>2 DEF Step, StatementFails, Read, Mark, Drop, LoadUser, Redeem,
                  IssueSession, Claim, Decide, Statements
    <3>1. /\ c \in Codes /\ call[p] \in Call /\ copy[p] \in Row
          /\ at[p] \in Time \cup {Never} /\ row[c] \in Row
      BY <3>0 DEF TypeOK
    <3> HIDE DEF c
    <3>2. /\ table \in [Codes -> {"unissued", "live", "gone"}]
          /\ row \in [Codes -> Row]
          /\ at \in [Requests -> Time \cup {Never}]
          /\ session \in [Requests -> Users \cup {NoUser}]
          /\ now \in Time
      BY DEF TypeOK
    <3>3. CASE Read(p)
      <4>1. LocalsOK' /\ \A q \in Requests \ {p} : pc'[q] = pc[q]
        <5>1. \/ \E a \in Outcomes : Finish(p, a)
              \/ Goto(p, "claim")
              \/ \E l \in {"mark", "decide"} : /\ pc' = [pc EXCEPT ![p] = l]
                                               /\ copy' = [copy EXCEPT ![p] = row[c]]
                                               /\ UNCHANGED outcome
          BY <3>3 DEF Read, ReadForPoll, ReadForVerify, ReadForDecision, Outcomes, c
        <5> QED BY <5>1, <2>0, <3>1, FinishTyped, GotoTyped, KeepCopyTyped DEF Statements
      <4>2. at' \in [Requests -> Time \cup {Never}]
        BY <3>3, <3>2 DEF Read, ReadForPoll, ReadForVerify, ReadForDecision
      <4> QED BY <3>0, <3>2, <3>3, <4>1, <4>2, StepTyped DEF Read
    <3>4. CASE Mark(p)
      <4>1. LocalsOK' /\ \A q \in Requests \ {p} : pc'[q] = pc[q]
        <5>1. \/ Finish(p, "error") \/ Finish(p, "pending")
              \/ Goto(p, "drop") \/ Goto(p, "load_user")
          BY <3>4 DEF Mark
        <5> QED BY <5>1, <2>0, FinishTyped, GotoTyped DEF Outcomes, Statements
      <4>2. row' \in [Codes -> Row]
        <5>1. [row[c] EXCEPT !.polled = at[p]] \in Row
          BY <3>1 DEF Row
        <5> QED BY <3>4, <3>1, <3>2, <5>1, WriteTyped DEF Mark, MarkPolled, c
      <4> QED BY <3>0, <3>2, <3>4, <4>1, <4>2, StepTyped DEF Mark
    <3>5. CASE Drop(p)
      BY <3>5, <3>0, <3>1, <3>2, <2>0, FinishTyped, DeleteTyped, StepTyped
         DEF Drop, Outcomes, c
    <3>6. CASE LoadUser(p)
      BY <3>6, <3>0, <3>2, <2>0, FinishTyped, GotoTyped, StepTyped
         DEF LoadUser, Outcomes, Statements
    <3>7. CASE Redeem(p)
      BY <3>7, <3>0, <3>1, <3>2, <2>0, FinishTyped, GotoTyped, DeleteTyped, StepTyped
         DEF Redeem, Outcomes, Statements, c
    <3>8. CASE IssueSession(p)
      <4>1. LocalsOK' /\ \A q \in Requests \ {p} : pc'[q] = pc[q]
        BY <3>8, <2>0, FinishTyped DEF IssueSession, Outcomes
      <4>2. session' \in [Requests -> Users \cup {NoUser}]
        BY <3>8, <3>1, <3>2 DEF IssueSession, Row
      <4> QED BY <3>0, <3>2, <3>8, <4>1, <4>2, StepTyped DEF IssueSession
    <3>9. CASE Claim(p)
      <4>1. LocalsOK' /\ \A q \in Requests \ {p} : pc'[q] = pc[q]
        BY <3>9, <2>0, FinishTyped DEF Claim, Outcomes
      <4>2. row' \in [Codes -> Row]
        <5>1. [row[c] EXCEPT !.user = call[p].user] \in Row
          BY <3>1 DEF Row, Call
        <5> QED BY <3>9, <3>1, <3>2, <5>1, WriteTyped DEF Claim, c
      <4> QED BY <3>0, <3>2, <3>9, <4>1, <4>2, StepTyped DEF Claim
    <3>10. CASE Decide(p)
      <4>1. LocalsOK' /\ \A q \in Requests \ {p} : pc'[q] = pc[q]
        BY <3>10, <2>0, FinishTyped DEF Decide, Outcomes
      <4>2. Decision(call[p].op) \in {"approved", "denied"} /\ copy[p].user \in Users \cup {NoUser}
        BY <3>1 DEF Decision, Row
      <4>3. row' \in [Codes -> Row]
        <5>1. [row[c] EXCEPT !.status = Decision(call[p].op), !.user = copy[p].user] \in Row
          BY <3>1, <4>2 DEF Row
        <5> QED BY <3>10, <3>1, <3>2, <5>1, WriteTyped DEF Decide, c
      <4> QED BY <3>0, <3>2, <3>10, <4>1, <4>3, StepTyped DEF Decide
    <3>11. CASE StatementFails(p)
      BY <3>11, <3>0, <3>2, <2>0, FinishTyped, StepTyped DEF StatementFails, Outcomes
    <3> QED BY <2>2, <3>3, <3>4, <3>5, <3>6, <3>7, <3>8, <3>9, <3>10, <3>11 DEF Step
  <2>3. ASSUME NEW c \in Codes, NEW k \in Clients, NewCode(c, k) PROVE TypeOK'
    <3>1. now + Lifetime \in 0 .. MaxTime + Lifetime
      BY DeviceAssumption DEF TypeOK, Time
    <3>2. row' \in [Codes -> Row]
      BY <2>3, <3>1 DEF NewCode, TypeOK, Row
    <3> QED BY <2>3, <3>2 DEF NewCode, TypeOK
  <2>4. CASE Tick
    BY <2>4, DeviceAssumption DEF Tick, TypeOK, Time
  <2>5. CASE UNCHANGED vars
    BY <2>5 DEF vars, TypeOK
  <2> QED BY <2>1, <2>2, <2>3, <2>4, <2>5 DEF Next
<1> QED BY <1>1, <1>2, PTL DEF Spec

-----------------------------------------------------------------------------
(* What holds between a request's locals and the row of its code.  A code  *)
(* that has been claimed keeps its holder, one that has been decided keeps *)
(* its status, so what a request once read of either is still true.        *)

Polling == {"mark", "drop", "load_user", "redeem", "issue"}
Deciding == {"approve", "deny"}

\* A request under way.
UnderWay(p) ==
    LET r == row[call[p].code] IN
    /\ pc[p] # "new" => table[call[p].code] # "unissued"
    /\ pc[p] # "done" => outcome[p] = "none" /\ session[p] = NoUser
    /\ pc[p] = "read" /\ call[p].op \in Deciding => call[p].user # NoUser
    /\ pc[p] \in Polling => call[p].op = "poll" /\ call[p].client = r.client
    /\ pc[p] \in Polling /\ copy[p].status = "approved" =>
          r.status = "approved" /\ r.user = copy[p].user
    /\ pc[p] \in {"load_user", "redeem", "issue"} => copy[p].status = "approved"
    /\ pc[p] = "issue" => table[call[p].code] = "gone"
    /\ pc[p] = "claim" => call[p].op = "verify" /\ call[p].user # NoUser
    /\ pc[p] = "decide" =>
          /\ call[p].op \in Deciding
          /\ call[p].user # NoUser
          /\ copy[p].user = call[p].user
          /\ r.user = call[p].user

\* A request that was answered.
Answered(p) ==
    LET r == row[call[p].code] IN
    /\ outcome[p] = "claimed" =>
          call[p].op = "verify" /\ call[p].user # NoUser /\ r.user = call[p].user
    /\ outcome[p] = "decided" =>
          /\ call[p].op \in Deciding
          /\ r.status = Decision(call[p].op)
          /\ r.user = call[p].user
    /\ outcome[p] \in {"session", "no_session"} => table[call[p].code] = "gone"
    /\ session[p] # NoUser =>
          /\ outcome[p] = "session"
          /\ r.status = "approved"
          /\ r.user = session[p]
          /\ r.client = call[p].client

\* The verifiers whose claim of c went through.
Claimers(c) == {p \in Requests : call[p].code = c /\ outcome[p] = "claimed"}

\* A code's row is the trace of answered requests.
Traced(c) ==
    /\ row[c].status # "pending" => row[c].user # NoUser
    /\ row[c].user # NoUser =>
          \E q \in Requests : /\ call[q].code = c /\ outcome[q] = "claimed"
                             /\ call[q].user = row[c].user
    /\ row[c].status = "approved" =>
          \E q \in Requests : Made(q, "approve", c) /\ outcome[q] = "decided"
    /\ \A p, q \in Redeemers(c) : p = q
    /\ \A p, q \in Claimers(c) : p = q

GrantInv ==
    /\ \A p \in Requests : UnderWay(p) /\ Answered(p)
    /\ \A c \in Codes : Traced(c)

\* A step of p leaves every other request where it was.
Alone(p) ==
    \A q \in Requests \ {p} :
        /\ pc'[q] = pc[q] /\ call'[q] = call[q] /\ copy'[q] = copy[q]
        /\ outcome'[q] = outcome[q] /\ session'[q] = session[q]

\* What no step takes back of a code that was issued.
Kept(c) ==
    table[c] # "unissued" =>
        /\ table'[c] # "unissued"
        /\ table[c] = "gone" => table'[c] = "gone"
        /\ row'[c].client = row[c].client
        /\ row[c].user # NoUser => row'[c].user = row[c].user
        /\ row[c].status # "pending" => row'[c].status = row[c].status

\* The requests that do not move keep the invariant, whatever the step does to
\* rows within Kept.
LEMMA BystandersKept ==
    ASSUME TypeOK, GrantInv, NEW q \in Requests,
           pc'[q] = pc[q], call'[q] = call[q], copy'[q] = copy[q],
           outcome'[q] = outcome[q], session'[q] = session[q],
           \A c \in Codes : Kept(c)
    PROVE  UnderWay(q)' /\ Answered(q)'
<1> DEFINE c == call[q].code
<1>1. CASE pc[q] = "new"
  BY <1>1 DEF GrantInv, UnderWay, Answered, Polling
<1>2. CASE pc[q] # "new"
  <2>1. c \in Codes /\ table[c] # "unissued" /\ Kept(c) /\ Traced(c)
    BY <1>2 DEF TypeOK, GrantInv, UnderWay
  <2>2. UnderWay(q)'
    BY <1>2, <2>1 DEF GrantInv, UnderWay, Kept, Polling, Deciding, Traced
  <2>3. Answered(q)'
    BY <1>2, <2>1 DEF GrantInv, Answered, Kept, Deciding, Decision, Traced
  <2> QED BY <2>2, <2>3
<1> QED BY <1>1, <1>2

\* A code whose holder and status stay keeps its trace, if nobody redeems it.
LEMMA TraceKept ==
    ASSUME TypeOK, GrantInv, NEW p \in Requests, pc[p] # "done", Alone(p),
           NEW c \in Codes, row'[c].user = row[c].user,
           row'[c].status = row[c].status,
           Redeemers(c)' \subseteq Redeemers(c),
           Claimers(c)' \subseteq Claimers(c)
    PROVE  Traced(c)'
<1>1. outcome[p] = "none" /\ Traced(c)
  BY DEF GrantInv, UnderWay
<1> QED BY <1>1 DEF Traced, Alone, Made

\* The redeemers of a code change only when p starts or stops being one.
LEMMA RedeemersKept ==
    ASSUME TypeOK, GrantInv, NEW p \in Requests, pc[p] # "done", Alone(p),
           NEW c \in Codes, p \in Redeemers(c)' => p \in Redeemers(c)
    PROVE  Redeemers(c)' \subseteq Redeemers(c)
  BY DEF Redeemers, Polls, Alone

\* Nobody else's claim goes through in a step of p.
LEMMA ClaimersKept ==
    ASSUME NEW p \in Requests, Alone(p), outcome'[p] # "claimed", NEW c \in Codes
    PROVE  Claimers(c)' \subseteq Claimers(c)
  BY DEF Claimers, Alone

\* What is left to show of a step of p that keeps every holder and status.
LEMMA QuietStep ==
    ASSUME TypeOK, GrantInv, NEW p \in Requests, pc[p] # "done", Alone(p),
           \A c \in Codes : /\ Kept(c)
                            /\ row'[c].user = row[c].user
                            /\ row'[c].status = row[c].status
                            /\ p \in Redeemers(c)' => p \in Redeemers(c),
           UnderWay(p)', Answered(p)', outcome'[p] # "claimed"
    PROVE  GrantInv'
<1>1. \A q \in Requests \ {p} : UnderWay(q)' /\ Answered(q)'
  BY BystandersKept DEF Alone
<1>2. \A c \in Codes : Traced(c)'
  BY RedeemersKept, ClaimersKept, TraceKept
<1> QED BY <1>1, <1>2 DEF GrantInv

\* Begin, and every way out of a handler but the successful ones, is quiet.
LEMMA PlainAnswer ==
    ASSUME TypeOK, GrantInv, NEW p \in Requests, pc[p] \notin {"new", "done", "issue"},
           NEW a \in {"refused", "slow_down", "pending", "expired", "denied",
                      "no_user", "viewed", "error"},
           Finish(p, a), UNCHANGED <<call, session>>,
           \A c \in Codes : /\ Kept(c)
                            /\ row'[c].user = row[c].user
                            /\ row'[c].status = row[c].status
    PROVE  GrantInv'
<1>1. LocalsOK /\ a \in Outcomes
  BY DEF TypeOK, LocalsOK, Outcomes
<1>2. /\ pc'[p] = "done" /\ outcome'[p] = a /\ session'[p] = session[p]
      /\ Alone(p)
  BY <1>1, FinishTyped DEF Alone
<1>3. session[p] = NoUser /\ table[call[p].code] # "unissued" /\ call[p].code \in Codes
  BY DEF GrantInv, UnderWay, TypeOK
<1>4. UnderWay(p)' /\ Answered(p)'
  BY <1>2, <1>3 DEF UnderWay, Answered, Polling, Kept
<1>5. \A c \in Codes : p \notin Redeemers(c)'
  BY <1>2 DEF Redeemers
<1> QED BY <1>2, <1>4, <1>5, QuietStep

\* Moving on to another statement is quiet when the request's own facts hold
\* there.
LEMMA PlainMove ==
    ASSUME TypeOK, GrantInv, NEW p \in Requests, pc[p] \notin {"new", "done"},
           NEW l \in Statements \ {"issue"}, NEW r \in Row,
           pc' = [pc EXCEPT ![p] = l], copy' = [copy EXCEPT ![p] = r],
           UNCHANGED <<call, outcome, session>>,
           \A c \in Codes : /\ Kept(c)
                            /\ row'[c].user = row[c].user
                            /\ row'[c].status = row[c].status,
           l = "read" /\ call[p].op \in Deciding => call[p].user # NoUser,
           l \in Polling =>
              /\ call[p].op = "poll"
              /\ call[p].client = row[call[p].code].client
              /\ r.status = "approved" =>
                    /\ row[call[p].code].status = "approved"
                    /\ row[call[p].code].user = r.user,
           l \in {"load_user", "redeem"} => r.status = "approved",
           l = "claim" => call[p].op = "verify" /\ call[p].user # NoUser,
           l = "decide" => /\ call[p].op \in Deciding
                           /\ call[p].user # NoUser
                           /\ r.user = call[p].user
                           /\ row[call[p].code].user = call[p].user
    PROVE  GrantInv'
<1>1. /\ pc'[p] = l /\ copy'[p] = r /\ l # "done" /\ l # "issue"
      /\ call'[p] = call[p] /\ outcome'[p] = outcome[p] /\ session'[p] = session[p]
      /\ Alone(p)
  BY DEF TypeOK, Alone, Statements
<1>2. /\ session[p] = NoUser /\ outcome[p] = "none"
      /\ table[call[p].code] # "unissued" /\ call[p].code \in Codes
  BY DEF GrantInv, UnderWay, TypeOK
<1>3. UnderWay(p)'
  <2>1. /\ Kept(call[p].code)
        /\ row'[call[p].code].user = row[call[p].code].user
        /\ row'[call[p].code].status = row[call[p].code].status
    BY <1>2
  <2> QED BY <1>1, <1>2, <2>1 DEF UnderWay, Kept, Polling
<1>4. Answered(p)'
  BY <1>1, <1>2 DEF Answered
<1>5. \A c \in Codes : p \notin Redeemers(c)'
  BY <1>1, <1>2 DEF Redeemers
<1> QED BY <1>1, <1>2, <1>3, <1>4, <1>5, QuietStep

\* No statement, and nothing beside the requests, takes a row back.
LEMMA DeleteKeeps ==
    ASSUME TypeOK, NEW c \in Codes, NEW d \in Codes, DeleteRow(d), UNCHANGED row
    PROVE  Kept(c)
  BY DEF Kept, DeleteRow, TypeOK

LEMMA MarkKeeps ==
    ASSUME TypeOK, NEW p \in Requests, NEW c \in Codes, NEW d \in Codes,
           MarkPolled(p, d), UNCHANGED table
    PROVE  /\ Kept(c)
           /\ row'[c].user = row[c].user /\ row'[c].status = row[c].status
  BY DEF Kept, MarkPolled, TypeOK, Row

\* The inductive invariant: what a request under way knows about its code, and
\* what an answered request did to it, is what the code's row says.
THEOREM GrantInvHolds == Spec => []GrantInv
<1>1. Init => GrantInv
  <2> SUFFICES ASSUME Init PROVE GrantInv
    OBVIOUS
  <2>1. \A p \in Requests : UnderWay(p) /\ Answered(p)
    BY DEF Init, UnderWay, Answered, Polling
  <2>2. \A c \in Codes : Redeemers(c) = {}
    BY DEF Init, Redeemers, Polls
  <2>3. \A c \in Codes : Claimers(c) = {}
    BY DEF Init, Claimers
  <2>4. \A c \in Codes : Traced(c)
    BY <2>2, <2>3 DEF Init, Traced, BlankRow
  <2> QED BY <2>1, <2>4 DEF GrantInv
<1>2. TypeOK /\ GrantInv /\ [Next]_vars => GrantInv'
  <2> SUFFICES ASSUME TypeOK, GrantInv, [Next]_vars PROVE GrantInv'
    OBVIOUS
  <2>1. ASSUME NEW p \in Requests, NEW o \in AllOps, NEW c \in Codes,
               NEW k \in Clients \cup {NoClient}, NEW u \in Users \cup {NoUser},
               Begin(p, o, c, k, u)
        PROVE  GrantInv'
    <3>1. /\ Finish(p, "refused") \/ Goto(p, "read")
          /\ pc[p] = "new" /\ LocalsOK /\ outcome[p] = "none" /\ session[p] = NoUser
      BY <2>1 DEF Begin, TypeOK, LocalsOK, GrantInv, UnderWay
    <3>2. /\ pc'[p] \in {"read", "done"} /\ outcome'[p] \in {"refused", "none"}
          /\ \A q \in Requests \ {p} : /\ pc'[q] = pc[q]
                                       /\ outcome'[q] = outcome[q]
                                       /\ copy'[q] = copy[q]
          /\ pc'[p] = "read" => outcome'[p] = "none"
      BY <3>1, FinishTyped, GotoTyped DEF Outcomes, Statements
    <3>3. /\ call'[p] = [op |-> o, code |-> c, client |-> k, user |-> u]
          /\ Alone(p)
      BY <2>1, <3>2 DEF Begin, Alone, TypeOK
    <3>4. \A d \in Codes : /\ Kept(d) /\ row'[d] = row[d]
                           /\ p \notin Redeemers(d)'
      BY <2>1, <3>2 DEF Begin, Kept, Redeemers
    <3>5. pc'[p] = "read" /\ o \in Deciding => u # NoUser
      BY <2>1, <3>1, FinishTyped DEF Begin, Deciding, Outcomes
    <3>6. UnderWay(p)' /\ Answered(p)'
      BY <2>1, <3>1, <3>2, <3>3, <3>5 DEF Begin, UnderWay, Answered, Polling
    <3> QED BY <3>1, <3>2, <3>3, <3>4, <3>6, QuietStep
  <2>2. ASSUME NEW p \in Requests, Step(p) \/ StatementFails(p) PROVE GrantInv'
    <3>0. /\ pc[p] \notin {"new", "done"}
          /\ pc[p] \in Statements
      BY <2>2 DEF Step, StatementFails, Read, Mark, Drop, LoadUser, Redeem,
                  IssueSession, Claim, Decide, Statements
    <3>c. PICK c \in Codes : c = call[p].code
      BY <3>0 DEF TypeOK
    <3>1. /\ c \in Codes /\ call[p] \in Call /\ copy[p] \in Row /\ row[c] \in Row
          /\ table[c] # "unissued" /\ outcome[p] = "none" /\ session[p] = NoUser
          /\ UnderWay(p) /\ LocalsOK
      BY <3>0, <3>c DEF TypeOK, GrantInv, UnderWay, LocalsOK
    <3>2. UNCHANGED <<table, row>> =>
            \A d \in Codes : /\ Kept(d) /\ row'[d].user = row[d].user
                             /\ row'[d].status = row[d].status
      BY DEF Kept
    <3>3. CASE Read(p)
      <4>1. CASE \E a \in {"refused", "slow_down", "expired", "viewed"} : Finish(p, a)
        BY <3>3, <3>0, <3>2, <4>1, PlainAnswer DEF Read
      <4>2. CASE /\ pc' = [pc EXCEPT ![p] = "mark"]
                 /\ copy' = [copy EXCEPT ![p] = row[c]]
                 /\ UNCHANGED outcome
                 /\ call[p].op = "poll" /\ row[c].client = call[p].client
        BY <3>c, <3>3, <3>0, <3>1, <3>2, <4>2, PlainMove DEF Read, Statements
      <4>3. CASE /\ pc' = [pc EXCEPT ![p] = "claim"] /\ UNCHANGED <<outcome, copy>>
                 /\ call[p].op = "verify" /\ call[p].user # NoUser
        <5>1. copy' = [copy EXCEPT ![p] = copy[p]]
          BY <4>3 DEF TypeOK
        <5> QED BY <3>3, <3>0, <3>1, <3>2, <4>3, <5>1, PlainMove DEF Read, Statements, Polling
      <4>4. CASE /\ pc' = [pc EXCEPT ![p] = "decide"]
                 /\ copy' = [copy EXCEPT ![p] = row[c]]
                 /\ UNCHANGED outcome
                 /\ call[p].op \in Deciding /\ row[c].user = call[p].user
        <5>1. call[p].user # NoUser
          BY <3>3, <3>1, <4>4 DEF Read, UnderWay
        <5> QED BY <3>c, <3>3, <3>0, <3>1, <3>2, <4>4, <5>1, PlainMove DEF Read, Statements, Polling
      <4> QED BY <3>c, <3>3, <4>1, <4>2, <4>3, <4>4
            DEF Read, ReadForPoll, ReadForVerify, ReadForDecision, MayDecide, WouldClaim,
                Goto, Deciding
    <3>4. CASE Mark(p)
      <4>1. \A d \in Codes : /\ Kept(d) /\ row'[d].user = row[d].user
                             /\ row'[d].status = row[d].status
        BY <3>c, <3>4, <3>1, MarkKeeps DEF Mark
      <4>2. CASE Finish(p, "error") \/ Finish(p, "pending")
        BY <3>4, <3>0, <4>1, <4>2, PlainAnswer DEF Mark
      <4>3. CASE Goto(p, "drop") \/ Goto(p, "load_user")
        <5>1. copy' = [copy EXCEPT ![p] = copy[p]]
          BY <4>3 DEF TypeOK, Goto
        <5>2. Goto(p, "load_user") => copy[p].status = "approved"
          BY <3>4, <3>1 DEF Mark, Goto, TypeOK, Row, Finish
        <5>3. /\ call[p].op = "poll" /\ call[p].client = row[call[p].code].client
              /\ copy[p].status = "approved" => row[call[p].code].status = "approved"
                                                /\ row[call[p].code].user = copy[p].user
          BY <3>4, <3>1 DEF Mark, UnderWay, Polling
        <5>6. UNCHANGED <<call, outcome, session>>
          BY <3>4, <4>3 DEF Mark, Goto
        <5>4. CASE Goto(p, "drop")
          <6>1. pc' = [pc EXCEPT ![p] = "drop"] /\ "drop" \in Statements \ {"issue"}
            BY <5>4 DEF Goto, Statements
          <6> QED BY <3>0, <3>1, <4>1, <5>1, <5>3, <5>6, <6>1, PlainMove
        <5>5. CASE Goto(p, "load_user")
          <6>1. pc' = [pc EXCEPT ![p] = "load_user"] /\ "load_user" \in Statements \ {"issue"}
            BY <5>5 DEF Goto, Statements
          <6> QED BY <3>0, <3>1, <4>1, <5>1, <5>2, <5>3, <5>5, <5>6, <6>1, PlainMove
        <5> QED BY <4>3, <5>4, <5>5
      <4> QED BY <3>4, <4>2, <4>3 DEF Mark
    <3>5. CASE Drop(p)
      <4>1. \A d \in Codes : Kept(d)
        BY <3>c, <3>5, <3>1, DeleteKeeps DEF Drop
      <4>2. row' = row /\ (Finish(p, "expired") \/ Finish(p, "denied"))
        BY <3>5 DEF Drop
      <4> QED BY <3>5, <3>0, <4>1, <4>2, PlainAnswer DEF Drop
    <3>6. CASE LoadUser(p)
      <4>1. CASE Finish(p, "no_user")
        BY <3>6, <3>0, <3>2, <4>1, PlainAnswer DEF LoadUser
      <4>2. CASE Goto(p, "redeem")
        <5>1. copy' = [copy EXCEPT ![p] = copy[p]]
          BY <4>2 DEF TypeOK, Goto
        <5>2. /\ call[p].op = "poll" /\ call[p].client = row[call[p].code].client
              /\ copy[p].status = "approved" /\ row[call[p].code].status = "approved"
              /\ row[call[p].code].user = copy[p].user
          BY <3>6, <3>1 DEF LoadUser, UnderWay, Polling
        <5> QED BY <3>6, <3>0, <3>1, <3>2, <4>2, <5>1, <5>2, PlainMove DEF LoadUser, Goto, Statements
      <4> QED BY <3>6, <4>1, <4>2 DEF LoadUser
    <3>7. CASE Redeem(p)
      <4>1. CASE ~ Redeemable(c)
        BY <3>c, <3>7, <3>0, <3>2, <4>1, PlainAnswer DEF Redeem
      <4>2. CASE Redeemable(c)
        <5>1. /\ DeleteRow(c) /\ Goto(p, "issue") /\ UNCHANGED <<row, call, session>>
              /\ table[c] = "live"
          BY <3>c, <3>7, <4>2 DEF Redeem, Redeemable, HasStatus, Present
        <5>2. /\ pc'[p] = "issue" /\ copy' = copy /\ outcome' = outcome
              /\ Alone(p) /\ table'[c] = "gone"
          BY <5>1, <3>1, GotoTyped DEF Alone, Statements, DeleteRow, TypeOK
        <5>3. \A d \in Codes : Kept(d)
          BY <5>1, <3>1, DeleteKeeps
        <5>4. \A q \in Requests \ {p} : UnderWay(q)' /\ Answered(q)'
          BY <5>2, <5>3, BystandersKept DEF Alone
        <5>5. UnderWay(p)' /\ Answered(p)'
          BY <3>c, <3>7, <3>1, <5>1, <5>2 DEF Redeem, UnderWay, Answered, Polling
        <5>6. Redeemers(c) = {}
          BY <3>c, <5>1, <3>1 DEF GrantInv, UnderWay, Answered, Redeemers, Polls
        <5>7. /\ \A q \in Redeemers(c)' : q = p
              /\ \A d \in Codes \ {c} : p \notin Redeemers(d)'
          BY <3>c, <5>1, <5>2, <5>6 DEF Redeemers, Polls, Alone
        <5>10. \A d \in Codes : Claimers(d)' \subseteq Claimers(d)
          BY <3>1, <5>2, ClaimersKept
        <5>8. Traced(c)'
          BY <3>0, <3>1, <5>1, <5>2, <5>7, <5>10 DEF GrantInv, Traced, Alone, Made
        <5>9. \A d \in Codes \ {c} : Traced(d)'
          BY <3>0, <5>1, <5>2, <5>7, <5>10, RedeemersKept, TraceKept
        <5> QED BY <5>4, <5>5, <5>8, <5>9 DEF GrantInv
      <4> QED BY <4>1, <4>2
    <3>8. CASE IssueSession(p)
      <4>1. /\ pc'[p] = "done" /\ outcome'[p] \in {"session", "no_session"}
            /\ \A q \in Requests \ {p} : pc'[q] = pc[q] /\ outcome'[q] = outcome[q] /\ copy'[q] = copy[q]
        BY <3>8, <3>1, FinishTyped DEF IssueSession, Outcomes
      <4>2. /\ Alone(p) /\ UNCHANGED <<table, row, call>>
            /\ session'[p] # NoUser => outcome'[p] = "session" /\ session'[p] = copy[p].user
        BY <3>8, <3>1, <4>1, FinishTyped DEF IssueSession, Alone, TypeOK, Outcomes
      <4>3. p \in Redeemers(c)
        BY <3>c, <3>8, <3>1 DEF IssueSession, UnderWay, Redeemers, Polls, Polling
      <4>4. UnderWay(p)' /\ Answered(p)'
        BY <3>8, <3>1, <4>1, <4>2 DEF IssueSession, UnderWay, Answered, Polling
      <4>5. \A d \in Codes : p \in Redeemers(d)' => p \in Redeemers(d)
        BY <3>c, <4>2, <4>3 DEF Redeemers, Polls
      <4> QED BY <3>0, <3>2, <4>1, <4>2, <4>4, <4>5, QuietStep
    <3>9. CASE Claim(p)
      <4>1. CASE ~ Claimable(c)
        BY <3>c, <3>9, <3>0, <3>2, <4>1, PlainAnswer DEF Claim
      <4>2. CASE Claimable(c)
        <5>1. /\ row' = [row EXCEPT ![c].user = call[p].user] /\ Finish(p, "claimed")
              /\ UNCHANGED <<table, call, session>>
              /\ row[c].status = "pending" /\ row[c].user = NoUser
          BY <3>c, <3>9, <4>2 DEF Claim, Claimable, HasStatus
        <5>2. /\ pc'[p] = "done" /\ outcome'[p] = "claimed" /\ Alone(p)
          BY <5>1, <3>1, FinishTyped DEF Alone, Outcomes
        <5>3. /\ row'[c].user = call[p].user /\ row'[c].status = "pending"
              /\ row'[c].client = row[c].client
              /\ \A d \in Codes \ {c} : row'[d] = row[d]
          BY <5>1, <3>1 DEF TypeOK, Row
        <5>4. \A d \in Codes : Kept(d)
          BY <5>1, <5>3 DEF Kept
        <5>5. \A q \in Requests \ {p} : UnderWay(q)' /\ Answered(q)'
          BY <5>2, <5>4, BystandersKept DEF Alone
        <5>6. UnderWay(p)' /\ Answered(p)'
          BY <3>c, <3>9, <3>1, <5>1, <5>2, <5>3 DEF Claim, UnderWay, Answered, Polling
        <5>7. \A d \in Codes : Redeemers(d)' \subseteq Redeemers(d)
          BY <5>2, <3>0, RedeemersKept DEF Redeemers
        <5>10. /\ \A q \in Claimers(c)' : q = p
               /\ \A d \in Codes \ {c} : Claimers(d)' \subseteq Claimers(d)
          <6>1. Claimers(c) = {}
            BY <5>1 DEF GrantInv, Answered, Claimers
          <6> QED BY <3>c, <5>1, <5>2, <6>1 DEF Claimers, Alone
        <5>8. Traced(c)'
          BY <3>c, <3>1, <5>1, <5>2, <5>3, <5>7, <5>10 DEF GrantInv, Traced
        <5>9. \A d \in Codes \ {c} : Traced(d)'
          BY <3>0, <5>2, <5>3, <5>7, <5>10, TraceKept
        <5> QED BY <5>5, <5>6, <5>8, <5>9 DEF GrantInv
      <4> QED BY <4>1, <4>2
    <3>10. CASE Decide(p)
      <4>1. CASE ~ Decidable(c)
        BY <3>c, <3>10, <3>0, <3>2, <4>1, PlainAnswer DEF Decide
      <4>2. CASE Decidable(c)
        <5>1. /\ row' = [row EXCEPT ![c].status = Decision(call[p].op), ![c].user = copy[p].user]
              /\ Finish(p, "decided") /\ UNCHANGED <<table, call, session>>
              /\ row[c].status = "pending"
              /\ call[p].op \in Deciding /\ call[p].user # NoUser
              /\ copy[p].user = call[p].user /\ row[c].user = call[p].user
          BY <3>c, <3>10, <3>1, <4>2 DEF Decide, Decidable, HasStatus, UnderWay
        <5>2. /\ pc'[p] = "done" /\ outcome'[p] = "decided" /\ Alone(p)
          BY <5>1, <3>1, FinishTyped DEF Alone, Outcomes
        <5>3. /\ row'[c].user = row[c].user /\ row'[c].status = Decision(call[p].op)
              /\ row'[c].client = row[c].client
              /\ \A d \in Codes \ {c} : row'[d] = row[d]
          BY <5>1, <3>1 DEF TypeOK, Row
        <5>4. \A d \in Codes : Kept(d)
          BY <5>1, <5>3 DEF Kept
        <5>5. \A q \in Requests \ {p} : UnderWay(q)' /\ Answered(q)'
          BY <5>2, <5>4, BystandersKept DEF Alone
        <5>6. UnderWay(p)' /\ Answered(p)'
          BY <3>c, <3>1, <5>1, <5>2, <5>3 DEF UnderWay, Answered, Polling
        <5>7. \A d \in Codes : Redeemers(d)' \subseteq Redeemers(d)
          BY <5>2, <3>0, RedeemersKept DEF Redeemers
        <5>10. \A d \in Codes : Claimers(d)' \subseteq Claimers(d)
          BY <5>2, ClaimersKept
        <5>8. Traced(c)'
          <6>1. row'[c].status = "approved" => Made(p, "approve", c)'
            BY <3>c, <5>1, <5>3 DEF Made, Decision, Deciding
          <6>2. \E q \in Requests : /\ call'[q].code = c /\ outcome'[q] = "claimed"
                                    /\ call'[q].user = row'[c].user
            BY <3>1, <5>1, <5>2, <5>3 DEF GrantInv, Traced, Alone
          <6>3. \A q1, q2 \in Redeemers(c)' : q1 = q2
            BY <3>1, <5>7 DEF GrantInv, Traced
          <6>4. \A q1, q2 \in Claimers(c)' : q1 = q2
            BY <3>1, <5>10 DEF GrantInv, Traced
          <6> QED BY <5>1, <5>2, <5>3, <6>1, <6>2, <6>3, <6>4 DEF Traced
        <5>9. \A d \in Codes \ {c} : Traced(d)'
          BY <3>0, <5>2, <5>3, <5>7, <5>10, TraceKept
        <5> QED BY <5>5, <5>6, <5>8, <5>9 DEF GrantInv
      <4> QED BY <4>1, <4>2
    <3>11. CASE StatementFails(p)
      BY <3>11, <3>0, <3>2, PlainAnswer DEF StatementFails, Statements
    <3> QED BY <2>2, <3>3, <3>4, <3>5, <3>6, <3>7, <3>8, <3>9, <3>10, <3>11 DEF Step
  <2>3. ASSUME NEW c \in Codes, NEW k \in Clients, NewCode(c, k) PROVE GrantInv'
    <3>1. /\ table[c] = "unissued" /\ table'[c] = "live"
          /\ row'[c].status = "pending" /\ row'[c].user = NoUser
          /\ \A d \in Codes \ {c} : row'[d] = row[d] /\ table'[d] = table[d]
          /\ UNCHANGED <<pc, call, copy, outcome, session>>
      BY <2>3 DEF NewCode, TypeOK
    <3>2. \A d \in Codes : Kept(d)
      BY <3>1 DEF Kept
    <3>3. \A q \in Requests : UnderWay(q)' /\ Answered(q)'
      BY <3>1, <3>2, BystandersKept
    <3>4. \A d \in Codes : Redeemers(d)' = Redeemers(d)
      BY <3>1 DEF Redeemers, Polls
    <3>7. \A d \in Codes : Claimers(d)' = Claimers(d)
      BY <3>1 DEF Claimers
    <3>5. \A d \in Codes \ {c} : Traced(d)'
      BY <3>1, <3>4, <3>7 DEF GrantInv, Traced, Made
    <3>6. Traced(c)'
      BY <3>1, <3>4, <3>7 DEF GrantInv, Traced
    <3> QED BY <3>3, <3>5, <3>6 DEF GrantInv
  <2>4. CASE Tick \/ UNCHANGED vars
    BY <2>4 DEF Tick, vars, GrantInv, UnderWay, Answered, Traced, Redeemers, Polls, Made, Claimers
  <2> QED BY <2>1, <2>2, <2>3, <2>4 DEF Next
<1> QED BY <1>1, <1>2, TypeCorrect, PTL DEF Spec

-----------------------------------------------------------------------------
(* What the invariant says of the grant.                                   *)

\* However many polls see a code approved, one of them redeems it
\* (handle_device_token's conditional delete).
THEOREM RedeemedOnce == Spec => []OneRedemption
<1>1. GrantInv => OneRedemption
  BY DEF GrantInv, Traced, OneRedemption
<1> QED BY <1>1, GrantInvHolds, PTL

\* No two verifiers both claim a code (claim_device_code).
THEOREM ClaimedOnce == Spec => []OneClaim
<1>1. TypeOK /\ GrantInv => OneClaim
  <2> SUFFICES ASSUME TypeOK, GrantInv, NEW p \in Requests, NEW q \in Requests,
                      outcome[p] = "claimed", outcome[q] = "claimed",
                      call[p].code = call[q].code
               PROVE  p = q
    BY DEF OneClaim
  <2>1. call[p].code \in Codes
    BY DEF GrantInv, UnderWay, TypeOK
  <2> QED BY <2>1 DEF GrantInv, Traced, Claimers
<1> QED BY <1>1, TypeCorrect, GrantInvHolds, PTL

\* A decision that was answered success stands for as long as the row does
\* (update_device_code_if_status against polls that write back).
THEOREM DecisionsStand == Spec => []DecisionStands
<1>1. GrantInv => DecisionStands
  BY DEF GrantInv, Answered, DecisionStands
<1> QED BY <1>1, GrantInvHolds, PTL

\* A denied code never leads to a session, not even for a poll under way.
THEOREM DenialIsFinal == Spec => []DeniedNeverGranted
<1>1. GrantInv => DeniedNeverGranted
  BY DEF GrantInv, Answered, DeniedNeverGranted, Decision
<1> QED BY <1>1, GrantInvHolds, PTL

\* The session a device gets is that of a user who claimed the code and
\* approved it, and goes to the client the code was issued to.
THEOREM SessionsAreApproved == Spec => []SessionIsApprovers
<1>1. TypeOK /\ GrantInv => SessionIsApprovers
  <2> SUFFICES ASSUME TypeOK, GrantInv, NEW p \in Requests, session[p] # NoUser
               PROVE  LET c == call[p].code IN
                      /\ row[c].client = call[p].client
                      /\ \E q \in Requests : /\ Made(q, "approve", c)
                                             /\ outcome[q] = "decided"
                                             /\ call[q].user = session[p]
                      /\ \E q \in Requests : /\ Made(q, "verify", c)
                                             /\ outcome[q] = "claimed"
                                             /\ call[q].user = session[p]
    BY DEF SessionIsApprovers
  <2>1. PICK c \in Codes : c = call[p].code
    BY DEF GrantInv, UnderWay, TypeOK
  <2>2. /\ row[c].status = "approved" /\ row[c].user = session[p]
        /\ row[c].client = call[p].client /\ Traced(c)
    BY <2>1 DEF GrantInv, Answered
  <2>3. PICK q \in Requests : Made(q, "approve", c) /\ outcome[q] = "decided"
    BY <2>2 DEF Traced
  <2>4. call[q].user = session[p]
    BY <2>2, <2>3 DEF GrantInv, Answered, Made
  <2>5. PICK v \in Requests : /\ call[v].code = c /\ outcome[v] = "claimed"
                              /\ call[v].user = row[c].user
    BY <2>2 DEF Traced
  <2>6. Made(v, "verify", c)
    BY <2>5 DEF GrantInv, Answered, Made
  <2> QED BY <2>1, <2>2, <2>3, <2>4, <2>5, <2>6
<1> QED BY <1>1, TypeCorrect, GrantInvHolds, PTL

-----------------------------------------------------------------------------
(* The grant implements DevicePromise.                                     *)

\* What the promise sees of a code.
Same(c) == /\ table'[c] = table[c]
           /\ row'[c].status = row[c].status
           /\ row'[c].user = row[c].user
           /\ Redeemers(c)' = Redeemers(c)
           /\ Delivered(c)' = Delivered(c)

LEMMA SameSeen ==
    ASSUME NEW c \in Codes, Same(c)
    PROVE  Phase(c)' = Phase(c) /\ row'[c].user = row[c].user
           /\ Delivered(c)' = Delivered(c)
  BY DEF Same, Phase

LEMMA AllSame ==
    ASSUME \A c \in Codes : Same(c)
    PROVE  UNCHANGED Promise!promise
  BY SameSeen DEF Promise!promise

\* A step of p that neither redeems nor issues leaves redeemers and sessions.
LEMMA SessionsSame ==
    ASSUME TypeOK, GrantInv, NEW p \in Requests, pc[p] \notin {"done", "issue"},
           Alone(p), session'[p] = session[p], pc'[p] # "issue",
           outcome'[p] \notin {"session", "no_session"}, NEW c \in Codes
    PROVE  Redeemers(c)' = Redeemers(c) /\ Delivered(c)' = Delivered(c)
<1>1. session[p] = NoUser /\ outcome[p] = "none"
  BY DEF GrantInv, UnderWay
<1>2. Redeemers(c)' = Redeemers(c)
  BY <1>1 DEF Redeemers, Polls, Alone
<1>3. {q \in Polls(c) : session[q] # NoUser}' = {q \in Polls(c) : session[q] # NoUser}
  BY <1>1 DEF Polls, Alone
<1>4. \A q \in {r \in Polls(c) : session[r] # NoUser} : session'[q] = session[q]
  BY <1>1 DEF Polls, Alone
<1> QED BY <1>2, <1>3, <1>4 DEF Delivered

\* A move of the one code the step is about is a move of the promise.
LEMMA OneMoves ==
    ASSUME NEW c \in Codes, \A d \in Codes \ {c} : Same(d), NEW F, NEW t,
           Phase(c) \in F, Phase(c)' = t,
           row'[c].user = row[c].user, Delivered(c)' = Delivered(c)
    PROVE  Promise!Move(c, F, t)
<1>1. \A d \in Codes \ {c} : Phase(d)' = Phase(d)
  BY SameSeen
<1>2. [d \in Codes |-> Phase(d)]' = [[d \in Codes |-> Phase(d)] EXCEPT ![c] = t]
  BY <1>1
<1>3. UNCHANGED <<[d \in Codes |-> row[d].user], [d \in Codes |-> Delivered(d)]>>
  BY SameSeen
<1> QED BY <1>2, <1>3 DEF Promise!Move

\* A handler that only reads, refuses or records a poll shows nothing.
LEMMA QuietlySame ==
    ASSUME TypeOK, GrantInv, NEW p \in Requests, pc[p] \notin {"done", "issue"},
           Alone(p), session'[p] = session[p], pc'[p] # "issue",
           outcome'[p] \notin {"session", "no_session"},
           \A c \in Codes : /\ table'[c] = table[c]
                            /\ row'[c].user = row[c].user
                            /\ row'[c].status = row[c].status
    PROVE  UNCHANGED Promise!promise
  BY SessionsSame, AllSame DEF Same

\* Every step of the statement-level grant is a step of the promise, or none.
LEMMA StepKeepsPromise ==
    TypeOK /\ GrantInv /\ [Next]_vars => [Promise!PromiseNext]_(Promise!promise)
<1> SUFFICES ASSUME TypeOK, GrantInv, [Next]_vars
             PROVE  Promise!PromiseNext \/ UNCHANGED Promise!promise
  OBVIOUS
<1>0. LocalsOK
  BY DEF TypeOK, LocalsOK
<1>1. ASSUME NEW p \in Requests, NEW o \in AllOps, NEW c \in Codes,
             NEW k \in Clients \cup {NoClient}, NEW u \in Users \cup {NoUser},
             Begin(p, o, c, k, u)
      PROVE  UNCHANGED Promise!promise
  <2>1. Finish(p, "refused") \/ Goto(p, "read")
    BY <1>1 DEF Begin
  <2>2. /\ pc'[p] # "issue" /\ outcome'[p] \notin {"session", "no_session"}
        /\ \A q \in Requests \ {p} : pc'[q] = pc[q] /\ outcome'[q] = outcome[q] /\ copy'[q] = copy[q]
    BY <1>0, <1>1, <2>1, FinishTyped, GotoTyped DEF Outcomes, Statements, Begin, GrantInv, UnderWay
  <2>3. Alone(p) /\ UNCHANGED <<table, row, session>> /\ pc[p] = "new"
    BY <1>1, <2>2 DEF Begin, Alone, TypeOK
  <2> QED BY <2>2, <2>3, QuietlySame
<1>2. ASSUME NEW p \in Requests, Step(p) \/ StatementFails(p)
      PROVE  Promise!PromiseNext \/ UNCHANGED Promise!promise
  <2>0. pc[p] \notin {"new", "done"} /\ pc[p] \in Statements
    BY <1>2 DEF Step, StatementFails, Read, Mark, Drop, LoadUser, Redeem,
                IssueSession, Claim, Decide, Statements
  <2>c. PICK c \in Codes : c = call[p].code
    BY <2>0 DEF TypeOK
  <2>1. /\ call[p] \in Call /\ copy[p] \in Row /\ row[c] \in Row
        /\ table[c] # "unissued" /\ outcome[p] = "none" /\ session[p] = NoUser
        /\ UnderWay(p) /\ Traced(c)
    BY <2>0, <2>c DEF TypeOK, GrantInv, UnderWay
  \* Whatever answer it gives, a handler that returns touches no other request.
  <2>2. ASSUME NEW a \in Outcomes, Finish(p, a), UNCHANGED call,
               \A q \in Requests \ {p} : session'[q] = session[q]
        PROVE  pc'[p] = "done" /\ outcome'[p] = a /\ Alone(p)
    BY <1>0, <2>2, FinishTyped DEF Alone
  <2>3. ASSUME NEW a \in Outcomes \ {"session", "no_session"}, Finish(p, a),
               UNCHANGED <<call, session>>, pc[p] # "issue",
               \A d \in Codes : /\ table'[d] = table[d]
                                /\ row'[d].user = row[d].user
                                /\ row'[d].status = row[d].status
        PROVE  UNCHANGED Promise!promise
    BY <2>0, <2>2, <2>3, QuietlySame
  <2>4. ASSUME NEW l \in Statements \ {"issue"}, pc' = [pc EXCEPT ![p] = l],
               copy' = copy \/ \E r \in Row : copy' = [copy EXCEPT ![p] = r],
               UNCHANGED <<call, session, outcome>>, pc[p] # "issue",
               \A d \in Codes : /\ table'[d] = table[d]
                                /\ row'[d].user = row[d].user
                                /\ row'[d].status = row[d].status
        PROVE  UNCHANGED Promise!promise
    <3>1. Alone(p) /\ pc'[p] = l
      BY <2>4 DEF Alone, TypeOK
    <3> QED BY <2>0, <2>1, <2>4, <3>1, QuietlySame
  <2>5. CASE Read(p)
    <3>1. UNCHANGED <<table, row, call, session>> /\ pc[p] # "issue"
      BY <2>5 DEF Read
    <3>2. \/ \E a \in Outcomes \ {"session", "no_session"} : Finish(p, a)
          \/ /\ \E l \in {"claim", "mark", "decide"} : pc' = [pc EXCEPT ![p] = l]
             /\ copy' = copy \/ copy' = [copy EXCEPT ![p] = row[c]]
             /\ UNCHANGED outcome
      BY <2>5, <2>c DEF Read, ReadForPoll, ReadForVerify, ReadForDecision, Outcomes, Goto
    <3> QED BY <3>1, <3>2, <2>1, <2>3, <2>4 DEF Statements
  <2>6. CASE Mark(p)
    <3>1. \A d \in Codes : /\ table'[d] = table[d]
                           /\ row'[d].user = row[d].user
                           /\ row'[d].status = row[d].status
      BY <2>6, <2>c, MarkKeeps DEF Mark
    <3>2. UNCHANGED <<call, session>> /\ pc[p] # "issue"
      BY <2>6 DEF Mark
    <3>3. \/ Finish(p, "error") \/ Finish(p, "pending")
          \/ Goto(p, "drop") \/ Goto(p, "load_user")
      BY <2>6 DEF Mark
    <3> QED BY <3>1, <3>2, <3>3, <2>3, <2>4 DEF Outcomes, Statements, Goto
  <2>7. CASE Drop(p)
    <3>1. /\ DeleteRow(c) /\ UNCHANGED <<row, call, session>> /\ pc[p] = "drop"
          /\ Finish(p, "expired") \/ Finish(p, "denied")
      BY <2>7, <2>c DEF Drop
    <3>2. /\ pc'[p] = "done" /\ Alone(p)
          /\ outcome'[p] \notin {"session", "no_session"}
      BY <3>1, <2>2 DEF Outcomes
    <3>3. \A d \in Codes : Redeemers(d)' = Redeemers(d) /\ Delivered(d)' = Delivered(d)
      BY <3>1, <3>2, SessionsSame
    <3>4. \A d \in Codes \ {c} : Same(d)
      BY <3>1, <3>3 DEF Same, DeleteRow, TypeOK
    <3>5. CASE table[c] = "live"
      <4>1. table'[c] = "gone" /\ Phase(c) \in {"pending", "approved", "denied"}
        BY <3>1, <3>5, <2>1 DEF DeleteRow, TypeOK, Phase, Row
      <4>2. Redeemers(c) = {}
        BY <3>5, <2>c DEF GrantInv, UnderWay, Answered, Redeemers, Polls
      <4>3. Phase(c)' = "void"
        BY <3>3, <4>1, <4>2 DEF Phase
      <4>4. Promise!Move(c, {"pending", "approved", "denied"}, "void")
        BY <3>1, <3>3, <3>4, <4>1, <4>3, OneMoves
      <4> QED BY <4>4 DEF Promise!PromiseNext
    <3>6. CASE table[c] # "live"
      BY <3>1, <3>3, <3>4, <3>6, AllSame DEF Same, DeleteRow, TypeOK
    <3> QED BY <3>5, <3>6
  <2>8. CASE LoadUser(p)
    BY <2>8, <2>3, <2>4 DEF LoadUser, Goto, Outcomes, Statements
  <2>9. CASE Redeem(p)
    <3>1. CASE ~ Redeemable(c)
      BY <2>9, <2>c, <3>1, <2>3 DEF Redeem, Outcomes
    <3>2. CASE Redeemable(c)
      <4>1. /\ DeleteRow(c) /\ Goto(p, "issue") /\ UNCHANGED <<row, call, session>>
            /\ table[c] = "live" /\ row[c].status = "approved" /\ call[p].op = "poll"
        BY <2>9, <2>c, <2>1, <3>2
           DEF Redeem, Redeemable, HasStatus, Present, UnderWay, Polling
      <4>2. /\ pc'[p] = "issue" /\ copy' = copy /\ outcome' = outcome
            /\ Alone(p) /\ table'[c] = "gone"
            /\ \A d \in Codes \ {c} : table'[d] = table[d]
        BY <4>1, <1>0, GotoTyped DEF Alone, Statements, DeleteRow, TypeOK
      <4>3. \A d \in Codes : Delivered(d)' = Delivered(d)
        BY <4>1 DEF Delivered, Polls
      <4>4. \A d \in Codes \ {c} : Redeemers(d)' = Redeemers(d)
        BY <2>1, <2>c, <4>1, <4>2 DEF Redeemers, Polls, Alone
      <4>5. p \in Redeemers(c)'
        BY <2>c, <4>1, <4>2 DEF Redeemers, Polls
      <4>6. Phase(c) = "approved" /\ Phase(c)' = "spent"
        BY <4>1, <4>2, <4>5 DEF Phase
      <4>7. \A d \in Codes \ {c} : Same(d)
        BY <4>1, <4>2, <4>3, <4>4 DEF Same
      <4>8. Promise!Move(c, {"approved"}, "spent")
        BY <4>1, <4>3, <4>6, <4>7, OneMoves
      <4> QED BY <4>8 DEF Promise!PromiseNext
    <3> QED BY <3>1, <3>2
  <2>10. CASE IssueSession(p)
    <3>1. /\ UNCHANGED <<table, row, call>> /\ call[p].op = "poll"
          /\ table[c] = "gone" /\ row[c].user = copy[p].user /\ p \in Redeemers(c)
      BY <2>10, <2>c, <2>1 DEF IssueSession, UnderWay, Polling, Redeemers, Polls
    <3>2. /\ pc'[p] = "done" /\ outcome'[p] \in {"session", "no_session"} /\ Alone(p)
      <4>1. \A q \in Requests \ {p} : session'[q] = session[q]
        BY <2>10 DEF IssueSession, TypeOK
      <4> QED BY <2>10, <3>1, <4>1, <2>2 DEF IssueSession, Outcomes
    <3>3. \A d \in Codes : Redeemers(d)' = Redeemers(d)
      BY <2>10, <2>c, <3>1, <3>2 DEF IssueSession, Redeemers, Polls, Alone
    <3>4. \A d \in Codes \ {c} : Delivered(d)' = Delivered(d)
      <4>1. \A d \in Codes \ {c} : p \notin Polls(d) /\ Polls(d)' = Polls(d)
        BY <2>c, <3>1 DEF Polls
      <4> QED BY <3>2, <4>1 DEF Delivered, Alone, Polls
    <3>5. CASE session'[p] = NoUser
      <4>1. session' = session
        BY <2>1, <2>10, <3>5 DEF IssueSession, TypeOK
      <4>2. \A d \in Codes : Same(d)
        BY <3>1, <3>3, <4>1 DEF Same, Delivered, Polls
      <4> QED BY <4>2, AllSame
    <3>6. CASE session'[p] # NoUser
      <4>1. session'[p] = row[c].user
        BY <2>1, <2>10, <3>1, <3>6 DEF IssueSession, TypeOK
      <4>2. \A q \in Polls(c) : session[q] # NoUser => q \in Redeemers(c)
        BY DEF GrantInv, Answered, Redeemers, Polls
      <4>3. \A q \in Polls(c) : session[q] = NoUser
        BY <2>1, <3>1, <4>2 DEF Traced
      <4>4. Delivered(c) = {}
        BY <4>3 DEF Delivered
      <4>5. {q \in Polls(c) : session[q] # NoUser}' = {p}
        BY <2>c, <3>1, <3>2, <3>6, <4>3 DEF Polls, Alone
      <4>6. Delivered(c)' = {<<p, row[c].user>>}
        BY <4>1, <4>5 DEF Delivered
      <4>7. Phase(c) = "spent"
        BY <3>1 DEF Phase
      <4>8. \A d \in Codes : Phase(d)' = Phase(d)
        BY <3>1, <3>3 DEF Phase
      <4>9. [d \in Codes |-> Delivered(d)]' =
               [[d \in Codes |-> Delivered(d)] EXCEPT ![c] = {<<p, row[c].user>>}]
        BY <3>4, <4>6
      <4>10. Promise!Deliver(c, p)
        BY <3>1, <4>4, <4>7, <4>8, <4>9 DEF Promise!Deliver
      <4> QED BY <4>10 DEF Promise!PromiseNext
    <3> QED BY <3>5, <3>6
  <2>11. CASE Claim(p)
    <3>1. CASE ~ Claimable(c)
      BY <2>11, <2>c, <3>1, <2>3 DEF Claim, Outcomes
    <3>2. CASE Claimable(c)
      <4>1. /\ row' = [row EXCEPT ![c].user = call[p].user] /\ Finish(p, "claimed")
            /\ UNCHANGED <<table, call, session>>
            /\ table[c] = "live" /\ row[c].status = "pending" /\ row[c].user = NoUser
            /\ pc[p] = "claim" /\ call[p].user \in Users
        BY <2>11, <2>c, <2>1, <3>2 DEF Claim, Claimable, HasStatus, Present, UnderWay, Call
      <4>2. pc'[p] = "done" /\ outcome'[p] = "claimed" /\ Alone(p)
        BY <4>1, <2>2 DEF Outcomes
      <4>3. \A d \in Codes : Redeemers(d)' = Redeemers(d) /\ Delivered(d)' = Delivered(d)
        BY <4>1, <4>2, SessionsSame
      <4>4. /\ row'[c].user = call[p].user /\ row'[c].status = "pending"
            /\ \A d \in Codes \ {c} : row'[d] = row[d]
        BY <4>1 DEF TypeOK, Row
      <4>5. \A d \in Codes : Phase(d)' = Phase(d)
        BY <4>1, <4>3, <4>4 DEF Phase
      <4>6. [d \in Codes |-> row[d].user]' =
               [[d \in Codes |-> row[d].user] EXCEPT ![c] = call[p].user]
        BY <4>4
      <4>7. Phase(c) = "pending"
        BY <4>1 DEF Phase
      <4>8. PICK u \in Users : u = call[p].user
        BY <4>1
      <4>9. Promise!Claim(c, u)
        BY <4>1, <4>3, <4>5, <4>6, <4>7, <4>8 DEF Promise!Claim
      <4> QED BY <4>9 DEF Promise!PromiseNext
    <3> QED BY <3>1, <3>2
  <2>12. CASE Decide(p)
    <3>1. CASE ~ Decidable(c)
      BY <2>12, <2>c, <3>1, <2>3 DEF Decide, Outcomes
    <3>2. CASE Decidable(c)
      <4>1. /\ row' = [row EXCEPT ![c].status = Decision(call[p].op), ![c].user = copy[p].user]
            /\ Finish(p, "decided") /\ UNCHANGED <<table, call, session>>
            /\ table[c] = "live" /\ row[c].status = "pending" /\ row[c].user # NoUser
            /\ pc[p] = "decide" /\ copy[p].user = row[c].user
        BY <2>12, <2>c, <2>1, <3>2 DEF Decide, Decidable, HasStatus, Present, UnderWay
      <4>2. pc'[p] = "done" /\ outcome'[p] = "decided" /\ Alone(p)
        BY <4>1, <2>2 DEF Outcomes
      <4>3. \A d \in Codes : Redeemers(d)' = Redeemers(d) /\ Delivered(d)' = Delivered(d)
        BY <4>1, <4>2, SessionsSame
      <4>4. /\ row'[c].user = row[c].user /\ row'[c].status = Decision(call[p].op)
            /\ \A d \in Codes \ {c} : row'[d] = row[d]
        BY <4>1 DEF TypeOK, Row
      <4>5. PICK to \in {"approved", "denied"} : to = Decision(call[p].op)
        BY DEF Decision
      <4>6. Phase(c) = "pending" /\ Phase(c)' = to
        BY <4>1, <4>4, <4>5 DEF Phase
      <4>7. \A d \in Codes \ {c} : Same(d)
        BY <4>1, <4>3, <4>4 DEF Same
      <4>8. Promise!Move(c, {"pending"}, to)
        BY <4>3, <4>4, <4>6, <4>7, OneMoves
      <4>9. Promise!Decide(c, to)
        BY <4>1, <4>8 DEF Promise!Decide
      <4> QED BY <4>5, <4>9 DEF Promise!PromiseNext
    <3> QED BY <3>1, <3>2
  <2>13. CASE StatementFails(p)
    BY <2>13, <2>3 DEF StatementFails, Outcomes
  <2> QED BY <1>2, <2>5, <2>6, <2>7, <2>8, <2>9, <2>10, <2>11, <2>12, <2>13 DEF Step
<1>3. ASSUME NEW c \in Codes, NEW k \in Clients, NewCode(c, k)
      PROVE  Promise!PromiseNext
  <2>1. /\ table[c] = "unissued" /\ table'[c] = "live"
        /\ row'[c].status = "pending" /\ row'[c].user = NoUser
        /\ \A d \in Codes \ {c} : row'[d] = row[d] /\ table'[d] = table[d]
        /\ UNCHANGED <<pc, call, outcome, session>>
    BY <1>3 DEF NewCode, TypeOK
  <2>2. \A d \in Codes : Redeemers(d)' = Redeemers(d) /\ Delivered(d)' = Delivered(d)
    BY <2>1 DEF Redeemers, Delivered, Polls
  <2>3. Phase(c) = "unissued" /\ Phase(c)' = "pending"
    BY <2>1 DEF Phase
  <2>4. row[c].user = NoUser
    BY <2>1 DEF GrantInv, Traced, UnderWay
  <2>5. \A d \in Codes \ {c} : Same(d)
    BY <2>1, <2>2 DEF Same
  <2>6. Promise!Move(c, {"unissued"}, "pending")
    BY <2>1, <2>2, <2>3, <2>4, <2>5, OneMoves
  <2> QED BY <2>6 DEF Promise!PromiseNext
<1>4. CASE Tick \/ UNCHANGED vars
  <2>1. \A d \in Codes : Same(d)
    BY <1>4 DEF Tick, vars, Same, Redeemers, Delivered, Polls
  <2> QED BY <2>1, AllSame
<1> QED BY <1>1, <1>2, <1>3, <1>4 DEF Next

\* The statement-level grant implements DevicePromise: a code is claimed once,
\* decided once, spent once, and a spent code delivers one session of its
\* holder.
THEOREM GrantKeepsPromise == Spec => KeepsPromise
<1>1. Init => Promise!PromiseInit
  <2>1. Init => \A c \in Codes : /\ Phase(c) = "unissued" /\ row[c].user = NoUser
                                 /\ Delivered(c) = {}
    BY DEF Init, Phase, Delivered, Polls, BlankRow
  <2> QED BY <2>1 DEF Promise!PromiseInit
<1> QED BY <1>1, StepKeepsPromise, TypeCorrect, GrantInvHolds, PTL
        DEF Spec, KeepsPromise, Promise!PromiseSpec

=============================================================================
