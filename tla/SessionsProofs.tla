--------------------------- MODULE SessionsProofs ---------------------------
(* Theorems about Sessions, for every value of its constants. *)
EXTENDS Sessions, TLAPS

\* The part of the type invariant that a handler's control flow touches.
LocalsOK ==
    /\ pc \in [Requests -> Statements \cup {"new", "done"}]
    /\ seen \in [Requests -> Users \cup {NoUser}]
    /\ write \in [Requests -> [expires : Expiry, updated : Time]]
    /\ todo \in [Requests -> SUBSET Tokens]
    /\ outcome \in [Requests -> Outcomes]

\* A step of p moves no other request.
OthersStay(p) == \A q \in Requests \ {p} : pc'[q] = pc[q]

LEMMA TimeFacts == 0 \in Time /\ 0 \in Expiry /\ \A n \in Time : n + ExpiresIn \in Expiry
  BY SessionsAssumption DEF Time, Expiry

\* Returning from a handler, or moving on within it, keeps the locals typed.
LEMMA FinishTyped ==
    ASSUME NEW p \in Requests, NEW a \in Outcomes, LocalsOK, Finish(p, a)
    PROVE  LocalsOK' /\ OthersStay(p)
  BY TimeFacts DEF Finish, LocalsOK, BlankWrite, OthersStay

LEMMA GotoTyped ==
    ASSUME NEW p \in Requests, NEW l \in Statements, LocalsOK, Goto(p, l)
    PROVE  /\ pc' \in [Requests -> Statements \cup {"new", "done"}]
           /\ outcome' \in [Requests -> Outcomes]
           /\ OthersStay(p)
  BY DEF Goto, LocalsOK, OthersStay

LEMMA RejectedTyped ==
    ASSUME NEW p \in Requests, NEW a \in Outcomes
    PROVE  Rejected(p, a) \in Outcomes
  BY DEF Rejected, Outcomes

LEMMA ReturnNoneTyped ==
    ASSUME NEW p \in Requests, LocalsOK, ReturnNone(p)
    PROVE  LocalsOK' /\ OthersStay(p)
<1>1. "ok" \in Outcomes /\ Rejected(p, "unauthenticated") \in Outcomes
  BY RejectedTyped DEF Outcomes
<1> QED BY <1>1, FinishTyped DEF ReturnNone

LEMMA ReturnSomeTyped ==
    ASSUME NEW p \in Requests, NEW u \in Users \cup {NoUser}, LocalsOK,
           ReturnSome(p, u)
    PROVE  LocalsOK' /\ OthersStay(p)
<1>1. "ok" \in Outcomes /\ "user" \in Statements /\ "delete_target" \in Statements
  BY DEF Outcomes, Statements
<1>2. CASE Finish(p, "ok")
  BY <1>1, <1>2, FinishTyped
<1>3. CASE ~ Finish(p, "ok")
  <2>1. \/ Goto(p, "user")
        \/ Goto(p, "delete_target")
    BY <1>3 DEF ReturnSome
  <2>2. /\ pc' \in [Requests -> Statements \cup {"new", "done"}]
        /\ outcome' \in [Requests -> Outcomes]
        /\ OthersStay(p)
    BY <2>1, <1>1, GotoTyped
  <2>3. /\ seen' = [seen EXCEPT ![p] = u] \/ seen' = [seen EXCEPT ![p] = NoUser]
        /\ write' = [write EXCEPT ![p] = BlankWrite]
        /\ todo' = todo
    BY <1>3 DEF ReturnSome
  <2> QED BY <2>2, <2>3, TimeFacts DEF LocalsOK, BlankWrite
<1> QED BY <1>2, <1>3

\* Deleting rows keeps the table typed.
LEMMA DeleteTyped ==
    ASSUME TypeOK, NEW S, DeleteRows(S)
    PROVE  /\ status' \in [Tokens -> {"unissued", "live", "gone"}]
           /\ row' \in [Tokens -> Row]
  BY DEF TypeOK, DeleteRows

\* A request that is at some statement looks up a real token.
LEMMA LookingTyped ==
    ASSUME TypeOK, NEW p \in Requests, pc[p] # "new"
    PROVE  Looking(p) \in Tokens /\ row[Looking(p)] \in Row
  BY DEF TypeOK, Looking, Call

\* A step that leaves the call alone and types the rest keeps the invariant.
LEMMA StepTyped ==
    ASSUME NEW p \in Requests, pc[p] # "new",
           TypeOK, LocalsOK', OthersStay(p), UNCHANGED <<now, call>>,
           status' \in [Tokens -> {"unissued", "live", "gone"}],
           row' \in [Tokens -> Row],
           me' \in [Requests -> Users \cup {NoUser}],
           snap' = snap,
           skipped' \in [Requests -> SUBSET Tokens],
           lastUse' \in [Tokens -> Time]
    PROVE  TypeOK'
<1>1. \A q \in Requests : pc'[q] # "new" =>
         call'[q].token \in Tokens /\ call'[q].target \in Tokens
  BY DEF TypeOK, OthersStay
<1>2. now' \in Time /\ call' \in [Requests -> Call]
      /\ snap' \in [Requests -> SUBSET Tokens]
  BY DEF TypeOK
<1> QED BY <1>1, <1>2 DEF TypeOK, LocalsOK

\* The type invariant: every request is at a known statement, holds values of
\* the right kind, and the clock stays within its bound.
THEOREM TypeCorrect == Spec => []TypeOK
<1>1. Init => TypeOK
  BY SessionsAssumption DEF Init, TypeOK, Time, Row, Expiry, BlankRow,
         BlankWrite, Call, AllOps, Outcomes
<1>2. TypeOK /\ [Next]_vars => TypeOK'
  <2> SUFFICES ASSUME TypeOK, [Next]_vars PROVE TypeOK'
    OBVIOUS
  <2>0. /\ LocalsOK
        /\ status \in [Tokens -> {"unissued", "live", "gone"}]
        /\ row \in [Tokens -> Row]
        /\ me \in [Requests -> Users \cup {NoUser}]
        /\ skipped \in [Requests -> SUBSET Tokens]
        /\ lastUse \in [Tokens -> Time]
    BY DEF TypeOK, LocalsOK
  <2> USE <2>0 DEF table, history
  <2>1. ASSUME NEW p \in Requests, NEW o \in AllOps, NEW t \in Tokens,
               NEW x \in Tokens, Begin(p, o, t, x)
        PROVE  TypeOK'
    <3>1. LocalsOK' /\ OthersStay(p)
      <4>1. CASE Finish(p, "not_allowed")
        BY <4>1, FinishTyped DEF Outcomes
      <4>2. CASE ~ Finish(p, "not_allowed")
        <5>1. Goto(p, "lookup") /\ UNCHANGED <<seen, write, todo>>
          BY <2>1, <4>2 DEF Begin
        <5> QED BY <5>1, GotoTyped DEF Statements, LocalsOK
      <4> QED BY <4>1, <4>2
    <3>2. call' = [call EXCEPT ![p] = [op |-> o, token |-> t, target |-> x,
                                       onTarget |-> FALSE]]
      BY <2>1 DEF Begin
    <3>3. call' \in [Requests -> Call] /\ snap' \in [Requests -> SUBSET Tokens]
      BY <2>1, <3>2 DEF Begin, TypeOK, Live, Call
    <3>4. \A q \in Requests : pc'[q] # "new" =>
             call'[q].token \in Tokens /\ call'[q].target \in Tokens
      <4>1. \A q \in Requests : q # p => pc'[q] = pc[q] /\ call'[q] = call[q]
        BY <2>1, <3>2 DEF Begin, Finish, Goto, LocalsOK, TypeOK
      <4>2. call'[p].token = t /\ call'[p].target = x
        BY <3>2 DEF TypeOK
      <4> QED BY <4>1, <4>2 DEF TypeOK
    <3> QED BY <2>1, <3>1, <3>3, <3>4 DEF Begin, TypeOK, LocalsOK
  <2>2. ASSUME NEW p \in Requests, Step(p) \/ StatementFails(p) PROVE TypeOK'
    <3> DEFINE t == Looking(p)
               r == row[t]
    <3> pc[p] # "new"
      BY <2>2 DEF Step, StatementFails, Lookup, Purge, RefreshFind, RefreshWrite,
                  Reread, LoadUser, DeleteOwn, DeleteTarget, DeleteAll, List,
                  DeleteEach
    <3>0. /\ pc[p] \in Statements => t \in Tokens /\ r \in Row
          /\ seen[p] \in Users \cup {NoUser}
          /\ {"purge", "refresh_find", "refresh_write", "reread", "lookup",
              "delete_own", "delete_all", "delete_each", "list"} \subseteq Statements
          /\ "ok" \in Outcomes /\ "error" \in Outcomes
      BY LookingTyped DEF TypeOK, Statements, Outcomes
    <3>1. CASE Lookup(p)
      <4>0. t \in Tokens /\ r \in Row /\ r.user \in Users \cup {NoUser}
        BY <3>0, <3>1 DEF Lookup, Statements, Row
      <4>1. lastUse' \in [Tokens -> Time]
        BY <3>1, <4>0 DEF Lookup, TypeOK
      <4>2. CASE ReturnNone(p)
        BY <3>1, <4>1, <4>2, ReturnNoneTyped, StepTyped DEF Lookup
      <4>3. CASE Goto(p, "purge") /\ UNCHANGED <<seen, write, todo, lastUse>>
        BY <3>1, <4>1, <4>3, <3>0, GotoTyped, StepTyped DEF Lookup, LocalsOK
      <4>4. CASE /\ Goto(p, "refresh_find")
                 /\ seen' = [seen EXCEPT ![p] = r.user]
                 /\ write' = [write EXCEPT ![p].expires = NewExpiry(t)]
                 /\ UNCHANGED todo
        <5>1. NewExpiry(t) \in Expiry
          BY TimeFacts DEF NewExpiry, TypeOK
        <5>2. write' \in [Requests -> [expires : Expiry, updated : Time]]
          BY <4>4, <5>1 DEF LocalsOK
        <5>3. LocalsOK' /\ OthersStay(p)
          BY <4>0, <4>4, <5>2, <3>0, GotoTyped DEF LocalsOK
        <5> QED BY <3>1, <4>1, <5>3, StepTyped DEF Lookup
      <4>5. CASE ReturnSome(p, r.user)
        BY <3>1, <4>0, <4>1, <4>5, ReturnSomeTyped, StepTyped DEF Lookup
      <4> QED BY <3>1, <4>2, <4>3, <4>4, <4>5 DEF Lookup
    <3>2. CASE Purge(p)
      BY <3>2, ReturnNoneTyped, DeleteTyped, StepTyped DEF Purge
    <3>3. CASE RefreshFind(p)
      <4>1. CASE ReturnSome(p, seen[p])
        BY <3>3, <4>1, <3>0, ReturnSomeTyped, StepTyped DEF RefreshFind
      <4>2. CASE /\ Goto(p, "refresh_write")
                 /\ write' = [write EXCEPT ![p].updated = now]
                 /\ UNCHANGED <<seen, todo>>
        <5>1. write' \in [Requests -> [expires : Expiry, updated : Time]]
          BY <4>2 DEF TypeOK
        <5>2. LocalsOK' /\ OthersStay(p)
          BY <4>2, <5>1, <3>0, GotoTyped DEF LocalsOK
        <5> QED BY <3>3, <5>2, StepTyped DEF RefreshFind
      <4> QED BY <3>3, <4>1, <4>2 DEF RefreshFind
    <3>4. CASE RefreshWrite(p)
      <4>1. row' \in [Tokens -> Row] /\ status' = status
        BY <3>4, <3>0 DEF RefreshWrite, UpdateExpiry, LocalsOK, Row, Statements
      <4>2. CASE ReturnSome(p, seen[p])
        BY <3>4, <4>1, <4>2, <3>0, ReturnSomeTyped, StepTyped DEF RefreshWrite
      <4>3. CASE Goto(p, "reread") /\ UNCHANGED <<seen, write, todo>>
        <5>1. LocalsOK' /\ OthersStay(p)
          BY <4>3, <3>0, GotoTyped DEF LocalsOK
        <5> QED BY <3>4, <4>1, <5>1, StepTyped DEF RefreshWrite
      <4> QED BY <3>4, <4>2, <4>3 DEF RefreshWrite
    <3>5. CASE Reread(p)
      <4>1. r.user \in Users \cup {NoUser}
        BY <3>5, <3>0 DEF Reread, Statements, Row
      <4>2. ReturnSome(p, r.user) \/ ReturnSome(p, seen[p])
        BY <3>5 DEF Reread
      <4>3. LocalsOK' /\ OthersStay(p)
        BY <4>1, <4>2, <3>0, ReturnSomeTyped
      <4> QED BY <3>5, <4>3, StepTyped DEF Reread
    <3>6. CASE LoadUser(p)
      <4>1. me' \in [Requests -> Users \cup {NoUser}]
        BY <3>6, <3>0 DEF LoadUser
      <4>2. CASE Finish(p, "ok") /\ UNCHANGED call
        BY <3>6, <4>1, <4>2, <3>0, FinishTyped, StepTyped DEF LoadUser
      <4>3. CASE /\ Goto(p, "lookup")
                 /\ call' = [call EXCEPT ![p].onTarget = TRUE]
                 /\ UNCHANGED <<seen, write, todo>>
        <5>0. call[p] \in Call
          BY DEF TypeOK
        <5>1. call' \in [Requests -> Call]
          <6>1. [call[p] EXCEPT !.onTarget = TRUE] \in Call
            BY <5>0 DEF Call
          <6> QED BY <4>3, <6>1 DEF TypeOK
        <5>2. \A q \in Requests : /\ call'[q].token = call[q].token
                                  /\ call'[q].target = call[q].target
          BY <4>3, <5>0 DEF TypeOK, Call
        <5>3. LocalsOK' /\ OthersStay(p)
          BY <4>3, <3>0, GotoTyped DEF LocalsOK
        <5>4. \A q \in Requests : pc'[q] # "new" =>
                 call'[q].token \in Tokens /\ call'[q].target \in Tokens
          BY <5>2, <5>3 DEF TypeOK, OthersStay
        <5> QED BY <3>6, <4>1, <5>1, <5>3, <5>4 DEF LoadUser, TypeOK, LocalsOK
      <4>4. CASE /\ \E l \in {"delete_own", "delete_all", "list"} : Goto(p, l)
                 /\ UNCHANGED <<call, seen, write, todo>>
        <5>1. LocalsOK' /\ OthersStay(p)
          BY <4>4, <3>0, GotoTyped DEF LocalsOK
        <5> QED BY <3>6, <4>1, <4>4, <5>1, StepTyped DEF LoadUser
      <4> QED BY <3>6, <4>2, <4>3, <4>4 DEF LoadUser
    <3>7. CASE DeleteOwn(p) \/ DeleteTarget(p) \/ DeleteAll(p)
      <4>1. LocalsOK' /\ OthersStay(p)
        BY <3>7, <3>0, FinishTyped DEF DeleteOwn, DeleteTarget, DeleteAll
      <4> QED BY <3>7, <4>1, DeleteTyped, StepTyped
              DEF DeleteOwn, DeleteTarget, DeleteAll
    <3>8. CASE List(p)
      <4> DEFINE listed == {x \in LiveOf(me[p]) : Listable(x)}
                 others == listed \ {call[p].token}
      <4>0. LiveOf(me[p]) \subseteq Tokens
        BY DEF LiveOf, Live
      <4>1. /\ skipped' \in [Requests -> SUBSET Tokens]
            /\ \/ Finish(p, "ok")
               \/ /\ Goto(p, "delete_each")
                  /\ todo' = [todo EXCEPT ![p] = others]
                  /\ UNCHANGED <<seen, write>>
        BY <3>8, <4>0 DEF List
      <4>2. ASSUME Finish(p, "ok") PROVE LocalsOK' /\ OthersStay(p)
        BY <4>2, <3>0, FinishTyped
      <4>3. ASSUME /\ Goto(p, "delete_each")
                   /\ todo' = [todo EXCEPT ![p] = others]
                   /\ UNCHANGED <<seen, write>>
            PROVE  LocalsOK' /\ OthersStay(p)
        <5>1. others \subseteq Tokens
          BY <4>0
        <5> HIDE DEF others
        <5>2. todo' \in [Requests -> SUBSET Tokens]
          BY <4>3, <5>1 DEF LocalsOK
        <5>3. /\ pc' \in [Requests -> Statements \cup {"new", "done"}]
              /\ outcome' \in [Requests -> Outcomes]
              /\ OthersStay(p)
          BY <4>3, <3>0, GotoTyped
        <5> QED BY <4>3, <5>2, <5>3 DEF LocalsOK
      <4>4. LocalsOK' /\ OthersStay(p)
        BY <4>1, <4>2, <4>3
      <4>5. UNCHANGED <<now, status, row, call, me, snap, lastUse>>
        BY <3>8 DEF List
      <4> QED BY <4>1, <4>4, <4>5, StepTyped
    <3>9. CASE DeleteEach(p)
      <4>1. PICK x \in todo[p] :
               /\ DeleteRows({x})
               /\ \/ Finish(p, "ok")
                  \/ /\ Goto(p, "delete_each")
                     /\ todo' = [todo EXCEPT ![p] = Remaining(p, x)]
                     /\ UNCHANGED <<seen, write>>
        BY <3>9 DEF DeleteEach
      <4>2. Remaining(p, x) \subseteq Tokens
        BY DEF Remaining, LocalsOK
      <4>3. ASSUME Finish(p, "ok") PROVE LocalsOK' /\ OthersStay(p)
        BY <4>3, <3>0, FinishTyped
      <4>4. ASSUME /\ Goto(p, "delete_each")
                   /\ todo' = [todo EXCEPT ![p] = Remaining(p, x)]
                   /\ UNCHANGED <<seen, write>>
            PROVE  LocalsOK' /\ OthersStay(p)
        <5>1. todo' \in [Requests -> SUBSET Tokens]
          BY <4>2, <4>4 DEF LocalsOK
        <5>2. /\ pc' \in [Requests -> Statements \cup {"new", "done"}]
              /\ outcome' \in [Requests -> Outcomes]
              /\ OthersStay(p)
          BY <4>4, <3>0, GotoTyped
        <5> QED BY <4>4, <5>1, <5>2 DEF LocalsOK
      <4>5. LocalsOK' /\ OthersStay(p)
        BY <4>1, <4>3, <4>4
      <4> QED BY <3>9, <4>1, <4>5, DeleteTyped, StepTyped DEF DeleteEach
    <3>10. CASE StatementFails(p)
      <4>1. LocalsOK' /\ OthersStay(p)
        BY <3>10, <3>0, ReturnNoneTyped, ReturnSomeTyped, FinishTyped, RejectedTyped
           DEF StatementFails, DeleteFailed
      <4> QED BY <3>10, <4>1, StepTyped DEF StatementFails
    <3> QED BY <2>2, <3>1, <3>2, <3>3, <3>4, <3>5, <3>6, <3>7, <3>8, <3>9, <3>10
            DEF Step
  <2>3. ASSUME NEW t \in Tokens, NEW u \in Users, Issue(t, u) PROVE TypeOK'
    <3>1. NewExpiry(t) \in Expiry /\ now \in Time
      BY TimeFacts DEF NewExpiry, TypeOK
    <3> QED BY <2>3, <3>1 DEF Issue, CreateSession, TypeOK, Row
  <2>4. CASE CleanupExpired
    BY <2>4, DeleteTyped DEF CleanupExpired, TypeOK
  <2>5. CASE Tick
    BY <2>5, SessionsAssumption DEF Tick, TypeOK, Time
  <2>6. CASE UNCHANGED vars
    BY <2>6 DEF vars, TypeOK
  <2> QED BY <2>1, <2>2, <2>3, <2>4, <2>5, <2>6 DEF Next
<1> QED BY <1>1, <1>2, PTL DEF Spec

-----------------------------------------------------------------------------
(* Revocation is final. *)

\* A row's owner never changes, and a row once inserted is never un-issued.
OwnersStay ==
    \A t \in Tokens : status[t] # "unissued" =>
        /\ status'[t] # "unissued"
        /\ row'[t].user = row[t].user
        /\ status[t] = "gone" => status'[t] = "gone"

LEMMA DeleteKeepsOwners ==
    ASSUME TypeOK, NEW S, DeleteRows(S)
    PROVE  OwnersStay
  BY DEF DeleteRows, OwnersStay, TypeOK

LEMMA StepKeepsOwners ==
    ASSUME TypeOK, [Next]_vars
    PROVE  OwnersStay
<1> USE DEF table
<1>1. ASSUME UNCHANGED table PROVE OwnersStay
  BY <1>1 DEF OwnersStay
<1>2. ASSUME NEW p \in Requests, Step(p) PROVE OwnersStay
  <2>1. CASE UNCHANGED table
    BY <2>1, <1>1
  <2>2. CASE Purge(p) \/ DeleteOwn(p) \/ DeleteTarget(p) \/ DeleteAll(p) \/ DeleteEach(p)
    BY <2>2, DeleteKeepsOwners DEF Purge, DeleteOwn, DeleteTarget, DeleteAll, DeleteEach
  <2>3. CASE RefreshWrite(p)
    <3>1. Looking(p) \in Tokens
      BY <2>3, LookingTyped DEF RefreshWrite
    <3> QED BY <2>3, <3>1 DEF RefreshWrite, UpdateExpiry, OwnersStay, TypeOK, Row
  <2> QED BY <1>2, <2>1, <2>2, <2>3
          DEF Step, Lookup, RefreshFind, Reread, LoadUser, List
<1>3. ASSUME NEW t \in Tokens, NEW u \in Users, Issue(t, u) PROVE OwnersStay
  BY <1>3 DEF Issue, CreateSession, OwnersStay, TypeOK
<1>4. CASE CleanupExpired
  BY <1>4, DeleteKeepsOwners DEF CleanupExpired
<1> QED BY <1>1, <1>2, <1>3, <1>4
        DEF Next, Begin, StatementFails, Tick, vars

\* A revoked token never gets its row back, in whatever state a concurrent
\* refresh is (update_session_expiry updates by id and never inserts).
THEOREM RevokedForGood == Spec => NoResurrection
<1>1. TypeOK /\ [Next]_vars =>
        [\A t \in Tokens : status[t] = "gone" => status'[t] = "gone"]_vars
  BY StepKeepsOwners DEF OwnersStay
<1> QED BY <1>1, TypeCorrect, PTL DEF Spec, NoResurrection

\* What a request p knows about the token it presented.  Before the lookup:
\* the token had been issued, and was live when p began or is gone for good.
\* Once get_session has read a row for it, and after require_session: it was
\* live when p began, and the owner p read is the row's.
Presented(p) ==
    pc[p] # "new" =>
        /\ status[call[p].token] # "unissued"
        /\ call[p].token \in snap[p] \/ status[call[p].token] = "gone"

Resolved(p) ==
    ~ call[p].onTarget /\ pc[p] \in {"refresh_find", "refresh_write", "reread", "user"} =>
        /\ call[p].token \in snap[p]
        /\ seen[p] = row[call[p].token].user

OnlyPresentedReachesUser(p) == pc[p] = "user" => ~ call[p].onTarget

Granted(p) ==
    me[p] # NoUser =>
        /\ pc[p] # "new"
        /\ call[p].token \in snap[p]
        /\ row[call[p].token].user = me[p]

AuthAt(p) == Presented(p) /\ Resolved(p) /\ OnlyPresentedReachesUser(p) /\ Granted(p)

AuthInv == \A p \in Requests : AuthAt(p)

\* What a step of p leaves of another request q.
Frame(q) ==
    /\ pc'[q] = pc[q]
    /\ call'[q] = call[q]
    /\ me'[q] = me[q]
    /\ seen'[q] = seen[q]
    /\ write'[q] = write[q]
    /\ todo'[q] = todo[q]
    /\ outcome'[q] = outcome[q]
    /\ snap'[q] = snap[q]
    /\ skipped'[q] = skipped[q]

LEMMA FrameKeepsAuth ==
    ASSUME TypeOK, OwnersStay, NEW q \in Requests, Frame(q), AuthAt(q)
    PROVE  AuthAt(q)'
<1>1. pc[q] # "new" => call[q].token \in Tokens
  BY DEF TypeOK
<1> QED BY <1>1 DEF OwnersStay, Frame, AuthAt, Presented, Resolved,
                    OnlyPresentedReachesUser, Granted

LEMMA OthersFramed ==
    ASSUME TypeOK, NEW p \in Requests, Step(p) \/ StatementFails(p),
           NEW q \in Requests \ {p}
    PROVE  Frame(q)
<1> USE DEF TypeOK, Frame, Finish, Goto, ReturnNone, ReturnSome, history
<1>1. CASE Lookup(p)
  BY <1>1 DEF Lookup
<1>2. CASE Purge(p) \/ RefreshFind(p) \/ RefreshWrite(p) \/ Reread(p)
  BY <1>2 DEF Purge, RefreshFind, RefreshWrite, Reread
<1>3. CASE LoadUser(p)
  BY <1>3 DEF LoadUser
<1>4. CASE DeleteOwn(p) \/ DeleteTarget(p) \/ DeleteAll(p) \/ DeleteEach(p)
  <2>1. CASE DeleteOwn(p)
    BY <2>1 DEF DeleteOwn
  <2>2. CASE DeleteTarget(p)
    BY <2>2 DEF DeleteTarget
  <2>3. CASE DeleteAll(p)
    BY <2>3 DEF DeleteAll
  <2>4. CASE DeleteEach(p)
    BY <2>4 DEF DeleteEach
  <2> QED BY <1>4, <2>1, <2>2, <2>3, <2>4
<1>5. CASE List(p)
  BY <1>5 DEF List
<1>6. CASE StatementFails(p)
  BY <1>6 DEF StatementFails
<1> QED BY <1>1, <1>2, <1>3, <1>4, <1>5, <1>6 DEF Step

\* How get_session's two ways of returning move p.
LEMMA ReturnNoneMoves ==
    ASSUME TypeOK, NEW p \in Requests, ReturnNone(p)
    PROVE  pc'[p] = "done"
  BY DEF TypeOK, ReturnNone, Finish

LEMMA ReturnSomeMoves ==
    ASSUME TypeOK, NEW p \in Requests, NEW u, ReturnSome(p, u)
    PROVE  \/ pc'[p] = "user" /\ seen'[p] = u /\ ~ call[p].onTarget
           \/ pc'[p] \in {"delete_target", "done"}
  BY DEF TypeOK, ReturnSome, Finish, Goto

\* A step of p that keeps its call and its user, and ends nowhere that
\* AuthAt says something new about.
LEMMA QuietStepKeepsAuth ==
    ASSUME TypeOK, OwnersStay, NEW p \in Requests, AuthAt(p),
           pc[p] # "new", UNCHANGED <<call, me, snap>>,
           pc'[p] \notin {"new", "refresh_find", "refresh_write", "reread", "user"}
    PROVE  AuthAt(p)'
<1>1. call[p].token \in Tokens
  BY DEF TypeOK
<1> QED BY <1>1 DEF OwnersStay, AuthAt, Presented, Resolved,
                    OnlyPresentedReachesUser, Granted

\* A step of p that ends with the owner of a row it resolved.
LEMMA ResolvingStepKeepsAuth ==
    ASSUME TypeOK, OwnersStay, NEW p \in Requests, AuthAt(p),
           pc[p] # "new", UNCHANGED <<call, me, snap>>,
           pc'[p] \in {"refresh_find", "refresh_write", "reread", "user"},
           pc'[p] = "user" => ~ call[p].onTarget,
           ~ call[p].onTarget => /\ call[p].token \in snap[p]
                                 /\ seen'[p] = row[call[p].token].user
    PROVE  AuthAt(p)'
<1>1. call[p].token \in Tokens
  BY DEF TypeOK
<1> QED BY <1>1 DEF OwnersStay, AuthAt, Presented, Resolved,
                    OnlyPresentedReachesUser, Granted

LEMMA ActorKeepsAuth ==
    ASSUME TypeOK, OwnersStay, NEW p \in Requests, AuthAt(p),
           Step(p) \/ StatementFails(p)
    PROVE  AuthAt(p)'
<1> USE DEF table, history
<1>1. CASE Lookup(p)
  <2> DEFINE t == Looking(p)
  <2>0. pc[p] # "new" /\ UNCHANGED <<call, me, snap, row>>
    BY <1>1 DEF Lookup
  <2>1. CASE ReturnNone(p)
    BY <2>0, <2>1, ReturnNoneMoves, QuietStepKeepsAuth
  <2>2. CASE Goto(p, "purge")
    BY <2>0, <2>2, QuietStepKeepsAuth DEF Goto, TypeOK
  <2>3. status[t] = "live" /\ ~ call[p].onTarget =>
           t = call[p].token /\ t \in snap[p]
    BY <2>0 DEF AuthAt, Presented, Looking
  <2>4. CASE /\ status[t] = "live"
             /\ Goto(p, "refresh_find")
             /\ seen' = [seen EXCEPT ![p] = row[t].user]
    <3>1. pc'[p] = "refresh_find" /\ seen'[p] = row[t].user
      BY <2>4 DEF Goto, TypeOK
    <3> QED BY <2>0, <2>3, <2>4, <3>1, ResolvingStepKeepsAuth
  <2>5. CASE status[t] = "live" /\ ReturnSome(p, row[t].user)
    BY <2>0, <2>3, <2>5, ReturnSomeMoves, QuietStepKeepsAuth, ResolvingStepKeepsAuth
  <2> QED BY <1>1, <2>1, <2>2, <2>4, <2>5 DEF Lookup
<1>2. CASE Purge(p)
  BY <1>2, ReturnNoneMoves, QuietStepKeepsAuth DEF Purge
<1>3. CASE \/ RefreshFind(p) \/ RefreshWrite(p) \/ Reread(p)
           \/ /\ StatementFails(p)
              /\ pc[p] \in {"refresh_find", "refresh_write", "reread"}
  <2>0. /\ pc[p] \in {"refresh_find", "refresh_write", "reread"}
        /\ UNCHANGED <<call, me, snap>>
    BY <1>3 DEF RefreshFind, RefreshWrite, Reread, StatementFails
  <2>1. ~ call[p].onTarget => /\ call[p].token \in snap[p]
                              /\ seen[p] = row[call[p].token].user
    BY <2>0 DEF AuthAt, Resolved
  <2>2. CASE \E l \in {"refresh_write", "reread"} : Goto(p, l) /\ UNCHANGED seen
    <3>1. pc'[p] \in {"refresh_write", "reread"} /\ seen' = seen
      BY <2>2 DEF Goto, TypeOK
    <3> QED BY <2>0, <2>1, <3>1, ResolvingStepKeepsAuth
  <2>3. CASE \E u \in {seen[p], row[Looking(p)].user} : ReturnSome(p, u)
    <3>1. PICK u \in {seen[p], row[Looking(p)].user} : ReturnSome(p, u)
      BY <2>3
    <3>2. ~ call[p].onTarget => u = row[call[p].token].user
      BY <2>1 DEF Looking
    <3> QED BY <2>0, <2>1, <3>1, <3>2, ReturnSomeMoves, QuietStepKeepsAuth,
               ResolvingStepKeepsAuth
  <2> QED BY <1>3, <2>2, <2>3 DEF RefreshFind, RefreshWrite, Reread, StatementFails
<1>4. CASE LoadUser(p)
  <2>1. /\ pc[p] = "user" /\ ~ call[p].onTarget
        /\ call[p].token \in snap[p] /\ call[p].token \in Tokens
        /\ seen[p] = row[call[p].token].user
        /\ status[call[p].token] # "unissued"
    BY <1>4 DEF LoadUser, AuthAt, Resolved, OnlyPresentedReachesUser, Presented, TypeOK
  <2>2. /\ UNCHANGED <<snap, row, status>>
        /\ me'[p] = seen[p]
        /\ call'[p].token = call[p].token
        /\ pc'[p] \in {"done", "lookup", "delete_own", "delete_all", "list"}
    BY <1>4 DEF LoadUser, TypeOK, Call, Finish, Goto
  <2> QED BY <2>1, <2>2 DEF AuthAt, Presented, Resolved, OnlyPresentedReachesUser, Granted
<1>5. CASE DeleteOwn(p) \/ DeleteTarget(p) \/ DeleteAll(p) \/ List(p) \/ DeleteEach(p)
  <2>1. /\ pc[p] # "new" /\ UNCHANGED <<call, me, snap>>
        /\ pc'[p] \in {"done", "delete_each"}
    <3>1. CASE DeleteOwn(p) \/ DeleteTarget(p) \/ DeleteAll(p)
      BY <3>1 DEF DeleteOwn, DeleteTarget, DeleteAll, Finish, TypeOK
    <3>2. CASE List(p)
      BY <3>2 DEF List, Finish, Goto, TypeOK
    <3>3. CASE DeleteEach(p)
      BY <3>3 DEF DeleteEach, Finish, Goto, TypeOK
    <3> QED BY <1>5, <3>1, <3>2, <3>3
  <2> QED BY <2>1, QuietStepKeepsAuth
<1>6. CASE StatementFails(p) /\ pc[p] \notin {"refresh_find", "refresh_write", "reread"}
  <2>1. /\ pc[p] # "new" /\ UNCHANGED <<call, me, snap>>
        /\ pc'[p] = "done"
    BY <1>6, ReturnNoneMoves DEF StatementFails, Finish, TypeOK
  <2> QED BY <2>1, QuietStepKeepsAuth
<1> QED BY <1>1, <1>2, <1>3, <1>4, <1>5, <1>6 DEF Step

LEMMA AuthInductive == TypeOK /\ AuthInv /\ [Next]_vars => AuthInv'
<1> SUFFICES ASSUME TypeOK, AuthInv, [Next]_vars, NEW q \in Requests
             PROVE  AuthAt(q)'
  BY DEF AuthInv
<1>0. OwnersStay /\ AuthAt(q)
  BY StepKeepsOwners DEF AuthInv
<1>1. ASSUME NEW p \in Requests, NEW o \in AllOps, NEW t \in Tokens,
             NEW x \in Tokens, Begin(p, o, t, x)
      PROVE  AuthAt(q)'
  <2>1. CASE q # p
    <3>1. Frame(q)
      BY <1>1, <2>1 DEF Begin, Frame, Finish, Goto, TypeOK
    <3> QED BY <1>0, <3>1, FrameKeepsAuth
  <2>2. CASE q = p
    <3>1. /\ call'[p].token = t /\ snap'[p] = Live
          /\ UNCHANGED <<status, me>> /\ me[p] = NoUser
          /\ pc'[p] \in {"lookup", "done"}
          /\ status[t] # "unissued"
      BY <1>1, <1>0, <2>2 DEF Begin, Finish, Goto, TypeOK, AuthAt, Granted, table
    <3>2. t \in Live \/ status[t] = "gone"
      BY <3>1 DEF Live, TypeOK
    <3> QED BY <2>2, <3>1, <3>2 DEF AuthAt, Presented, Resolved,
               OnlyPresentedReachesUser, Granted
  <2> QED BY <2>1, <2>2
<1>2. ASSUME NEW p \in Requests, Step(p) \/ StatementFails(p)
      PROVE  AuthAt(q)'
  BY <1>0, <1>2, OthersFramed, FrameKeepsAuth, ActorKeepsAuth
<1>3. CASE \/ \E t \in Tokens, u \in Users : Issue(t, u)
           \/ CleanupExpired \/ Tick \/ UNCHANGED vars
  <2>1. Frame(q)
    BY <1>3 DEF Issue, CleanupExpired, Tick, vars, Frame, history
  <2> QED BY <1>0, <2>1, FrameKeepsAuth
<1> QED BY <1>1, <1>2, <1>3 DEF Next

\* A request is authenticated only by a token that was live when the request
\* began, as that session's owner: a finished revocation is never undone by a
\* refresh that was in flight.
THEOREM RevocationIsFinal == Spec => []AuthenticatedWasLive
<1>1. Init => AuthInv
  BY DEF Init, AuthInv, AuthAt, Presented, Resolved, OnlyPresentedReachesUser, Granted
<1>2. AuthInv => AuthenticatedWasLive
  BY DEF AuthInv, AuthAt, Granted, AuthenticatedWasLive
<1> QED BY <1>1, <1>2, AuthInductive, TypeCorrect, PTL DEF Spec

-----------------------------------------------------------------------------
(* Idle sessions die.                                                      *)

\* The clock is past every use, and the expiry a refresh is about to write
\* counts from the use it found, or from an earlier one than the last.
UsedBefore == \A t \in Tokens : lastUse[t] <= now

IdleAt(p) ==
    pc[p] \in {"refresh_find", "refresh_write"} =>
        write[p].expires <= lastUse[Looking(p)] + ExpiresIn

IdleInv == UsedBefore /\ IdleLimit /\ \A p \in Requests : IdleAt(p)

\* Uses and the clock only move forward.
UsesAdvance == \A t \in Tokens : lastUse'[t] >= lastUse[t]

LEMMA IntegersOK ==
    ASSUME TypeOK
    PROVE  /\ now \in Int /\ ExpiresIn \in Int
           /\ \A t \in Tokens : lastUse[t] \in Int /\ row[t].expires \in Int
           /\ \A p \in Requests : write[p].expires \in Int
<1>1. Time \subseteq Int /\ Expiry \subseteq Int
  BY DEF Time, Expiry
<1>2. now \in Int /\ ExpiresIn \in Int
  BY <1>1, SessionsAssumption DEF TypeOK
<1>3. ASSUME NEW t \in Tokens PROVE lastUse[t] \in Int /\ row[t].expires \in Int
  BY <1>1 DEF TypeOK, Row
<1>4. ASSUME NEW p \in Requests PROVE write[p].expires \in Int
  BY <1>1 DEF TypeOK
<1> QED BY <1>2, <1>3, <1>4

\* What leaves a request at its refresh leaves it within the limit.
LEMMA FrameKeepsIdle ==
    ASSUME TypeOK, TypeOK', NEW q \in Requests, IdleAt(q), UsesAdvance,
           pc'[q] = pc[q], call'[q] = call[q],
           pc[q] # "new" => write'[q].expires = write[q].expires
    PROVE  IdleAt(q)'
<1> SUFFICES ASSUME pc[q] \in {"refresh_find", "refresh_write"}
             PROVE  write[q].expires <= lastUse'[Looking(q)] + ExpiresIn
  BY DEF IdleAt, Looking
<1>1. Looking(q) \in Tokens
  BY LookingTyped
<1>2. /\ write[q].expires \in Int /\ ExpiresIn \in Int
      /\ lastUse[Looking(q)] \in Int /\ lastUse'[Looking(q)] \in Int
  BY <1>1, IntegersOK DEF TypeOK, Time
<1> QED BY <1>1, <1>2 DEF IdleAt, UsesAdvance

\* A step that writes no expiry and uses no session keeps the limit.
LEMMA DeletionKeepsLimit ==
    ASSUME TypeOK, IdleLimit, UNCHANGED lastUse,
           \A t \in Tokens : status'[t] = "live" =>
               status[t] = "live" /\ row'[t].expires = row[t].expires
    PROVE  IdleLimit'
  BY DEF IdleLimit, Live

LEMMA IdleStep ==
    ASSUME TypeOK, TypeOK', IdleInv, NEW p \in Requests,
           Step(p) \/ StatementFails(p)
    PROVE  UsedBefore' /\ IdleLimit' /\ IdleAt(p)' /\ UsesAdvance
<1> USE DEF table, history
<1>0. UsedBefore /\ IdleLimit /\ IdleAt(p)
  BY DEF IdleInv
<1>1. CASE Lookup(p)
  <2> DEFINE t == Looking(p)
  <2>0. t \in Tokens
    BY <1>1, LookingTyped DEF Lookup
  <2>1. UNCHANGED <<now, status, row, call>>
    BY <1>1 DEF Lookup
  <2>2. lastUse' = lastUse \/ lastUse' = [lastUse EXCEPT ![t] = now]
    BY <1>1 DEF Lookup
  <2> HIDE DEF t
  <2>3. UsedBefore' /\ UsesAdvance
    <3>1. ASSUME NEW x \in Tokens PROVE lastUse'[x] = lastUse[x] \/ lastUse'[x] = now
      BY <2>0, <2>2 DEF TypeOK
    <3>2. now \in Int /\ \A x \in Tokens : lastUse[x] \in Int
      BY IntegersOK
    <3> QED BY <1>0, <2>1, <3>1, <3>2 DEF UsedBefore, UsesAdvance
  <2>4. IdleLimit'
    <3> SUFFICES ASSUME NEW x \in Tokens, status[x] = "live"
                 PROVE  row[x].expires <= lastUse'[x] + ExpiresIn
      BY <2>1 DEF IdleLimit, Live
    <3>1. row[x].expires <= lastUse[x] + ExpiresIn /\ lastUse'[x] >= lastUse[x]
      BY <1>0, <2>3 DEF IdleLimit, Live, UsesAdvance
    <3>2. lastUse'[x] \in Int
      BY DEF TypeOK, Time
    <3> QED BY <3>1, <3>2, IntegersOK
  <2>5. IdleAt(p)'
    <3>1. CASE pc'[p] \notin {"refresh_find", "refresh_write"}
      BY <3>1 DEF IdleAt
    <3>2. CASE pc'[p] \in {"refresh_find", "refresh_write"}
      <4>1. /\ lastUse' = [lastUse EXCEPT ![t] = now]
            /\ write' = [write EXCEPT ![p].expires = NewExpiry(t)]
        <5>1. ~ ReturnNone(p) /\ ~ ReturnSome(p, row[t].user) /\ ~ Goto(p, "purge")
          BY <3>2, ReturnNoneMoves, ReturnSomeMoves DEF Goto, TypeOK
        <5> QED BY <1>1, <5>1 DEF Lookup, t
      <4>2. write'[p].expires = now + ExpiresIn /\ lastUse'[t] = now
        BY <2>0, <4>1 DEF NewExpiry, TypeOK
      <4>3. Looking(p)' = t
        BY <2>1 DEF Looking, t
      <4> QED BY <4>2, <4>3, IntegersOK DEF IdleAt
    <3> QED BY <3>1, <3>2
  <2> QED BY <2>3, <2>4, <2>5
<1>2. CASE RefreshFind(p)
  <2>1. UNCHANGED <<now, status, row, call, lastUse>>
    BY <1>2 DEF RefreshFind
  <2>2. UsesAdvance
    BY <2>1, IntegersOK DEF UsesAdvance
  <2>3. CASE pc'[p] \notin {"refresh_find", "refresh_write"}
    BY <1>0, <2>1, <2>2, <2>3 DEF IdleAt, UsedBefore, IdleLimit, Live
  <2>4. CASE pc'[p] \in {"refresh_find", "refresh_write"}
    <3>1. write' = [write EXCEPT ![p].updated = now]
      BY <1>2, <2>4, ReturnSomeMoves DEF RefreshFind
    <3>2. write'[p].expires = write[p].expires
      BY <3>1 DEF TypeOK
    <3>3. Looking(p)' = Looking(p)
      BY <2>1 DEF Looking
    <3>4. IdleAt(p)'
      BY <1>0, <1>2, <2>1, <3>2, <3>3 DEF IdleAt, RefreshFind
    <3> QED BY <1>0, <2>1, <2>2, <3>4 DEF UsedBefore, IdleLimit, Live
  <2> QED BY <2>3, <2>4
<1>3. CASE RefreshWrite(p)
  <2>0. Looking(p) \in Tokens
    BY <1>3, LookingTyped DEF RefreshWrite
  <2>1. UNCHANGED <<now, status, call, lastUse>>
    BY <1>3 DEF RefreshWrite, UpdateExpiry
  <2>2. pc'[p] \notin {"refresh_find", "refresh_write"}
    BY <1>3, ReturnSomeMoves DEF RefreshWrite, Goto, TypeOK
  <2>3. \A x \in Tokens : \/ row'[x].expires = row[x].expires
                          \/ x = Looking(p) /\ row'[x].expires = write[p].expires
    BY <1>3, <2>0 DEF RefreshWrite, UpdateExpiry, TypeOK, Row
  <2>4. write[p].expires <= lastUse[Looking(p)] + ExpiresIn
    BY <1>0, <1>3 DEF IdleAt, RefreshWrite
  <2>5. IdleLimit'
    BY <1>0, <2>1, <2>3, <2>4 DEF IdleLimit, Live
  <2>6. UsesAdvance
    BY <2>1, IntegersOK DEF UsesAdvance
  <2> QED BY <1>0, <2>1, <2>2, <2>5, <2>6 DEF UsedBefore, IdleAt
<1>4. CASE ~ Lookup(p) /\ ~ RefreshFind(p) /\ ~ RefreshWrite(p)
  <2>1. UNCHANGED <<now, lastUse>>
    BY <1>4 DEF Step, StatementFails, Purge, Reread, LoadUser, DeleteOwn, DeleteTarget,
                DeleteAll, List, DeleteEach
  <2>2. UNCHANGED table \/ \E S : DeleteRows(S)
    BY <1>4 DEF Step, StatementFails, Purge, Reread, LoadUser, DeleteOwn, DeleteTarget,
                DeleteAll, List, DeleteEach
  <2>3. IdleLimit'
    BY <1>0, <2>1, <2>2, DeletionKeepsLimit DEF DeleteRows
  <2>4. pc'[p] \notin {"refresh_find", "refresh_write"}
    <3>1. CASE Purge(p)
      BY <3>1, ReturnNoneMoves DEF Purge
    <3>2. CASE Reread(p)
      BY <3>2, ReturnSomeMoves DEF Reread
    <3>3. CASE \/ LoadUser(p) \/ DeleteOwn(p) \/ DeleteTarget(p) \/ DeleteAll(p)
               \/ List(p) \/ DeleteEach(p)
      <4>1. CASE LoadUser(p)
        BY <4>1 DEF LoadUser, Goto, Finish, TypeOK
      <4>2. CASE DeleteOwn(p) \/ DeleteTarget(p) \/ DeleteAll(p)
        BY <4>2 DEF DeleteOwn, DeleteTarget, DeleteAll, Finish, TypeOK
      <4>3. CASE List(p)
        BY <4>3 DEF List, Goto, Finish, TypeOK
      <4>4. CASE DeleteEach(p)
        BY <4>4 DEF DeleteEach, Goto, Finish, TypeOK
      <4> QED BY <3>3, <4>1, <4>2, <4>3, <4>4
    <3>4. CASE StatementFails(p)
      BY <3>4, ReturnNoneMoves, ReturnSomeMoves DEF StatementFails, Finish, TypeOK
    <3> QED BY <1>4, <3>1, <3>2, <3>3, <3>4 DEF Step
  <2>5. UsesAdvance
    BY <2>1, IntegersOK DEF UsesAdvance
  <2> QED BY <1>0, <2>1, <2>3, <2>4, <2>5 DEF UsedBefore, IdleAt
<1> QED BY <1>1, <1>2, <1>3, <1>4

LEMMA IdleInductive == TypeOK /\ TypeOK' /\ IdleInv /\ [Next]_vars => IdleInv'
<1> SUFFICES ASSUME TypeOK, TypeOK', IdleInv, [Next]_vars PROVE IdleInv'
  OBVIOUS
<1> USE DEF table, history
<1>0. UsedBefore /\ IdleLimit /\ \A q \in Requests : IdleAt(q)
  BY DEF IdleInv
<1>1. ASSUME NEW p \in Requests, Step(p) \/ StatementFails(p) PROVE IdleInv'
  <2>1. UsedBefore' /\ IdleLimit' /\ IdleAt(p)' /\ UsesAdvance
    BY <1>1, IdleStep
  <2>2. ASSUME NEW q \in Requests \ {p} PROVE IdleAt(q)'
    <3>1. Frame(q)
      BY <1>1, OthersFramed
    <3> QED BY <1>0, <2>1, <3>1, FrameKeepsIdle DEF Frame
  <2> QED BY <2>1, <2>2 DEF IdleInv
<1>2. ASSUME NEW p \in Requests, NEW o \in AllOps, NEW t \in Tokens,
             NEW x \in Tokens, Begin(p, o, t, x)
      PROVE  IdleInv'
  <2>1. UNCHANGED <<now, status, row, lastUse>>
    BY <1>2 DEF Begin
  <2>2. UsesAdvance
    BY <2>1, IntegersOK DEF UsesAdvance
  <2>3. pc'[p] \notin {"refresh_find", "refresh_write"}
    BY <1>2 DEF Begin, Goto, Finish, TypeOK
  <2>4. ASSUME NEW q \in Requests \ {p} PROVE IdleAt(q)'
    <3>1. pc'[q] = pc[q] /\ call'[q] = call[q] /\ write'[q] = write[q]
      BY <1>2 DEF Begin, Goto, Finish, TypeOK
    <3> QED BY <1>0, <2>2, <3>1, FrameKeepsIdle
  <2>5. IdleAt(p)'
    BY <2>3 DEF IdleAt
  <2> QED BY <1>0, <2>1, <2>4, <2>5 DEF IdleInv, UsedBefore, IdleLimit, Live
<1>3. ASSUME UNCHANGED <<pc, call, write>>, UsesAdvance, UsedBefore', IdleLimit'
      PROVE  IdleInv'
  BY <1>0, <1>3, FrameKeepsIdle DEF IdleInv
<1>4. ASSUME NEW t \in Tokens, NEW u \in Users, Issue(t, u) PROVE IdleInv'
  <2>1. /\ UNCHANGED <<now, pc, call, write>>
        /\ lastUse' = [lastUse EXCEPT ![t] = now]
    BY <1>4 DEF Issue
  <2>2. /\ row' = [row EXCEPT ![t] = [user |-> u, expires |-> now + ExpiresIn,
                                      updated |-> now]]
        /\ status' = [status EXCEPT ![t] = "live"]
    BY <1>4 DEF Issue, CreateSession, NewExpiry
  <2>3. UsesAdvance /\ UsedBefore'
    BY <1>0, <2>1, IntegersOK DEF UsesAdvance, UsedBefore, TypeOK
  <2>4. IdleLimit'
    <3> SUFFICES ASSUME NEW y \in Tokens, status'[y] = "live"
                 PROVE  row'[y].expires <= lastUse'[y] + ExpiresIn
      BY DEF IdleLimit, Live
    <3>1. CASE y = t
      BY <2>1, <2>2, <3>1, IntegersOK DEF TypeOK
    <3>2. CASE y # t
      BY <1>0, <2>1, <2>2, <3>2 DEF TypeOK, IdleLimit, Live
    <3> QED BY <3>1, <3>2
  <2> QED BY <1>3, <2>1, <2>3, <2>4
<1>5. CASE CleanupExpired
  <2>1. UNCHANGED <<now, pc, call, write, lastUse>> /\ \E S : DeleteRows(S)
    BY <1>5 DEF CleanupExpired
  <2>2. IdleLimit'
    BY <1>0, <2>1, DeletionKeepsLimit DEF DeleteRows
  <2> QED BY <1>0, <1>3, <2>1, <2>2, IntegersOK DEF UsesAdvance, UsedBefore
<1>6. CASE Tick
  <2>1. /\ now' = now + 1
        /\ UNCHANGED <<status, row, pc, call, write, lastUse>>
    BY <1>6 DEF Tick
  <2>2. UsesAdvance /\ UsedBefore'
    BY <1>0, <2>1, IntegersOK DEF UsesAdvance, UsedBefore
  <2> QED BY <1>0, <1>3, <2>1, <2>2 DEF IdleLimit, Live
<1>7. CASE UNCHANGED vars
  BY <1>0, <1>3, <1>7, IntegersOK DEF vars, UsesAdvance, UsedBefore, IdleLimit, Live
<1> QED BY <1>1, <1>2, <1>4, <1>5, <1>6, <1>7 DEF Next

\* A session dies ExpiresIn after its last use: a refresh writes the expiry it
\* computed from the use that began it, however long it waits and whatever other
\* refreshes do (get_session, update_session_expiry).
THEOREM IdleSessionsDie == Spec => []IdleLimit
<1>1. Init => IdleInv
  BY SessionsAssumption
     DEF Init, IdleInv, UsedBefore, IdleLimit, Live, IdleAt
<1>2. IdleInv => IdleLimit
  BY DEF IdleInv
<1> QED BY <1>1, <1>2, IdleInductive, TypeCorrect, PTL DEF Spec

-----------------------------------------------------------------------------
(* Whose sessions are revoked, and which are left.                         *)

\* The deleting statements are reached by the endpoints that send them.
OpAt(p) ==
    /\ call[p].onTarget => call[p].op = "revoke"
    /\ pc[p] = "delete_target" => call[p].op = "revoke"
    /\ pc[p] = "delete_own" => call[p].op = "sign_out"
    /\ pc[p] = "delete_all" => call[p].op = "revoke_all"
    /\ pc[p] = "delete_each" => call[p].op = "revoke_others"

\* The tokens a request names were issued, so the owner of their rows is settled.
IssuedAt(p) ==
    /\ pc[p] # "new" => /\ status[call[p].token] # "unissued"
                        /\ status[call[p].target] # "unissued"
    /\ \A t \in snap[p] \cup todo[p] : status[t] # "unissued"

\* What it is about to delete is its caller's.
OwnedAt(p) ==
    /\ pc[p] \in {"refresh_find", "refresh_write", "reread"} /\ call[p].onTarget
          => seen[p] = row[call[p].target].user
    /\ pc[p] = "delete_own" => me[p] = row[call[p].token].user
    /\ pc[p] = "delete_target" => me[p] = row[call[p].target].user
    /\ \A t \in todo[p] : row[t].user = me[p]

\* Between the listing and the answer of revoke-other-sessions, whatever of its
\* caller's sessions is neither gone nor was skipped is still to be deleted.
SweptAt(p) ==
    pc[p] = "delete_each" \/ (call[p].op = "revoke_others" /\ outcome[p] = "ok") =>
        \A t \in snap[p] \ {call[p].token} :
            row[t].user = me[p] => \/ status[t] = "gone"
                                   \/ t \in skipped[p] \/ t \in todo[p]

\* A request has things to delete only in its loop, and an answer at its end.
TidyAt(p) ==
    /\ outcome[p] # "none" => pc[p] = "done"
    /\ pc[p] # "delete_each" => todo[p] = {}

RevAt(p) == OpAt(p) /\ IssuedAt(p) /\ OwnedAt(p) /\ SweptAt(p) /\ TidyAt(p)

RevInv == \A p \in Requests : RevAt(p)

LEMMA FrameKeepsRev ==
    ASSUME TypeOK, OwnersStay, NEW q \in Requests, Frame(q), RevAt(q)
    PROVE  RevAt(q)'
<1>1. pc[q] # "new" => call[q].token \in Tokens /\ call[q].target \in Tokens
  BY DEF TypeOK
<1>2. snap[q] \subseteq Tokens /\ todo[q] \subseteq Tokens
  BY DEF TypeOK
<1>3. OpAt(q)' /\ TidyAt(q)'
  BY DEF RevAt, OpAt, TidyAt, Frame
<1>4. IssuedAt(q)'
  BY <1>1, <1>2 DEF RevAt, IssuedAt, Frame, OwnersStay
<1>5. OwnedAt(q)'
  BY <1>1, <1>2 DEF RevAt, IssuedAt, OwnedAt, Frame, OwnersStay
<1>6. SweptAt(q)'
  BY <1>2 DEF RevAt, IssuedAt, SweptAt, Frame, OwnersStay
<1> QED BY <1>3, <1>4, <1>5, <1>6 DEF RevAt

\* An answer ends the request's work; only revoke-other-sessions promises more.
LEMMA FinishKeepsRev ==
    ASSUME TypeOK, OwnersStay, NEW p \in Requests, RevAt(p), pc[p] # "new",
           UNCHANGED <<call, me, snap>>, NEW a, Finish(p, a),
           call[p].op = "revoke_others" /\ a = "ok" =>
               \A t \in snap[p] \ {call[p].token} :
                   row[t].user = me[p] => status'[t] = "gone" \/ t \in skipped'[p]
    PROVE  RevAt(p)'
<1>0. /\ pc'[p] = "done" /\ outcome'[p] = a /\ todo'[p] = {}
      /\ call[p].token \in Tokens /\ call[p].target \in Tokens
      /\ snap[p] \subseteq Tokens
  BY DEF Finish, TypeOK
<1>1. OpAt(p)' /\ TidyAt(p)' /\ OwnedAt(p)'
  BY <1>0 DEF OpAt, TidyAt, OwnedAt, RevAt
<1>2. IssuedAt(p)'
  BY <1>0 DEF IssuedAt, RevAt, OwnersStay
<1>3. SweptAt(p)'
  BY <1>0 DEF SweptAt, RevAt, IssuedAt, OwnersStay
<1> QED BY <1>1, <1>2, <1>3 DEF RevAt

\* So does a move to a statement outside the loop, if what OwnedAt says of that
\* statement holds.
LEMMA MoveKeepsRev ==
    ASSUME TypeOK, OwnersStay, NEW p \in Requests, RevAt(p), pc[p] \notin {"new", "done"},
           call'[p].token = call[p].token, call'[p].target = call[p].target,
           call'[p].op = call[p].op,
           UNCHANGED <<snap, todo, outcome>>, pc'[p] \notin {"new", "done", "delete_each"},
           pc[p] # "delete_each", OpAt(p)', OwnedAt(p)'
    PROVE  RevAt(p)'
<1>0. /\ outcome[p] = "none" /\ todo[p] = {}
      /\ call[p].token \in Tokens /\ call[p].target \in Tokens
      /\ snap[p] \subseteq Tokens
  BY DEF TypeOK, RevAt, TidyAt
<1>1. TidyAt(p)' /\ SweptAt(p)'
  BY <1>0 DEF TidyAt, SweptAt
<1>2. IssuedAt(p)'
  BY <1>0 DEF IssuedAt, RevAt, OwnersStay
<1> QED BY <1>1, <1>2 DEF RevAt

\* get_session finds no session, or one whose owner was read from its row.
LEMMA ReturnNoneKeepsRev ==
    ASSUME TypeOK, OwnersStay, NEW p \in Requests, RevAt(p), pc[p] # "new",
           UNCHANGED <<call, me, snap>>, ReturnNone(p)
    PROVE  RevAt(p)'
<1>1. PICK a \in {"ok", Rejected(p, "unauthenticated")} :
         Finish(p, a) /\ (a = "ok" => call[p].op # "revoke_others")
  BY DEF ReturnNone, Rejected, RevAt, OpAt
<1> QED BY <1>1, FinishKeepsRev

LEMMA ReturnSomeKeepsRev ==
    ASSUME TypeOK, OwnersStay, NEW p \in Requests, RevAt(p),
           pc[p] \in {"lookup", "refresh_find", "refresh_write", "reread"},
           UNCHANGED <<call, me, snap>>,
           NEW u, ReturnSome(p, u), call[p].onTarget => u = row[call[p].target].user
    PROVE  RevAt(p)'
<1>0. RevAt(p) /\ call[p].target \in Tokens /\ status[call[p].target] # "unissued"
  BY DEF TypeOK, RevAt, IssuedAt
<1>1. CASE Finish(p, "ok") /\ call[p].onTarget
  BY <1>0, <1>1, FinishKeepsRev DEF RevAt, OpAt
<1>2. CASE ~ (Finish(p, "ok") /\ call[p].onTarget)
  <2>1. /\ UNCHANGED <<todo, outcome>>
        /\ \/ pc'[p] = "user"
           \/ pc'[p] = "delete_target" /\ call[p].onTarget /\ u = me[p]
    BY <1>2 DEF ReturnSome, OwnTarget, Goto, TypeOK
  <2>2. OpAt(p)'
    BY <1>0, <2>1 DEF RevAt, OpAt
  <2>3. todo[p] = {}
    BY <1>0 DEF RevAt, TidyAt
  <2>4. OwnedAt(p)'
    BY <1>0, <2>1, <2>3 DEF OwnedAt, OwnersStay
  <2> QED BY <1>0, <2>1, <2>2, <2>4, MoveKeepsRev
<1> QED BY <1>1, <1>2

LEMMA ActorKeepsRev ==
    ASSUME TypeOK, OwnersStay, NEW p \in Requests, AuthAt(p), RevAt(p),
           Step(p) \/ StatementFails(p)
    PROVE  RevAt(p)'
<1> USE DEF table, history
<1>0. /\ OpAt(p) /\ IssuedAt(p) /\ OwnedAt(p) /\ SweptAt(p) /\ TidyAt(p)
      /\ pc[p] # "new" => call[p].token \in Tokens /\ call[p].target \in Tokens
  BY DEF RevAt, TypeOK
<1>1. CASE Lookup(p)
  <2> DEFINE t == Looking(p)
  <2>0. pc[p] = "lookup" /\ UNCHANGED <<call, me, snap, row, status>>
    BY <1>1 DEF Lookup
  <2>1. CASE ReturnNone(p)
    BY <2>0, <2>1, ReturnNoneKeepsRev
  <2>2. CASE Goto(p, "purge") /\ UNCHANGED <<seen, write, todo, lastUse>>
    <3>1. pc'[p] = "purge" /\ UNCHANGED <<todo, outcome>>
      BY <2>2 DEF Goto, TypeOK
    <3>2. OpAt(p)' /\ OwnedAt(p)'
      BY <1>0, <2>0, <3>1 DEF OpAt, OwnedAt
    <3> QED BY <2>0, <3>1, <3>2, MoveKeepsRev
  <2>3. CASE /\ Goto(p, "refresh_find") /\ UNCHANGED todo
             /\ seen' = [seen EXCEPT ![p] = row[t].user]
    <3>1. /\ pc'[p] = "refresh_find" /\ UNCHANGED <<todo, outcome>>
          /\ seen'[p] = row[t].user
      BY <2>3 DEF Goto, TypeOK
    <3>2. OpAt(p)' /\ OwnedAt(p)'
      BY <1>0, <2>0, <3>1 DEF OpAt, OwnedAt, Looking
    <3> QED BY <2>0, <3>1, <3>2, MoveKeepsRev
  <2>4. CASE ReturnSome(p, row[t].user)
    BY <2>0, <2>4, ReturnSomeKeepsRev DEF Looking
  <2> QED BY <1>1, <2>1, <2>2, <2>3, <2>4 DEF Lookup
<1>2. CASE Purge(p)
  BY <1>2, ReturnNoneKeepsRev DEF Purge
<1>3. CASE \/ RefreshFind(p) \/ RefreshWrite(p) \/ Reread(p)
           \/ /\ StatementFails(p)
              /\ pc[p] \in {"refresh_find", "refresh_write", "reread"}
  <2>0. /\ pc[p] \in {"refresh_find", "refresh_write", "reread"}
        /\ UNCHANGED <<call, me, snap>>
    BY <1>3 DEF RefreshFind, RefreshWrite, Reread, StatementFails
  <2>1. call[p].onTarget => seen[p] = row[call[p].target].user
    BY <1>0, <2>0 DEF OwnedAt
  <2>2. CASE \E l \in {"refresh_write", "reread"} : Goto(p, l) /\ UNCHANGED <<seen, todo>>
    <3>1. pc'[p] \in {"refresh_write", "reread"} /\ UNCHANGED <<seen, todo, outcome>>
      BY <2>2 DEF Goto, TypeOK
    <3>2. OpAt(p)'
      BY <1>0, <2>0, <3>1 DEF OpAt
    <3>3. OwnedAt(p)'
      BY <1>0, <2>0, <2>1, <3>1 DEF OwnedAt, IssuedAt, TidyAt, OwnersStay
    <3> QED BY <2>0, <3>1, <3>2, <3>3, MoveKeepsRev
  <2>3. CASE \E u \in {seen[p], row[Looking(p)].user} : ReturnSome(p, u)
    <3>1. PICK u \in {seen[p], row[Looking(p)].user} : ReturnSome(p, u)
      BY <2>3
    <3>2. call[p].onTarget => u = row[call[p].target].user
      BY <2>1 DEF Looking
    <3> QED BY <2>0, <3>1, <3>2, ReturnSomeKeepsRev
  <2> QED BY <1>3, <2>2, <2>3 DEF RefreshFind, RefreshWrite, Reread, StatementFails
<1>4. CASE LoadUser(p)
  <2>0. /\ pc[p] = "user" /\ UNCHANGED <<snap, row, status>>
        /\ ~ call[p].onTarget /\ seen[p] = row[call[p].token].user
        /\ todo[p] = {} /\ outcome[p] = "none"
    BY <1>0, <1>4 DEF LoadUser, AuthAt, Resolved, OnlyPresentedReachesUser, TidyAt
  <2>1. /\ me'[p] = seen[p]
        /\ call'[p].token = call[p].token /\ call'[p].target = call[p].target
        /\ call'[p].op = call[p].op
        /\ call'[p].onTarget => call[p].op = "revoke"
    BY <1>4, <2>0 DEF LoadUser, TypeOK, Call
  <2>2. CASE call[p].op \in {"get", "post_get"} /\ Finish(p, "ok") /\ UNCHANGED call
    <3>1. pc'[p] = "done" /\ outcome'[p] = "ok" /\ todo'[p] = {}
      BY <2>2 DEF Finish, TypeOK
    <3> QED BY <1>0, <2>0, <2>1, <2>2, <3>1
            DEF RevAt, OpAt, IssuedAt, OwnedAt, SweptAt, TidyAt
  <2>3. CASE UNCHANGED <<todo, outcome>> /\ pc'[p] \in {"lookup", "delete_own", "delete_all", "list"}
    <3>0. /\ pc'[p] = "delete_own" => call[p].op = "sign_out"
          /\ pc'[p] = "delete_all" => call[p].op = "revoke_all"
      <4>1. CASE Finish(p, "ok")
        BY <2>3, <4>1 DEF Finish, TypeOK
      <4>2. CASE ~ Finish(p, "ok")
        BY <1>4, <4>2 DEF LoadUser, Goto, TypeOK
      <4> QED BY <4>1, <4>2
    <3>1. OpAt(p)'
      BY <2>1, <2>3, <3>0 DEF OpAt
    <3>2. OwnedAt(p)'
      BY <2>0, <2>1, <2>3 DEF OwnedAt
    <3> QED BY <2>0, <2>1, <2>3, <3>1, <3>2, MoveKeepsRev
  <2>4. \/ call[p].op \in {"get", "post_get"} /\ Finish(p, "ok") /\ UNCHANGED call
        \/ UNCHANGED <<todo, outcome>> /\ pc'[p] \in {"lookup", "delete_own", "delete_all", "list"}
    BY <1>4 DEF LoadUser, Goto, TypeOK
  <2> QED BY <2>2, <2>3, <2>4
<1>5. CASE DeleteOwn(p) \/ DeleteTarget(p) \/ DeleteAll(p)
  <2>1. /\ pc[p] # "new" /\ UNCHANGED <<call, me, snap>> /\ Finish(p, "ok")
        /\ call[p].op # "revoke_others"
    BY <1>0, <1>5 DEF DeleteOwn, DeleteTarget, DeleteAll, OpAt
  <2> QED BY <2>1, FinishKeepsRev
<1>6. CASE List(p)
  <2> DEFINE listed == {x \in LiveOf(me[p]) : Listable(x)}
             others == listed \ {call[p].token}
  <2>0. pc[p] = "list" /\ UNCHANGED <<call, me, snap, row, status>>
    BY <1>6 DEF List
  <2>1. CASE call[p].op = "list" /\ Finish(p, "ok")
    BY <2>0, <2>1, FinishKeepsRev
  <2>2. ASSUME call[p].op = "revoke_others",
               skipped' = [skipped EXCEPT ![p] = LiveOf(me[p]) \ listed]
        PROVE  \A t \in snap[p] \ {call[p].token} :
                   row[t].user = me[p] =>
                       \/ status[t] = "gone" \/ t \in skipped'[p] \/ t \in others
    <3> SUFFICES ASSUME NEW t \in snap[p], t # call[p].token, row[t].user = me[p],
                        status[t] # "gone"
                 PROVE  t \in skipped'[p] \/ t \in others
      OBVIOUS
    <3>1. t \in Tokens /\ status[t] = "live"
      BY <1>0 DEF IssuedAt, TypeOK
    <3>2. t \in LiveOf(me[p])
      BY <3>1 DEF LiveOf, Live
    <3>3. skipped'[p] = LiveOf(me[p]) \ listed
      BY <2>2 DEF TypeOK
    <3> QED BY <3>2, <3>3
  <2>3. CASE /\ call[p].op = "revoke_others" /\ others = {} /\ Finish(p, "ok")
             /\ skipped' = [skipped EXCEPT ![p] = LiveOf(me[p]) \ listed]
    <3>1. \A t \in snap[p] \ {call[p].token} :
              row[t].user = me[p] => status'[t] = "gone" \/ t \in skipped'[p]
      BY <2>0, <2>2, <2>3
    <3> QED BY <2>0, <2>3, <3>1, FinishKeepsRev
  <2>4. CASE /\ call[p].op = "revoke_others" /\ Goto(p, "delete_each")
             /\ skipped' = [skipped EXCEPT ![p] = LiveOf(me[p]) \ listed]
             /\ todo' = [todo EXCEPT ![p] = others]
    <3>1. pc'[p] = "delete_each" /\ todo'[p] = others /\ outcome'[p] = outcome[p]
      BY <2>4 DEF Goto, TypeOK
    <3>2. \A t \in others : row[t].user = me[p] /\ status[t] # "unissued"
      BY DEF LiveOf, Live
    <3>3. SweptAt(p)'
      BY <2>0, <2>2, <2>4, <3>1 DEF SweptAt
    <3>4. OpAt(p)' /\ IssuedAt(p)' /\ TidyAt(p)'
      BY <1>0, <2>0, <2>4, <3>1, <3>2 DEF OpAt, IssuedAt, TidyAt
    <3>5. OwnedAt(p)'
      BY <2>0, <3>1, <3>2 DEF OwnedAt
    <3> QED BY <3>3, <3>4, <3>5 DEF RevAt
  <2> QED BY <1>6, <2>1, <2>3, <2>4 DEF List
<1>7. CASE DeleteEach(p)
  <2>0. /\ pc[p] = "delete_each" /\ UNCHANGED <<call, me, snap, skipped, row>>
        /\ call[p].op = "revoke_others" /\ outcome[p] = "none"
    BY <1>0, <1>7 DEF DeleteEach, DeleteRows, OpAt, TidyAt
  <2>1. PICK x \in todo[p] :
           /\ DeleteRows({x})
           /\ \/ Remaining(p, x) = {} /\ Finish(p, "ok")
              \/ Goto(p, "delete_each") /\ todo' = [todo EXCEPT ![p] = Remaining(p, x)]
    BY <1>7 DEF DeleteEach
  <2>2. x \in Tokens /\ status'[x] = "gone"
    BY <1>0, <2>1 DEF IssuedAt, DeleteRows, TypeOK
  <2>3. \A t \in snap[p] \ {call[p].token} :
            row[t].user = me[p] =>
                status'[t] = "gone" \/ t \in skipped[p] \/ t \in Remaining(p, x)
    <3> SUFFICES ASSUME NEW t \in snap[p], t # call[p].token, row[t].user = me[p]
                 PROVE  status'[t] = "gone" \/ t \in skipped[p] \/ t \in Remaining(p, x)
      OBVIOUS
    <3>1. t \in Tokens
      BY DEF TypeOK
    <3>2. status[t] = "gone" \/ t \in skipped[p] \/ t \in todo[p]
      BY <1>0, <2>0 DEF SweptAt
    <3> QED BY <2>2, <3>1, <3>2 DEF OwnersStay, Remaining
  <2>4. CASE Remaining(p, x) = {} /\ Finish(p, "ok")
    <3>1. \A t \in snap[p] \ {call[p].token} :
            row[t].user = me[p] => status'[t] = "gone" \/ t \in skipped'[p]
      BY <2>0, <2>3, <2>4
    <3> QED BY <2>0, <2>4, <3>1, FinishKeepsRev
  <2>5. CASE Goto(p, "delete_each") /\ todo' = [todo EXCEPT ![p] = Remaining(p, x)]
    <3>1. pc'[p] = "delete_each" /\ todo'[p] = Remaining(p, x) /\ outcome'[p] = outcome[p]
      BY <2>5 DEF Goto, TypeOK
    <3>2. SweptAt(p)'
      BY <2>0, <2>3, <3>1 DEF SweptAt
    <3>3. OpAt(p)' /\ TidyAt(p)' /\ OwnedAt(p)'
      BY <1>0, <2>0, <3>1 DEF OpAt, TidyAt, OwnedAt, Remaining
    <3>4. snap[p] \subseteq Tokens /\ todo[p] \subseteq Tokens
      BY DEF TypeOK
    <3>5. IssuedAt(p)'
      BY <1>0, <2>0, <3>1, <3>4 DEF IssuedAt, Remaining, OwnersStay
    <3> QED BY <3>2, <3>3, <3>5 DEF RevAt
  <2> QED BY <2>1, <2>4, <2>5
<1>8. CASE StatementFails(p) /\ pc[p] \notin {"refresh_find", "refresh_write", "reread"}
  <2>0. pc[p] # "new" /\ UNCHANGED <<call, me, snap>>
    BY <1>8 DEF StatementFails
  <2>1. CASE ReturnNone(p)
    BY <2>0, <2>1, ReturnNoneKeepsRev
  <2>2. CASE \E a \in {"error", Rejected(p, "error"), DeleteFailed(p)} :
                Finish(p, a) /\ (a = "ok" => call[p].op # "revoke_others")
    BY <2>0, <2>2, FinishKeepsRev
  <2>3. \/ ReturnNone(p)
        \/ \E a \in {"error", Rejected(p, "error"), DeleteFailed(p)} :
              Finish(p, a) /\ (a = "ok" => call[p].op # "revoke_others")
    BY <1>0, <1>8 DEF StatementFails, Rejected, DeleteFailed, OpAt
  <2> QED BY <2>1, <2>2, <2>3
<1> QED BY <1>1, <1>2, <1>3, <1>4, <1>5, <1>6, <1>7, <1>8 DEF Step

LEMMA RevInductive == TypeOK /\ AuthInv /\ RevInv /\ [Next]_vars => RevInv'
<1> SUFFICES ASSUME TypeOK, AuthInv, RevInv, [Next]_vars, NEW q \in Requests
             PROVE  RevAt(q)'
  BY DEF RevInv
<1>0. OwnersStay /\ AuthAt(q) /\ RevAt(q)
  BY StepKeepsOwners DEF AuthInv, RevInv
<1>1. ASSUME NEW p \in Requests, NEW o \in AllOps, NEW t \in Tokens,
             NEW x \in Tokens, Begin(p, o, t, x)
      PROVE  RevAt(q)'
  <2>1. CASE q # p
    <3>1. Frame(q)
      BY <1>1, <2>1 DEF Begin, Frame, Finish, Goto, TypeOK
    <3> QED BY <1>0, <3>1, FrameKeepsRev
  <2>2. CASE q = p
    <3>1. /\ call'[p] = [op |-> o, token |-> t, target |-> x, onTarget |-> FALSE]
          /\ snap'[p] = Live /\ UNCHANGED status
          /\ status[t] # "unissued" /\ status[x] # "unissued"
          /\ pc[p] = "new"
      BY <1>1, <2>2 DEF Begin, TypeOK, table
    <3>2. todo[p] = {} /\ outcome[p] = "none"
      BY <1>0, <2>2, <3>1 DEF RevAt, TidyAt
    <3>3. /\ todo'[p] = {}
          /\ \/ pc'[p] = "done" /\ outcome'[p] = "not_allowed"
             \/ pc'[p] = "lookup" /\ outcome'[p] = "none"
      BY <1>1, <3>2 DEF Begin, Finish, Goto, TypeOK
    <3>4. \A y \in snap'[p] : status[y] = "live"
      BY <3>1 DEF Live
    <3>5. OpAt(p)' /\ OwnedAt(p)' /\ SweptAt(p)' /\ TidyAt(p)'
      BY <3>1, <3>3 DEF OpAt, OwnedAt, SweptAt, TidyAt
    <3>6. IssuedAt(p)'
      BY <3>1, <3>3, <3>4 DEF IssuedAt
    <3> QED BY <2>2, <3>5, <3>6 DEF RevAt
  <2> QED BY <2>1, <2>2
<1>2. ASSUME NEW p \in Requests, Step(p) \/ StatementFails(p)
      PROVE  RevAt(q)'
  BY <1>0, <1>2, OthersFramed, FrameKeepsRev, ActorKeepsRev
<1>3. CASE \/ \E t \in Tokens, u \in Users : Issue(t, u)
           \/ CleanupExpired \/ Tick \/ UNCHANGED vars
  <2>1. Frame(q)
    BY <1>3 DEF Issue, CleanupExpired, Tick, vars, Frame, history
  <2> QED BY <1>0, <2>1, FrameKeepsRev
<1> QED BY <1>1, <1>2, <1>3 DEF Next

LEMMA RevInitially == Init => RevInv
  BY DEF Init, RevInv, RevAt, OpAt, IssuedAt, OwnedAt, SweptAt, TidyAt

LEMMA AuthInitially == Init => AuthInv
  BY DEF Init, AuthInv, AuthAt, Presented, Resolved, OnlyPresentedReachesUser, Granted

\* When /revoke-other-sessions answers success, every other session its user had
\* when the request began is gone, but for those the listing left out as run out:
\* the loop over the listed tokens stops at nothing else, and none comes back.
THEOREM OthersAreRevoked == Spec => []OthersRevoked
<1>1. RevInv => OthersRevoked
  <2> SUFFICES ASSUME RevInv, NEW p \in Requests, call[p].op = "revoke_others",
                      outcome[p] = "ok", NEW t \in snap[p] \ {call[p].token},
                      row[t].user = me[p]
               PROVE  status[t] = "gone" \/ t \in skipped[p]
    BY DEF OthersRevoked
  <2>1. SweptAt(p) /\ TidyAt(p)
    BY DEF RevInv, RevAt
  <2> QED BY <2>1 DEF SweptAt, TidyAt
<1> QED BY <1>1, RevInitially, AuthInitially, RevInductive, AuthInductive, TypeCorrect,
           PTL DEF Spec

\* A valid session ends only on behalf of its own user, or by a lookup of it that
\* had read it as expired: revoke-session's owner check and the listed tokens of
\* revoke-other-sessions stay true until the delete.
THEOREM OnlyOwnersRevoke == Spec => OnlyOwnerRevokes
<1> DEFINE Revokes(t, p) ==
      \/ /\ me[p] = row[t].user
         /\ pc[p] \in {"delete_own", "delete_target", "delete_all", "delete_each"}
      \/ pc[p] = "purge" /\ Looking(p) = t
<1>1. ASSUME TypeOK, RevInv, [Next]_vars, NEW t \in Tokens,
             status[t] = "live", ~ Expired(row[t]), status'[t] = "gone"
      PROVE  \E p \in Requests : Revokes(t, p)
  <2> USE DEF table
  <2>1. CASE UNCHANGED status
    BY <1>1, <2>1
  <2>2. ASSUME NEW p \in Requests, Step(p), ~ UNCHANGED status PROVE Revokes(t, p)
    <3>0. OwnedAt(p)
      BY <1>1 DEF RevInv, RevAt
    <3>1. CASE Purge(p)
      BY <1>1, <3>1 DEF Purge, DeleteRows
    <3>2. CASE DeleteOwn(p)
      BY <1>1, <3>0, <3>2 DEF DeleteOwn, DeleteRows, OwnedAt
    <3>3. CASE DeleteTarget(p)
      BY <1>1, <3>0, <3>3 DEF DeleteTarget, DeleteRows, OwnedAt
    <3>4. CASE DeleteAll(p)
      BY <1>1, <3>4 DEF DeleteAll, DeleteRows, UserSessions, LiveOf, Live
    <3>5. CASE DeleteEach(p)
      BY <1>1, <3>0, <3>5 DEF DeleteEach, DeleteRows, OwnedAt
    <3> QED BY <2>2, <3>1, <3>2, <3>3, <3>4, <3>5
            DEF Step, Lookup, RefreshFind, RefreshWrite, UpdateExpiry, Reread, LoadUser, List
  <2>3. ASSUME NEW x \in Tokens, NEW u \in Users, Issue(x, u) PROVE FALSE
    BY <1>1, <2>3 DEF Issue, CreateSession, TypeOK
  <2>4. ASSUME CleanupExpired PROVE FALSE
    BY <1>1, <2>4 DEF CleanupExpired, DeleteRows
  <2> QED BY <1>1, <2>1, <2>2, <2>3, <2>4
          DEF Next, Begin, StatementFails, Tick, vars
<1>2. TypeOK /\ RevInv /\ [Next]_vars =>
        [\A t \in Tokens :
           status[t] = "live" /\ ~ Expired(row[t]) /\ status'[t] = "gone" =>
            \E p \in Requests :
               \/ me[p] = row[t].user
                  /\ pc[p] \in {"delete_own", "delete_target", "delete_all", "delete_each"}
               \/ pc[p] = "purge" /\ Looking(p) = t]_vars
  BY <1>1
<1> QED BY <1>2, RevInitially, AuthInitially, RevInductive, AuthInductive, TypeCorrect,
           PTL DEF Spec, OnlyOwnerRevokes

-----------------------------------------------------------------------------
(* The component keeps its promise.                                        *)

GrantedBy == [p \in Requests |-> IF me[p] = NoUser THEN NoToken ELSE call[p].token]

LEMMA DeleteEndsTokens ==
    ASSUME TypeOK, NEW S, DeleteRows(S), UNCHANGED <<snap, GrantedBy>>
    PROVE  [Promise!PromiseNext]_(Promise!promise)
<1> DEFINE E == {t \in Tokens : t \in S /\ status[t] = "live"}
<1>1. E \in SUBSET Promise!Alive
  BY DEF Promise!Alive
<1>2. status' = [t \in Tokens |-> IF t \in E THEN "gone" ELSE status[t]]
  BY DEF DeleteRows
<1>3. Promise!End(E)
  BY <1>2 DEF Promise!End, GrantedBy
<1> QED BY <1>1, <1>3 DEF Promise!PromiseNext

LEMMA StepKeepsPromise ==
    ASSUME TypeOK, AuthInv, [Next]_vars
    PROVE  [Promise!PromiseNext]_(Promise!promise)
<1> USE DEF table, history
<1>0. ASSUME UNCHANGED <<status, snap, GrantedBy>>
      PROVE  UNCHANGED Promise!promise
  BY <1>0 DEF Promise!promise, GrantedBy
<1>1. ASSUME NEW p \in Requests, NEW o \in AllOps, NEW t \in Tokens,
             NEW x \in Tokens, Begin(p, o, t, x)
      PROVE  [Promise!PromiseNext]_(Promise!promise)
  <2>1. me[p] = NoUser /\ me' = me
    BY <1>1 DEF Begin, AuthInv, AuthAt, Granted
  <2>2. \A q \in Requests : q # p => call'[q] = call[q]
    BY <1>1 DEF Begin, TypeOK
  <2>3. UNCHANGED GrantedBy
    BY <2>1, <2>2 DEF GrantedBy
  <2>4. Promise!Begin(p)
    BY <1>1, <2>3 DEF Begin, Promise!Begin, Promise!Alive, Live, GrantedBy
  <2> QED BY <2>4 DEF Promise!PromiseNext
<1>2. ASSUME NEW p \in Requests, LoadUser(p)
      PROVE  [Promise!PromiseNext]_(Promise!promise)
  <2> DEFINE t == call[p].token
  <2>1. t \in snap[p] /\ t \in Tokens
    BY <1>2 DEF LoadUser, AuthInv, AuthAt, Resolved, OnlyPresentedReachesUser, TypeOK
  <2>2. \A q \in Requests : call'[q].token = call[q].token
    BY <1>2 DEF LoadUser, TypeOK, Call
  <2>3. me' = [me EXCEPT ![p] = seen[p]] /\ UNCHANGED <<status, snap>>
    BY <1>2 DEF LoadUser
  <2>4. me[p] = NoUser \/ GrantedBy[p] = t
    BY DEF GrantedBy
  <2>5. CASE seen[p] # NoUser
    <3>0. PICK x \in Tokens : x = t
      BY <2>1
    <3>1. GrantedBy' = [GrantedBy EXCEPT ![p] = x]
      BY <2>2, <2>3, <2>5, <3>0 DEF GrantedBy, TypeOK
    <3>2. Promise!Grant(p, x)
      BY <2>1, <2>3, <3>0, <3>1 DEF Promise!Grant, GrantedBy
    <3> QED BY <3>2 DEF Promise!PromiseNext
  <2>6. CASE seen[p] = NoUser /\ me[p] = NoUser
    <3>1. UNCHANGED GrantedBy
      BY <2>2, <2>3, <2>6 DEF GrantedBy, TypeOK
    <3> QED BY <2>3, <3>1, <1>0
  <2>7. CASE seen[p] = NoUser /\ me[p] # NoUser
    BY <2>7, <1>2 DEF LoadUser, AuthInv, AuthAt, Resolved, OnlyPresentedReachesUser, Granted
  <2> QED BY <2>5, <2>6, <2>7
<1>3. ASSUME NEW p \in Requests, Step(p) \/ StatementFails(p), ~ LoadUser(p)
      PROVE  [Promise!PromiseNext]_(Promise!promise)
  <2>1. UNCHANGED <<call, me, snap>>
    BY <1>3 DEF Step, StatementFails, Lookup, Purge, RefreshFind, RefreshWrite,
                Reread, DeleteOwn, DeleteTarget, DeleteAll, List, DeleteEach
  <2>2. UNCHANGED GrantedBy
    BY <2>1 DEF GrantedBy
  <2>3. CASE UNCHANGED status
    BY <2>1, <2>2, <2>3, <1>0
  <2>4. CASE \E S : DeleteRows(S)
    BY <2>1, <2>2, <2>4, DeleteEndsTokens
  <2>5. UNCHANGED status \/ \E S : DeleteRows(S)
    BY <1>3 DEF Step, StatementFails, Lookup, Purge, RefreshFind, RefreshWrite,
                UpdateExpiry, Reread, DeleteOwn, DeleteTarget, DeleteAll, List,
                DeleteEach
  <2> QED BY <2>3, <2>4, <2>5
<1>4. ASSUME NEW t \in Tokens, NEW u \in Users, Issue(t, u)
      PROVE  [Promise!PromiseNext]_(Promise!promise)
  <2>1. Promise!Issue(t)
    BY <1>4 DEF Issue, CreateSession, Promise!Issue, GrantedBy
  <2> QED BY <2>1 DEF Promise!PromiseNext
<1>5. CASE CleanupExpired
  BY <1>5, DeleteEndsTokens DEF CleanupExpired, GrantedBy
<1>6. CASE Tick \/ UNCHANGED vars
  BY <1>6, <1>0 DEF Tick, vars, GrantedBy
<1> QED BY <1>1, <1>2, <1>3, <1>4, <1>5, <1>6 DEF Next

\* Sessions implements SessionPromise: whatever the statements of concurrent
\* requests do, a token is issued once, ends for good, and grants only
\* requests that began while it was alive.
THEOREM ImplementsPromise == Spec => KeepsPromise
<1>1. Init => Promise!PromiseInit
  BY DEF Init, Promise!PromiseInit
<1>2. Init => AuthInv
  BY DEF Init, AuthInv, AuthAt, Presented, Resolved, OnlyPresentedReachesUser, Granted
<1> QED BY <1>1, <1>2, AuthInductive, StepKeepsPromise, TypeCorrect, PTL
        DEF Spec, KeepsPromise, Promise!PromiseSpec

=============================================================================
