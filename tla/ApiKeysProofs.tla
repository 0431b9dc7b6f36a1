--------------------------- MODULE ApiKeysProofs ---------------------------
(* Theorems about ApiKeys, for every value of its constants. *)
EXTENDS ApiKeys, FiniteSetTheorems, TLAPS

-----------------------------------------------------------------------------
(* Type correctness.                                                       *)

\* The part of the type invariant that a handler's control flow touches.
LocalsOK ==
    /\ pc \in [Requests -> Statements \cup {"new", "done"}]
    /\ copy \in [Requests -> Row]
    /\ outcome \in [Requests -> Outcomes]

\* A step moves p and no other request.
Moves(p) ==
    /\ LocalsOK'
    /\ pc'[p] # "new"
    /\ \A q \in Requests \ {p} : pc'[q] = pc[q] /\ outcome'[q] = outcome[q]

LEMMA BlankTyped == BlankRow \in Row
  BY DEF BlankRow, Row, Time, Never, Unlimited

LEMMA FinishTyped ==
    ASSUME NEW p \in Requests, NEW a \in Outcomes, LocalsOK, Finish(p, a)
    PROVE  Moves(p) /\ pc'[p] = "done" /\ outcome'[p] = a
  BY BlankTyped DEF LocalsOK, Finish, Moves

LEMMA GotoTyped ==
    ASSUME NEW p \in Requests, NEW l \in Statements, LocalsOK, Goto(p, l)
    PROVE  Moves(p) /\ pc'[p] = l /\ outcome' = outcome
  BY DEF LocalsOK, Goto, Moves, Statements

LEMMA GotoWithTyped ==
    ASSUME NEW p \in Requests, NEW l \in Statements, NEW r \in Row, LocalsOK,
           GotoWith(p, l, r)
    PROVE  Moves(p) /\ pc'[p] = l /\ outcome' = outcome
  BY DEF LocalsOK, GotoWith, Moves, Statements

\* After the cleanup a use goes on to its user, and everything else is done.
LEMMA AfterSweepTyped ==
    ASSUME NEW p \in Requests, LocalsOK, AfterSweep(p)
    PROVE  /\ Moves(p)
           /\ IF call[p].op = "use"
              THEN pc'[p] = "load_user" /\ outcome' = outcome
              ELSE pc'[p] = "done" /\ outcome'[p] = Answer(call[p].op)
<1>1. Answer(call[p].op) \in Outcomes
  BY DEF Answer, Outcomes
<1>2. CASE call[p].op = "use" /\ Goto(p, "load_user")
  BY <1>2, GotoTyped DEF Statements
<1>3. CASE call[p].op # "use" /\ Finish(p, Answer(call[p].op))
  BY <1>1, <1>3, FinishTyped
<1> QED BY <1>2, <1>3 DEF AfterSweep

LEMMA MaybeSweepTyped ==
    ASSUME NEW p \in Requests, TypeOK, LocalsOK, MaybeSweep(p)
    PROVE  /\ Moves(p) /\ swept' \in Time
           /\ \/ pc'[p] = "sweep" /\ outcome' = outcome
              \/ call[p].op = "use" /\ pc'[p] = "load_user" /\ outcome' = outcome
              \/ call[p].op # "use" /\ pc'[p] = "done" /\ outcome'[p] = Answer(call[p].op)
<1>1. CASE swept' = now /\ Goto(p, "sweep")
  BY <1>1, GotoTyped DEF Statements, TypeOK, Time
<1>2. CASE UNCHANGED swept /\ AfterSweep(p)
  BY <1>2, AfterSweepTyped DEF TypeOK
<1> QED BY <1>1, <1>2 DEF MaybeSweep

\* What is left to show of the type invariant once the locals are typed and
\* the call stays.
LEMMA StepTyped ==
    ASSUME TypeOK, NEW p \in Requests, pc[p] # "new", Moves(p),
           UNCHANGED <<now, call, prior>>,
           swept' \in Time,
           table' \in [Keys -> {"unissued", "live", "gone"}],
           row' \in [Keys -> Row],
           until' \in [Requests -> Time],
           spent' \in [Requests -> Time],
           granted' \in [Keys -> Nat \cup {Unlimited}]
    PROVE  TypeOK'
<1>1. \A q \in Requests : pc'[q] # "new" => call'[q].key \in Keys
  BY DEF TypeOK, Moves
<1> QED BY <1>1 DEF TypeOK, LocalsOK, Moves

LEMMA DeleteTyped ==
    ASSUME TypeOK, NEW k \in Keys, DeleteRow(k)
    PROVE  table' \in [Keys -> {"unissued", "live", "gone"}]
  BY DEF TypeOK, DeleteRow

LEMMA WriteTyped ==
    ASSUME TypeOK, NEW k \in Keys, NEW r \in Row, row' = [row EXCEPT ![k] = r]
    PROVE  row' \in [Keys -> Row]
  BY DEF TypeOK

LEMMA NewRowTyped ==
    ASSUME TypeOK, NEW o \in Owners, NEW q \in Nat \cup {Unlimited},
           NEW f \in BOOLEAN, NEW e \in Time
    PROVE  NewRow(o, q, f, e) \in Row
  BY DEF TypeOK, NewRow, Row, Time

LEMMA ExpiryTyped ==
    ASSUME TypeOK, NEW s \in Nat \cup {NoExpiry}
    PROVE  ExpiryAt(s) \in Time
  BY ApiKeyAssumption DEF TypeOK, ExpiryAt, NoExpiry, Time

\* A use that goes through leaves a typed row: what it counts down was above
\* zero.
LEMMA SpentTyped ==
    ASSUME TypeOK, NEW r \in Row, ~ Exhausted(r)
    PROVE  /\ Spent(r) \in Row
           /\ Spent(r).remaining = IF Metered(r) THEN Available(r) - 1 ELSE r.remaining
           /\ Spent(r).refilled = IF Metered(r) /\ RefillDue(r) THEN now ELSE r.refilled
           /\ Spent(r).count = IF ~ RateLimited THEN r.count
                               ELSE IF WindowOver(r) THEN 1 ELSE r.count + 1
           /\ Spent(r).last = now
           /\ Spent(r).refill = r.refill /\ Spent(r).created = r.created
           /\ Metered(r) => Available(r) \in Nat \ {0} /\ Spent(r).remaining \in Nat
<1>0. now \in Nat
  BY DEF TypeOK
<1>1. Metered(r) => Available(r) \in Nat \ {0}
  BY ApiKeyAssumption DEF Exhausted, Metered, Available, Row
<1>2. (IF Metered(r) THEN Available(r) - 1 ELSE r.remaining) \in Nat \cup {Unlimited}
  BY <1>1 DEF Row
<1>3. (IF Metered(r) /\ RefillDue(r) THEN now ELSE r.refilled) \in Time
  BY <1>0 DEF Row, Time
<1>4. (IF ~ RateLimited THEN r.count ELSE IF WindowOver(r) THEN 1 ELSE r.count + 1) \in Nat
  BY DEF Row
<1>5. now \in Time
  BY <1>0 DEF Time
<1>6. Spent(r) \in Row
  BY <1>2, <1>3, <1>4, <1>5 DEF Row, Spent
<1> QED BY <1>1, <1>2, <1>6 DEF Row, Spent

LEMMA ChangedTyped ==
    ASSUME TypeOK, NEW p \in Requests, NEW r \in Row
    PROVE  /\ Changed(p, r) \in Row
           /\ Changed(p, r).remaining = r.remaining /\ Changed(p, r).refill = r.refill
           /\ Changed(p, r).refilled = r.refilled /\ Changed(p, r).count = r.count
           /\ Changed(p, r).last = r.last /\ Changed(p, r).created = r.created
<1>1. until[p] \in Time /\ Never \in Time
  BY DEF TypeOK, Time
<1> QED BY <1>1 DEF Changed, Row

\* The type invariant: every request is at a known statement and holds values
\* of the right kind, and every row has its columns: no counter goes negative.
THEOREM TypeCorrect == Spec => []TypeOK
<1>1. Init => TypeOK
  BY BlankTyped DEF Init, TypeOK, Call, AllOps, Outcomes, Time, Never, NoExpiry
<1>2. TypeOK /\ [Next]_vars => TypeOK'
  <2> SUFFICES ASSUME TypeOK, [Next]_vars PROVE TypeOK'
    OBVIOUS
  <2>0. LocalsOK
    BY DEF TypeOK, LocalsOK
  <2>1. ASSUME NEW p \in Requests, NEW o \in AllOps, NEW k \in Keys,
               NEW u \in Users \cup {NoUser}, NEW s \in ExpiresIn \cup {NoExpiry},
               Begin(p, o, k, u, s)
        PROVE  TypeOK'
    <3>1. Moves(p)
      <4>1. Finish(p, "refused") \/ Goto(p, "find") \/ Goto(p, "insert")
        BY <2>1 DEF Begin
      <4> QED BY <4>1, <2>0, FinishTyped, GotoTyped DEF Outcomes, Statements
    <3>2. call' \in [Requests -> Call] /\ call'[p].key = k
          /\ \A q \in Requests \ {p} : call'[q] = call[q]
      BY <2>1 DEF Begin, TypeOK, Call
    <3>3. \A q \in Requests : pc'[q] # "new" => call'[q].key \in Keys
      BY <3>1, <3>2 DEF TypeOK, Moves
    <3>4. until' \in [Requests -> Time]
      <4>1. EffectiveExpiry(s) \in Nat \cup {NoExpiry}
        BY ApiKeyAssumption DEF EffectiveExpiry
      <4>2. ExpiryAt(EffectiveExpiry(s)) \in Time
        BY <4>1, ExpiryTyped
      <4> QED BY <2>1, <4>2 DEF Begin, TypeOK
    <3>5. prior' \in [Requests -> SUBSET Requests]
      BY <2>1 DEF Begin, TypeOK, Answered
    <3> QED BY <2>1, <3>1, <3>2, <3>3, <3>4, <3>5 DEF Begin, TypeOK, LocalsOK, Moves
  <2>2. ASSUME NEW p \in Requests, Step(p) \/ StatementFails(p) PROVE TypeOK'
    <3>0. pc[p] # "new"
      BY <2>2 DEF Step, StatementFails, Find, Drop, Consume, LoadUser, Insert, Update,
                  Delete, Sweep, Statements
    <3> DEFINE k == call[p].key
    <3>1. k \in Keys /\ call[p] \in Call /\ copy[p] \in Row /\ row[k] \in Row
      BY <3>0 DEF TypeOK
    <3> HIDE DEF k
    <3>2. /\ swept \in Time
          /\ table \in [Keys -> {"unissued", "live", "gone"}]
          /\ row \in [Keys -> Row]
          /\ until \in [Requests -> Time]
          /\ spent \in [Requests -> Time]
          /\ granted \in [Keys -> Nat \cup {Unlimited}]
          /\ now \in Nat
      BY DEF TypeOK
    <3>3. CASE Find(p)
      <4>1. CASE FindForUse(p)
        <5>1. \/ \E a \in Outcomes : Finish(p, a)
              \/ GotoWith(p, "drop", row[k])
              \/ GotoWith(p, "consume", row[k])
          BY <4>1 DEF FindForUse, Outcomes, k
        <5>2. Moves(p)
          BY <5>1, <2>0, <3>1, FinishTyped, GotoWithTyped DEF Statements
        <5> QED BY <3>0, <3>2, <3>3, <4>1, <5>2, StepTyped DEF Find, FindForUse, history
      <4>2. CASE FindForOwner(p)
        <5>1. \/ Finish(p, "refused") /\ UNCHANGED <<swept, until>>
              \/ MaybeSweep(p) /\ UNCHANGED until
              \/ GotoWith(p, "delete", row[k]) /\ UNCHANGED <<swept, until>>
              \/ /\ GotoWith(p, "update", row[k])
                 /\ until' = [until EXCEPT ![p] = ExpiryAt(call[p].secs)]
                 /\ UNCHANGED swept
          BY <4>2 DEF FindForOwner, k
        <5>2. ExpiryAt(call[p].secs) \in Time
          BY <3>1, ExpiryTyped, ApiKeyAssumption DEF Call
        <5>3. Moves(p) /\ swept' \in Time /\ until' \in [Requests -> Time]
          BY <5>1, <5>2, <2>0, <3>1, <3>2, FinishTyped, GotoWithTyped, MaybeSweepTyped
             DEF Statements, Outcomes
        <5> QED BY <3>0, <3>2, <3>3, <5>3, StepTyped DEF Find, history
      <4>3. CASE FindList(p)
        <5>1. Moves(p) /\ swept' \in Time
          BY <4>3, <2>0, MaybeSweepTyped DEF FindList
        <5> QED BY <3>0, <3>2, <3>3, <4>3, <5>1, StepTyped DEF Find, FindList, history
      <4> QED BY <3>3, <4>1, <4>2, <4>3 DEF Find
    <3>4. CASE Drop(p)
      <4>1. Moves(p)
        BY <3>4, <2>0, FinishTyped DEF Drop, Outcomes
      <4> QED BY <3>0, <3>1, <3>2, <3>4, <4>1, DeleteTyped, StepTyped DEF Drop, k, history
    <3>5. CASE Consume(p)
      <4>1. \/ /\ \E a \in Outcomes : Finish(p, a)
               /\ UNCHANGED <<swept, row, spent, granted>>
               /\ DeleteRow(k) \/ UNCHANGED table
            \/ /\ ~ Exhausted(row[k])
               /\ row' = [row EXCEPT ![k] = Spent(row[k])]
               /\ spent' = [spent EXCEPT ![p] = now]
               /\ granted' = [granted EXCEPT ![k] =
                                 IF Metered(row[k]) /\ RefillDue(row[k]) THEN RefillAmount ELSE @]
               /\ MaybeSweep(p)
               /\ UNCHANGED table
        BY <3>5 DEF Consume, Spend, Outcomes, k
      <4>2. Moves(p) /\ swept' \in Time
        BY <4>1, <2>0, <3>2, FinishTyped, MaybeSweepTyped
      <4>3. row' \in [Keys -> Row]
        BY <4>1, <3>1, <3>2, SpentTyped, WriteTyped
      <4>4. table' \in [Keys -> {"unissued", "live", "gone"}]
        BY <4>1, <3>1, <3>2, DeleteTyped
      <4>5. spent' \in [Requests -> Time]
        BY <4>1, <3>2 DEF Time
      <4>6. granted' \in [Keys -> Nat \cup {Unlimited}]
        BY <4>1, <3>1, <3>2, ApiKeyAssumption
      <4> QED BY <3>0, <3>2, <3>5, <4>2, <4>3, <4>4, <4>5, <4>6, StepTyped DEF Consume
    <3>6. CASE LoadUser(p)
      <4>1. Moves(p)
        BY <3>6, <2>0, FinishTyped DEF LoadUser, Outcomes
      <4> QED BY <3>0, <3>2, <3>6, <4>1, StepTyped DEF LoadUser, history
    <3>7. CASE Insert(p)
      <4>1. Moves(p) /\ swept' \in Time
        BY <3>7, <2>0, <3>2, FinishTyped, MaybeSweepTyped DEF Insert, Outcomes
      <4>2. row' \in [Keys -> Row]
        <5>1. \A o \in Owners : NewRow(o, DefaultRemaining, FALSE, until[p]) \in Row
          BY <3>2, NewRowTyped, ApiKeyAssumption
        <5> QED BY <3>7, <3>1, <3>2, <5>1, WriteTyped DEF Insert, k
      <4>3. table' \in [Keys -> {"unissued", "live", "gone"}]
            /\ granted' \in [Keys -> Nat \cup {Unlimited}]
        BY <3>7, <3>1, <3>2, ApiKeyAssumption DEF Insert, k
      <4> QED BY <3>0, <3>2, <3>7, <4>1, <4>2, <4>3, StepTyped DEF Insert
    <3>8. CASE Update(p)
      <4>1. Moves(p) /\ swept' \in Time
        BY <3>8, <2>0, <3>2, FinishTyped, MaybeSweepTyped DEF Update, Outcomes
      <4>2. row' \in [Keys -> Row]
        BY <3>8, <3>1, <3>2, ChangedTyped, WriteTyped DEF Update, Save, k
      <4> QED BY <3>0, <3>2, <3>8, <4>1, <4>2, StepTyped DEF Update
    <3>9. CASE Delete(p)
      <4>1. Moves(p)
        BY <3>9, <2>0, FinishTyped DEF Delete, Outcomes
      <4> QED BY <3>0, <3>1, <3>2, <3>9, <4>1, DeleteTyped, StepTyped DEF Delete, k, history
    <3>10. CASE Sweep(p)
      <4>1. Moves(p)
        BY <3>10, <2>0, AfterSweepTyped DEF Sweep
      <4>2. table' \in [Keys -> {"unissued", "live", "gone"}]
        BY <3>10, <3>2 DEF Sweep
      <4> QED BY <3>0, <3>2, <3>10, <4>1, <4>2, StepTyped DEF Sweep, history
    <3>11. CASE StatementFails(p)
      <4>1. Moves(p)
        <5>1. AfterSweep(p) \/ Finish(p, "expired") \/ Finish(p, "error")
          BY <3>11 DEF StatementFails
        <5> QED BY <5>1, <2>0, FinishTyped, AfterSweepTyped DEF Outcomes
      <4> QED BY <3>0, <3>2, <3>11, <4>1, StepTyped DEF StatementFails, history
    <3> QED BY <2>2, <3>3, <3>4, <3>5, <3>6, <3>7, <3>8, <3>9, <3>10, <3>11 DEF Step
  <2>3. ASSUME NEW k \in Keys, NEW u \in Users, NEW q \in HostQuotas, NEW f \in BOOLEAN,
               HostCreates(k, u, q, f)
        PROVE  TypeOK'
    <3>1. NewRow(u, q, f, Never) \in Row
      BY NewRowTyped, ApiKeyAssumption DEF Owners, Time
    <3>2. row' \in [Keys -> Row]
      BY <2>3, <3>1, WriteTyped DEF HostCreates
    <3> QED BY <2>3, <3>2, ApiKeyAssumption DEF HostCreates, TypeOK
  <2>4. CASE Tick
    BY <2>4 DEF Tick, TypeOK
  <2>5. CASE UNCHANGED vars
    BY <2>5 DEF vars, history, TypeOK
  <2> QED BY <2>1, <2>2, <2>3, <2>4, <2>5 DEF Next
<1> QED BY <1>1, <1>2, PTL DEF Spec

-----------------------------------------------------------------------------
(* What the counters of a key mean: the invariant behind its quota and its *)
(* rate limit.                                                             *)

\* A request's use is counted once, of a key that exists, by its own step.
CallInv(p) ==
    /\ spent[p] # Never => /\ spent[p] <= now
                           /\ pc[p] # "new"
                           /\ table[call[p].key] # "unissued"
    /\ pc[p] \in {"new", "find", "consume"} => spent[p] = Never
    /\ pc[p] = "consume" => call[p].op = "use"

\* No use of a key is later than its last_request, and while it refills none
\* is further from the last refill than the interval, or it would have been a
\* refill itself.
KeyInv(k) ==
    table[k] # "unissued" =>
        LET r == row[k] IN
        /\ LastRefill(r) <= now
        /\ r.last <= now
        /\ \A p \in Uses(k, 0) : spent[p] <= r.last
        /\ Metered(r) /\ r.refill =>
              \A p \in Uses(k, 0) : spent[p] - LastRefill(r) <= RefillInterval
        /\ Metered(r) => r.remaining + Cardinality(Uses(k, LastRefill(r))) = granted[k]

MeterInv ==
    /\ \A p \in Requests : CallInv(p)
    /\ \A k \in Keys : KeyInv(k)

\* The uses counted in the window that opens at `from`.
InWindow(k, from) == Uses(k, from) \ Uses(k, from + Window + 1)

\* While the last use lies in a window, the count covers the uses in it.
WindowInv(k) ==
    table[k] # "unissued" =>
        LET r == row[k] IN
        /\ r.count <= MaxRequests
        /\ \A from \in Nat :
              /\ Cardinality(InWindow(k, from)) <= MaxRequests
              /\ from <= r.last /\ r.last <= from + Window =>
                    Cardinality(Uses(k, from)) <= r.count

\* A step that counts no use: it keeps the counters of every key there is, and
\* what it creates starts from zero.
Quiet ==
    /\ spent' = spent
    /\ now' >= now
    /\ \A p \in Requests : spent[p] # Never => call'[p] = call[p]
    /\ \A k \in Keys : table[k] # "unissued" =>
          /\ table'[k] # "unissued"
          /\ granted'[k] = granted[k]
          /\ row'[k].remaining = row[k].remaining /\ row'[k].refill = row[k].refill
          /\ row'[k].refilled = row[k].refilled /\ row'[k].count = row[k].count
          /\ row'[k].last = row[k].last /\ row'[k].created = row[k].created
    /\ \A k \in Keys : table[k] = "unissued" /\ table'[k] # "unissued" =>
          /\ granted'[k] = row'[k].remaining
          /\ row'[k].refilled = Never /\ row'[k].last = Never
          /\ row'[k].count = 0 /\ row'[k].created = now'

\* The step that counts p's use of k.
Counts(p, k) ==
    /\ pc[p] = "consume"
    /\ table[k] = "live"
    /\ ~ Exhausted(row[k]) /\ ~ OverLimit(row[k])
    /\ row' = [row EXCEPT ![k] = Spent(row[k])]
    /\ spent' = [spent EXCEPT ![p] = now]
    /\ granted' = [granted EXCEPT ![k] =
                      IF Metered(row[k]) /\ RefillDue(row[k]) THEN RefillAmount ELSE @]
    /\ UNCHANGED <<now, call, table>>

LEMMA DeleteKeeps ==
    ASSUME TypeOK, NEW k \in Keys, DeleteRow(k)
    PROVE  \A j \in Keys : table'[j] = "unissued" <=> table[j] = "unissued"
  BY DEF DeleteRow, TypeOK

\* What p's step has to keep of the invariant for the other requests follows
\* when it moves p alone.
LEMMA CallKept ==
    ASSUME TypeOK, TypeOK', \A q \in Requests : CallInv(q), NEW p \in Requests,
           pc[p] # "new", Moves(p), UNCHANGED <<now, call, spent>>,
           \A j \in Keys : table[j] # "unissued" => table'[j] # "unissued",
           pc'[p] = "find" => pc[p] = "find",
           pc'[p] = "consume" => pc[p] = "find" /\ call[p].op = "use"
    PROVE  \A q \in Requests : CallInv(q)'
  BY DEF TypeOK, CallInv, Moves

\* Every step counts one use or is quiet, and keeps the requests' part.
LEMMA StepKinds ==
    ASSUME TypeOK, TypeOK', \A q \in Requests : CallInv(q), [Next]_vars
    PROVE  /\ Quiet \/ \E p \in Requests : call[p].key \in Keys /\ Counts(p, call[p].key)
           /\ \A q \in Requests : CallInv(q)'
<1>0. LocalsOK /\ now \in Nat
  BY DEF TypeOK, LocalsOK
<1>1. ASSUME NEW p \in Requests, NEW o \in AllOps, NEW k \in Keys,
             NEW u \in Users \cup {NoUser}, NEW s \in ExpiresIn \cup {NoExpiry},
             Begin(p, o, k, u, s)
      PROVE  Quiet /\ \A q \in Requests : CallInv(q)'
  <2>1. Moves(p) /\ pc'[p] \in {"find", "insert", "done"}
    <3>1. Finish(p, "refused") \/ Goto(p, "find") \/ Goto(p, "insert")
      BY <1>1 DEF Begin
    <3> QED BY <3>1, <1>0, FinishTyped, GotoTyped DEF Outcomes, Statements
  <2>2. pc[p] = "new" /\ spent[p] = Never
    BY <1>1 DEF Begin, CallInv
  <2>3. UNCHANGED <<now, table, row, spent, granted>>
        /\ \A q \in Requests \ {p} : call'[q] = call[q]
    BY <1>1 DEF Begin, TypeOK
  <2> QED BY <2>1, <2>2, <2>3, <1>0 DEF Quiet, CallInv, Moves
<1>2. ASSUME NEW p \in Requests, Step(p) \/ StatementFails(p)
      PROVE  /\ Quiet \/ \E q \in Requests : call[q].key \in Keys /\ Counts(q, call[q].key)
             /\ \A q \in Requests : CallInv(q)'
  <2>0. pc[p] # "new"
    BY <1>2 DEF Step, StatementFails, Find, Drop, Consume, LoadUser, Insert, Update,
                Delete, Sweep, Statements
  <2>1. PICK k \in Keys : k = call[p].key
    BY <2>0 DEF TypeOK
  <2>2. copy[p] \in Row /\ row[k] \in Row
    BY DEF TypeOK
  <2>3. CASE Find(p)
    <3>1. Moves(p) /\ (pc'[p] = "consume" => call[p].op = "use") /\ pc'[p] # "find"
      <4>1. \/ call[p].op = "use" /\ \E a \in Outcomes : Finish(p, a)
            \/ call[p].op = "use" /\ \E l \in {"drop", "consume"} : GotoWith(p, l, row[k])
            \/ \E a \in Outcomes : Finish(p, a)
            \/ MaybeSweep(p)
            \/ \E l \in {"delete", "update"} : GotoWith(p, l, row[k])
        BY <2>3, <2>1 DEF Find, FindForUse, FindForOwner, FindList, Outcomes
      <4> QED BY <4>1, <1>0, <2>2, FinishTyped, GotoWithTyped, MaybeSweepTyped
              DEF Statements
    <3>2. UNCHANGED <<now, table, row, call, spent, granted>> /\ pc[p] = "find"
      BY <2>3 DEF Find, history
    <3>3. Quiet
      BY <3>2, <1>0 DEF Quiet
    <3> QED BY <2>0, <3>1, <3>2, <3>3, CallKept
  <2>4. CASE Drop(p)
    <3>1. Moves(p) /\ pc'[p] = "done"
      BY <2>4, <1>0, FinishTyped DEF Drop, Outcomes
    <3>2. UNCHANGED <<now, row, call, spent, granted>>
          /\ \A j \in Keys : table'[j] = "unissued" <=> table[j] = "unissued"
      BY <2>4, <2>1, DeleteKeeps DEF Drop, history
    <3>3. Quiet
      BY <3>2, <1>0 DEF Quiet
    <3> QED BY <2>0, <3>1, <3>2, <3>3, CallKept
  <2>5. CASE Consume(p)
    <3>1. CASE /\ \E a \in Outcomes : Finish(p, a)
               /\ UNCHANGED <<swept, row, spent, granted>>
               /\ DeleteRow(k) \/ UNCHANGED table
      <4>1. Moves(p) /\ pc'[p] = "done"
        BY <3>1, <1>0, FinishTyped
      <4>2. UNCHANGED <<now, row, call, spent, granted>>
            /\ \A j \in Keys : table'[j] = "unissued" <=> table[j] = "unissued"
        BY <2>5, <3>1, DeleteKeeps DEF Consume
      <4>3. Quiet
        BY <4>2, <1>0 DEF Quiet
      <4> QED BY <2>0, <4>1, <4>2, <4>3, CallKept
    <3>2. CASE Counts(p, k) /\ MaybeSweep(p)
      <4>1. Moves(p) /\ pc'[p] \in {"sweep", "load_user", "done"}
        BY <3>2, <1>0, MaybeSweepTyped
      <4>2. call[p].op = "use" /\ pc[p] = "consume"
        BY <2>5 DEF Consume, CallInv
      <4>3. spent'[p] = now /\ \A q \in Requests \ {p} : spent'[q] = spent[q]
        BY <3>2 DEF Counts, TypeOK
      <4>4. \A q \in Requests : CallInv(q)'
        BY <3>2, <4>1, <4>2, <4>3, <1>0, <2>1 DEF CallInv, Counts, Moves
      <4> QED BY <2>1, <3>2, <4>4
    <3>3. \/ /\ \E a \in Outcomes : Finish(p, a)
             /\ UNCHANGED <<swept, row, spent, granted>>
             /\ DeleteRow(k) \/ UNCHANGED table
          \/ Counts(p, k) /\ MaybeSweep(p)
      BY <2>5, <2>1 DEF Consume, Counts, Spend, Present, Outcomes
    <3> QED BY <3>1, <3>2, <3>3
  <2>6. CASE LoadUser(p)
    <3>1. Moves(p) /\ pc'[p] = "done"
      BY <2>6, <1>0, FinishTyped DEF LoadUser, Outcomes
    <3>2. UNCHANGED <<now, table, row, call, spent, granted>>
      BY <2>6 DEF LoadUser, history
    <3>3. Quiet
      BY <3>2, <1>0 DEF Quiet
    <3> QED BY <2>0, <3>1, <3>2, <3>3, CallKept
  <2>7. CASE Insert(p)
    <3>1. Moves(p) /\ pc'[p] \in {"sweep", "load_user", "done"}
      BY <2>7, <1>0, FinishTyped, MaybeSweepTyped DEF Insert, Outcomes
    <3>2. UNCHANGED <<now, call, spent>>
      BY <2>7 DEF Insert
    <3>3. Quiet
      <4>1. CASE table[k] # "unissued"
        BY <2>7, <2>1, <4>1, <1>0 DEF Insert, Quiet
      <4>2. CASE table[k] = "unissued"
        <5>1. PICK owner \in Owners :
                 row' = [row EXCEPT ![k] = NewRow(owner, DefaultRemaining, FALSE, until[p])]
          BY <2>7, <2>1, <4>2 DEF Insert
        <5>2. /\ table' = [table EXCEPT ![k] = "live"]
              /\ granted' = [granted EXCEPT ![k] = DefaultRemaining]
          BY <2>7, <2>1, <4>2 DEF Insert
        <5>3. /\ row'[k] = NewRow(owner, DefaultRemaining, FALSE, until[p])
              /\ granted'[k] = DefaultRemaining
              /\ \A j \in Keys \ {k} : /\ row'[j] = row[j] /\ table'[j] = table[j]
                                       /\ granted'[j] = granted[j]
          BY <5>1, <5>2 DEF TypeOK
        <5> QED BY <3>2, <4>2, <5>3, <1>0 DEF Quiet, NewRow
      <4> QED BY <4>1, <4>2
    <3>4. \A j \in Keys : table[j] # "unissued" => table'[j] # "unissued"
      BY <3>3 DEF Quiet
    <3> QED BY <2>0, <3>1, <3>2, <3>3, <3>4, CallKept
  <2>8. CASE Update(p)
    <3>1. Moves(p) /\ pc'[p] \in {"sweep", "load_user", "done"}
      BY <2>8, <1>0, FinishTyped, MaybeSweepTyped DEF Update, Outcomes
    <3>2. UNCHANGED <<now, table, call, spent, granted>>
      BY <2>8 DEF Update
    <3>3. row' = row \/ row' = [row EXCEPT ![k] = Changed(p, row[k])]
      BY <2>8, <2>1 DEF Update, Save
    <3>4. Quiet
      BY <3>2, <3>3, <1>0, <2>2, ChangedTyped DEF Quiet, TypeOK
    <3> QED BY <2>0, <3>1, <3>2, <3>4, CallKept
  <2>9. CASE Delete(p)
    <3>1. Moves(p) /\ pc'[p] = "done"
      BY <2>9, <1>0, FinishTyped DEF Delete, Outcomes
    <3>2. UNCHANGED <<now, row, call, spent, granted>>
          /\ \A j \in Keys : table'[j] = "unissued" <=> table[j] = "unissued"
      BY <2>9, <2>1, DeleteKeeps DEF Delete, history
    <3>3. Quiet
      BY <3>2, <1>0 DEF Quiet
    <3> QED BY <2>0, <3>1, <3>2, <3>3, CallKept
  <2>10. CASE Sweep(p)
    <3>1. Moves(p) /\ pc'[p] \in {"load_user", "done"}
      BY <2>10, <1>0, AfterSweepTyped DEF Sweep
    <3>2. UNCHANGED <<now, row, call, spent, granted>>
          /\ \A j \in Keys : table'[j] = "unissued" <=> table[j] = "unissued"
      BY <2>10 DEF Sweep, history, Present
    <3>3. Quiet
      BY <3>2, <1>0 DEF Quiet
    <3> QED BY <2>0, <3>1, <3>2, <3>3, CallKept
  <2>11. CASE StatementFails(p)
    <3>1. Moves(p) /\ pc'[p] \in {"load_user", "done"}
      <4>1. AfterSweep(p) \/ Finish(p, "expired") \/ Finish(p, "error")
        BY <2>11 DEF StatementFails
      <4> QED BY <4>1, <1>0, FinishTyped, AfterSweepTyped DEF Outcomes
    <3>2. UNCHANGED <<now, table, row, call, spent, granted>>
      BY <2>11 DEF StatementFails, history
    <3>3. Quiet
      BY <3>2, <1>0 DEF Quiet
    <3> QED BY <2>0, <3>1, <3>2, <3>3, CallKept
  <2> QED BY <1>2, <2>3, <2>4, <2>5, <2>6, <2>7, <2>8, <2>9, <2>10, <2>11 DEF Step
<1>3. ASSUME NEW k \in Keys, NEW u \in Users, NEW q \in HostQuotas, NEW f \in BOOLEAN,
             HostCreates(k, u, q, f)
      PROVE  Quiet /\ \A p \in Requests : CallInv(p)'
  <2>1. /\ row'[k] = NewRow(u, q, f, Never) /\ table'[k] = "live" /\ granted'[k] = q
        /\ \A j \in Keys \ {k} : /\ row'[j] = row[j] /\ table'[j] = table[j]
                                 /\ granted'[j] = granted[j]
        /\ table[k] = "unissued"
        /\ UNCHANGED <<now, pc, call, spent>>
    BY <1>3 DEF HostCreates, TypeOK
  <2>2. Quiet
    BY <2>1, <1>0 DEF Quiet, NewRow
  <2>3. ASSUME NEW p \in Requests PROVE CallInv(p)'
    <3>1. pc[p] # "new" => call[p].key \in Keys
      BY DEF TypeOK
    <3> QED BY <2>1, <3>1 DEF CallInv
  <2> QED BY <2>2, <2>3
<1>4. CASE Tick
  <2>1. now' = now + 1 /\ UNCHANGED <<table, row, pc, call, spent, granted>>
    BY <1>4 DEF Tick
  <2>2. \A q \in Requests : spent[q] \in Time
    BY DEF TypeOK
  <2> QED BY <2>1, <2>2, <1>0 DEF Quiet, CallInv, Time, Never
<1>5. CASE UNCHANGED vars
  <2>1. UNCHANGED <<now, table, row, pc, call, spent, granted>>
    BY <1>5 DEF vars, history
  <2> QED BY <2>1, <1>0 DEF Quiet, CallInv
<1> QED BY <1>1, <1>2, <1>3, <1>4, <1>5 DEF Next

-----------------------------------------------------------------------------
(* The sets of uses.                                                       *)

LEMMA UsesFinite ==
    \A k, from : /\ Uses(k, from) \subseteq Requests
                 /\ IsFiniteSet(Uses(k, from))
                 /\ Cardinality(Uses(k, from)) \in Nat
  BY ApiKeyAssumption, FS_Subset, FS_CardinalityType DEF Uses

\* A quiet step leaves the uses of every key as they are.
LEMMA QuietUses ==
    ASSUME TypeOK, TypeOK', Quiet, \A p \in Requests : CallInv(p), NEW k, NEW from \in Nat
    PROVE  Uses(k, from)' = Uses(k, from)
  BY DEF Quiet, Uses

\* A key without a row has no uses.
LEMMA NoUsesYet ==
    ASSUME TypeOK, \A p \in Requests : CallInv(p), NEW k \in Keys, table[k] = "unissued",
           NEW from \in Nat
    PROVE  Uses(k, from) = {}
  BY DEF Uses, CallInv

\* A counted use joins the uses of its own key from any time up to now.
LEMMA CountedUses ==
    ASSUME TypeOK, TypeOK', \A p \in Requests : CallInv(p), NEW p \in Requests,
           NEW k \in Keys, call[p].key = k, Counts(p, k), NEW j \in Keys, NEW from \in Nat
    PROVE  /\ j # k => Uses(j, from)' = Uses(j, from)
           /\ from > now => Uses(k, from)' = Uses(k, from)
           /\ from <= now => Uses(k, from)' = Uses(k, from) \cup {p}
           /\ p \notin Uses(k, from)
<1>1. call[p].op = "use" /\ spent[p] = Never
  BY DEF Counts, CallInv
<1>2. spent'[p] = now /\ \A q \in Requests \ {p} : spent'[q] = spent[q]
  BY DEF Counts, TypeOK
<1>3. call' = call /\ now \in Nat /\ now # Never
  BY DEF Counts, TypeOK, Never
<1> QED BY <1>1, <1>2, <1>3 DEF Uses

LEMMA RowTyped ==
    ASSUME TypeOK, NEW k \in Keys
    PROVE  /\ row[k] \in Row /\ LastRefill(row[k]) \in Nat
           /\ now \in Nat /\ \A p \in Requests : spent[p] \in Nat \cup {Never}
  BY DEF TypeOK, Row, LastRefill, Time

-----------------------------------------------------------------------------
(* The quota.                                                              *)

\* The quota's equation speaks of the uses since a time the step may move.
LEMMA SinceRefill ==
    ASSUME NEW k, NEW from, LastRefill(row'[k]) = from
    PROVE  Uses(k, LastRefill(row[k]))' = Uses(k, from)'
  BY DEF Uses

LEMMA QuietKeepsMeter ==
    ASSUME TypeOK, TypeOK', MeterInv, Quiet, NEW k \in Keys
    PROVE  KeyInv(k)'
<1>0. \A p \in Requests : CallInv(p)
  BY DEF MeterInv
<1>1. now \in Nat /\ now' \in Nat /\ now' >= now /\ row[k] \in Row /\ row'[k] \in Row
  BY DEF TypeOK, Quiet
<1>u. \A from \in Nat : Uses(k, from)' = Uses(k, from)
  BY <1>0, QuietUses
<1>2. CASE table[k] # "unissued"
  <2>1. KeyInv(k)
    BY DEF MeterInv
  <2>2. PICK from \in Nat : from = LastRefill(row[k])
    BY RowTyped
  <2>3. LastRefill(row'[k]) = from
    BY <1>2, <2>2 DEF Quiet, LastRefill
  <2>4. Uses(k, LastRefill(row[k]))' = Uses(k, LastRefill(row[k]))
    BY <1>u, <2>2, <2>3, SinceRefill
  <2>5. Uses(k, 0)' = Uses(k, 0)
    BY <1>u
  <2>6. \A p \in Uses(k, 0) : spent'[p] = spent[p]
    BY DEF Quiet
  <2>7. /\ row'[k].last = row[k].last /\ row'[k].remaining = row[k].remaining
        /\ row'[k].refill = row[k].refill /\ granted'[k] = granted[k]
    BY <1>2 DEF Quiet
  <2>8. LastRefill(row'[k]) = LastRefill(row[k]) /\ Metered(row'[k]) = Metered(row[k])
    BY <2>2, <2>3, <2>7 DEF Metered
  <2>9. row'[k].last <= now' /\ LastRefill(row'[k]) <= now'
    BY <1>1, <1>2, <2>1, <2>2, <2>7, <2>8 DEF KeyInv, Row, Time, Never
  <2> QED BY <1>2, <2>1, <2>4, <2>5, <2>6, <2>7, <2>8, <2>9 DEF KeyInv
<1>3. CASE table[k] = "unissued" /\ table'[k] # "unissued"
  <2>1. /\ granted'[k] = row'[k].remaining /\ row'[k].refilled = Never
        /\ row'[k].last = Never /\ row'[k].created = now'
    BY <1>3 DEF Quiet
  <2>2. LastRefill(row'[k]) = now' /\ row'[k].last <= now'
    BY <1>1, <2>1 DEF LastRefill, Never
  <2>3. \A from \in Nat : Uses(k, from)' = {}
    BY <1>0, <1>3, <1>u, NoUsesYet
  <2>4. Uses(k, LastRefill(row[k]))' = {} /\ Uses(k, 0)' = {}
    <3>1. PICK from \in Nat : from = now'
      BY <1>1
    <3> QED BY <3>1, <2>2, <2>3, SinceRefill
  <2>5. Metered(row'[k]) => row'[k].remaining + Cardinality({}) = granted'[k]
    <3>1. Metered(row'[k]) => row'[k].remaining \in Nat
      BY <1>1 DEF Metered, Row
    <3> QED BY <2>1, <3>1, FS_EmptySet
  <2>6. Metered(row'[k]) => row'[k].remaining + Cardinality(Uses(k, LastRefill(row[k]))')
                              = granted'[k]
    BY <2>4, <2>5
  <2>7. \A p \in Uses(k, 0)' : FALSE
    BY <2>4
  <2>8. LastRefill(row'[k]) <= now' /\ row'[k].last <= now'
    BY <1>1, <2>2
  <2> QED BY <2>6, <2>7, <2>8 DEF KeyInv
<1>4. CASE table'[k] = "unissued"
  BY <1>4 DEF KeyInv
<1> QED BY <1>2, <1>3, <1>4

\* Counting a use of k: it comes out of what is left, or out of the refill
\* that is due, and in that case every earlier use lies before the refill.
LEMMA CountKeepsMeter ==
    ASSUME TypeOK, TypeOK', MeterInv, NEW p \in Requests, NEW k \in Keys,
           call[p].key = k, Counts(p, k), NEW j \in Keys
    PROVE  KeyInv(j)'
<1>0. \A q \in Requests : CallInv(q)
  BY DEF MeterInv
<1>1. /\ now \in Nat /\ row[j] \in Row /\ row[k] \in Row /\ table' = table /\ now' = now
      /\ spent'[p] = now /\ \A q \in Requests \ {p} : spent'[q] = spent[q]
  BY DEF TypeOK, Counts
<1>2. CASE j # k
  <2>1. row'[j] = row[j] /\ granted'[j] = granted[j] /\ KeyInv(j)
    BY <1>2 DEF Counts, TypeOK, MeterInv
  <2>2. \A from \in Nat : Uses(j, from)' = Uses(j, from)
    BY <1>0, <1>2, CountedUses
  <2>3. PICK from \in Nat : from = LastRefill(row[j])
    BY RowTyped
  <2>4. Uses(j, LastRefill(row[j]))' = Uses(j, LastRefill(row[j])) /\ Uses(j, 0)' = Uses(j, 0)
    BY <2>1, <2>2, <2>3, SinceRefill
  <2>5. p \notin Uses(j, 0)
    BY <1>2 DEF Uses
  <2>6. \A q \in Uses(j, 0) : spent'[q] = spent[q]
    BY <1>1, <2>5 DEF Uses
  <2> QED BY <1>1, <2>1, <2>4, <2>6 DEF KeyInv
<1>3. CASE j = k
  <2> DEFINE r == row[k]
             s == Spent(row[k])
  <2>1. /\ row'[k] = s /\ ~ Exhausted(r) /\ table[k] # "unissued"
        /\ granted'[k] = IF Metered(r) /\ RefillDue(r) THEN RefillAmount ELSE granted[k]
    BY DEF Counts, TypeOK
  <2>2. /\ s \in Row
        /\ s.remaining = IF Metered(r) THEN Available(r) - 1 ELSE r.remaining
        /\ s.refilled = IF Metered(r) /\ RefillDue(r) THEN now ELSE r.refilled
        /\ s.last = now /\ s.refill = r.refill /\ s.created = r.created
        /\ Metered(r) => Available(r) \in Nat \ {0} /\ s.remaining \in Nat
    BY <1>1, <2>1, SpentTyped
  <2>3. KeyInv(k) /\ LastRefill(r) \in Nat
    BY RowTyped DEF MeterInv
  <2>4. Metered(s) = Metered(r)
    BY <2>2 DEF Metered, Unlimited
  <2>5. Uses(k, 0)' = Uses(k, 0) \cup {p} /\ p \notin Uses(k, 0)
    BY <1>0, <1>1, CountedUses
  <2>6. \A q \in Uses(k, 0) : spent'[q] = spent[q] /\ spent[q] \in Nat /\ spent[q] <= now
    <3>1. \A q \in Uses(k, 0) : q \in Requests /\ q # p /\ spent[q] # Never
      BY <2>5 DEF Uses
    <3> QED BY <1>0, <1>1, <3>1, RowTyped DEF CallInv
  <2> HIDE DEF r, s
  <2>7. \A q \in Uses(k, 0)' : spent'[q] <= now
    BY <1>1, <2>5, <2>6
  <2>8. CASE Metered(r) /\ RefillDue(r)
    <3>1. LastRefill(s) = now
      BY <1>1, <2>2, <2>8 DEF LastRefill, Never
    <3>2. Uses(k, now) = {}
      <4>1. \A q \in Uses(k, 0) : spent[q] < now
        <5>1. \A q \in Uses(k, 0) : spent[q] - LastRefill(r) <= RefillInterval
          BY <2>1, <2>3, <2>8 DEF KeyInv, RefillDue, r
        <5>2. now - LastRefill(r) > RefillInterval
          BY <2>8 DEF RefillDue
        <5> QED BY <1>1, <2>3, <2>6, <5>1, <5>2, ApiKeyAssumption
      <4>2. \A q \in Uses(k, now) : q \in Uses(k, 0) /\ spent[q] >= now
        BY <1>1, RowTyped DEF Uses, Never
      <4> QED BY <1>1, <2>6, <4>1, <4>2
    <3>3. Uses(k, now)' = {p}
      BY <1>0, <1>1, <3>2, CountedUses
    <3>4. Uses(k, LastRefill(row[k]))' = {p}
      <4>1. PICK from \in Nat : from = now
        BY <1>1
      <4>2. LastRefill(row'[k]) = from
        BY <2>1, <3>1, <4>1
      <4>3. Uses(k, from)' = {p}
        BY <3>3, <4>1, <1>0, <3>2, CountedUses, <1>1
      <4> QED BY <4>2, <4>3, SinceRefill
    <3>5. s.remaining + Cardinality({p}) = granted'[k]
      <4>1. Cardinality({p}) = 1 /\ s.remaining = RefillAmount - 1
        BY <2>2, <2>8, FS_Singleton DEF Available
      <4> QED BY <2>1, <2>8, <4>1, ApiKeyAssumption
    <3>6. \A q \in Uses(k, 0)' : spent'[q] - LastRefill(s) <= RefillInterval
      BY <1>1, <2>5, <2>6, <2>7, <3>1, ApiKeyAssumption
    <3>7. row'[k].remaining + Cardinality(Uses(k, LastRefill(row[k]))') = granted'[k]
      BY <2>1, <3>4, <3>5
    <3>8. /\ LastRefill(row'[k]) <= now' /\ row'[k].last <= now'
          /\ \A q \in Uses(k, 0)' : spent'[q] <= row'[k].last
          /\ \A q \in Uses(k, 0)' : spent'[q] - LastRefill(row'[k]) <= RefillInterval
      BY <1>1, <2>1, <2>2, <2>7, <3>1, <3>6
    <3> QED BY <1>3, <3>7, <3>8 DEF KeyInv
  <2>9. CASE ~ (Metered(r) /\ RefillDue(r))
    <3>1. LastRefill(s) = LastRefill(r) /\ granted'[k] = granted[k] /\ LastRefill(r) <= now
      BY <2>1, <2>2, <2>3, <2>9 DEF LastRefill, KeyInv, r
    <3>2. PICK from \in Nat : from = LastRefill(r)
      BY <2>3
    <3>3. Uses(k, from)' = Uses(k, from) \cup {p} /\ p \notin Uses(k, from)
      <4>1. from <= now
        BY <3>1, <3>2
      <4> QED BY <1>0, <1>1, <4>1, CountedUses
    <3>4. Uses(k, LastRefill(row[k]))' = Uses(k, from) \cup {p}
      BY <2>1, <3>1, <3>2, <3>3, SinceRefill
    <3>5. ASSUME Metered(r)
          PROVE  s.remaining + Cardinality(Uses(k, from) \cup {p}) = granted'[k]
      <4>1. Cardinality(Uses(k, from) \cup {p}) = Cardinality(Uses(k, from)) + 1
        BY <3>3, UsesFinite, FS_AddElement
      <4>2. s.remaining = r.remaining - 1 /\ r.remaining \in Nat
        BY <1>1, <2>2, <2>9, <3>5 DEF Available, Metered, Row, r
      <4>3. r.remaining + Cardinality(Uses(k, from)) = granted[k]
        BY <2>1, <2>3, <3>2, <3>5 DEF KeyInv, r
      <4> QED BY <3>1, <4>1, <4>2, <4>3, UsesFinite
    <3>6. ASSUME Metered(r), r.refill, NEW q \in Uses(k, 0)'
          PROVE  spent'[q] - LastRefill(s) <= RefillInterval
      <4>1. now - LastRefill(r) <= RefillInterval
        BY <1>1, <2>3, <2>9, <3>6, ApiKeyAssumption DEF RefillDue
      <4>2. CASE q = p
        BY <1>1, <3>1, <4>1, <4>2
      <4>3. CASE q \in Uses(k, 0)
        BY <2>1, <2>3, <2>6, <3>1, <3>6, <4>3 DEF KeyInv, r
      <4> QED BY <2>5, <4>2, <4>3
    <3>7. Metered(row'[k]) =>
             row'[k].remaining + Cardinality(Uses(k, LastRefill(row[k]))') = granted'[k]
      BY <2>1, <2>4, <3>4, <3>5
    <3>8. /\ LastRefill(row'[k]) <= now' /\ row'[k].last <= now'
          /\ \A q \in Uses(k, 0)' : spent'[q] <= row'[k].last
      BY <1>1, <2>1, <2>2, <2>7, <3>1
    <3>9. Metered(row'[k]) /\ row'[k].refill =>
             \A q \in Uses(k, 0)' : spent'[q] - LastRefill(row'[k]) <= RefillInterval
      BY <2>1, <2>2, <2>4, <3>6
    <3> QED BY <1>3, <3>7, <3>8, <3>9 DEF KeyInv
  <2> QED BY <2>8, <2>9
<1> QED BY <1>2, <1>3

LEMMA MeterKept ==
    ASSUME TypeOK, TypeOK', MeterInv, [Next]_vars
    PROVE  MeterInv'
<1>1. \A p \in Requests : CallInv(p)
  BY DEF MeterInv
<1>2. \A p \in Requests : CallInv(p)'
  BY <1>1, StepKinds
<1>3. \A k \in Keys : KeyInv(k)'
  BY <1>1, StepKinds, QuietKeepsMeter, CountKeepsMeter
<1> QED BY <1>2, <1>3 DEF MeterInv

LEMMA MeterStarts == Init => MeterInv
  BY DEF Init, MeterInv, CallInv, KeyInv, Uses, Never

THEOREM MeterInvHolds == Spec => []MeterInv
<1>1. TypeOK /\ TypeOK' /\ MeterInv /\ [Next]_vars => MeterInv'
  BY MeterKept
<1> QED BY <1>1, MeterStarts, TypeCorrect, PTL DEF Spec

\* However many requests spend a key at once, what it has left and what was
\* counted since its last refill are together what it was given: no use is
\* lost and none is given away (consume_api_key_usage).
THEOREM QuotaIsConserved == Spec => []QuotaConserved
<1>1. MeterInv => QuotaConserved
  BY DEF MeterInv, KeyInv, QuotaConserved, Present
<1> QED BY <1>1, MeterInvHolds, PTL

-----------------------------------------------------------------------------
(* The rate limit.                                                         *)

WindowsKept == \A k \in Keys : WindowInv(k)

LEMMA InWindowFinite ==
    ASSUME NEW k, NEW from
    PROVE  /\ IsFiniteSet(InWindow(k, from))
           /\ Cardinality(InWindow(k, from)) \in Nat
           /\ Cardinality(InWindow(k, from)) <= Cardinality(Uses(k, from))
  BY UsesFinite, FS_Subset, FS_CardinalityType DEF InWindow

LEMMA QuietKeepsWindows ==
    ASSUME TypeOK, TypeOK', MeterInv, WindowsKept, Quiet, NEW k \in Keys
    PROVE  WindowInv(k)'
<1>0. \A p \in Requests : CallInv(p)
  BY DEF MeterInv
<1>1. \A from \in Nat : Uses(k, from)' = Uses(k, from)
  BY <1>0, QuietUses
<1>2. \A from \in Nat : InWindow(k, from)' = InWindow(k, from)
  <2> TAKE from \in Nat
  <2>1. PICK to \in Nat : to = from + Window + 1
    BY ApiKeyAssumption
  <2>2. Uses(k, from)' = Uses(k, from) /\ Uses(k, to)' = Uses(k, to)
    BY <1>1
  <2> QED BY <2>1, <2>2 DEF InWindow
<1>3. CASE table[k] # "unissued"
  <2>1. row'[k].count = row[k].count /\ row'[k].last = row[k].last
    BY <1>3 DEF Quiet
  <2> QED BY <1>1, <1>2, <1>3, <2>1 DEF WindowInv, WindowsKept
<1>4. CASE table[k] = "unissued" /\ table'[k] # "unissued"
  <2>1. row'[k].count = 0 /\ row'[k].last = Never
    BY <1>4 DEF Quiet
  <2>2. \A from \in Nat : Uses(k, from) = {} /\ InWindow(k, from) = {}
    BY <1>0, <1>4, NoUsesYet DEF InWindow
  <2>3. 0 <= MaxRequests
    BY ApiKeyAssumption
  <2> QED BY <1>1, <1>2, <2>1, <2>2, <2>3, FS_EmptySet DEF WindowInv, Never
<1>5. CASE table'[k] = "unissued"
  BY <1>5 DEF WindowInv
<1> QED BY <1>3, <1>4, <1>5

\* A use that passes the limit either opens a window, and then no earlier use
\* lies in any window it lies in, or adds one to a count below the maximum.
LEMMA CountKeepsWindows ==
    ASSUME RateLimited, MaxRequests >= 1,
           TypeOK, TypeOK', MeterInv, WindowsKept, NEW p \in Requests, NEW k \in Keys,
           call[p].key = k, Counts(p, k), NEW j \in Keys
    PROVE  WindowInv(j)'
<1>0. \A q \in Requests : CallInv(q)
  BY DEF MeterInv
<1>1. /\ now \in Nat /\ row[k] \in Row /\ table' = table /\ now' = now
      /\ Window \in Nat /\ MaxRequests \in Nat
  BY ApiKeyAssumption DEF TypeOK, Counts
<1>2. CASE j # k
  <2>1. row'[j] = row[j] /\ WindowInv(j)
    BY <1>2 DEF Counts, TypeOK, WindowsKept
  <2>2. \A from \in Nat : Uses(j, from)' = Uses(j, from)
    BY <1>0, <1>2, CountedUses
  <2>3. \A from \in Nat : InWindow(j, from)' = InWindow(j, from)
    <3> TAKE from \in Nat
    <3>1. PICK to \in Nat : to = from + Window + 1
      BY <1>1
    <3>2. Uses(j, from)' = Uses(j, from) /\ Uses(j, to)' = Uses(j, to)
      BY <2>2
    <3> QED BY <3>1, <3>2 DEF InWindow
  <2> QED BY <1>1, <2>1, <2>2, <2>3 DEF WindowInv
<1>3. CASE j = k
  <2> DEFINE r == row[k]
             s == Spent(row[k])
  <2>1. row'[k] = s /\ ~ Exhausted(r) /\ ~ OverLimit(r) /\ table[k] # "unissued"
    BY DEF Counts, TypeOK
  <2>2. s.last = now /\ s.count = IF WindowOver(r) THEN 1 ELSE r.count + 1
    BY <1>1, <2>1, SpentTyped
  <2>3. r.count \in Nat /\ r.last \in Nat \cup {Never}
    BY <1>1 DEF Row, Time
  <2>4. /\ r.count <= MaxRequests
        /\ \A from \in Nat :
              /\ Cardinality(InWindow(k, from)) <= MaxRequests
              /\ from <= r.last /\ r.last <= from + Window =>
                    Cardinality(Uses(k, from)) <= r.count
    BY <2>1 DEF WindowInv, WindowsKept
  <2>5. r.last <= now /\ \A q \in Uses(k, 0) : spent[q] <= r.last
    BY <2>1 DEF MeterInv, KeyInv
  <2>6. ~ WindowOver(r) => r.last # Never /\ now - r.last <= Window /\ r.count < MaxRequests
    BY <1>1, <2>1, <2>3 DEF WindowOver, OverLimit
  <2>7. WindowOver(r) => r.last = Never \/ now - r.last > Window
    BY DEF WindowOver
  <2> HIDE DEF r, s
  <2>8. s.count <= MaxRequests /\ s.count \in Nat
    BY <1>1, <2>2, <2>3, <2>6
  <2>u. \A from \in Nat : /\ from > now => Uses(k, from)' = Uses(k, from)
                          /\ from <= now => Uses(k, from)' = Uses(k, from) \cup {p}
                          /\ p \notin Uses(k, from)
    BY <1>0, CountedUses
  <2>9. ASSUME NEW from \in Nat, now \in from .. from + Window
        PROVE  Cardinality(Uses(k, from)') <= s.count
    <3>1. Uses(k, from)' = Uses(k, from) \cup {p} /\ p \notin Uses(k, from)
      BY <1>1, <2>9, <2>u
    <3>2. Cardinality(Uses(k, from)') = Cardinality(Uses(k, from)) + 1
      BY <3>1, UsesFinite, FS_AddElement
    <3>3. \A q \in Uses(k, from) : from <= r.last
      <4>1. \A q \in Uses(k, from) : q \in Uses(k, 0) /\ from <= spent[q] /\ spent[q] \in Nat
        BY RowTyped DEF Uses, Never
      <4> QED BY <2>3, <2>5, <4>1 DEF Never
    <3>4. CASE Uses(k, from) = {}
      BY <2>2, <2>3, <3>2, <3>4, FS_EmptySet
    <3>5. CASE Uses(k, from) # {}
      <4>1. from <= r.last
        BY <3>3, <3>5
      <4>2. ~ WindowOver(r)
        BY <1>1, <2>3, <2>7, <2>9, <4>1 DEF Never
      <4>3. r.last <= from + Window
        BY <1>1, <2>3, <2>5, <2>9 DEF Never
      <4>4. Cardinality(Uses(k, from)) <= r.count
        BY <2>4, <4>1, <4>3
      <4> QED BY <2>2, <2>3, <3>2, <4>2, <4>4, UsesFinite
    <3> QED BY <3>4, <3>5
  <2>10. ASSUME NEW from \in Nat
         PROVE  Cardinality(InWindow(k, from)') <= MaxRequests
    <3>1. PICK to \in Nat : to = from + Window + 1
      BY <1>1
    <3>2. CASE now \in from .. from + Window
      <4>1. InWindow(k, from)' \subseteq Uses(k, from)'
        BY DEF InWindow
      <4>2. IsFiniteSet(Uses(k, from)')
        <5>1. Uses(k, from)' = Uses(k, from) \cup {p}
          BY <1>1, <3>2, <2>u
        <5> QED BY <5>1, UsesFinite, FS_AddElement
      <4>3. /\ Cardinality(InWindow(k, from)') <= Cardinality(Uses(k, from)')
            /\ Cardinality(InWindow(k, from)') \in Nat
            /\ Cardinality(Uses(k, from)') \in Nat
        BY <4>1, <4>2, FS_Subset, FS_CardinalityType
      <4> QED BY <1>1, <2>8, <2>9, <3>2, <4>3
    <3>3. CASE now < from
      <4>1. Uses(k, from)' = Uses(k, from) /\ Uses(k, to)' = Uses(k, to)
        BY <1>1, <3>1, <3>3, <2>u
      <4>2. InWindow(k, from)' = InWindow(k, from)
        BY <3>1, <4>1 DEF InWindow
      <4> QED BY <2>4, <4>2
    <3>4. CASE now > from + Window
      <4>1. Uses(k, from)' = Uses(k, from) \cup {p} /\ Uses(k, to)' = Uses(k, to) \cup {p}
            /\ p \notin Uses(k, from)
        <5>1. to \in Nat /\ from <= now /\ to <= now
          BY <1>1, <3>1, <3>4
        <5> QED BY <1>1, <5>1, <2>u
      <4>2. InWindow(k, from)' = InWindow(k, from)
        BY <3>1, <4>1 DEF InWindow
      <4> QED BY <2>4, <4>2
    <3> QED BY <1>1, <3>2, <3>3, <3>4
  <2>11. \A from \in Nat : from <= s.last /\ s.last <= from + Window =>
            Cardinality(Uses(k, from)') <= s.count
    BY <1>1, <2>2, <2>9
  <2> QED BY <1>3, <2>1, <2>8, <2>10, <2>11 DEF WindowInv
<1> QED BY <1>2, <1>3

LEMMA WindowsPreserved ==
    ASSUME RateLimited, MaxRequests >= 1, TypeOK, TypeOK', MeterInv, WindowsKept,
           [Next]_vars
    PROVE  WindowsKept'
<1>1. \A p \in Requests : CallInv(p)
  BY DEF MeterInv
<1> QED BY <1>1, StepKinds, QuietKeepsWindows, CountKeepsWindows DEF WindowsKept

\* However the uses of a key interleave, no window of Window milliseconds,
\* wherever it is laid, holds more than MaxRequests of them, when that is at
\* least one (consume_api_key_usage).
THEOREM WindowIsLimited ==
    ASSUME MaxRequests >= 1
    PROVE  Spec => []WindowLimit
<1>1. CASE RateLimited
  <2>1. Init => WindowsKept
    BY DEF Init, WindowsKept, WindowInv
  <2>2. TypeOK /\ TypeOK' /\ MeterInv /\ WindowsKept /\ [Next]_vars => WindowsKept'
    BY <1>1, WindowsPreserved
  <2>3. TypeOK /\ MeterInv /\ WindowsKept => WindowLimit
    <3> SUFFICES ASSUME TypeOK, MeterInv, WindowsKept, NEW k \in Keys, NEW from \in 0 .. now
                 PROVE  Cardinality(InWindow(k, from)) <= MaxRequests
      BY DEF WindowLimit, InWindow
    <3>1. from \in Nat
      BY DEF TypeOK
    <3>2. CASE table[k] # "unissued"
      BY <3>1, <3>2 DEF WindowsKept, WindowInv
    <3>3. CASE table[k] = "unissued"
      <4>1. Uses(k, from) = {}
        BY <3>1, <3>3, NoUsesYet DEF MeterInv
      <4>2. InWindow(k, from) = {}
        BY <4>1 DEF InWindow
      <4> QED BY <4>2, FS_EmptySet, ApiKeyAssumption
    <3> QED BY <3>2, <3>3
  <2> QED BY <2>1, <2>2, <2>3, TypeCorrect, MeterInvHolds, PTL DEF Spec
<1>2. CASE ~ RateLimited
  <2>1. WindowLimit
    BY <1>2 DEF WindowLimit
  <2> QED BY <2>1, PTL
<1> QED BY <1>1, <1>2

-----------------------------------------------------------------------------
(* Disabling and deleting.                                                 *)

\* Where a request is in its handler.
Path(p) ==
    /\ pc[p] # "done" => outcome[p] = "none"
    /\ pc[p] \in {"consume", "load_user", "drop"} => call[p].op = "use"
    /\ pc[p] = "insert" => call[p].op = "create"
    /\ pc[p] = "update" => call[p].op \in Updates
    /\ pc[p] = "delete" => call[p].op = "delete"
    /\ pc[p] # "new" /\ call[p].op # "create" => table[call[p].key] # "unissued"
    /\ \A q \in prior[p] : pc[q] = "done"

\* A request whose disable or delete is in the table.
Took(q) ==
    \/ call[q].op = "disable" /\ (pc[q] = "sweep" \/ outcome[q] = "updated")
    \/ call[q].op = "delete" /\ outcome[q] = "deleted"

Shut(k) == table[k] = "gone" \/ (table[k] = "live" /\ ~ row[k].enabled)
Reopens(k) == Asked(k, {"enable"}) # {}

\* A use past its checks, or let in.
Inside(p) ==
    call[p].op = "use" /\ (pc[p] \in {"consume", "sweep", "load_user"} \/ outcome[p] = "accepted")

RevInv ==
    /\ \A p \in Requests : Path(p)
    /\ \A q \in Requests : Took(q) => Shut(call[q].key) \/ Reopens(call[q].key)
    /\ \A p \in Requests : \A q \in prior[p] :
          Took(q) /\ Inside(p) /\ call[p].key = call[q].key => Reopens(call[p].key)

\* What the invariant needs to know of a step of p: it moves p alone, keeps a
\* shut key shut, takes hold when p's update does, and lets p past the checks
\* only when the key is not shut.
StepOf(p) ==
    /\ pc[p] \notin {"new", "done"}
    /\ Moves(p)
    /\ UNCHANGED <<call, prior>>
    /\ Path(p)'
    /\ \A k \in Keys : table[k] # "unissued" => table'[k] # "unissued"
    /\ \A k \in Keys : Shut(k) => Shut(k)' \/ Reopens(k)
    /\ Took(p)' => Took(p) \/ Shut(call[p].key)'
    /\ Inside(p)' => Inside(p) \/ ~ Shut(call[p].key)

LEMMA StepsOf ==
    ASSUME TypeOK, TypeOK', \A q \in Requests : Path(q), NEW p \in Requests,
           Step(p) \/ StatementFails(p)
    PROVE  StepOf(p)
<1>0. LocalsOK /\ pc[p] \notin {"new", "done"}
  BY DEF TypeOK, LocalsOK, Step, StatementFails, Find, Drop, Consume, LoadUser, Insert,
         Update, Delete, Sweep, Statements
<1>1. PICK k \in Keys : k = call[p].key
  BY <1>0 DEF TypeOK
<1>2. row[k] \in Row /\ table[k] \in {"unissued", "live", "gone"} /\ call[p].op \in AllOps
  BY DEF TypeOK, Call
<1>3. UNCHANGED <<call, prior>>
  BY DEF Step, StatementFails, Find, Drop, Consume, LoadUser, Insert, Update, Delete,
         Sweep, history
<1>4. outcome[p] = "none" /\ Path(p)
  BY <1>0 DEF Path
<1>5. \A q \in prior[p] : q # p /\ pc[q] = "done"
  BY <1>0, <1>4 DEF Path
<1>6. ASSUME Moves(p) PROVE \A q \in prior'[p] : pc'[q] = "done"
  BY <1>3, <1>5, <1>6 DEF Moves, TypeOK
<1>7. CASE Find(p)
  <2>1. UNCHANGED <<table, row>> /\ pc[p] = "find"
    BY <1>7 DEF Find
  <2>2. CASE FindForUse(p)
    <3>1. \/ \E a \in {"refused", "disabled"} : Finish(p, a)
          \/ \E l \in {"drop", "consume"} : GotoWith(p, l, row[k]) /\ ~ Shut(k)
      BY <2>2, <1>1 DEF FindForUse, Shut, Present
    <3>2. /\ Moves(p) /\ call[p].op = "use"
          /\ \/ pc'[p] = "done" /\ outcome'[p] \in {"refused", "disabled"}
             \/ pc'[p] \in {"drop", "consume"} /\ ~ Shut(k) /\ outcome' = outcome
      BY <2>2, <3>1, <1>0, <1>2, FinishTyped, GotoWithTyped
         DEF FindForUse, Outcomes, Statements
    <3> QED BY <1>0, <1>1, <1>3, <1>4, <1>6, <2>1, <3>2
            DEF StepOf, Path, Shut, Took, Inside, Reopens, Asked
  <2>3. CASE FindForOwner(p) \/ FindList(p)
    <3>1. /\ call[p].op \notin {"use", "create"}
          /\ \/ Finish(p, "refused")
             \/ MaybeSweep(p) /\ call[p].op \in {"get", "list"}
             \/ GotoWith(p, "delete", row[k]) /\ call[p].op = "delete"
             \/ GotoWith(p, "update", row[k]) /\ call[p].op \in Updates
      BY <2>3, <1>1, <1>2 DEF FindForOwner, FindList, AllOps
    <3>2. /\ Moves(p) /\ call[p].op \notin {"use", "create"}
          /\ \/ pc'[p] = "done" /\ outcome'[p] = "refused"
             \/ pc'[p] = "sweep" /\ call[p].op \in {"get", "list"} /\ outcome' = outcome
             \/ pc'[p] = "done" /\ call[p].op \in {"get", "list"}
             \/ pc'[p] = "delete" /\ call[p].op = "delete" /\ outcome' = outcome
             \/ pc'[p] = "update" /\ call[p].op \in Updates /\ outcome' = outcome
      BY <3>1, <1>0, <1>2, FinishTyped, GotoWithTyped, MaybeSweepTyped
         DEF Outcomes, Statements
    <3> QED BY <1>0, <1>1, <1>3, <1>4, <1>6, <2>1, <3>2
            DEF StepOf, Path, Shut, Took, Inside, Reopens, Asked
  <2> QED BY <1>7, <2>2, <2>3 DEF Find
<1>8. CASE Drop(p) \/ Delete(p)
  <2>1. /\ Moves(p) /\ pc'[p] = "done" /\ outcome'[p] \in {"expired", "deleted"}
        /\ DeleteRow(k) /\ row' = row
        /\ outcome'[p] = "deleted" => pc[p] = "delete"
    BY <1>8, <1>0, <1>1, FinishTyped DEF Drop, Delete, Outcomes
  <2>2. /\ table'[k] = IF table[k] = "live" THEN "gone" ELSE table[k]
        /\ \A j \in Keys \ {k} : table'[j] = table[j]
    BY <2>1 DEF DeleteRow, TypeOK
  <2>3. table[k] # "unissued"
    BY <1>8, <1>1, <1>4 DEF Path, Drop, Delete
  <2> QED BY <1>0, <1>1, <1>2, <1>3, <1>4, <1>6, <2>1, <2>2, <2>3
          DEF StepOf, Path, Shut, Took, Inside, Reopens, Asked
<1>9. CASE Consume(p)
  <2>1. call[p].op = "use" /\ pc[p] = "consume"
    BY <1>9, <1>4 DEF Consume, Path
  <2>2. CASE /\ \E a \in {"error", "exhausted", "limited"} : Finish(p, a)
             /\ DeleteRow(k) \/ UNCHANGED table
             /\ row' = row
    <3>1. Moves(p) /\ pc'[p] = "done" /\ outcome'[p] \in {"error", "exhausted", "limited"}
      BY <2>2, <1>0, FinishTyped DEF Outcomes
    <3>2. /\ table'[k] = table[k] \/ (table[k] = "live" /\ table'[k] = "gone")
          /\ \A j \in Keys \ {k} : table'[j] = table[j]
      BY <2>2 DEF DeleteRow, TypeOK
    <3> QED BY <1>0, <1>1, <1>2, <1>3, <1>4, <1>6, <2>1, <2>2, <3>1, <3>2
            DEF StepOf, Path, Shut, Took, Inside, Reopens, Asked
  <2>3. CASE /\ ~ Exhausted(row[k]) /\ MaybeSweep(p) /\ UNCHANGED table
             /\ row' = [row EXCEPT ![k] = Spent(row[k])]
    <3>1. Moves(p) /\ pc'[p] \in {"sweep", "load_user"} /\ outcome' = outcome
      BY <2>1, <2>3, <1>0, MaybeSweepTyped
    <3>2. \A j \in Keys : row'[j].enabled = row[j].enabled
      BY <2>3, <1>2 DEF TypeOK, Spent, Row
    <3> QED BY <1>0, <1>1, <1>2, <1>3, <1>4, <1>6, <2>1, <2>3, <3>1, <3>2
            DEF StepOf, Path, Shut, Took, Inside, Reopens, Asked
  <2> QED BY <1>9, <1>1, <2>2, <2>3 DEF Consume, Spend
<1>10. CASE LoadUser(p)
  <2>1. Moves(p) /\ pc'[p] = "done" /\ outcome'[p] \in {"accepted", "no_user"}
    BY <1>10, <1>0, FinishTyped DEF LoadUser, Outcomes
  <2>2. UNCHANGED <<table, row>> /\ pc[p] = "load_user"
    BY <1>10 DEF LoadUser
  <2> QED BY <1>0, <1>1, <1>3, <1>4, <1>6, <2>1, <2>2
          DEF StepOf, Path, Shut, Took, Inside, Reopens, Asked
<1>11. CASE Insert(p)
  <2>1. call[p].op = "create" /\ pc[p] = "insert"
    BY <1>11, <1>4 DEF Insert, Path
  <2>2. Answer("create") = "created"
    BY DEF Answer
  <2>3. Moves(p) /\ pc'[p] \in {"sweep", "done"}
        /\ outcome'[p] \in {"none", "error", "created"}
    BY <1>11, <1>0, <1>4, <2>1, <2>2, FinishTyped, MaybeSweepTyped DEF Insert, Outcomes
  <2>4. \/ UNCHANGED <<table, row>>
        \/ /\ table[k] = "unissued" /\ table'[k] = "live"
           /\ \A j \in Keys \ {k} : table'[j] = table[j] /\ row'[j] = row[j]
    <3>1. \/ UNCHANGED <<table, row>>
          \/ /\ table[k] = "unissued" /\ table' = [table EXCEPT ![k] = "live"]
             /\ \E r : row' = [row EXCEPT ![k] = r]
      BY <1>11, <1>1 DEF Insert
    <3>2. k \in Keys /\ table \in [Keys -> {"unissued", "live", "gone"}]
          /\ row \in [Keys -> Row]
      BY <1>1 DEF TypeOK
    <3> QED BY <3>1, <3>2
  <2>5. pc'[p] # "done" => outcome'[p] = "none"
    BY <1>11, <1>0, <1>4, <2>1, FinishTyped, MaybeSweepTyped DEF Insert, Outcomes
  <2> QED BY <1>0, <1>1, <1>2, <1>3, <1>4, <1>6, <2>1, <2>3, <2>4, <2>5
          DEF StepOf, Path, Shut, Took, Inside, Reopens, Asked
<1>12. CASE Update(p)
  <2>1. call[p].op \in Updates /\ pc[p] = "update" /\ table' = table
    BY <1>12, <1>4 DEF Update, Path
  <2>2. \/ Finish(p, "error") /\ row' = row
        \/ /\ MaybeSweep(p) /\ table[k] = "live"
           /\ row' = [row EXCEPT ![k] = Changed(p, row[k])]
    BY <1>12, <1>1 DEF Update, Save, Present
  <2>3. CASE Finish(p, "error") /\ row' = row
    <3>1. Moves(p) /\ pc'[p] = "done" /\ outcome'[p] = "error"
      BY <2>3, <1>0, FinishTyped DEF Outcomes
    <3> QED BY <1>0, <1>1, <1>3, <1>4, <1>6, <2>1, <2>3, <3>1
            DEF StepOf, Path, Shut, Took, Inside, Reopens, Asked, Updates
  <2>4. CASE /\ MaybeSweep(p) /\ table[k] = "live"
             /\ row' = [row EXCEPT ![k] = Changed(p, row[k])]
    <3>1. /\ Moves(p) /\ pc'[p] \in {"sweep", "done"}
          /\ pc'[p] # "done" => outcome'[p] = "none"
      BY <2>1, <2>4, <1>0, <1>4, MaybeSweepTyped DEF Updates
    <3>2. /\ row'[k] = Changed(p, row[k])
          /\ \A j \in Keys \ {k} : row'[j] = row[j]
      BY <2>4 DEF TypeOK
    <3>3. /\ call[p].op = "disable" => ~ row'[k].enabled
          /\ call[p].op \notin {"enable", "disable"} => row'[k].enabled = row[k].enabled
      BY <1>2, <3>2 DEF Changed, Row
    <3>4. call[p].op = "enable" => Reopens(k)
      BY <1>0, <1>1 DEF Reopens, Asked
    <3>5. \A j \in Keys : Shut(j) => Shut(j)' \/ Reopens(j)
      BY <2>1, <2>4, <3>2, <3>3, <3>4 DEF Shut
    <3>6. Took(p)' => Shut(k)'
      BY <1>1, <1>3, <2>1, <2>4, <3>3 DEF Took, Shut, Updates
    <3>7. ~ Inside(p)'
      BY <1>3, <2>1 DEF Inside, Updates
    <3>8. Path(p)'
      BY <1>0, <1>1, <1>3, <1>4, <1>6, <2>1, <3>1 DEF Path, Updates
    <3> QED BY <1>0, <1>1, <1>3, <2>1, <3>1, <3>5, <3>6, <3>7, <3>8 DEF StepOf
  <2> QED BY <2>2, <2>3, <2>4
<1>13. CASE Sweep(p)
  <2>1. pc[p] = "sweep" /\ row' = row
        /\ \A j \in Keys : table'[j] = table[j] \/ (table[j] = "live" /\ table'[j] = "gone")
    BY <1>13 DEF Sweep, Present
  <2>2. /\ Moves(p)
        /\ IF call[p].op = "use" THEN pc'[p] = "load_user" /\ outcome' = outcome
                                 ELSE pc'[p] = "done" /\ outcome'[p] = Answer(call[p].op)
    BY <1>13, <1>0, AfterSweepTyped DEF Sweep
  <2>3. call[p].op = "delete" => Answer(call[p].op) # "deleted"
    BY DEF Answer
  <2> QED BY <1>0, <1>1, <1>3, <1>4, <1>6, <2>1, <2>2, <2>3
          DEF StepOf, Path, Shut, Took, Inside, Reopens, Asked
<1>14. CASE StatementFails(p)
  <2>1. UNCHANGED <<table, row>>
    BY <1>14 DEF StatementFails
  <2>2. CASE pc[p] = "sweep" /\ AfterSweep(p)
    <3>1. /\ Moves(p)
          /\ IF call[p].op = "use" THEN pc'[p] = "load_user" /\ outcome' = outcome
                                   ELSE pc'[p] = "done" /\ outcome'[p] = Answer(call[p].op)
      BY <2>2, <1>0, AfterSweepTyped
    <3>2. call[p].op = "delete" => Answer(call[p].op) # "deleted"
      BY DEF Answer
    <3> QED BY <1>0, <1>1, <1>3, <1>4, <1>6, <2>1, <2>2, <3>1, <3>2
            DEF StepOf, Path, Shut, Took, Inside, Reopens, Asked
  <2>3. CASE Finish(p, "expired") \/ Finish(p, "error")
    <3>1. Moves(p) /\ pc'[p] = "done" /\ outcome'[p] \in {"expired", "error"}
      BY <2>3, <1>0, FinishTyped DEF Outcomes
    <3> QED BY <1>0, <1>1, <1>3, <1>4, <1>6, <2>1, <3>1
            DEF StepOf, Path, Shut, Took, Inside, Reopens, Asked
  <2> QED BY <1>14, <2>2, <2>3 DEF StatementFails
<1> QED BY <1>7, <1>8, <1>9, <1>10, <1>11, <1>12, <1>13, <1>14 DEF Step

LEMMA StepKeepsRev ==
    ASSUME TypeOK, TypeOK', RevInv, NEW p \in Requests, StepOf(p)
    PROVE  RevInv'
<1>0. \A q \in Requests : pc[q] # "new" => call[q].key \in Keys
  BY DEF TypeOK
<1>1. \A q \in Requests \ {p} : /\ Path(q) => Path(q)'
                                /\ Took(q)' <=> Took(q)
                                /\ Inside(q)' <=> Inside(q)
  <2> TAKE q \in Requests \ {p}
  <2>1. pc'[q] = pc[q] /\ outcome'[q] = outcome[q] /\ call' = call /\ prior' = prior
    BY DEF StepOf, Moves
  <2>2. ASSUME Path(q) PROVE \A x \in prior'[q] : pc'[x] = "done"
    <3>1. \A x \in prior[q] : pc[x] = "done" /\ x # p
      BY <2>2 DEF Path, StepOf
    <3> QED BY <2>1, <3>1 DEF StepOf, Moves, TypeOK
  <2> QED BY <1>0, <2>1, <2>2 DEF StepOf, Path, Took, Inside
<1>2. \A k \in Keys : Reopens(k) => Reopens(k)'
  BY DEF StepOf, Moves, Reopens, Asked
<1>3. \A q \in Requests : Path(q)'
  BY <1>1 DEF RevInv, StepOf
<1>4. \A q \in Requests : Took(q) => pc[q] # "new"
  BY DEF Took, RevInv, Path
<1>5. call' = call /\ prior' = prior /\ call[p].key \in Keys
  BY <1>0 DEF StepOf
<1>6. ASSUME NEW q \in Requests, Took(q)'
      PROVE  Shut(call[q].key)' \/ Reopens(call[q].key)'
  <2>1. CASE Took(q)
    BY <1>0, <1>2, <1>4, <2>1 DEF RevInv, StepOf
  <2>2. CASE q = p /\ ~ Took(p)
    BY <1>6, <2>2 DEF StepOf
  <2> QED BY <1>1, <1>6, <2>1, <2>2
<1>7. ASSUME NEW q \in Requests, NEW x \in prior[q], Took(x)', Inside(q)',
             call[q].key = call[x].key
      PROVE  Reopens(call[q].key)'
  <2>1. x \in Requests /\ x # p
    BY DEF TypeOK, RevInv, Path, StepOf
  <2>2. Took(x)
    BY <1>1, <1>7, <2>1
  <2>3. call[x].key \in Keys
    BY <1>0, <1>4, <2>1, <2>2
  <2>4. ASSUME Reopens(call[q].key) PROVE Reopens(call[q].key)'
    <3>1. PICK k \in Keys : k = call[q].key
      BY <1>7, <2>3
    <3>2. k = call'[q].key
      BY <1>5, <3>1
    <3>3. Reopens(k)'
      BY <1>2, <2>4, <3>1
    <3> QED BY <3>2, <3>3
  <2>5. CASE Inside(q)
    <3>1. Reopens(call[q].key)
      BY <1>7, <2>2, <2>5 DEF RevInv
    <3> QED BY <2>4, <3>1
  <2>6. CASE q = p /\ ~ Inside(p)
    <3>1. ~ Shut(call[p].key)
      BY <1>7, <2>6 DEF StepOf
    <3>2. Reopens(call[q].key)
      BY <1>7, <2>1, <2>2, <2>6, <3>1 DEF RevInv
    <3> QED BY <2>4, <3>2
  <2> QED BY <1>1, <1>7, <2>5, <2>6
<1> QED BY <1>3, <1>5, <1>6, <1>7 DEF RevInv

LEMMA RevKept ==
    ASSUME TypeOK, TypeOK', RevInv, [Next]_vars
    PROVE  RevInv'
<1>0. LocalsOK /\ \A q \in Requests : Path(q)
  BY DEF TypeOK, LocalsOK, RevInv
<1>1. ASSUME NEW p \in Requests, Step(p) \/ StatementFails(p) PROVE RevInv'
  BY <1>0, <1>1, StepsOf, StepKeepsRev
<1>2. ASSUME NEW p \in Requests, NEW o \in AllOps, NEW k \in Keys,
             NEW u \in Users \cup {NoUser}, NEW s \in ExpiresIn \cup {NoExpiry},
             Begin(p, o, k, u, s)
      PROVE  RevInv'
  <2>1. /\ pc[p] = "new" /\ outcome[p] = "none"
        /\ UNCHANGED <<table, row>>
        /\ (o = "create") <=> (table[k] = "unissued")
    BY <1>0, <1>2 DEF Begin, Path
  <2>2. /\ call'[p].op = o /\ call'[p].key = k
        /\ \A q \in Requests \ {p} : call'[q] = call[q]
        /\ prior'[p] = Answered
        /\ \A q \in Requests \ {p} : prior'[q] = prior[q]
    BY <1>2 DEF Begin, TypeOK
  <2>3. /\ Moves(p)
        /\ \/ pc'[p] = "find" /\ outcome' = outcome
           \/ pc'[p] = "insert" /\ o = "create" /\ outcome' = outcome
           \/ pc'[p] = "done" /\ outcome'[p] = "refused"
    <3>1. \/ Finish(p, "refused") \/ Goto(p, "find")
          \/ o = "create" /\ Goto(p, "insert")
      BY <1>2 DEF Begin
    <3> QED BY <3>1, <1>0, FinishTyped, GotoTyped DEF Outcomes, Statements
  <2>4. \A q \in Requests : pc[q] = "done" => pc'[q] = "done" /\ q # p
    BY <2>1, <2>3 DEF Moves
  <2>5. \A q \in Requests : Path(q)'
    <3>1. Path(p)'
      BY <2>1, <2>2, <2>3, <2>4 DEF Path, Answered, Moves
    <3>2. ASSUME NEW q \in Requests \ {p} PROVE Path(q)'
      <4>1. prior[q] \subseteq Requests /\ Path(q)
        BY <1>0 DEF TypeOK
      <4> QED BY <2>1, <2>2, <2>3, <2>4, <4>1 DEF Path, Moves
    <3> QED BY <3>1, <3>2
  <2>6. ~ Took(p)' /\ ~ Inside(p)' /\ ~ Took(p)
    BY <2>1, <2>2, <2>3 DEF Took, Inside
  <2>7. \A q \in Requests \ {p} : (Took(q)' <=> Took(q)) /\ (Inside(q)' <=> Inside(q))
    BY <2>2, <2>3 DEF Took, Inside, Moves
  <2>8. \A j : (Reopens(j) => Reopens(j)') /\ (Shut(j)' <=> Shut(j))
    <3> TAKE j
    <3>1. Asked(j, {"enable"}) \subseteq Asked(j, {"enable"})'
      BY <2>1, <2>2, <2>3 DEF Asked, Moves
    <3> QED BY <2>1, <3>1 DEF Reopens, Shut
  <2>9. \A q \in Requests : prior[q] \subseteq Requests
    BY DEF TypeOK
  <2> QED BY <2>2, <2>5, <2>6, <2>7, <2>8, <2>9 DEF RevInv
<1>3. ASSUME NEW k \in Keys, NEW u \in Users, NEW q \in HostQuotas, NEW f \in BOOLEAN,
             HostCreates(k, u, q, f)
      PROVE  RevInv'
  <2>1. /\ table[k] = "unissued" /\ table'[k] = "live"
        /\ \A j \in Keys \ {k} : table'[j] = table[j] /\ row'[j] = row[j]
        /\ UNCHANGED <<pc, call, outcome, prior>>
    BY <1>3 DEF HostCreates, TypeOK
  <2>2. \A p \in Requests : pc[p] # "new" => call[p].key \in Keys
    BY DEF TypeOK
  <2>3. \A p \in Requests : Path(p)'
    BY <1>0, <2>1, <2>2 DEF Path
  <2>4. \A p \in Requests : Took(p) => pc[p] # "new"
    BY <1>0 DEF Took, Path
  <2>5. \A j \in Keys : (Reopens(j)' <=> Reopens(j)) /\ (Shut(j) => Shut(j)')
    BY <2>1 DEF Reopens, Asked, Shut
  <2>6. \A p \in Requests : (Took(p)' <=> Took(p)) /\ (Inside(p)' <=> Inside(p))
    BY <2>1 DEF Took, Inside
  <2>7. \A p \in Requests : prior[p] \subseteq Requests
    BY DEF TypeOK
  <2> QED BY <2>1, <2>2, <2>3, <2>4, <2>5, <2>6, <2>7 DEF RevInv
<1>4. CASE Tick \/ UNCHANGED vars
  <2>1. UNCHANGED <<table, row, pc, call, outcome, prior>>
    BY <1>4 DEF Tick, vars, history
  <2> QED BY <2>1 DEF RevInv, Path, Took, Inside, Shut, Reopens, Asked
<1> QED BY <1>1, <1>2, <1>3, <1>4 DEF Next

THEOREM RevInvHolds == Spec => []RevInv
<1>1. Init => RevInv
  BY DEF Init, RevInv, Path, Took, Updates
<1>2. TypeOK /\ TypeOK' /\ RevInv /\ [Next]_vars => RevInv'
  BY RevKept
<1> QED BY <1>1, <1>2, TypeCorrect, PTL DEF Spec

\* Once a disable or a delete was answered with success, and if nobody asks to
\* enable the key, no request that arrives later is let in with it, whatever
\* renames, renewals and uses were under way (update_key_core's partial
\* update).
THEOREM RevocationTakesHold == Spec => []RevocationBinds
<1>1. ASSUME RevInv PROVE RevocationBinds
  <2> SUFFICES ASSUME NEW k \in Keys, Asked(k, {"enable"}) = {},
                      NEW q \in Did(k, {"disable"}, "updated") \cup Did(k, {"delete"}, "deleted"),
                      NEW p \in Did(k, {"use"}, "accepted"), q \in prior[p]
               PROVE  FALSE
    BY DEF RevocationBinds
  <2>1. q \in Requests /\ Took(q) /\ call[q].key = k
    BY DEF Did, Asked, Took
  <2>2. p \in Requests /\ Inside(p) /\ call[p].key = k
    BY DEF Did, Asked, Inside
  <2> QED BY <1>1, <2>1, <2>2 DEF RevInv, Reopens
<1> QED BY <1>1, RevInvHolds, PTL

=============================================================================
