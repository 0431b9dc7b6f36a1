------------------------------ MODULE ApiKeys ------------------------------
(***************************************************************************)
(* The api-key plugin: the handlers of crates/api/src/plugins/api_key over *)
(* the api_keys table (crates/seaorm/src/store/api_keys.rs).               *)
(*                                                                         *)
(* A request that carries a key looks the key up, checks that copy, and    *)
(* then spends one use of the key in a transaction of its own, which       *)
(* counts down the quota, refills it, and counts the rate-limit window.    *)
(* The owner's requests, the throttled cleanup of expired keys and other   *)
(* uses run between any two of its statements.                             *)
(*                                                                         *)
(* The clock counts milliseconds; Second is how many make a second, so an  *)
(* instance can scale both down together.                                  *)
(***************************************************************************)
EXTENDS Integers, FiniteSets

CONSTANTS
    Keys,           \* the key names the generator may return
    Users,          \* user ids
    Orgs,           \* organization ids: owners under an organization config
    Managers,       \* <<user, org>>: members whose role may act on org's keys
    Requests,       \* the requests the server handles, concurrently
    NoUser, NoKey,  \* what a request that has not arrived carries
    ExpiresIn,      \* the custom expiresIn values, in seconds, that validate
    DefaultExpiresIn, \* key_expiration.default_expires_in, or NoExpiry
    DefaultRemaining, \* config.default_remaining, or Unlimited
    HostQuotas,     \* the quotas of keys the host program creates
    RefillInterval, RefillAmount, \* of the host's keys that refill
    RateLimited,    \* rate limiting is on, for the configuration and the key
    Window, MaxRequests, \* rate_limit.time_window and .max_requests
    Throttle,       \* the cleanup's spacing, 10 seconds in the code
    Second,         \* clock units in a second
    Faults,         \* TRUE: a database statement may fail
    Ops,            \* the operations the requests of this instance perform
    MaxTime         \* bound on the clock

NoExpiry == -1
Never == -1         \* a NULL timestamp
Unlimited == -2     \* a NULL quota

Updates == {"rename", "enable", "disable", "renew", "unexpire"}
AllOps == {"use", "create", "get", "list", "delete"} \cup Updates
Owners == Users \cup Orgs

ASSUME ApiKeyAssumption ==
    /\ IsFiniteSet(Requests)
    /\ NoUser \notin Owners
    /\ NoKey \notin Keys
    /\ ExpiresIn \subseteq Nat
    /\ DefaultExpiresIn \in Nat \cup {NoExpiry}
    /\ DefaultRemaining \in Nat \cup {Unlimited}
    /\ HostQuotas \subseteq Nat \cup {Unlimited}
    /\ RefillInterval \in Nat /\ RefillAmount \in Nat
    /\ RateLimited \in BOOLEAN
    /\ Window \in Nat /\ MaxRequests \in Nat
    /\ Throttle \in Nat /\ Second \in Nat /\ MaxTime \in Nat
    /\ Faults \in BOOLEAN
    /\ Ops \subseteq AllOps

VARIABLES
    now,        \* the clock
    swept,      \* last_expired_check: when the cleanup last ran
    table,      \* table[k]: no such key yet / row in the table / row deleted
    row,        \* row[k]: the columns of k's row, meaningful while it is "live"
    pc,         \* pc[p]: the statement request p sends next
    call,       \* call[p]: the operation, the key, the signed-in user, expiresIn
    copy,       \* copy[p]: the row as p read it
    until,      \* until[p]: the expires_at a create or a renewal computed
    spent,      \* spent[p]: when p's use of its key was counted
    outcome,    \* outcome[p]: the answer p was given
    granted,    \* history: granted[k], the quota k was last given
    prior       \* history: prior[p], the requests answered before p arrived

history == <<granted, prior>>
vars == <<now, swept, table, row, pc, call, copy, until, spent, outcome, history>>

Time == Nat \cup {Never}
Row == [owner : Owners \cup {NoUser}, enabled : BOOLEAN, expires : Time,
        remaining : Nat \cup {Unlimited}, refill : BOOLEAN, refilled : Time,
        count : Nat, last : Time, created : Nat]
Call == [op : AllOps, key : Keys \cup {NoKey}, user : Users \cup {NoUser},
         secs : ExpiresIn \cup {NoExpiry}]

Statements == {"find", "drop", "consume", "load_user", "insert",
               "update", "delete", "sweep"}
Outcomes == {"none", "refused", "disabled", "expired", "limited", "exhausted",
             "no_user", "accepted", "created", "shown", "updated", "deleted",
             "error"}

TypeOK ==
    /\ now \in Nat
    /\ swept \in Time
    /\ table \in [Keys -> {"unissued", "live", "gone"}]
    /\ row \in [Keys -> Row]
    /\ pc \in [Requests -> Statements \cup {"new", "done"}]
    /\ call \in [Requests -> Call]
    /\ \A p \in Requests : pc[p] # "new" => call[p].key \in Keys
    /\ copy \in [Requests -> Row]
    /\ until \in [Requests -> Time]
    /\ spent \in [Requests -> Time]
    /\ outcome \in [Requests -> Outcomes]
    /\ granted \in [Keys -> Nat \cup {Unlimited}]
    /\ prior \in [Requests -> SUBSET Requests]

BlankRow == [owner |-> NoUser, enabled |-> TRUE, expires |-> Never,
             remaining |-> Unlimited, refill |-> FALSE, refilled |-> Never,
             count |-> 0, last |-> Never, created |-> 0]

Init ==
    /\ now = 0
    /\ swept = Never
    /\ table = [k \in Keys |-> "unissued"]
    /\ row = [k \in Keys |-> BlankRow]
    /\ pc = [p \in Requests |-> "new"]
    /\ call = [p \in Requests |-> [op |-> "use", key |-> NoKey,
                                   user |-> NoUser, secs |-> NoExpiry]]
    /\ copy = [p \in Requests |-> BlankRow]
    /\ until = [p \in Requests |-> Never]
    /\ spent = [p \in Requests |-> Never]
    /\ outcome = [p \in Requests |-> "none"]
    /\ granted = [k \in Keys |-> Unlimited]
    /\ prior = [p \in Requests |-> {}]

-----------------------------------------------------------------------------
(* Spending a use: what consume_api_key_usage computes from the locked row. *)

Present(k) == table[k] = "live"
Late(r) == r.expires # Never /\ now > r.expires

Metered(r) == r.remaining # Unlimited
LastRefill(r) == IF r.refilled = Never THEN r.created ELSE r.refilled
RefillDue(r) == r.refill /\ now - LastRefill(r) > RefillInterval
Available(r) == IF RefillDue(r) THEN RefillAmount ELSE r.remaining

Exhausted(r) == Metered(r) /\ Available(r) <= 0

\* Seeded fault: the window ends a millisecond early.
WindowOverEarly(r) == r.last = Never \/ now - r.last >= Window

\* A window is counted from the last accepted request, not the first.
WindowOver(r) == r.last = Never \/ now - r.last > Window
OverLimit(r) == RateLimited /\ ~ WindowOver(r) /\ r.count >= MaxRequests

Spent(r) ==
    [r EXCEPT !.remaining = IF Metered(r) THEN Available(r) - 1 ELSE @,
              !.refilled = IF Metered(r) /\ RefillDue(r) THEN now ELSE @,
              !.count = IF ~ RateLimited THEN @
                        ELSE IF WindowOver(r) THEN 1 ELSE @ + 1,
              !.last = now]

\* Seeded fault: the counters come from the row the checks read.
SpendCopy(p, k) ==
    row' = [row EXCEPT ![k].remaining = Spent(copy[p]).remaining,
                       ![k].refilled = Spent(copy[p]).refilled,
                       ![k].count = Spent(copy[p]).count,
                       ![k].last = now]

Spend(p, k) == row' = [row EXCEPT ![k] = Spent(row[k])]

\* An exhausted key is deleted in the same transaction, unless it refills.
DropsWhenExhausted(r) == ~ r.refill

DeleteRow(k) == table' = [table EXCEPT ![k] = IF @ = "live" THEN "gone" ELSE @]

-----------------------------------------------------------------------------
(* A request's control flow.                                               *)

Answered == {q \in Requests : pc[q] = "done"}

\* The handler returns; its locals are dropped.
Finish(p, answer) ==
    /\ pc' = [pc EXCEPT ![p] = "done"]
    /\ outcome' = [outcome EXCEPT ![p] = answer]
    /\ copy' = [copy EXCEPT ![p] = BlankRow]

Goto(p, label) ==
    /\ pc' = [pc EXCEPT ![p] = label]
    /\ UNCHANGED <<outcome, copy>>

GotoWith(p, label, r) ==
    /\ pc' = [pc EXCEPT ![p] = label]
    /\ copy' = [copy EXCEPT ![p] = r]
    /\ UNCHANGED outcome

Answer(op) ==
    CASE op = "create" -> "created"
      [] op \in {"get", "list"} -> "shown"
      [] OTHER -> "updated"

\* What follows maybe_delete_expired: a use has its user loaded, the owner's
\* requests are answered.
AfterSweep(p) ==
    IF call[p].op = "use" THEN Goto(p, "load_user") ELSE Finish(p, Answer(call[p].op))

\* maybe_delete_expired: the mutex admits one request per Throttle.
SweepDue == swept = Never \/ now - swept >= Throttle * Second
MaybeSweep(p) ==
    IF SweepDue THEN swept' = now /\ Goto(p, "sweep")
                ELSE UNCHANGED swept /\ AfterSweep(p)

\* get_owned_api_key and require_org_api_key_permission.
MayAct(u, owner) == u = owner \/ <<u, owner>> \in Managers

\* expires_in_to_at.
ExpiryAt(secs) == IF secs = NoExpiry THEN Never ELSE now + secs * Second
\* validate_expires_in.
EffectiveExpiry(secs) == IF secs = NoExpiry THEN DefaultExpiresIn ELSE secs

\* A request arrives: a use carries a key, everything else a session. A create
\* carries the key its generator is going to return, and computes its expiry.
\* A body that does not validate, and a create for an organization the caller
\* may not act for, are refused here.
Begin(p, o, k, u, s) ==
    /\ pc[p] = "new"
    /\ o \in Ops
    /\ (o = "create") <=> (table[k] = "unissued")
    /\ o = "use" => u = NoUser
    /\ s # NoExpiry => o \in {"create", "renew"}
    /\ o = "renew" => s # NoExpiry
    /\ call' = [call EXCEPT ![p] = [op |-> o, key |-> k, user |-> u, secs |-> s]]
    /\ prior' = [prior EXCEPT ![p] = Answered]
    /\ \/ o = "use" /\ Goto(p, "find")
       \/ o = "create" /\ u # NoUser /\ Goto(p, "insert")
       \/ o \notin {"use", "create"} /\ u # NoUser /\ Goto(p, "find")
       \/ o \in Updates \cup {"create"} /\ Finish(p, "refused")
       \/ o # "use" /\ u = NoUser /\ Finish(p, "refused")
    /\ until' = IF o = "create"
                THEN [until EXCEPT ![p] = ExpiryAt(EffectiveExpiry(s))] ELSE until
    /\ UNCHANGED <<now, swept, table, row, spent, granted>>

\* validate_api_key: the lookup and the checks on the copy it returns.
FindForUse(p) ==
    LET r == row[call[p].key] IN
    /\ call[p].op = "use"
    /\ IF ~ Present(call[p].key)
       THEN Finish(p, "refused")
       ELSE IF ~ r.enabled
       THEN Finish(p, "disabled")
       ELSE IF Late(r)
       THEN GotoWith(p, "drop", r)
       ELSE GotoWith(p, "consume", r)
    /\ UNCHANGED <<swept, until>>

\* get_key_core, update_key_core and delete_key_core up to their own
\* statement; a renewal computes its expires_at here.
FindForOwner(p) ==
    LET o == call[p].op
        r == row[call[p].key] IN
    /\ o \notin {"use", "create", "list"}
    /\ IF ~ Present(call[p].key) \/ ~ MayAct(call[p].user, r.owner)
       THEN Finish(p, "refused") /\ UNCHANGED <<swept, until>>
       ELSE IF o = "get"
       THEN MaybeSweep(p) /\ UNCHANGED until
       ELSE IF o = "delete"
       THEN GotoWith(p, "delete", r) /\ UNCHANGED <<swept, until>>
       ELSE /\ GotoWith(p, "update", r)
            /\ until' = [until EXCEPT ![p] = ExpiryAt(call[p].secs)]
            /\ UNCHANGED swept

\* list_keys_core reads the caller's keys; the rows stay as they are.
FindList(p) ==
    /\ call[p].op = "list"
    /\ MaybeSweep(p)
    /\ UNCHANGED until

Find(p) ==
    /\ pc[p] = "find"
    /\ FindForUse(p) \/ FindForOwner(p) \/ FindList(p)
    /\ UNCHANGED <<now, table, row, call, spent, history>>

-----------------------------------------------------------------------------
(* A use of the key, after the checks.                                     *)

\* The lookup saw an expired key: it is deleted by id, renewed since or not.
Drop(p) ==
    /\ pc[p] = "drop"
    /\ DeleteRow(call[p].key)
    /\ Finish(p, "expired")
    /\ UNCHANGED <<now, swept, row, call, until, spent, history>>

\* consume_api_key_usage: one transaction on the locked row. A refusal by the
\* quota or the limit rolls nothing forward, not even a refill that was due.
Consume(p) ==
    LET k == call[p].key
        r == row[k] IN
    /\ pc[p] = "consume"
    /\ IF ~ Present(k)
       THEN Finish(p, "error") /\ UNCHANGED <<swept, table, row, spent, granted>>
       ELSE IF Exhausted(r)
       THEN /\ IF DropsWhenExhausted(r) THEN DeleteRow(k) ELSE UNCHANGED table
            /\ Finish(p, "exhausted")
            /\ UNCHANGED <<swept, row, spent, granted>>
       ELSE IF OverLimit(r)
       THEN Finish(p, "limited") /\ UNCHANGED <<swept, table, row, spent, granted>>
       ELSE /\ Spend(p, k)
            /\ spent' = [spent EXCEPT ![p] = now]
            /\ granted' = [granted EXCEPT ![k] =
                               IF Metered(r) /\ RefillDue(r) THEN RefillAmount ELSE @]
            /\ MaybeSweep(p)
            /\ UNCHANGED table
    /\ UNCHANGED <<now, call, until, prior>>

\* before_request loads the key's owner as a user and lets the request in. An
\* organization, or a user deleted since, is no user: the use stays spent.
LoadUser(p) ==
    /\ pc[p] = "load_user"
    /\ \/ copy[p].owner \in Users /\ Finish(p, "accepted")
       \/ Finish(p, "no_user")
    /\ UNCHANGED <<now, swept, table, row, call, until, spent, history>>

-----------------------------------------------------------------------------
(* The owner's requests, and the cleanup.                                  *)

NewRow(owner, quota, refill, expires) ==
    [owner |-> owner, enabled |-> TRUE, expires |-> expires,
     remaining |-> quota, refill |-> refill, refilled |-> Never,
     count |-> 0, last |-> Never, created |-> now]

\* create_key_core: refill is a server-only property, so these keys have none.
Insert(p) ==
    LET k == call[p].key IN
    /\ pc[p] = "insert"
    /\ IF table[k] # "unissued"
       THEN Finish(p, "error") /\ UNCHANGED <<swept, table, row, granted>>
       ELSE /\ table' = [table EXCEPT ![k] = "live"]
            /\ \E owner \in Owners :
                  /\ MayAct(call[p].user, owner)
                  /\ row' = [row EXCEPT ![k] =
                         NewRow(owner, DefaultRemaining, FALSE, until[p])]
            /\ granted' = [granted EXCEPT ![k] = DefaultRemaining]
            /\ MaybeSweep(p)
    /\ UNCHANGED <<now, call, until, spent, prior>>

Changed(p, r) ==
    CASE call[p].op = "enable"   -> [r EXCEPT !.enabled = TRUE]
      [] call[p].op = "disable"  -> [r EXCEPT !.enabled = FALSE]
      [] call[p].op = "renew"    -> [r EXCEPT !.expires = until[p]]
      [] call[p].op = "unexpire" -> [r EXCEPT !.expires = Never]
      [] OTHER -> r

\* Seeded fault: the update saves the whole row as the handler read it.
SaveCopy(p, k) == row' = [row EXCEPT ![k] = Changed(p, copy[p])]

\* update_api_key sets the columns the request named and no others.
Save(p, k) == row' = [row EXCEPT ![k] = Changed(p, row[k])]

Update(p) ==
    LET k == call[p].key IN
    /\ pc[p] = "update"
    /\ IF Present(k)
       THEN Save(p, k) /\ MaybeSweep(p)
       ELSE UNCHANGED <<row, swept>> /\ Finish(p, "error")
    /\ UNCHANGED <<now, table, call, until, spent, granted, prior>>

Delete(p) ==
    /\ pc[p] = "delete"
    /\ DeleteRow(call[p].key)
    /\ Finish(p, "deleted")
    /\ UNCHANGED <<now, swept, row, call, until, spent, history>>

\* delete_expired_api_keys, whoever's the keys are.
Sweep(p) ==
    /\ pc[p] = "sweep"
    /\ table' = [k \in Keys |->
                    IF Present(k) /\ row[k].expires # Never /\ row[k].expires < now
                    THEN "gone" ELSE table[k]]
    /\ AfterSweep(p)
    /\ UNCHANGED <<now, swept, row, call, until, spent, history>>

\* The database refuses the statement p is at. A failing cleanup or expiry
\* deletion is ignored; anything else is the request's answer.
StatementFails(p) ==
    /\ Faults
    /\ pc[p] \in Statements
    /\ \/ pc[p] = "sweep" /\ AfterSweep(p)
       \/ pc[p] = "drop" /\ Finish(p, "expired")
       \/ pc[p] \notin {"sweep", "drop"} /\ Finish(p, "error")
    /\ UNCHANGED <<now, swept, table, row, call, until, spent, history>>

-----------------------------------------------------------------------------
(* What happens beside the requests.                                       *)

\* The host program creates a key through the store, with the server-only
\* properties: a quota of its own and, if it wants, a refill.
HostCreates(k, u, quota, refill) ==
    /\ table[k] = "unissued"
    /\ table' = [table EXCEPT ![k] = "live"]
    /\ row' = [row EXCEPT ![k] = NewRow(u, quota, refill, Never)]
    /\ granted' = [granted EXCEPT ![k] = quota]
    /\ UNCHANGED <<now, swept, pc, call, copy, until, spent, outcome, prior>>

Tick ==
    /\ now < MaxTime
    /\ now' = now + 1
    /\ UNCHANGED <<swept, table, row, pc, call, copy, until, spent, outcome,
                   granted, prior>>

Step(p) ==
    \/ Find(p)
    \/ Drop(p) \/ Consume(p) \/ LoadUser(p)
    \/ Insert(p) \/ Update(p) \/ Delete(p) \/ Sweep(p)

Next ==
    \/ \E p \in Requests, o \in AllOps, k \in Keys, u \in Users \cup {NoUser},
          s \in ExpiresIn \cup {NoExpiry} : Begin(p, o, k, u, s)
    \/ \E p \in Requests : Step(p) \/ StatementFails(p)
    \/ \E k \in Keys, u \in Users, q \in HostQuotas, f \in BOOLEAN : HostCreates(k, u, q, f)
    \/ Tick

Spec == Init /\ [][Next]_vars

-----------------------------------------------------------------------------
(* Properties.                                                             *)

\* The uses of k that were counted at `from` or later.
Uses(k, from) == {p \in Requests : /\ call[p].op = "use"
                                   /\ call[p].key = k
                                   /\ spent[p] # Never
                                   /\ spent[p] >= from}

\* Quota is conserved: what a key has left and the uses counted since its
\* last refill (or its creation) are together what it was given then. No use
\* is lost or counted twice between concurrent transactions, and a request
\* the rate limit refused costs nothing (consume_api_key_usage).
QuotaConserved ==
    \A k \in Keys : Present(k) /\ Metered(row[k]) =>
        row[k].remaining + Cardinality(Uses(k, LastRefill(row[k]))) = granted[k]

\* "max requests per window" (RateLimitDefaults): however the uses of a key
\* interleave, and wherever a window is laid, at most MaxRequests of them are
\* counted in it.
WindowLimit ==
    RateLimited => \A k \in Keys : \A from \in 0 .. now :
        Cardinality(Uses(k, from) \ Uses(k, from + Window + 1)) <= MaxRequests

\* Who changed or may be changing key k with operation o.
Asked(k, ops) == {p \in Requests : pc[p] # "new" /\ call[p].key = k /\ call[p].op \in ops}
Did(k, ops, answer) == {p \in Asked(k, ops) : outcome[p] = answer}

\* Disabling or deleting a key takes hold: once one was answered with success,
\* and unless somebody asked to enable the key, a request that arrives later
\* is not let in with it, whatever other updates and uses were under way
\* (update_api_key's partial update, consume_api_key_usage's).
RevocationBinds ==
    \A k \in Keys : Asked(k, {"enable"}) = {} =>
        \A q \in Did(k, {"disable"}, "updated") \cup Did(k, {"delete"}, "deleted"),
           p \in Did(k, {"use"}, "accepted") : q \notin prior[p]

=============================================================================
