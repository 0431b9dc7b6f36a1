------------------------------ MODULE TwoFactor ------------------------------
(***************************************************************************)
(* The second factor of one user: the handlers of                          *)
(* crates/api/src/plugins/two_factor/mod.rs and the sign-in that calls     *)
(* them (email_password.rs), over the two_factor and verification tables.  *)
(*                                                                         *)
(* An OTP, a backup code, a trusted device and a sign-in challenge are all *)
(* meant to be spent by being used, and each is spent by statements of its *)
(* own: read, compare, delete or write back.  Every request of every       *)
(* browser of the user interleaves between those statements.               *)
(*                                                                         *)
(* Every row, session and secret is an id drawn in order.  Rows of other   *)
(* users are never reached (each lookup is by user id or by a random       *)
(* identifier), and lifetimes are left out: an expired row reads as an     *)
(* absent one and can only refuse.                                         *)
(***************************************************************************)
EXTENDS Integers, Sequences, FiniteSets, FiniteSetsExt

CONSTANTS
    Requests,       \* the requests the server handles at a time
    Ops,            \* the endpoints the requests of this instance call
    OtpAttempts,    \* DEFAULT_OTP_ATTEMPT_LIMIT
    BackupCodes,    \* DEFAULT_BACKUP_CODE_COUNT
    SkipVerification, \* config.skip_verification_on_enable
    Faults,         \* TRUE: a database statement may fail
    MaxCalls,       \* bound on the number of requests
    MaxIds          \* bound on the ids drawn

Verify == {"verify_totp", "verify_otp", "verify_backup"}
AllOps == Verify \cup {"sign_in", "send_otp", "enable", "disable", "generate"}

ASSUME TwoFactorAssumption ==
    /\ IsFiniteSet(Requests)
    /\ Ops \subseteq AllOps
    /\ OtpAttempts \in Nat
    /\ BackupCodes \in Nat \ {0}
    /\ SkipVerification \in BOOLEAN
    /\ Faults \in BOOLEAN
    /\ MaxCalls \in Nat
    /\ MaxIds \in Nat
    /\ BackupCodes + 2 <= MaxIds

VARIABLES
    enabled,    \* the user's two_factor_enabled column
    record,     \* the user's two_factor row; its secret is None if there is none
    kind,       \* kind[i]: what id i was drawn for
    about,      \* about[i]: the session or challenge an OTP i was sent for
    live,       \* the ids of the sessions, challenges and trusted devices stored
    otps,       \* the OTP rows of the verification table
    fresh,      \* the next id
    pc,         \* pc[p]: the statement request p sends next
    call,       \* call[p]: the endpoint, the cookies and the code p carries
    local,      \* local[p]: what p has read, and what its answer will carry
    calls,      \* requests so far
    handed,     \* ids that some answer has given to the user
    honoured,   \* honoured[i]: answers that accepted i
    answers,    \* answers[i]: guesses at OTP i that were judged
    latest,     \* latest[x]: the newest OTP, or the first of the newest codes,
                \* given out for x
    outdated,   \* ids accepted after newer ones had been given out
    contested   \* what two requests have worked on at the same time

store == <<enabled, record, kind, about, live, otps, fresh>>
history == <<handed, honoured, latest, outdated>>
vars == <<store, pc, call, local, calls, history, answers, contested>>

None == 0       \* no id; as a place, the user's two_factor row
Id == 1 .. MaxIds
Kinds == {"unused", "session", "challenge", "trust", "otp", "row", "secret",
          "code"}
OtpRow == [id : Id, key : Id, issue : Id, tries : 0 .. OtpAttempts]
NoRow == [id |-> None, key |-> None, issue |-> None, tries |-> 0]
Call == [op : AllOps, key : Id \cup {None}, code : Id \cup {None},
         cookie : Id \cup {None}, remember : BOOLEAN]
Local == [signedIn : BOOLEAN, enabled : BOOLEAN, otp : OtpRow \cup {NoRow},
          codes : SUBSET Id, got : SUBSET Id, spent : SUBSET Id]
Blank == [signedIn |-> FALSE, enabled |-> FALSE, otp |-> NoRow, codes |-> {},
          got |-> {}, spent |-> {}]
NoCall == [op |-> "sign_in", key |-> None, code |-> None, cookie |-> None,
           remember |-> FALSE]
NoRecord == [secret |-> None, codes |-> {}]

Statements == {"load", "inspect", "rotate", "renew", "challenge", "issue",
               "resolve", "find_otp", "clear_otp", "create_otp", "read_otp",
               "judge", "recount", "read_secret", "read_codes", "write_codes",
               "consume", "trust", "promote", "retire", "forget",
               "drop_record", "create_record", "demote", "check_record",
               "replace_codes"}

TypeOK ==
    /\ enabled \in BOOLEAN
    /\ record \in [secret : Id \cup {None}, codes : SUBSET Id]
    /\ kind \in [Id -> Kinds]
    /\ about \in [Id -> Id \cup {None}]
    /\ live \subseteq Id
    /\ otps \subseteq OtpRow
    /\ fresh \in 1 .. MaxIds + 1
    /\ pc \in [Requests -> Statements \cup {"idle"}]
    /\ call \in [Requests -> Call]
    /\ local \in [Requests -> Local]
    /\ calls \in 0 .. MaxCalls
    /\ handed \subseteq Id
    /\ honoured \in [Id -> Nat]
    /\ answers \in [Id -> Nat]
    /\ latest \in [Id \cup {None} -> Id \cup {None}]
    /\ outdated \subseteq Id
    /\ contested \subseteq Id \cup {None}

\* The user is signed in with session 1 and has enrolled, or not yet.
Init ==
    \E enrolled \in BOOLEAN :
        LET first == IF enrolled THEN 2 .. BackupCodes + 2 ELSE {} IN
        /\ enabled = enrolled
        /\ record = IF enrolled THEN [secret |-> 2, codes |-> first \ {2}]
                                ELSE NoRecord
        /\ kind = [i \in Id |-> IF i = 1 THEN "session"
                                ELSE IF i \notin first THEN "unused"
                                ELSE IF i = 2 THEN "secret" ELSE "code"]
        /\ about = [i \in Id |-> None]
        /\ live = {1}
        /\ otps = {}
        /\ fresh = Cardinality(first) + 2
        /\ pc = [p \in Requests |-> "idle"]
        /\ call = [p \in Requests |-> NoCall]
        /\ local = [p \in Requests |-> Blank]
        /\ calls = 0
        /\ handed = {1} \cup first
        /\ honoured = [i \in Id |-> 0]
        /\ answers = [i \in Id |-> 0]
        /\ latest = [i \in Id \cup {None} |->
                        IF i = None /\ enrolled THEN 3 ELSE None]
        /\ outdated = {}
        /\ contested = {}

-----------------------------------------------------------------------------
(* Rows and ids.                                                           *)

Sessions == {i \in live : kind[i] = "session"}
Challenges == {i \in live : kind[i] = "challenge"}
Known(k) == {i \in handed : kind[i] = k}

\* otp_verification_identifier(key): the rows a lookup for key may return.
RowsOf(key) == {r \in otps : r.key = key}

\* Ids are drawn, for things of the given kinds.
Draw(kinds) ==
    /\ fresh + Len(kinds) <= MaxIds + 1
    /\ kind' = [i \in Id |-> IF i \in fresh .. fresh + Len(kinds) - 1
                             THEN kinds[i - fresh + 1] ELSE kind[i]]
    /\ fresh' = fresh + Len(kinds)

\* The new list of backup codes starts at id `first`.
CodesFrom(first) == first .. first + BackupCodes - 1
CodeKinds == [n \in 1 .. BackupCodes |-> "code"]

-----------------------------------------------------------------------------
(* A request's control flow.                                               *)

Goto(p, label, l) ==
    /\ pc' = [pc EXCEPT ![p] = label]
    /\ local' = [local EXCEPT ![p] = l]
    /\ UNCHANGED <<call, history>>

Drop(p) ==
    /\ pc' = [pc EXCEPT ![p] = "idle"]
    /\ call' = [call EXCEPT ![p] = NoCall]
    /\ local' = [local EXCEPT ![p] = Blank]

\* An error answer carries nothing.
Refuse(p) == Drop(p) /\ UNCHANGED history

\* Whether something newer than i was given out for the same purpose.
Outdated(i) == kind[i] \in {"otp", "code"} /\ i < latest[about[i]]

\* A 200 answer: what l.got names is the browser's, what l.spent names has
\* been accepted.
Answer(p, l) ==
    LET new(x) == {i \in l.got : kind'[i] \in {"otp", "code"} /\ about'[i] = x}
    IN  /\ Drop(p)
        /\ handed' = handed \cup l.got
        /\ honoured' = [i \in Id |-> IF i \in l.spent THEN honoured[i] + 1
                                                      ELSE honoured[i]]
        /\ latest' = [x \in Id \cup {None} |-> IF new(x) = {} THEN latest[x]
                                               ELSE Min(new(x))]
        /\ outdated' = outdated \cup {i \in l.spent : Outdated(i)}

\* The handler goes on after the factor was found right: the tails
\* verify_existing_session_factor and finalize_pending_two_factor.
Accepted(p, l) ==
    IF ~ l.signedIn THEN Goto(p, "issue", l)
    ELSE IF call[p].op # "verify_backup" /\ ~ l.enabled THEN Goto(p, "promote", l)
    ELSE Answer(p, l)

-----------------------------------------------------------------------------
(* Requests arrive.                                                        *)

\* The requests the user's browsers can send to an endpoint: with a session or
\* challenge cookie they were given, and a code they know or, for an OTP, guess.
Possible(op) ==
    LET keys == IF op \in Verify \cup {"send_otp"} THEN Sessions \cup Challenges
                ELSE IF op = "sign_in" THEN {} ELSE Sessions
        codes(k) == CASE op = "verify_totp" -> Known("secret")
                      [] op = "verify_backup" -> Known("code")
                      [] op = "verify_otp" ->
                             {None} \cup {i \in Known("otp") : about[i] = k}
                      [] OTHER -> {None}
        cookies == IF op \in {"sign_in", "disable"}
                   THEN {None} \cup (Known("trust") \cap live) ELSE {None}
    IN  UNION {[op : {op}, key : {k}, code : codes(k), cookie : cookies,
                remember : IF op \in Verify /\ k \in Challenges
                           THEN BOOLEAN ELSE {FALSE}] :
               k \in (keys \cap handed) \cup (IF op = "sign_in" THEN {None} ELSE {})}

\* What a request works on besides its own copy of it.
Places(c) ==
    ({c.key, c.cookie} \ {None})
      \cup (IF c.op \in {"verify_backup", "generate", "enable", "disable"}
            THEN {None} ELSE {})

Arrive(p) ==
    /\ pc[p] = "idle"
    /\ calls < MaxCalls
    /\ \E op \in Ops : \E c \in Possible(op) :
        /\ call' = [call EXCEPT ![p] = c]
        /\ pc' = [pc EXCEPT ![p] = IF op = "sign_in" THEN "load" ELSE "resolve"]
        /\ contested' = contested \cup
               UNION {Places(c) \cap Places(call[q]) :
                      q \in {q \in Requests : pc[q] # "idle"}}
    /\ calls' = calls + 1
    /\ UNCHANGED <<store, local, history, answers>>

-----------------------------------------------------------------------------
(* Signing in with a password.                                             *)

\* sign_in_core reads the user and finds the password right.
Load(p) ==
    /\ pc[p] = "load"
    /\ Goto(p, IF ~ enabled THEN "issue"
               ELSE IF call[p].cookie # None THEN "inspect" ELSE "challenge",
            Blank)
    /\ UNCHANGED store

\* inspect_trusted_device looks the cookie's row up,
Inspect(p) ==
    /\ pc[p] = "inspect"
    /\ Goto(p, IF call[p].cookie \in live THEN "rotate" ELSE "challenge", local[p])
    /\ UNCHANGED store

\* deletes it whether or not it is still there,
Rotate(p) ==
    /\ pc[p] = "rotate"
    /\ live' = live \ {call[p].cookie}
    /\ Goto(p, "renew", [local[p] EXCEPT !.spent = {call[p].cookie}])
    /\ UNCHANGED <<enabled, record, kind, about, otps, fresh>>

\* and stores its successor: create_trust_device_cookie_header.
Renew(p) ==
    /\ pc[p] = "renew"
    /\ Draw(<<"trust">>)
    /\ live' = live \cup {fresh}
    /\ Goto(p, "issue", [local[p] EXCEPT !.got = {fresh}])
    /\ UNCHANGED <<enabled, record, about, otps>>

\* begin_sign_in_challenge.
Challenge(p) ==
    /\ pc[p] = "challenge"
    /\ Draw(<<"challenge">>)
    /\ live' = live \cup {fresh}
    /\ UNCHANGED <<enabled, record, about, otps>>
    /\ Answer(p, [local[p] EXCEPT !.got = {fresh}])

\* issue_user_session, for a sign-in, a finished challenge or a re-issue.
Issue(p) ==
    LET l == [local[p] EXCEPT !.got = @ \cup {fresh}] IN
    /\ pc[p] = "issue"
    /\ Draw(<<"session">>)
    /\ live' = live \cup {fresh}
    /\ UNCHANGED <<enabled, record, about, otps>>
    /\ IF call[p].op = "sign_in" THEN Answer(p, l)
       ELSE Goto(p, IF l.signedIn THEN "retire" ELSE "consume", l)

-----------------------------------------------------------------------------
(* The endpoints of the second factor.                                     *)

\* Where an endpoint goes on once it knows who calls.
Start(op) ==
    CASE op = "send_otp" -> "find_otp"
      [] op = "verify_otp" -> "read_otp"
      [] op = "verify_totp" -> "read_secret"
      [] op = "verify_backup" -> "read_codes"
      [] op = "generate" -> "check_record"
      [] OTHER -> "drop_record"

\* resolve_two_factor_state, or require_session: the cookie's session with its
\* user as read here, or else the cookie's challenge.
Resolve(p) ==
    LET c == call[p] IN
    /\ pc[p] = "resolve"
    /\ IF c.key \in Sessions
       THEN IF c.op = "generate" /\ ~ enabled THEN Refuse(p)
            ELSE Goto(p, Start(c.op), [Blank EXCEPT !.signedIn = TRUE,
                                                    !.enabled = enabled])
       ELSE IF c.key \in Challenges THEN Goto(p, Start(c.op), Blank)
       ELSE Refuse(p)
    /\ UNCHANGED store

\* send_otp_core: one row of the key is looked up, with no order,
FindOtp(p) ==
    /\ pc[p] = "find_otp"
    /\ \/ /\ RowsOf(call[p].key) = {}
          /\ Goto(p, "create_otp", local[p])
       \/ \E r \in RowsOf(call[p].key) :
              Goto(p, "clear_otp", [local[p] EXCEPT !.otp = r])
    /\ UNCHANGED store

\* Seeded fault: the old code is left in place.
NothingCleared(p) == otps

\* delete_verification: the row p has read goes, by its id.
RowCleared(p) == otps \ {local[p].otp}

\* that row is deleted,
ClearOtp(p) ==
    /\ pc[p] = "clear_otp"
    /\ otps' = RowCleared(p)
    /\ Goto(p, "create_otp", local[p])
    /\ UNCHANGED <<enabled, record, kind, about, live, fresh>>

\* and a new one stored, whose code the user is sent.
CreateOtp(p) ==
    /\ pc[p] = "create_otp"
    /\ Draw(<<"otp">>)
    /\ about' = [about EXCEPT ![fresh] = call[p].key]
    /\ otps' = otps \cup {[id |-> fresh, key |-> call[p].key, issue |-> fresh,
                           tries |-> 0]}
    /\ UNCHANGED <<enabled, record, live>>
    /\ Answer(p, [local[p] EXCEPT !.got = {fresh}])

\* verify_otp_core.
ReadOtp(p) ==
    /\ pc[p] = "read_otp"
    /\ \/ RowsOf(call[p].key) = {} /\ Refuse(p)
       \/ \E r \in RowsOf(call[p].key) :
              Goto(p, "judge", [local[p] EXCEPT !.otp = r])
    /\ UNCHANGED store

\* Seeded fault: one attempt too many is let through.
LateVerdict(p) ==
    LET r == local[p].otp IN
    IF r.tries > OtpAttempts THEN "too_many"
    ELSE IF call[p].code # r.issue THEN "wrong" ELSE "right"

\* What is found about the guess on the copy of the row.
Verdict(p) ==
    LET r == local[p].otp IN
    IF r.tries >= OtpAttempts THEN "too_many"
    ELSE IF call[p].code # r.issue THEN "wrong" ELSE "right"

\* The guess was compared and answered for.
Judged(i) == answers' = [answers EXCEPT ![i] = @ + 1]

\* Each verdict deletes the row.
Spent(p) == RowCleared(p)

\* Seeded fault: the attempt is not counted.
NotCounted(r) == r
Counted(r) == [r EXCEPT !.tries = @ + 1]

\* The guess is compared with the copy, and the row deleted.
Judge(p) ==
    LET r == local[p].otp IN
    /\ pc[p] = "judge"
    /\ otps' = Spent(p)
    /\ UNCHANGED <<enabled, record, kind, about, live, fresh>>
    /\ CASE Verdict(p) = "too_many" -> Refuse(p) /\ UNCHANGED answers
         [] Verdict(p) = "wrong" ->
                Goto(p, "recount", local[p]) /\ UNCHANGED answers
         [] OTHER -> /\ Judged(r.issue)
                     /\ Accepted(p, [local[p] EXCEPT !.spent = {r.issue}])

\* After a wrong guess the row is stored again, with one attempt more.
Recount(p) ==
    /\ pc[p] = "recount"
    /\ Draw(<<"row">>)
    /\ otps' = otps \cup {[Counted(local[p].otp) EXCEPT !.id = fresh]}
    /\ Judged(local[p].otp.issue)
    /\ UNCHANGED <<enabled, record, about, live>>
    /\ Refuse(p)

\* verify_totp_core: a code is right for the secret it was computed from, as
\* often as it is presented.
ReadSecret(p) ==
    /\ pc[p] = "read_secret"
    /\ UNCHANGED store
    /\ IF record.secret # None /\ call[p].code = record.secret
       THEN Accepted(p, local[p]) ELSE Refuse(p)

\* Seeded fault: the list is written back whole.
WithCode(codes, c) == codes
WithoutCode(codes, c) == codes \ {c}

\* verify_backup_code_core takes the code out of its copy of the list,
ReadCodes(p) ==
    /\ pc[p] = "read_codes"
    /\ IF call[p].code \in record.codes
       THEN Goto(p, "write_codes", [local[p] EXCEPT
                     !.codes = WithoutCode(record.codes, call[p].code)])
       ELSE Refuse(p)
    /\ UNCHANGED store

\* and writes that copy back, if the user has a two_factor row at all.
WriteCodes(p) ==
    /\ pc[p] = "write_codes"
    /\ UNCHANGED <<enabled, kind, about, live, otps, fresh>>
    /\ IF record.secret = None
       THEN UNCHANGED record /\ Refuse(p)
       ELSE /\ record' = [record EXCEPT !.codes = local[p].codes]
            /\ Accepted(p, [local[p] EXCEPT !.spent = {call[p].code}])

-----------------------------------------------------------------------------
(* What follows an accepted factor, enrolling and disabling.               *)

WithoutChallenge(p) == live \ {call[p].key}

\* finalize_pending_two_factor has issued the session and deletes the challenge,
Consume(p) ==
    LET l == [local[p] EXCEPT !.spent = @ \cup {call[p].key}] IN
    /\ pc[p] = "consume"
    /\ live' = WithoutChallenge(p)
    /\ UNCHANGED <<enabled, record, kind, about, otps, fresh>>
    /\ IF call[p].remember THEN Goto(p, "trust", l) ELSE Answer(p, l)

\* and stores a trusted device if it was asked to.
Trust(p) ==
    /\ pc[p] = "trust"
    /\ Draw(<<"trust">>)
    /\ live' = live \cup {fresh}
    /\ UNCHANGED <<enabled, record, about, otps>>
    /\ Answer(p, [local[p] EXCEPT !.got = @ \cup {fresh}])

\* A factor proved in a session turns 2FA on, and so may enrolling,
Promote(p) ==
    /\ pc[p] = "promote"
    /\ enabled' = TRUE
    /\ Goto(p, "issue", local[p])
    /\ UNCHANGED <<record, kind, about, live, otps, fresh>>

\* whereupon the session is issued anew and the old one deleted.
Retire(p) ==
    /\ pc[p] = "retire"
    /\ live' = live \ {call[p].key}
    /\ UNCHANGED <<enabled, record, kind, about, otps, fresh>>
    /\ IF call[p].cookie # None THEN Goto(p, "forget", local[p])
       ELSE Answer(p, local[p])

\* enable_core and disable_core delete the two_factor row.
DropRecord(p) ==
    /\ pc[p] = "drop_record"
    /\ record' = NoRecord
    /\ Goto(p, IF call[p].op = "enable" THEN "create_record" ELSE "demote",
            local[p])
    /\ UNCHANGED <<enabled, kind, about, live, otps, fresh>>

\* A new secret and new codes; user_id is unique in the table.
CreateRecord(p) ==
    LET l == [local[p] EXCEPT !.got = {fresh} \cup CodesFrom(fresh + 1)] IN
    /\ pc[p] = "create_record"
    /\ UNCHANGED <<enabled, about, live, otps>>
    /\ IF record.secret # None
       THEN Refuse(p) /\ UNCHANGED <<record, kind, fresh>>
       ELSE /\ Draw(<<"secret">> \o CodeKinds)
            /\ record' = [secret |-> fresh, codes |-> CodesFrom(fresh + 1)]
            /\ IF SkipVerification THEN Goto(p, "promote", l) ELSE Answer(p, l)

\* disable_core turns 2FA off and goes on to re-issue the session,
Demote(p) ==
    /\ pc[p] = "demote"
    /\ enabled' = FALSE
    /\ Goto(p, "issue", local[p])
    /\ UNCHANGED <<record, kind, about, live, otps, fresh>>

\* and deletes the one trusted device whose cookie came along.
Forget(p) ==
    /\ pc[p] = "forget"
    /\ live' = live \ {call[p].cookie}
    /\ UNCHANGED <<enabled, record, kind, about, otps, fresh>>
    /\ Answer(p, local[p])

\* generate_backup_codes_core needs a two_factor row,
CheckRecord(p) ==
    /\ pc[p] = "check_record"
    /\ IF record.secret = None THEN Refuse(p) ELSE Goto(p, "replace_codes", local[p])
    /\ UNCHANGED store

\* and replaces its codes.
ReplaceCodes(p) ==
    /\ pc[p] = "replace_codes"
    /\ UNCHANGED <<enabled, about, live, otps>>
    /\ IF record.secret = None
       THEN Refuse(p) /\ UNCHANGED <<record, kind, fresh>>
       ELSE /\ Draw(CodeKinds)
            /\ record' = [record EXCEPT !.codes = CodesFrom(fresh)]
            /\ Answer(p, [local[p] EXCEPT !.got = CodesFrom(fresh)])

-----------------------------------------------------------------------------

\* A statement fails and the handler with it, except for the deletions whose
\* error enable_core and disable_core drop.
StatementFails(p) ==
    /\ Faults
    /\ pc[p] # "idle"
    /\ UNCHANGED <<store, answers>>
    /\ CASE pc[p] = "drop_record" /\ call[p].op = "enable" ->
                Goto(p, "create_record", local[p])
         [] pc[p] = "forget" -> Answer(p, local[p])
         [] OTHER -> Refuse(p)

\* The statements that judge no guess.
Step(p) ==
    \/ Load(p) \/ Inspect(p) \/ Rotate(p) \/ Renew(p) \/ Challenge(p)
    \/ Issue(p) \/ Resolve(p) \/ FindOtp(p) \/ ClearOtp(p) \/ CreateOtp(p)
    \/ ReadOtp(p) \/ ReadSecret(p) \/ ReadCodes(p) \/ WriteCodes(p)
    \/ Consume(p) \/ Trust(p) \/ Promote(p) \/ Retire(p) \/ DropRecord(p)
    \/ CreateRecord(p) \/ Demote(p) \/ Forget(p) \/ CheckRecord(p)
    \/ ReplaceCodes(p)

Next == \E p \in Requests :
    \/ Arrive(p)
    \/ Step(p) /\ UNCHANGED <<calls, answers, contested>>
    \/ (Judge(p) \/ Recount(p)) /\ UNCHANGED <<calls, contested>>
    \/ StatementFails(p) /\ UNCHANGED <<calls, contested>>

Spec == Init /\ [][Next]_vars

-----------------------------------------------------------------------------
(* Properties.                                                             *)

\* What i is kept under: the key of an OTP, the user's two_factor row for a
\* backup code, itself for a challenge or a trusted device.
Place(i) == IF kind[i] = "otp" THEN about[i]
            ELSE IF kind[i] = "code" THEN None ELSE i

\* An OTP, a backup code, a challenge and a trusted device are accepted once,
\* unless two requests worked on them at the same time: whatever else the
\* user's browsers do meanwhile, and whatever statement fails.
AcceptedOnce ==
    \A i \in Id : honoured[i] <= 1 \/ Place(i) \in contested

\* Racing guesses can make of an OTP's row as many as there are requests, each
\* with one attempt more; so the attempt limit bounds what can be guessed at one
\* OTP, right or wrong, only by the nodes of that tree.
Guesses[n \in 0 .. OtpAttempts] ==
    IF n = 0 THEN 0 ELSE Cardinality(Requests) * (1 + Guesses[n - 1])
GuessesBounded == \A i \in Id : answers[i] <= Guesses[OtpAttempts]

\* Once a newer OTP was sent for a key, or newer backup codes were shown, the
\* older ones are no longer accepted, unless two requests raced for the key or
\* for the user's two_factor row.
NewestOnly == \A i \in outdated : Place(i) \in contested

=============================================================================
