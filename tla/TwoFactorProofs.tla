-------------------------- MODULE TwoFactorProofs --------------------------
(***************************************************************************)
(* What holds of the second factor for any number of requests, any attempt *)
(* limit and any number of backup codes.                                   *)
(***************************************************************************)
EXTENDS TwoFactor, TLAPS, FiniteSetTheorems, SequenceTheorems, WellFoundedInduction

-----------------------------------------------------------------------------
(* Types.                                                                  *)

\* The least of a set of ids, as an answer with new codes records it.
LEMMA Least ==
    ASSUME NEW S \in SUBSET Nat, S # {}
    PROVE  Min(S) \in S /\ \A x \in S : Min(S) <= x
<1> DEFINE R == {ss \in Nat \X Nat : ss[1] < ss[2]}
<1>0. OpToRel(<, Nat) = R
  BY Zenon DEF OpToRel
<1>1. IsWellFoundedOn(R, Nat)
  <2> HIDE DEF R
  <2> QED BY <1>0, NatLessThanWellFounded, Zenon
<1>2. \E x \in S : \A y \in S : ~ <<y, x>> \in R
  <2>1. S \subseteq Nat
    OBVIOUS
  <2> HIDE DEF R
  <2> QED BY <1>1, <2>1, WFMin, Zenon
<1>3. \E x \in S : \A y \in S : x <= y
  <2>1. PICK x \in S : \A y \in S : ~ <<y, x>> \in R
    BY <1>2
  <2>2. ASSUME NEW y \in S PROVE x <= y
    <3>1. x \in Nat /\ y \in Nat
      OBVIOUS
    <3>2. <<y, x>> \notin R
      BY <2>1
    <3>3. y < x => <<y, x>> \in R
      BY <3>1
    <3> QED BY <3>1, <3>2, <3>3
  <2> QED BY <2>2
<1> QED BY <1>3 DEF Min

\* Ids are drawn in order; each keeps its kind, and every row and every code is
\* of its kind.
Ids ==
    /\ \A i \in Id : kind[i] = "unused" <=> i >= fresh
    /\ \A i \in Id : kind[i] # "otp" => about[i] = None
    /\ \A r \in otps : kind[r.issue] = "otp" /\ about[r.issue] = r.key
    /\ \A c \in record.codes : kind[c] = "code"

\* What a request carries.
Asked(c) ==
    /\ c.op # "sign_in" => c.key # None
    /\ c.key # None => kind[c.key] \in {"session", "challenge"}
    /\ c.cookie # None => kind[c.cookie] = "trust"
    /\ c.op = "verify_backup" => c.code # None /\ kind[c.code] = "code"

SignIn == {"load", "inspect", "rotate", "renew", "challenge"}

\* What a request has found out by the time it is at a statement.
Fits(label, c, l) ==
    /\ label \in SignIn => c.op = "sign_in"
    /\ label \notin SignIn \cup {"idle", "issue"} => c.op # "sign_in"
    /\ label \in {"inspect", "rotate", "forget"} => c.cookie # None
    /\ label \in {"clear_otp", "judge", "recount"} =>
          /\ l.otp \in OtpRow /\ l.otp.key = c.key
          /\ kind[l.otp.issue] = "otp" /\ about[l.otp.issue] = c.key
          /\ l.spent = {}
    /\ label \in {"find_otp", "create_otp", "read_otp", "read_codes", "write_codes",
                  "read_secret", "drop_record", "create_record", "check_record",
                  "replace_codes"} => l.spent = {}
    /\ label = "recount" => l.otp.tries < OtpAttempts
    /\ label = "consume" => ~ l.signedIn
    /\ label \in {"read_codes", "write_codes"} => c.op = "verify_backup"
    /\ label = "write_codes" => \A i \in l.codes : kind[i] = "code"
    /\ label \in {"drop_record", "create_record", "demote"} => c.op \in {"enable", "disable"}
    /\ label \in {"check_record", "replace_codes"} => c.op = "generate"
    /\ label \notin SignIn \cup {"idle", "resolve"} /\ c.op # "sign_in" /\ ~ l.signedIn
          => kind[c.key] = "challenge"

Typed ==
    /\ TypeOK /\ Ids
    /\ \A p \in Requests : /\ Asked(call[p])
                           /\ Fits(pc[p], call[p], local[p])
                           /\ pc[p] \in {"idle", "load", "resolve"} => local[p] = Blank

\* The ways on from a statement.
Moves(p) ==
    \/ \E label \in Statements, l \in Local :
          Goto(p, label, l) /\ Fits(label, call[p], l) /\ label \notin {"load", "resolve"}
    \/ \E l \in Local : Answer(p, l)
    \/ Refuse(p)

Constants == Id \in SUBSET Nat /\ None \notin Id /\ MaxIds \in Nat /\ BackupCodes \in Nat
LEMMA Constant == Constants /\ Blank \in Local /\ NoCall \in Call
  BY TwoFactorAssumption DEF Constants, Id, None, Blank, Local, NoCall, Call, NoRow, AllOps, Verify

\* A factor that is found right leads on.
LEMMA Accepting ==
    ASSUME Typed, NEW p \in Requests, NEW l \in Local, Accepted(p, l),
           call[p].op # "sign_in", ~ l.signedIn => kind[call[p].key] = "challenge"
    PROVE  Moves(p)
<1>1. CASE ~ l.signedIn
  <2>1. Goto(p, "issue", l) /\ Fits("issue", call[p], l)
    BY <1>1 DEF Accepted, Fits, SignIn
  <2> QED BY <2>1 DEF Moves, Statements
<1>2. CASE l.signedIn /\ call[p].op # "verify_backup" /\ ~ l.enabled
  <2>1. Goto(p, "promote", l) /\ Fits("promote", call[p], l)
    BY <1>2 DEF Accepted, Fits, SignIn
  <2> QED BY <2>1 DEF Moves, Statements
<1>3. CASE l.signedIn /\ ~ (call[p].op # "verify_backup" /\ ~ l.enabled)
  BY <1>3 DEF Accepted, Moves
<1> QED BY <1>1, <1>2, <1>3

-----------------------------------------------------------------------------
(* Every statement leads on, and a request only ever has what fits.        *)

LEMMA DrawTyped ==
    ASSUME Typed, NEW kinds \in Seq(Kinds \ {"unused"}), Draw(kinds)
    PROVE  /\ kind' \in [Id -> Kinds] /\ fresh' \in 1 .. MaxIds + 1
           /\ fresh' = fresh + Len(kinds)
           /\ \A i \in Id : kind'[i] = "unused" <=> i >= fresh'
           /\ \A i \in Id : i < fresh => kind'[i] = kind[i]
           /\ \A i \in fresh .. fresh + Len(kinds) - 1 :
                 i \in Id /\ kind'[i] = kinds[i - fresh + 1]
<1>1. fresh \in 1 .. MaxIds + 1 /\ kind \in [Id -> Kinds] /\ Len(kinds) \in Nat
      /\ MaxIds \in Nat /\ Id = 1 .. MaxIds
  BY TwoFactorAssumption DEF Typed, TypeOK, Id
<1>2. \A i \in fresh .. fresh + Len(kinds) - 1 :
         kinds[i - fresh + 1] \in Kinds /\ kinds[i - fresh + 1] # "unused" /\ i \in Id
  BY <1>1 DEF Draw
<1>3. \A i \in Id : kind[i] = "unused" <=> i >= fresh
  BY DEF Typed, Ids
<1>4. /\ fresh + Len(kinds) <= MaxIds + 1 /\ fresh' = fresh + Len(kinds)
      /\ kind' = [i \in Id |-> IF i \in fresh .. fresh + Len(kinds) - 1
                               THEN kinds[i - fresh + 1] ELSE kind[i]]
  BY DEF Draw
<1> QED BY <1>1, <1>2, <1>3, <1>4

LEMMA SignInMoves ==
    ASSUME Typed, NEW p \in Requests,
           Load(p) \/ Inspect(p) \/ Rotate(p) \/ Renew(p) \/ Challenge(p) \/ Issue(p)
    PROVE  Moves(p)
<1>0. /\ Fits(pc[p], call[p], local[p]) /\ local[p] \in Local /\ call[p] \in Call
      /\ pc[p] \in {"idle", "load", "resolve"} => local[p] = Blank
      /\ Asked(call[p])
  BY DEF Typed, TypeOK
<1> USE Constant DEF Moves, Statements, SignIn
<1>1. CASE Load(p)
  BY <1>0, <1>1 DEF Load, Fits, Blank
<1>2. CASE Inspect(p)
  BY <1>0, <1>2 DEF Inspect, Fits
<1>3. CASE Rotate(p)
  <2> DEFINE l == [local[p] EXCEPT !.spent = {call[p].cookie}]
  <2>1. l \in Local
    BY <1>0, <1>3 DEF Rotate, Fits, Local, Call
  <2>2. Fits("renew", call[p], l)
    BY <1>0, <1>3 DEF Rotate, Fits
  <2> QED BY <1>3, <2>1, <2>2 DEF Rotate
<1>4. CASE Renew(p)
  <2> DEFINE l == [local[p] EXCEPT !.got = {fresh}]
  <2>0. fresh \in Id
    BY <1>4, TwoFactorAssumption DEF Renew, Draw, Id, Typed, TypeOK
  <2>1. l \in Local
    BY <1>0, <2>0 DEF Local
  <2>2. Fits("issue", call[p], l)
    BY <1>0, <1>4 DEF Renew, Fits
  <2> QED BY <1>4, <2>1, <2>2 DEF Renew
<1>5. CASE Challenge(p)
  <2>0. fresh \in Id
    BY <1>5, TwoFactorAssumption DEF Challenge, Draw, Id, Typed, TypeOK
  <2>1. [local[p] EXCEPT !.got = {fresh}] \in Local
    BY <1>0, <2>0 DEF Local
  <2> QED BY <1>5, <2>1 DEF Challenge
<1>6. CASE Issue(p)
  <2> DEFINE l == [local[p] EXCEPT !.got = @ \cup {fresh}]
  <2>0. fresh \in Id
    BY <1>6, TwoFactorAssumption DEF Issue, Draw, Id, Typed, TypeOK
  <2>1. l \in Local /\ l.signedIn = local[p].signedIn
    BY <1>0, <2>0 DEF Local
  <2>2. call[p].op # "sign_in" => /\ l.signedIn => Fits("retire", call[p], l)
                                  /\ ~ l.signedIn => Fits("consume", call[p], l)
    BY <1>0, <1>6, <2>1 DEF Issue, Fits
  <2> HIDE DEF l
  <2>3. IF call[p].op = "sign_in" THEN Answer(p, l)
        ELSE Goto(p, IF l.signedIn THEN "retire" ELSE "consume", l)
    BY <1>6 DEF Issue, l
  <2>4. CASE call[p].op = "sign_in"
    BY <2>1, <2>3, <2>4
  <2>5. CASE call[p].op # "sign_in" /\ l.signedIn
    BY <2>1, <2>2, <2>3, <2>5
  <2>6. CASE call[p].op # "sign_in" /\ ~ l.signedIn
    BY <2>1, <2>2, <2>3, <2>6
  <2> QED BY <2>4, <2>5, <2>6
<1> QED BY <1>1, <1>2, <1>3, <1>4, <1>5, <1>6

LEMMA OtpMoves ==
    ASSUME Typed, NEW p \in Requests,
           Resolve(p) \/ FindOtp(p) \/ ClearOtp(p) \/ CreateOtp(p) \/ ReadOtp(p)
             \/ Judge(p) \/ Recount(p)
    PROVE  Moves(p)
<1>0. /\ Fits(pc[p], call[p], local[p]) /\ local[p] \in Local /\ call[p] \in Call
      /\ pc[p] \in {"idle", "load", "resolve"} => local[p] = Blank
      /\ Asked(call[p]) /\ otps \subseteq OtpRow
  BY DEF Typed, TypeOK
<1> USE Constant DEF Moves, Statements, SignIn
<1>1. CASE Resolve(p)
  <2> DEFINE b == [Blank EXCEPT !.signedIn = TRUE, !.enabled = enabled]
  <2>0. call[p].op # "sign_in" /\ enabled \in BOOLEAN
    BY <1>0, <1>1 DEF Resolve, Fits, Typed, TypeOK
  <2>1. b \in Local /\ b.signedIn /\ b.spent = {}
    BY <2>0 DEF Blank, Local
  <2>2. \/ Goto(p, Start(call[p].op), b)
        \/ Goto(p, Start(call[p].op), Blank) /\ kind[call[p].key] = "challenge"
        \/ Refuse(p)
    BY <1>1 DEF Resolve, Challenges
  <2> HIDE DEF b
  <2>3. ASSUME NEW l \in Local, l.spent = {},
               ~ l.signedIn => kind[call[p].key] = "challenge"
        PROVE  Fits(Start(call[p].op), call[p], l) /\ Start(call[p].op) \in Statements
               /\ Start(call[p].op) \notin {"load", "resolve"}
    <3>1. call[p].op \in AllOps
      BY <1>0 DEF Call
    <3> QED BY <2>0, <2>3, <3>1 DEF Fits, Start, AllOps, Verify
  <2>4. Blank.spent = {}
    BY DEF Blank
  <2> QED BY <2>1, <2>2, <2>3, <2>4
<1>2. CASE FindOtp(p)
  <2>1. ASSUME NEW r \in RowsOf(call[p].key)
        PROVE  /\ [local[p] EXCEPT !.otp = r] \in Local
               /\ Fits("clear_otp", call[p], [local[p] EXCEPT !.otp = r])
    <3>1. r \in OtpRow /\ r.key = call[p].key /\ kind[r.issue] = "otp"
          /\ about[r.issue] = r.key
      BY <1>0 DEF RowsOf, Typed, Ids
    <3> QED BY <1>0, <1>2, <3>1 DEF FindOtp, Fits, Local
  <2>2. Fits("create_otp", call[p], local[p])
    BY <1>0, <1>2 DEF FindOtp, Fits
  <2> QED BY <1>0, <1>2, <2>1, <2>2 DEF FindOtp
<1>3. CASE ClearOtp(p)
  <2>1. Fits("create_otp", call[p], local[p])
    BY <1>0, <1>3 DEF ClearOtp, Fits
  <2> QED BY <1>0, <1>3, <2>1 DEF ClearOtp
<1>4. CASE CreateOtp(p)
  <2>0. fresh \in Id
    BY <1>4, TwoFactorAssumption DEF CreateOtp, Draw, Id, Typed, TypeOK
  <2>1. [local[p] EXCEPT !.got = {fresh}] \in Local
    BY <1>0, <2>0 DEF Local
  <2> QED BY <1>4, <2>1 DEF CreateOtp
<1>5. CASE ReadOtp(p)
  <2>1. ASSUME NEW r \in RowsOf(call[p].key)
        PROVE  /\ [local[p] EXCEPT !.otp = r] \in Local
               /\ Fits("judge", call[p], [local[p] EXCEPT !.otp = r])
    <3>1. r \in OtpRow /\ r.key = call[p].key /\ kind[r.issue] = "otp"
          /\ about[r.issue] = r.key
      BY <1>0 DEF RowsOf, Typed, Ids
    <3> QED BY <1>0, <1>5, <3>1 DEF ReadOtp, Fits, Local
  <2> QED BY <1>0, <1>5, <2>1 DEF ReadOtp
<1>6. CASE Judge(p)
  <2> DEFINE l == [local[p] EXCEPT !.spent = {local[p].otp.issue}]
  <2>0. local[p].otp \in OtpRow /\ call[p].op # "sign_in"
    BY <1>0, <1>6 DEF Judge, Fits
  <2>1. l \in Local /\ (~ l.signedIn => kind[call[p].key] = "challenge")
    BY <1>0, <1>6, <2>0 DEF Judge, Fits, Local, OtpRow
  <2>2. Verdict(p) = "wrong" => Fits("recount", call[p], local[p])
    BY <1>0, <1>6, <2>0, TwoFactorAssumption DEF Judge, Fits, Verdict, OtpRow
  <2> HIDE DEF l
  <2>3. \/ Refuse(p)
        \/ Verdict(p) = "wrong" /\ Goto(p, "recount", local[p])
        \/ Accepted(p, l)
    BY <1>6 DEF Judge, l, Verdict
  <2>4. Accepted(p, l) => Moves(p)
    BY <2>0, <2>1, Accepting
  <2> QED BY <1>0, <2>2, <2>3, <2>4
<1>7. CASE Recount(p)
  BY <1>7 DEF Recount
<1> QED BY <1>1, <1>2, <1>3, <1>4, <1>5, <1>6, <1>7

LEMMA CodeMoves ==
    ASSUME Typed, NEW p \in Requests,
           ReadSecret(p) \/ ReadCodes(p) \/ WriteCodes(p) \/ Consume(p) \/ Trust(p)
             \/ Promote(p) \/ Retire(p)
    PROVE  Moves(p)
<1>0. /\ Fits(pc[p], call[p], local[p]) /\ local[p] \in Local /\ call[p] \in Call
      /\ Asked(call[p]) /\ record \in [secret : Id \cup {None}, codes : SUBSET Id]
      /\ \A c \in record.codes : kind[c] = "code"
  BY DEF Typed, TypeOK, Ids
<1> USE Constant DEF Moves, Statements, SignIn
<1>1. CASE ReadSecret(p)
  <2>1. call[p].op # "sign_in" /\ (~ local[p].signedIn => kind[call[p].key] = "challenge")
    BY <1>0, <1>1 DEF ReadSecret, Fits
  <2> QED BY <1>0, <1>1, <2>1, Accepting DEF ReadSecret
<1>2. CASE ReadCodes(p)
  <2> DEFINE l == [local[p] EXCEPT !.codes = WithoutCode(record.codes, call[p].code)]
  <2>1. l \in Local
    BY <1>0 DEF Local, WithoutCode
  <2>2. Fits("write_codes", call[p], l)
    BY <1>0, <1>2 DEF ReadCodes, Fits, WithoutCode, Local
  <2> QED BY <1>2, <2>1, <2>2 DEF ReadCodes
<1>3. CASE WriteCodes(p)
  <2> DEFINE l == [local[p] EXCEPT !.spent = {call[p].code}]
  <2>0. call[p].op = "verify_backup" /\ call[p].code \in Id
    BY <1>0, <1>3 DEF WriteCodes, Fits, Asked, Call
  <2>1. l \in Local /\ (~ l.signedIn => kind[call[p].key] = "challenge")
    BY <1>0, <1>3, <2>0 DEF WriteCodes, Fits, Local
  <2> HIDE DEF l
  <2>2. Refuse(p) \/ Accepted(p, l)
    BY <1>3 DEF WriteCodes, l
  <2> QED BY <2>0, <2>1, <2>2, Accepting
<1>4. CASE Consume(p)
  <2> DEFINE l == [local[p] EXCEPT !.spent = @ \cup {call[p].key}]
  <2>0. call[p].op # "sign_in" /\ call[p].key \in Id
    BY <1>0, <1>4 DEF Consume, Fits, Asked, Call
  <2>1. l \in Local
    BY <1>0, <2>0 DEF Local
  <2>2. Fits("trust", call[p], l)
    BY <1>0, <1>4 DEF Consume, Fits, Local
  <2> QED BY <1>4, <2>1, <2>2 DEF Consume
<1>5. CASE Trust(p)
  <2>0. fresh \in Id
    BY <1>5, TwoFactorAssumption DEF Trust, Draw, Id, Typed, TypeOK
  <2>1. [local[p] EXCEPT !.got = @ \cup {fresh}] \in Local
    BY <1>0, <2>0 DEF Local
  <2> QED BY <1>5, <2>1 DEF Trust
<1>6. CASE Promote(p)
  <2>1. Fits("issue", call[p], local[p])
    BY <1>0, <1>6 DEF Promote, Fits
  <2> QED BY <1>0, <1>6, <2>1 DEF Promote
<1>7. CASE Retire(p)
  <2>1. call[p].cookie # None => Fits("forget", call[p], local[p])
    BY <1>0, <1>7 DEF Retire, Fits
  <2> QED BY <1>0, <1>7, <2>1 DEF Retire
<1> QED BY <1>1, <1>2, <1>3, <1>4, <1>5, <1>6, <1>7

LEMMA EnrolMoves ==
    ASSUME Typed, NEW p \in Requests,
           DropRecord(p) \/ CreateRecord(p) \/ Demote(p) \/ Forget(p) \/ CheckRecord(p)
             \/ ReplaceCodes(p) \/ StatementFails(p)
    PROVE  Moves(p)
<1>0. /\ Fits(pc[p], call[p], local[p]) /\ local[p] \in Local /\ call[p] \in Call
      /\ fresh \in 1 .. MaxIds + 1 /\ MaxIds \in Nat
  BY TwoFactorAssumption DEF Typed, TypeOK
<1> USE Constant DEF Moves, Statements, SignIn
<1>1. CASE DropRecord(p)
  <2> DEFINE label == IF call[p].op = "enable" THEN "create_record" ELSE "demote"
  <2>1. Fits(label, call[p], local[p])
    BY <1>0, <1>1 DEF DropRecord, Fits
  <2> QED BY <1>0, <1>1, <2>1 DEF DropRecord
<1>2. CASE CreateRecord(p)
  <2> DEFINE l == [local[p] EXCEPT !.got = {fresh} \cup CodesFrom(fresh + 1)]
  <2>1. CASE record.secret # None
    BY <1>2, <2>1 DEF CreateRecord
  <2>2. CASE record.secret = None
    <3>1. fresh + Len(<<"secret">> \o CodeKinds) <= MaxIds + 1
      BY <1>2, <2>2 DEF CreateRecord, Draw
    <3>2. Len(<<"secret">> \o CodeKinds) = BackupCodes + 1
      BY TwoFactorAssumption DEF CodeKinds
    <3>3. {fresh} \cup CodesFrom(fresh + 1) \subseteq Id
      BY <1>0, <3>1, <3>2, TwoFactorAssumption DEF CodesFrom, Id
    <3>4. l \in Local
      BY <1>0, <3>3 DEF Local
    <3>5. Fits("promote", call[p], l)
      BY <1>0, <1>2 DEF CreateRecord, Fits, Local
    <3> HIDE DEF l
    <3>6. Goto(p, "promote", l) \/ Answer(p, l)
      BY <1>2, <2>2 DEF CreateRecord, l
    <3> QED BY <3>4, <3>5, <3>6
  <2> QED BY <2>1, <2>2
<1>3. CASE Demote(p)
  <2>1. Fits("issue", call[p], local[p])
    BY <1>0, <1>3 DEF Demote, Fits
  <2> QED BY <1>0, <1>3, <2>1 DEF Demote
<1>4. CASE Forget(p)
  BY <1>0, <1>4 DEF Forget
<1>5. CASE CheckRecord(p)
  <2>1. Fits("replace_codes", call[p], local[p])
    BY <1>0, <1>5 DEF CheckRecord, Fits
  <2> QED BY <1>0, <1>5, <2>1 DEF CheckRecord
<1>6. CASE ReplaceCodes(p)
  <2>1. CASE record.secret = None
    BY <1>6, <2>1 DEF ReplaceCodes
  <2>2. CASE record.secret # None
    <3>1. fresh + Len(CodeKinds) <= MaxIds + 1
      BY <1>6, <2>2 DEF ReplaceCodes, Draw
    <3>2. Len(CodeKinds) = BackupCodes
      BY TwoFactorAssumption DEF CodeKinds
    <3>3. CodesFrom(fresh) \subseteq Id
      BY <1>0, <3>1, <3>2, TwoFactorAssumption DEF CodesFrom, Id
    <3>4. [local[p] EXCEPT !.got = CodesFrom(fresh)] \in Local
      BY <1>0, <3>3 DEF Local
    <3> QED BY <1>6, <2>2, <3>4 DEF ReplaceCodes
  <2> QED BY <2>1, <2>2
<1>7. CASE StatementFails(p)
  <2>1. pc[p] = "drop_record" /\ call[p].op = "enable"
          => Fits("create_record", call[p], local[p])
    BY <1>0 DEF Fits
  <2>2. \/ pc[p] = "drop_record" /\ call[p].op = "enable"
           /\ Goto(p, "create_record", local[p])
        \/ Answer(p, local[p])
        \/ Refuse(p)
    BY <1>7 DEF StatementFails
  <2> QED BY <1>0, <2>1, <2>2
<1> QED BY <1>1, <1>2, <1>3, <1>4, <1>5, <1>6, <1>7

LEMMA StepMoves ==
    ASSUME Typed, NEW p \in Requests, Step(p) \/ Judge(p) \/ Recount(p) \/ StatementFails(p)
    PROVE  Moves(p)
<1>1. CASE Load(p) \/ Inspect(p) \/ Rotate(p) \/ Renew(p) \/ Challenge(p) \/ Issue(p)
  BY <1>1, SignInMoves
<1>2. CASE Resolve(p) \/ FindOtp(p) \/ ClearOtp(p) \/ CreateOtp(p) \/ ReadOtp(p)
             \/ Judge(p) \/ Recount(p)
  BY <1>2, OtpMoves
<1>3. CASE ReadSecret(p) \/ ReadCodes(p) \/ WriteCodes(p) \/ Consume(p) \/ Trust(p)
             \/ Promote(p) \/ Retire(p)
  BY <1>3, CodeMoves
<1>4. CASE DropRecord(p) \/ CreateRecord(p) \/ Demote(p) \/ Forget(p) \/ CheckRecord(p)
             \/ ReplaceCodes(p) \/ StatementFails(p)
  BY <1>4, EnrolMoves
<1> QED BY <1>1, <1>2, <1>3, <1>4 DEF Step

-----------------------------------------------------------------------------
(* What a statement leaves in the tables.                                  *)

\* An id that has been drawn keeps its kind, and what it is about.
Settled == \A i \in Id : kind[i] # "unused" => kind'[i] = kind[i] /\ about'[i] = about[i]

TablesTyped ==
    /\ enabled \in BOOLEAN
    /\ record \in [secret : Id \cup {None}, codes : SUBSET Id]
    /\ kind \in [Id -> Kinds]
    /\ about \in [Id -> Id \cup {None}]
    /\ live \subseteq Id
    /\ otps \subseteq OtpRow
    /\ fresh \in 1 .. MaxIds + 1
    /\ Ids

LEMMA Unchanging ==
    ASSUME Typed, UNCHANGED store
    PROVE  TablesTyped' /\ Settled
BY DEF Typed, TypeOK, TablesTyped, Settled, store, Ids

\* Ids drawn for anything but an OTP disturb nothing that is there.
LEMMA Drawing ==
    ASSUME Typed, NEW kinds \in Seq(Kinds \ {"unused", "otp"}), Draw(kinds),
           UNCHANGED about
    PROVE  /\ Settled
           /\ kind' \in [Id -> Kinds] /\ fresh' \in 1 .. MaxIds + 1
           /\ fresh' = fresh + Len(kinds)
           /\ \A i \in fresh .. fresh + Len(kinds) - 1 :
                 i \in Id /\ kind'[i] = kinds[i - fresh + 1]
           /\ \A i \in Id : kind'[i] = "unused" <=> i >= fresh'
           /\ \A i \in Id : kind'[i] # "otp" => about'[i] = None
           /\ \A r \in otps : kind'[r.issue] = "otp" /\ about'[r.issue] = r.key
           /\ \A c \in record.codes : kind'[c] = "code"
<1>0. kinds \in Seq(Kinds \ {"unused"}) /\ Len(kinds) \in Nat
  OBVIOUS
<1>1. /\ kind' \in [Id -> Kinds] /\ fresh' \in 1 .. MaxIds + 1
      /\ fresh' = fresh + Len(kinds)
      /\ \A i \in Id : kind'[i] = "unused" <=> i >= fresh'
      /\ \A i \in Id : i < fresh => kind'[i] = kind[i]
      /\ \A i \in fresh .. fresh + Len(kinds) - 1 :
            i \in Id /\ kind'[i] = kinds[i - fresh + 1]
  BY <1>0, DrawTyped
<1>2. fresh \in Nat /\ Id \in SUBSET Nat
  BY TwoFactorAssumption DEF Typed, TypeOK, Id
<1>3. \A i \in Id : kind[i] = "unused" <=> i >= fresh
  BY DEF Typed, Ids
<1>4. \A i \in Id : i < fresh \/ i \in fresh .. fresh + Len(kinds) - 1 \/ i >= fresh'
  BY <1>0, <1>1, <1>2
<1>5. Settled
  BY <1>1, <1>2, <1>3 DEF Settled
<1>6. ASSUME NEW i \in Id, kind'[i] # "otp" PROVE about'[i] = None
  <2>1. kind[i] = "unused" \/ kind[i] = kind'[i]
    BY <1>1, <1>2, <1>3
  <2> QED BY <1>6, <2>1 DEF Typed, Ids
<1>7. \A r \in otps : r.issue \in Id /\ kind[r.issue] = "otp" /\ about[r.issue] = r.key
  BY DEF Typed, Ids, TypeOK, OtpRow
<1>8. \A c \in record.codes : c \in Id /\ kind[c] = "code"
  BY DEF Typed, Ids, TypeOK
<1> QED BY <1>1, <1>5, <1>6, <1>7, <1>8 DEF Settled

\* One id is drawn for something without an address of its own.
LEMMA DrawingOne ==
    ASSUME Typed, NEW k \in Kinds \ {"unused", "otp"}, Draw(<<k>>), UNCHANGED about
    PROVE  /\ Settled /\ fresh \in Id
           /\ kind' \in [Id -> Kinds] /\ fresh' \in 1 .. MaxIds + 1
           /\ \A i \in Id : kind'[i] = "unused" <=> i >= fresh'
           /\ \A i \in Id : kind'[i] # "otp" => about'[i] = None
           /\ \A r \in otps : kind'[r.issue] = "otp" /\ about'[r.issue] = r.key
           /\ \A c \in record.codes : kind'[c] = "code"
<1> DEFINE kinds == <<k>>
<1>1. kinds \in Seq(Kinds \ {"unused", "otp"}) /\ Len(kinds) = 1
  OBVIOUS
<1>2. Draw(kinds)
  OBVIOUS
<1> HIDE DEF kinds
<1>3. fresh \in Nat
  BY DEF Typed, TypeOK
<1>4. /\ Settled
      /\ kind' \in [Id -> Kinds] /\ fresh' \in 1 .. MaxIds + 1
      /\ \A i \in fresh .. fresh + Len(kinds) - 1 :
            i \in Id /\ kind'[i] = kinds[i - fresh + 1]
      /\ \A i \in Id : kind'[i] = "unused" <=> i >= fresh'
      /\ \A i \in Id : kind'[i] # "otp" => about'[i] = None
      /\ \A r \in otps : kind'[r.issue] = "otp" /\ about'[r.issue] = r.key
      /\ \A c \in record.codes : kind'[c] = "code"
  BY <1>1, <1>2, Drawing
<1>5. fresh \in Id
  BY <1>1, <1>3, <1>4
<1> QED BY <1>4, <1>5

\* One id is drawn, and stored in nothing but live.
LEMMA Storing ==
    ASSUME Typed, NEW k \in Kinds \ {"unused", "otp"}, Draw(<<k>>),
           UNCHANGED <<enabled, record, about, otps>>, live' \subseteq live \cup {fresh}
    PROVE  TablesTyped' /\ Settled
<1>1. /\ Settled /\ fresh \in Id
      /\ kind' \in [Id -> Kinds] /\ fresh' \in 1 .. MaxIds + 1
      /\ \A i \in Id : kind'[i] = "unused" <=> i >= fresh'
      /\ \A i \in Id : kind'[i] # "otp" => about'[i] = None
      /\ \A r \in otps : kind'[r.issue] = "otp" /\ about'[r.issue] = r.key
      /\ \A c \in record.codes : kind'[c] = "code"
  BY DrawingOne
<1>2. Ids'
  BY <1>1 DEF Ids
<1>3. /\ enabled' \in BOOLEAN /\ record' \in [secret : Id \cup {None}, codes : SUBSET Id]
      /\ about' \in [Id -> Id \cup {None}] /\ live' \subseteq Id /\ otps' \subseteq OtpRow
  BY <1>1 DEF Typed, TypeOK
<1> QED BY <1>1, <1>2, <1>3 DEF TablesTyped

\* A new OTP, for the key of p.
LEMMA OtpStored ==
    ASSUME Typed, NEW p \in Requests, CreateOtp(p)
    PROVE  TablesTyped' /\ Settled /\ fresh \in Id /\ kind'[fresh] = "otp"
           /\ about'[fresh] = call[p].key /\ call[p].key \in Id
<1>0. <<"otp">> \in Seq(Kinds \ {"unused"}) /\ Len(<<"otp">>) = 1 /\ <<"otp">>[1] = "otp"
  BY DEF Kinds
<1>1. /\ kind' \in [Id -> Kinds] /\ fresh' \in 1 .. MaxIds + 1 /\ fresh' = fresh + 1
      /\ \A i \in Id : kind'[i] = "unused" <=> i >= fresh'
      /\ \A i \in Id : i < fresh => kind'[i] = kind[i]
      /\ \A i \in fresh .. fresh : i \in Id /\ kind'[i] = <<"otp">>[i - fresh + 1]
  <2>1. Draw(<<"otp">>)
    BY DEF CreateOtp
  <2>2. /\ kind' \in [Id -> Kinds] /\ fresh' \in 1 .. MaxIds + 1
        /\ fresh' = fresh + Len(<<"otp">>)
        /\ \A i \in Id : kind'[i] = "unused" <=> i >= fresh'
        /\ \A i \in Id : i < fresh => kind'[i] = kind[i]
        /\ \A i \in fresh .. fresh + Len(<<"otp">>) - 1 :
              i \in Id /\ kind'[i] = <<"otp">>[i - fresh + 1]
    BY <1>0, <2>1, DrawTyped
  <2>3. fresh \in Nat
    BY DEF Typed, TypeOK
  <2> QED BY <1>0, <2>2, <2>3
<1>2. fresh \in Nat /\ \A i \in Id : i \in Nat
  BY TwoFactorAssumption DEF Typed, TypeOK, Id
<1>3. fresh \in Id /\ kind'[fresh] = "otp"
  BY <1>0, <1>1, <1>2
<1>4. \A i \in Id : kind[i] = "unused" <=> i >= fresh
  BY DEF Typed, Ids
<1>5. call[p].key \in Id
  BY DEF CreateOtp, Typed, TypeOK, Call, Asked, Fits, SignIn
<1>6. /\ about \in [Id -> Id \cup {None}] /\ about' = [about EXCEPT ![fresh] = call[p].key]
      /\ otps' = otps \cup {[id |-> fresh, key |-> call[p].key, issue |-> fresh,
                             tries |-> 0]}
      /\ UNCHANGED <<enabled, record, live>>
  BY DEF CreateOtp, Typed, TypeOK
<1>7. /\ about' \in [Id -> Id \cup {None}] /\ about'[fresh] = call[p].key
      /\ \A i \in Id : i # fresh => about'[i] = about[i]
  BY <1>3, <1>5, <1>6
<1>8. Settled
  BY <1>1, <1>2, <1>4, <1>7 DEF Settled
<1>9. otps' \subseteq OtpRow
  BY <1>3, <1>5, <1>6, TwoFactorAssumption DEF OtpRow, Typed, TypeOK
<1>10. ASSUME NEW i \in Id, kind'[i] # "otp" PROVE about'[i] = None
  <2>1. i # fresh
    BY <1>3, <1>10
  <2>2. kind[i] = "unused" \/ kind[i] = kind'[i]
    BY <1>1, <1>2, <1>4
  <2> QED BY <1>7, <1>10, <2>1, <2>2 DEF Typed, Ids
<1>11. \A r \in otps : r.issue \in Id /\ kind[r.issue] = "otp" /\ about[r.issue] = r.key
  BY DEF Typed, Ids, TypeOK, OtpRow
<1>12. \A c \in record.codes : c \in Id /\ kind[c] = "code"
  BY DEF Typed, Ids, TypeOK
<1>13. \A r \in otps' : kind'[r.issue] = "otp" /\ about'[r.issue] = r.key
  BY <1>3, <1>6, <1>7, <1>8, <1>11 DEF Settled
<1>14. Ids'
  BY <1>1, <1>6, <1>8, <1>10, <1>12, <1>13 DEF Ids, Settled
<1> QED BY <1>1, <1>3, <1>5, <1>6, <1>7, <1>8, <1>9, <1>14 DEF TablesTyped, Typed, TypeOK

\* A row is stored again, with one attempt more.
LEMMA RowStored ==
    ASSUME Typed, NEW p \in Requests, Recount(p)
    PROVE  TablesTyped' /\ Settled
<1> DEFINE r == [Counted(local[p].otp) EXCEPT !.id = fresh]
<1>1. Draw(<<"row">>) /\ otps' = otps \cup {r} /\ UNCHANGED <<enabled, record, about, live>>
  BY DEF Recount
<1>2. fresh \in Nat /\ OtpAttempts \in Nat
  BY TwoFactorAssumption DEF Typed, TypeOK
<1>3. /\ Settled /\ fresh \in Id
      /\ kind' \in [Id -> Kinds] /\ fresh' \in 1 .. MaxIds + 1
      /\ \A i \in Id : kind'[i] = "unused" <=> i >= fresh'
      /\ \A i \in Id : kind'[i] # "otp" => about'[i] = None
      /\ \A q \in otps : kind'[q.issue] = "otp" /\ about'[q.issue] = q.key
      /\ \A c \in record.codes : kind'[c] = "code"
  <2>1. "row" \in Kinds \ {"unused", "otp"}
    BY DEF Kinds
  <2> QED BY <1>1, <2>1, DrawingOne
<1>4. /\ local[p].otp \in OtpRow /\ local[p].otp.tries < OtpAttempts
      /\ kind[local[p].otp.issue] = "otp" /\ about[local[p].otp.issue] = local[p].otp.key
  BY DEF Recount, Typed, Fits
<1>5. r \in OtpRow /\ r.issue = local[p].otp.issue /\ r.key = local[p].otp.key
  <2>1. ASSUME NEW o \in OtpRow, o.tries < OtpAttempts
        PROVE  /\ [Counted(o) EXCEPT !.id = fresh] \in OtpRow
               /\ [Counted(o) EXCEPT !.id = fresh].issue = o.issue
               /\ [Counted(o) EXCEPT !.id = fresh].key = o.key
    <3>1. o.tries + 1 \in 0 .. OtpAttempts
      BY <1>2, <2>1 DEF OtpRow
    <3> QED BY <1>3, <3>1 DEF OtpRow, Counted
  <2> QED BY <1>4, <2>1
<1>6. kind'[r.issue] = "otp" /\ about'[r.issue] = r.key
  <2>2. r.issue \in Id
    BY <1>5 DEF OtpRow
  <2> HIDE DEF r
  <2> QED BY <1>3, <1>4, <1>5, <2>2 DEF Settled
<1> HIDE DEF r
<1>7. Ids'
  BY <1>1, <1>3, <1>6 DEF Ids
<1>8. otps' \subseteq OtpRow
  BY <1>1, <1>5 DEF Typed, TypeOK
<1>9. /\ enabled' \in BOOLEAN /\ record' \in [secret : Id \cup {None}, codes : SUBSET Id]
      /\ about' \in [Id -> Id \cup {None}] /\ live' \subseteq Id
  BY <1>1 DEF Typed, TypeOK
<1> QED BY <1>3, <1>7, <1>8, <1>9 DEF TablesTyped

\* New codes, with or without a new secret before them.
LEMMA CodesStored ==
    ASSUME Typed, NEW p \in Requests, CreateRecord(p) \/ ReplaceCodes(p), ~ UNCHANGED record
    PROVE  /\ TablesTyped' /\ Settled
           /\ \A c \in record'.codes : c >= fresh /\ c < fresh' /\ kind'[c] = "code"
           /\ record'.codes # {}
           /\ record'.secret # None
<1>0. /\ CodeKinds \in Seq(Kinds \ {"unused", "otp"}) /\ Len(CodeKinds) = BackupCodes
      /\ \A n \in 1 .. BackupCodes : CodeKinds[n] = "code"
  BY TwoFactorAssumption DEF CodeKinds, Kinds
<1>1. <<"secret">> \in Seq(Kinds \ {"unused", "otp"}) /\ Len(<<"secret">>) = 1
  BY DEF Kinds
<1>2. /\ <<"secret">> \o CodeKinds \in Seq(Kinds \ {"unused", "otp"})
      /\ Len(<<"secret">> \o CodeKinds) = BackupCodes + 1
      /\ \A n \in 2 .. BackupCodes + 1 : (<<"secret">> \o CodeKinds)[n] = "code"
  <2> HIDE DEF CodeKinds
  <2> QED BY <1>0, <1>1, TwoFactorAssumption
<1>3. fresh \in Nat /\ fresh >= 1 /\ MaxIds \in Nat /\ BackupCodes \in Nat /\ BackupCodes >= 1
  BY TwoFactorAssumption DEF Typed, TypeOK
<1>4. PICK kinds \in Seq(Kinds \ {"unused", "otp"}), first \in {fresh, fresh + 1} :
         /\ Draw(kinds) /\ Len(kinds) = first + BackupCodes - fresh
         /\ \A n \in first - fresh + 1 .. Len(kinds) : kinds[n] = "code"
         /\ record' \in [secret : Id \cup {None}, codes : {CodesFrom(first)}]
         /\ record'.secret # None
         /\ UNCHANGED <<enabled, about, live, otps>>
  <2>1. CASE CreateRecord(p)
    <3>1. Draw(<<"secret">> \o CodeKinds)
          /\ record' = [secret |-> fresh, codes |-> CodesFrom(fresh + 1)]
          /\ UNCHANGED <<enabled, about, live, otps>>
      BY <2>1 DEF CreateRecord
    <3> DEFINE kinds == <<"secret">> \o CodeKinds
    <3>2. fresh \in Id /\ fresh # None
      <4>1. \A i \in fresh .. fresh + Len(kinds) - 1 : i \in Id
        BY <1>2, <3>1, Drawing
      <4> QED BY <1>2, <1>3, <4>1 DEF None
    <3>3. record'.secret = fresh
          /\ record' \in [secret : Id \cup {None}, codes : {CodesFrom(fresh + 1)}]
      BY <3>1, <3>2
    <3>4. /\ kinds \in Seq(Kinds \ {"unused", "otp"}) /\ Draw(kinds)
          /\ Len(kinds) = BackupCodes + 1
          /\ \A n \in 2 .. BackupCodes + 1 : kinds[n] = "code"
      BY <1>2, <3>1
    <3> HIDE DEF kinds
    <3>5. Len(kinds) = (fresh + 1) + BackupCodes - fresh
      BY <1>3, <3>4
    <3>6. \A n \in (fresh + 1) - fresh + 1 .. Len(kinds) : kinds[n] = "code"
      BY <1>3, <3>4
    <3> QED BY <3>1, <3>2, <3>3, <3>4, <3>5, <3>6
  <2>2. CASE ReplaceCodes(p)
    <3>1. Draw(CodeKinds) /\ record.secret # None
          /\ record' = [record EXCEPT !.codes = CodesFrom(fresh)]
          /\ UNCHANGED <<enabled, about, live, otps>>
      BY <2>2 DEF ReplaceCodes
    <3>2. record \in [secret : Id \cup {None}, codes : SUBSET Id]
      BY DEF Typed, TypeOK
    <3> QED BY <1>0, <1>3, <3>1, <3>2
  <2> QED BY <2>1, <2>2
<1>5. /\ Settled /\ fresh' = fresh + Len(kinds)
      /\ kind' \in [Id -> Kinds] /\ fresh' \in 1 .. MaxIds + 1
      /\ \A i \in fresh .. fresh + Len(kinds) - 1 :
            i \in Id /\ kind'[i] = kinds[i - fresh + 1]
      /\ \A i \in Id : kind'[i] = "unused" <=> i >= fresh'
      /\ \A i \in Id : kind'[i] # "otp" => about'[i] = None
      /\ \A r \in otps : kind'[r.issue] = "otp" /\ about'[r.issue] = r.key
  BY <1>4, Drawing
<1>6. record'.codes = first .. first + BackupCodes - 1
  BY <1>4 DEF CodesFrom
<1>7. ASSUME NEW c \in record'.codes
      PROVE  c \in Id /\ c >= fresh /\ c < fresh' /\ kind'[c] = "code"
  <2>1. c \in fresh .. fresh + Len(kinds) - 1 /\ c - fresh + 1 \in first - fresh + 1 .. Len(kinds)
    BY <1>3, <1>4, <1>6, <1>7
  <2>2. c \in Id /\ kind'[c] = kinds[c - fresh + 1]
    BY <1>5, <2>1
  <2>3. c >= fresh /\ c < fresh'
    <3>1. Len(kinds) \in Nat
      BY <1>4
    <3> QED BY <1>3, <1>5, <2>1, <3>1
  <2>4. kinds[c - fresh + 1] = "code"
    BY <1>4, <2>1
  <2> QED BY <2>2, <2>3, <2>4
<1>8. record'.codes # {}
  <2>1. first \in record'.codes
    BY <1>3, <1>4, <1>6
  <2> QED BY <2>1
<1>9. Ids'
  BY <1>4, <1>5, <1>7 DEF Ids
<1>10. TablesTyped'
  <2>1. record' \in [secret : Id \cup {None}, codes : SUBSET Id]
    BY <1>4, <1>7
  <2>2. /\ enabled' \in BOOLEAN /\ about' \in [Id -> Id \cup {None}] /\ live' \subseteq Id
        /\ otps' \subseteq OtpRow
    BY <1>4 DEF Typed, TypeOK
  <2> QED BY <1>5, <1>9, <2>1, <2>2 DEF TablesTyped
<1> QED BY <1>4, <1>5, <1>7, <1>8, <1>10

LEMMA Tables ==
    ASSUME Typed, NEW p \in Requests, Step(p) \/ Judge(p) \/ Recount(p) \/ StatementFails(p)
    PROVE  TablesTyped' /\ Settled
<1> DEFINE Same == UNCHANGED <<enabled, kind, about, fresh>>
<1>0. {"session", "challenge", "trust"} \subseteq Kinds \ {"unused", "otp"}
  BY DEF Kinds
<1>1. CASE UNCHANGED store
  BY <1>1, Unchanging
<1>2. CASE Renew(p) \/ Challenge(p) \/ Issue(p) \/ Trust(p)
  <2>1. PICK k \in {"session", "challenge", "trust"} : Draw(<<k>>)
    BY <1>2 DEF Renew, Challenge, Issue, Trust
  <2>2. UNCHANGED <<enabled, record, about, otps>> /\ live' \subseteq live \cup {fresh}
    BY <1>2 DEF Renew, Challenge, Issue, Trust
  <2> QED BY <1>0, <2>1, <2>2, Storing
<1>3. CASE Rotate(p) \/ Consume(p) \/ Retire(p) \/ Forget(p)
  <2>1. Same /\ UNCHANGED <<record, otps>> /\ live' \subseteq live
    BY <1>3 DEF Rotate, Consume, Retire, Forget, WithoutChallenge
  <2> QED BY <2>1 DEF Typed, TypeOK, TablesTyped, Settled, Ids
<1>4. CASE ClearOtp(p) \/ Judge(p)
  <2>1. Same /\ UNCHANGED <<record, live>> /\ otps' \subseteq otps
    BY <1>4 DEF ClearOtp, Judge, Spent, RowCleared
  <2> QED BY <2>1 DEF Typed, TypeOK, TablesTyped, Settled, Ids
<1>5. CASE CreateOtp(p)
  BY <1>5, OtpStored
<1>6. CASE Recount(p)
  BY <1>6, RowStored
<1>7. CASE WriteCodes(p)
  <2>1. Same /\ UNCHANGED <<live, otps>>
        /\ (UNCHANGED record \/ record' = [record EXCEPT !.codes = local[p].codes])
    BY <1>7 DEF WriteCodes
  <2>2. local[p].codes \subseteq Id /\ \A c \in local[p].codes : kind[c] = "code"
    BY <1>7 DEF WriteCodes, Typed, TypeOK, Fits, Local
  <2> QED BY <2>1, <2>2 DEF Typed, TypeOK, TablesTyped, Settled, Ids
<1>8. CASE Promote(p) \/ Demote(p)
  <2>1. enabled' \in BOOLEAN /\ UNCHANGED <<record, kind, about, live, otps, fresh>>
    BY <1>8 DEF Promote, Demote
  <2> QED BY <2>1 DEF Typed, TypeOK, TablesTyped, Settled, Ids
<1>9. CASE DropRecord(p)
  <2>1. Same /\ UNCHANGED <<live, otps>> /\ record' = NoRecord
    BY <1>9 DEF DropRecord
  <2> QED BY <2>1 DEF Typed, TypeOK, TablesTyped, Settled, Ids, NoRecord
<1>10. CASE CreateRecord(p) \/ ReplaceCodes(p)
  <2>1. CASE UNCHANGED record
    <3>1. UNCHANGED store
      <4>1. CASE CreateRecord(p) /\ record.secret # None
        BY <4>1 DEF CreateRecord, store
      <4>2. CASE ReplaceCodes(p) /\ record.secret = None
        BY <4>2 DEF ReplaceCodes, store
      <4>3. CASE CreateRecord(p) /\ record.secret = None
        <5>1. record' = [secret |-> fresh, codes |-> CodesFrom(fresh + 1)]
          BY <4>3 DEF CreateRecord
        <5>2. fresh # None
          BY DEF Typed, TypeOK, None
        <5> QED BY <2>1, <4>3, <5>1, <5>2
      <4>4. CASE ReplaceCodes(p) /\ record.secret # None
        <5>1. record' = [record EXCEPT !.codes = CodesFrom(fresh)]
              /\ Draw(CodeKinds) /\ UNCHANGED about
          BY <4>4 DEF ReplaceCodes
        <5>2. record'.codes = fresh .. fresh + BackupCodes - 1
          BY <5>1 DEF CodesFrom, Typed, TypeOK
        <5>3. fresh \in record.codes
          BY <2>1, <5>2, TwoFactorAssumption DEF Typed, TypeOK
        <5>4. kind[fresh] = "code" /\ fresh \in Id
          BY <5>3 DEF Typed, TypeOK, Ids
        <5> QED BY <5>4 DEF Typed, Ids, TypeOK
      <4> QED BY <1>10, <4>1, <4>2, <4>3, <4>4
    <3> QED BY <3>1, Unchanging
  <2>2. CASE ~ UNCHANGED record
    BY <1>10, <2>2, CodesStored
  <2> QED BY <2>1, <2>2
<1>11. \/ UNCHANGED store
       \/ Renew(p) \/ Challenge(p) \/ Issue(p) \/ Trust(p)
       \/ Rotate(p) \/ Consume(p) \/ Retire(p) \/ Forget(p)
       \/ ClearOtp(p) \/ Judge(p) \/ CreateOtp(p) \/ Recount(p) \/ WriteCodes(p)
       \/ Promote(p) \/ Demote(p) \/ DropRecord(p) \/ CreateRecord(p) \/ ReplaceCodes(p)
  BY DEF Step, Load, Inspect, Resolve, FindOtp, ReadOtp, ReadSecret, ReadCodes, CheckRecord,
         StatementFails
<1> QED BY <1>1, <1>2, <1>3, <1>4, <1>5, <1>6, <1>7, <1>8, <1>9, <1>10, <1>11

-----------------------------------------------------------------------------
(* The type invariant.                                                     *)

\* What an answer records is of its types.
LEMMA AnswerTyped ==
    ASSUME Typed, NEW p \in Requests, NEW l \in Local, Answer(p, l)
    PROVE  /\ handed' \subseteq Id /\ honoured' \in [Id -> Nat]
           /\ latest' \in [Id \cup {None} -> Id \cup {None}]
           /\ outdated' \subseteq Id
<1> DEFINE new(x) == {i \in l.got : kind'[i] \in {"otp", "code"} /\ about'[i] = x}
<1>1. l.got \subseteq Id /\ l.spent \subseteq Id /\ Id \in SUBSET Nat
  BY Constant DEF Local, Constants
<1>2. ASSUME NEW x, new(x) # {} PROVE Min(new(x)) \in Id
  <2>1. new(x) \in SUBSET Nat /\ new(x) \subseteq Id
    BY <1>1
  <2> HIDE DEF new
  <2> QED BY <1>2, <2>1, Least
<1>3. latest' = [x \in Id \cup {None} |-> IF new(x) = {} THEN latest[x] ELSE Min(new(x))]
  BY DEF Answer
<1>4. /\ handed' = handed \cup l.got
      /\ honoured' = [i \in Id |-> IF i \in l.spent THEN honoured[i] + 1 ELSE honoured[i]]
      /\ outdated' = outdated \cup {i \in l.spent : Outdated(i)}
  BY DEF Answer
<1>5. /\ handed \subseteq Id /\ honoured \in [Id -> Nat] /\ outdated \subseteq Id
      /\ latest \in [Id \cup {None} -> Id \cup {None}]
  BY DEF Typed, TypeOK
<1> HIDE DEF new
<1>6. latest' \in [Id \cup {None} -> Id \cup {None}]
  BY <1>2, <1>3, <1>5
<1>7. honoured' \in [Id -> Nat]
  BY <1>4, <1>5
<1> QED BY <1>1, <1>4, <1>5, <1>6, <1>7

\* The request that moves fits where it is next.
LEMMA OnwardTyped ==
    ASSUME Typed, NEW p \in Requests, Moves(p), TablesTyped', Settled
    PROVE  /\ pc' \in [Requests -> Statements \cup {"idle"}]
           /\ call' \in [Requests -> Call] /\ local' \in [Requests -> Local]
           /\ handed' \subseteq Id /\ honoured' \in [Id -> Nat]
           /\ latest' \in [Id \cup {None} -> Id \cup {None}]
           /\ outdated' \subseteq Id
           /\ \A q \in Requests : /\ Asked(call[q])' /\ Fits(pc[q], call[q], local[q])'
                                  /\ pc'[q] \in {"idle", "load", "resolve"} => local'[q] = Blank
<1>0. /\ pc \in [Requests -> Statements \cup {"idle"}] /\ call \in [Requests -> Call]
      /\ local \in [Requests -> Local]
      /\ handed \subseteq Id /\ honoured \in [Id -> Nat]
      /\ latest \in [Id \cup {None} -> Id \cup {None}] /\ outdated \subseteq Id
      /\ None \notin Id
  BY Constant DEF Typed, TypeOK, Constants
<1>1. ASSUME NEW c \in Call, Asked(c)
      PROVE  /\ c.key # None => kind'[c.key] \in {"session", "challenge"}
             /\ c.cookie # None => kind'[c.cookie] = "trust"
             /\ c.op = "verify_backup" => kind'[c.code] = "code"
             /\ c.op # "sign_in" => c.key # None
             /\ c.op = "verify_backup" => c.code # None
             /\ c.key # None /\ kind[c.key] = "challenge" => kind'[c.key] = "challenge"
  BY <1>1 DEF Asked, Call, Settled
<1>2. ASSUME NEW label \in Statements \cup {"idle"}, NEW c \in Call, NEW l \in Local,
             Fits(label, c, l), Asked(c)
      PROVE  /\ label \in {"clear_otp", "judge", "recount"} =>
                   kind'[l.otp.issue] = "otp" /\ about'[l.otp.issue] = c.key
             /\ label = "write_codes" => \A i \in l.codes : kind'[i] = "code"
             /\ label \notin SignIn \cup {"idle", "resolve"} /\ c.op # "sign_in" /\ ~ l.signedIn
                   => kind'[c.key] = "challenge"
  <2>1. label \in {"clear_otp", "judge", "recount"} =>
          kind'[l.otp.issue] = "otp" /\ about'[l.otp.issue] = c.key
    BY <1>2 DEF Fits, Settled, OtpRow
  <2>2. label = "write_codes" => \A i \in l.codes : kind'[i] = "code"
    BY <1>2 DEF Fits, Settled, Local
  <2>3. label \notin SignIn \cup {"idle", "resolve"} /\ c.op # "sign_in" /\ ~ l.signedIn
          => kind'[c.key] = "challenge"
    BY <1>1, <1>2 DEF Fits, Asked
  <2> QED BY <2>1, <2>2, <2>3
<1>3. ASSUME NEW q \in Requests, pc'[q] = pc[q], call'[q] = call[q], local'[q] = local[q]
      PROVE  /\ Asked(call[q])' /\ Fits(pc[q], call[q], local[q])'
             /\ pc'[q] \in {"idle", "load", "resolve"} => local'[q] = Blank
  <2>1. Asked(call[q]) /\ Fits(pc[q], call[q], local[q])
    BY DEF Typed
  <2>2. pc[q] \in {"idle", "load", "resolve"} => local[q] = Blank
    BY DEF Typed
  <2> QED BY <1>0, <1>1, <1>2, <1>3, <2>1, <2>2 DEF Asked, Fits
<1>4. ASSUME NEW q \in Requests, pc'[q] = "idle", call'[q] = NoCall, local'[q] = Blank
      PROVE  Asked(call[q])' /\ Fits(pc[q], call[q], local[q])'
  BY <1>4 DEF Asked, Fits, NoCall, SignIn, None
<1>5. CASE \E label \in Statements, l \in Local :
             Goto(p, label, l) /\ Fits(label, call[p], l) /\ label \notin {"load", "resolve"}
  <2>1. PICK label \in Statements, l \in Local :
               Goto(p, label, l) /\ Fits(label, call[p], l) /\ label \notin {"load", "resolve"}
    BY <1>5
  <2>2. /\ pc' = [pc EXCEPT ![p] = label] /\ local' = [local EXCEPT ![p] = l]
        /\ UNCHANGED <<call, history>>
    BY <2>1 DEF Goto
  <2>3. Asked(call[p])' /\ Fits(pc[p], call[p], local[p])'
        /\ pc'[p] \notin {"idle", "load", "resolve"}
    <3>1. Asked(call[p]) /\ call[p] \in Call /\ label # "idle"
      BY <1>0 DEF Typed, Statements
    <3>2. pc'[p] = label /\ local'[p] = l /\ call'[p] = call[p]
      BY <1>0, <2>2
    <3> QED BY <1>1, <1>2, <2>1, <3>1, <3>2 DEF Asked, Fits
  <2> QED BY <1>0, <1>3, <2>2, <2>3 DEF history
<1>6. CASE Refuse(p)
  <2>1. /\ pc' = [pc EXCEPT ![p] = "idle"] /\ call' = [call EXCEPT ![p] = NoCall]
        /\ local' = [local EXCEPT ![p] = Blank] /\ UNCHANGED history
    BY <1>6 DEF Refuse, Drop
  <2> QED BY <1>0, <1>3, <1>4, <2>1, Constant DEF history
<1>7. CASE \E l \in Local : Answer(p, l)
  <2>1. PICK l \in Local : Answer(p, l)
    BY <1>7
  <2>2. /\ pc' = [pc EXCEPT ![p] = "idle"] /\ call' = [call EXCEPT ![p] = NoCall]
        /\ local' = [local EXCEPT ![p] = Blank]
    BY <2>1 DEF Answer, Drop
  <2> QED BY <1>0, <1>3, <1>4, <2>1, <2>2, AnswerTyped, Constant
<1> QED BY <1>5, <1>6, <1>7 DEF Moves

\* What the browsers can send.
LEMMA Asking ==
    ASSUME Typed, NEW op \in Ops, NEW c \in Possible(op)
    PROVE  c \in Call /\ Asked(c) /\ c.op = op
<1> DEFINE keys == IF op \in Verify \cup {"send_otp"} THEN Sessions \cup Challenges
                   ELSE IF op = "sign_in" THEN {} ELSE Sessions
           codes(k) == CASE op = "verify_totp" -> Known("secret")
                         [] op = "verify_backup" -> Known("code")
                         [] op = "verify_otp" ->
                                {None} \cup {i \in Known("otp") : about[i] = k}
                         [] OTHER -> {None}
           cookies == IF op \in {"sign_in", "disable"}
                      THEN {None} \cup (Known("trust") \cap live) ELSE {None}
           ks == (keys \cap handed) \cup (IF op = "sign_in" THEN {None} ELSE {})
           rem(k) == IF op \in Verify /\ k \in Challenges THEN BOOLEAN ELSE {FALSE}
<1>1. \E k \in ks : c \in [op : {op}, key : {k}, code : codes(k), cookie : cookies,
                            remember : rem(k)]
  BY DEF Possible
<1>2. live \subseteq Id /\ handed \subseteq Id /\ op \in AllOps
  BY TwoFactorAssumption DEF Typed, TypeOK
<1>3. \A k \in ks : /\ k \in Id \cup {None}
                    /\ op # "sign_in" => k \in Id /\ kind[k] \in {"session", "challenge"}
                    /\ op = "sign_in" => k = None
  BY <1>2 DEF Sessions, Challenges, Verify
<1>4. \A k : \A i \in codes(k) : /\ i \in Id \cup {None}
                                 /\ op = "verify_backup" => i \in Id /\ kind[i] = "code"
  <2>1. \A i \in Known("secret") \cup Known("code") \cup Known("otp") : i \in Id
    BY <1>2 DEF Known
  <2>2. \A i \in Known("code") : kind[i] = "code"
    BY DEF Known
  <2>3. \A k : codes(k) \subseteq Known("secret") \cup Known("code") \cup Known("otp") \cup {None}
    OBVIOUS
  <2>4. op = "verify_backup" => \A k : codes(k) = Known("code")
    OBVIOUS
  <2> HIDE DEF codes
  <2> QED BY <2>1, <2>2, <2>3, <2>4
<1>5. \A i \in cookies : i \in Id \cup {None} /\ (i # None => kind[i] = "trust")
  BY <1>2 DEF Known
<1>6. \A k : rem(k) \subseteq BOOLEAN
  OBVIOUS
<1>7. None \notin Id
  BY Constant DEF Constants
<1> HIDE DEF codes, cookies, ks, rem
<1>8. PICK k \in ks : c \in [op : {op}, key : {k}, code : codes(k), cookie : cookies,
                              remember : rem(k)]
  BY <1>1
<1>9. /\ c.op = op /\ c.key = k /\ c.code \in codes(k) /\ c.cookie \in cookies
      /\ c.remember \in BOOLEAN
      /\ c = [op |-> c.op, key |-> c.key, code |-> c.code, cookie |-> c.cookie,
              remember |-> c.remember]
  BY <1>6, <1>8
<1>10. c \in Call
  BY <1>2, <1>3, <1>4, <1>5, <1>9 DEF Call
<1> QED BY <1>3, <1>4, <1>5, <1>7, <1>9, <1>10 DEF Asked

LEMMA TypedArrives ==
    ASSUME Typed, NEW p \in Requests, Arrive(p)
    PROVE  Typed'
<1>a. PICK op \in Ops : \E c \in Possible(op) :
         /\ call' = [call EXCEPT ![p] = c]
         /\ pc' = [pc EXCEPT ![p] = IF op = "sign_in" THEN "load" ELSE "resolve"]
         /\ contested' = contested \cup
               UNION {Places(c) \cap Places(call[q]) : q \in {x \in Requests : pc[x] # "idle"}}
  BY DEF Arrive
<1>1. PICK c \in Possible(op) :
         /\ call' = [call EXCEPT ![p] = c]
         /\ pc' = [pc EXCEPT ![p] = IF op = "sign_in" THEN "load" ELSE "resolve"]
         /\ contested' = contested \cup
               UNION {Places(c) \cap Places(call[q]) : q \in {x \in Requests : pc[x] # "idle"}}
  BY <1>a
<1>2. c \in Call /\ Asked(c) /\ c.op = op
  BY Asking
<1>3. /\ pc[p] = "idle" /\ calls < MaxCalls /\ calls' = calls + 1
      /\ UNCHANGED <<store, local, history, answers>>
  BY DEF Arrive
<1>4. Places(c) \subseteq Id \cup {None}
  BY <1>2 DEF Places, Call
<1>5. contested' \subseteq Id \cup {None}
  BY <1>1, <1>4 DEF Typed, TypeOK
<1>6. calls' \in 0 .. MaxCalls
  BY <1>3, TwoFactorAssumption DEF Typed, TypeOK
<1>7. /\ pc' \in [Requests -> Statements \cup {"idle"}] /\ call' \in [Requests -> Call]
      /\ pc'[p] = (IF op = "sign_in" THEN "load" ELSE "resolve") /\ call'[p] = c
      /\ \A q \in Requests \ {p} : pc'[q] = pc[q] /\ call'[q] = call[q]
  BY <1>1, <1>2 DEF Typed, TypeOK, Statements
<1>8. Fits(pc'[p], c, local[p]) /\ local[p] = Blank
  BY <1>2, <1>3, <1>7 DEF Fits, SignIn, Typed
<1>9. TypeOK'
  BY <1>3, <1>5, <1>6, <1>7 DEF Typed, TypeOK, store, history
<1>10. Ids'
  BY <1>3 DEF Typed, Ids, store
<1>11. ASSUME NEW q \in Requests
       PROVE  /\ Asked(call[q])' /\ Fits(pc[q], call[q], local[q])'
              /\ pc'[q] \in {"idle", "load", "resolve"} => local'[q] = Blank
  <2>1. local' = local /\ kind' = kind /\ about' = about
    BY <1>3 DEF store
  <2>2. CASE q = p
    BY <1>2, <1>7, <1>8, <2>1, <2>2 DEF Asked, Fits
  <2>3. CASE q # p
    BY <1>7, <2>1, <2>3 DEF Asked, Fits, Typed
  <2> QED BY <2>2, <2>3
<1> QED BY <1>9, <1>10, <1>11 DEF Typed

LEMMA TypedStays ==
    ASSUME Typed, [Next]_vars
    PROVE  Typed'
<1>1. CASE UNCHANGED vars
  BY <1>1 DEF Typed, TypeOK, Ids, Asked, Fits, vars, store, history
<1>2. ASSUME NEW p \in Requests, Arrive(p) PROVE Typed'
  BY <1>2, TypedArrives
<1>3. ASSUME NEW p \in Requests,
             \/ Step(p) /\ UNCHANGED <<calls, answers, contested>>
             \/ (Judge(p) \/ Recount(p)) /\ UNCHANGED <<calls, contested>>
             \/ StatementFails(p) /\ UNCHANGED <<calls, contested>>
      PROVE  Typed'
  <2>1. TablesTyped' /\ Settled
    BY <1>3, Tables
  <2>2. Moves(p)
    BY <1>3, StepMoves
  <2>3. UNCHANGED <<calls, contested>>
    BY <1>3
  <2>4. answers' \in [Id -> Nat]
    <3>0. answers \in [Id -> Nat]
      BY DEF Typed, TypeOK
    <3>1. UNCHANGED answers \/ \E i : Judged(i)
      BY <1>3 DEF Judge, Recount, StatementFails
    <3>2. CASE UNCHANGED answers
      BY <3>0, <3>2
    <3>3. CASE \E i : Judged(i)
      <4>1. PICK i : answers' = [answers EXCEPT ![i] = @ + 1]
        BY <3>3 DEF Judged
      <4>2. ASSUME NEW j \in Id PROVE answers'[j] \in Nat
        BY <3>0, <4>1
      <4>3. answers' = [j \in Id |-> answers'[j]]
        BY <3>0, <4>1
      <4> QED BY <4>2, <4>3
    <3> QED BY <3>1, <3>2, <3>3
  <2>5. TypeOK'
    BY <2>1, <2>2, <2>3, <2>4, OnwardTyped DEF TypeOK, Typed, TablesTyped
  <2> QED BY <2>1, <2>2, <2>5, OnwardTyped DEF Typed, TablesTyped
<1> QED BY <1>1, <1>2, <1>3 DEF Next

LEMMA InitTyped == Init => Typed
<1> SUFFICES ASSUME Init PROVE Typed
  OBVIOUS
<1>0. /\ BackupCodes \in Nat /\ BackupCodes >= 1 /\ MaxIds \in Nat /\ BackupCodes + 2 <= MaxIds
      /\ MaxCalls \in Nat /\ Id = 1 .. MaxIds /\ None = 0
  BY TwoFactorAssumption DEF Id, None
<1>1. PICK enrolled \in BOOLEAN :
        LET first == IF enrolled THEN 2 .. BackupCodes + 2 ELSE {} IN
        /\ enabled = enrolled
        /\ record = IF enrolled THEN [secret |-> 2, codes |-> first \ {2}]
                                ELSE NoRecord
        /\ kind = [i \in Id |-> IF i = 1 THEN "session"
                                ELSE IF i \notin first THEN "unused"
                                ELSE IF i = 2 THEN "secret" ELSE "code"]
        /\ fresh = Cardinality(first) + 2
        /\ handed = {1} \cup first
        /\ latest = [i \in Id \cup {None} |->
                        IF i = None /\ enrolled THEN 3 ELSE None]
  BY DEF Init
<1>2. /\ about = [i \in Id |-> None] /\ live = {1} /\ otps = {}
      /\ pc = [p \in Requests |-> "idle"] /\ call = [p \in Requests |-> NoCall]
      /\ local = [p \in Requests |-> Blank] /\ calls = 0
      /\ honoured = [i \in Id |-> 0] /\ answers = [i \in Id |-> 0]
      /\ outdated = {} /\ contested = {}
  BY DEF Init
<1> DEFINE first == IF enrolled THEN 2 .. BackupCodes + 2 ELSE {}
<1>3. Cardinality(first) = IF enrolled THEN BackupCodes + 1 ELSE 0
  <2>1. Cardinality({}) = 0
    BY FS_EmptySet
  <2>2. Cardinality(2 .. BackupCodes + 2) = BackupCodes + 1
    BY <1>0, FS_Interval
  <2> QED BY <2>1, <2>2
<1>4. fresh = IF enrolled THEN BackupCodes + 3 ELSE 2
  BY <1>0, <1>1, <1>3
<1>5. first \subseteq Id /\ \A i \in Id : i \in first <=> i >= 2 /\ i < fresh
  BY <1>0, <1>4
<1> HIDE DEF first
<1>6. /\ record = IF enrolled THEN [secret |-> 2, codes |-> first \ {2}] ELSE NoRecord
      /\ kind = [i \in Id |-> IF i = 1 THEN "session"
                              ELSE IF i \notin first THEN "unused"
                              ELSE IF i = 2 THEN "secret" ELSE "code"]
      /\ handed = {1} \cup first
  BY <1>1 DEF first
<1>7. TablesTyped
  <2>1. fresh \in 1 .. MaxIds + 1 /\ 1 \in Id /\ 2 \in Id
    BY <1>0, <1>4
  <2>2. kind \in [Id -> Kinds] /\ record \in [secret : Id \cup {None}, codes : SUBSET Id]
    BY <1>5, <1>6, <2>1 DEF Kinds, NoRecord
  <2>3. Ids
    <3>1. ASSUME NEW i \in Id PROVE kind[i] = "unused" <=> i >= fresh
      <4>1. i = 1 \/ i >= 2
        BY <1>0
      <4> QED BY <1>0, <1>4, <1>5, <1>6, <4>1
    <3>2. \A c \in record.codes : kind[c] = "code"
      BY <1>5, <1>6, <2>1 DEF NoRecord
    <3> QED BY <1>2, <3>1, <3>2 DEF Ids
  <2> QED BY <1>1, <1>2, <2>1, <2>2, <2>3 DEF TablesTyped
<1>8. TypeOK
  <2>1. 3 \in Id
    BY <1>0
  <2>2. latest \in [Id \cup {None} -> Id \cup {None}]
    BY <1>1, <2>1
  <2>3. handed \subseteq Id
    BY <1>0, <1>5, <1>6
  <2> QED BY <1>0, <1>2, <1>7, <2>2, <2>3, Constant DEF TypeOK, TablesTyped
<1>9. Asked(NoCall) /\ Fits("idle", NoCall, Blank)
  BY DEF Asked, Fits, NoCall, SignIn, None
<1> QED BY <1>2, <1>7, <1>8, <1>9 DEF Typed, TablesTyped

\* Whatever requests the browsers of a user send, rows, codes and counters keep
\* their types: an attempt is never counted past the limit.
THEOREM TypeCorrect == Spec => []TypeOK
<1>1. Typed => TypeOK
  BY DEF Typed
<1> QED BY <1>1, InitTyped, TypedStays, PTL DEF Spec

-----------------------------------------------------------------------------
(* What two requests at work on the same thing have in common is contested. *)

Busy(p) == pc[p] # "idle"

Overlap ==
    \A p, q \in Requests :
        p # q /\ Busy(p) /\ Busy(q) => Places(call[p]) \cap Places(call[q]) \subseteq contested

\* Under a key nobody contests there is one row at most; the request that is to
\* delete it still finds it, and the one that is to store one finds none.
OneRow == \A r, s \in otps : r.key = s.key => r = s \/ r.key \in contested

AtRow(p) ==
    call[p].key \notin contested =>
        /\ pc[p] \in {"clear_otp", "judge"} => local[p].otp \in otps
        /\ pc[p] \in {"create_otp", "recount"} => RowsOf(call[p].key) = {}

\* The codes a request writes back are among those of the row.
AtCodes(p) ==
    pc[p] = "write_codes" /\ None \notin contested =>
        local[p].codes = record.codes \ {call[p].code}

Rows == Typed /\ Overlap /\ OneRow /\ \A p \in Requests : AtRow(p) /\ AtCodes(p)

\* What a step leaves of the requests: the others as they were, its own further on
\* or answered.
LEMMA Apart ==
    ASSUME Typed, NEW p \in Requests, Moves(p)
    PROVE  /\ \A q \in Requests \ {p} :
                 pc'[q] = pc[q] /\ call'[q] = call[q] /\ local'[q] = local[q]
           /\ \/ pc'[p] = "idle" /\ call'[p] = NoCall /\ local'[p] = Blank
              \/ pc'[p] # "idle" /\ call'[p] = call[p]
<1>0. /\ pc \in [Requests -> Statements \cup {"idle"}] /\ call \in [Requests -> Call]
      /\ local \in [Requests -> Local]
  BY DEF Typed, TypeOK
<1>1. CASE \E label \in Statements, l \in Local : Goto(p, label, l)
  BY <1>0, <1>1 DEF Goto, Statements
<1>2. CASE Refuse(p) \/ \E l : Answer(p, l)
  BY <1>0, <1>2 DEF Refuse, Answer, Drop
<1> QED BY <1>1, <1>2 DEF Moves

Acts(p) == Step(p) \/ Judge(p) \/ Recount(p) \/ StatementFails(p)

LEMMA ActsBusy ==
    ASSUME NEW p, Acts(p)
    PROVE  Busy(p)
BY DEF Acts, Step, Busy, Load, Inspect, Rotate, Renew, Challenge, Issue, Resolve, FindOtp,
       ClearOtp, CreateOtp, ReadOtp, Judge, Recount, ReadSecret, ReadCodes, WriteCodes,
       Consume, Trust, Promote, Retire, DropRecord, CreateRecord, Demote, Forget,
       CheckRecord, ReplaceCodes, StatementFails

LEMMA OverlapStays ==
    ASSUME Typed, Overlap, [Next]_vars
    PROVE  Overlap' /\ contested \subseteq contested'
<1>0. Places(NoCall) = {}
  BY DEF Places, NoCall
<1>1. CASE UNCHANGED vars
  BY <1>1 DEF vars, Overlap, Busy
<1>2. ASSUME NEW p \in Requests, Arrive(p) PROVE Overlap' /\ contested \subseteq contested'
  <2>1. PICK op \in Ops : \E c \in Possible(op) :
           /\ call' = [call EXCEPT ![p] = c]
           /\ pc' = [pc EXCEPT ![p] = IF op = "sign_in" THEN "load" ELSE "resolve"]
           /\ contested' = contested \cup
                 UNION {Places(c) \cap Places(call[q]) : q \in {x \in Requests : pc[x] # "idle"}}
    BY <1>2 DEF Arrive
  <2>2. PICK c \in Possible(op) :
           /\ call' = [call EXCEPT ![p] = c]
           /\ pc' = [pc EXCEPT ![p] = IF op = "sign_in" THEN "load" ELSE "resolve"]
           /\ contested' = contested \cup
                 UNION {Places(c) \cap Places(call[q]) : q \in {x \in Requests : pc[x] # "idle"}}
    BY <2>1
  <2>3. ASSUME NEW q \in Requests \ {p}, Busy(q)
        PROVE  Places(c) \cap Places(call[q]) \subseteq contested'
    BY <2>2, <2>3 DEF Busy
  <2>4. /\ call'[p] = c
        /\ \A q \in Requests \ {p} : call'[q] = call[q] /\ pc'[q] = pc[q]
    BY <2>2 DEF Typed, TypeOK
  <2>5. contested \subseteq contested'
    BY <2>2
  <2>6. ASSUME NEW q \in Requests, NEW r \in Requests, q # r, Busy(q)', Busy(r)'
        PROVE  (Places(call[q]) \cap Places(call[r]) \subseteq contested)'
    <3>1. CASE q # p /\ r # p
      BY <2>4, <2>5, <2>6, <3>1 DEF Overlap, Busy, Places
    <3>2. CASE q = p
      BY <2>3, <2>4, <2>6, <3>2 DEF Busy, Places
    <3>3. CASE r = p
      BY <2>3, <2>4, <2>6, <3>3 DEF Busy, Places
    <3> QED BY <3>1, <3>2, <3>3
  <2> QED BY <2>5, <2>6 DEF Overlap
<1>3. ASSUME NEW p \in Requests, Acts(p), UNCHANGED contested
      PROVE  Overlap' /\ contested \subseteq contested'
  <2>1. Moves(p) /\ Busy(p)
    BY <1>3, StepMoves, ActsBusy DEF Acts
  <2>2. \A q \in Requests : Busy(q)' => Busy(q) /\ call'[q] = call[q]
    BY <2>1, Apart DEF Busy
  <2> QED BY <1>3, <2>2 DEF Overlap, Places
<1> QED BY <1>1, <1>2, <1>3 DEF Next, Acts

\* Two requests under way that share a place contest it.
LEMMA Meeting ==
    ASSUME Typed, Overlap, NEW p \in Requests, NEW q \in Requests, p # q, Busy(p), Busy(q),
           NEW x \in Places(call[p])
    PROVE  x \in Places(call[q]) => x \in contested
BY DEF Overlap

\* Beyond the handlers of an OTP, nobody touches the rows.
LEMMA NoRowTouched ==
    ASSUME Typed, NEW p \in Requests, Acts(p),
           ~ (FindOtp(p) \/ ClearOtp(p) \/ CreateOtp(p) \/ ReadOtp(p) \/ Judge(p) \/ Recount(p))
    PROVE  /\ UNCHANGED otps
           /\ pc'[p] \notin {"clear_otp", "judge", "create_otp", "recount"}
<1>0. pc \in [Requests -> Statements \cup {"idle"}] /\ call[p] \in Call
  BY DEF Typed, TypeOK
<1> USE DEF Goto, Refuse, Drop, Answer, Accepted
<1>1. CASE Load(p) \/ Inspect(p) \/ Rotate(p) \/ Renew(p) \/ Challenge(p) \/ Issue(p)
  BY <1>0, <1>1 DEF Load, Inspect, Rotate, Renew, Challenge, Issue, store
<1>2. CASE Resolve(p)
  BY <1>0, <1>2 DEF Resolve, Start, store, Call, AllOps, Verify
<1>3. CASE ReadSecret(p) \/ ReadCodes(p) \/ WriteCodes(p) \/ Consume(p) \/ Trust(p)
             \/ Promote(p) \/ Retire(p)
  BY <1>0, <1>3 DEF ReadSecret, ReadCodes, WriteCodes, Consume, Trust, Promote, Retire, store
<1>4. CASE DropRecord(p) \/ CreateRecord(p) \/ Demote(p) \/ Forget(p) \/ CheckRecord(p)
             \/ ReplaceCodes(p) \/ StatementFails(p)
  BY <1>0, <1>4 DEF DropRecord, CreateRecord, Demote, Forget, CheckRecord, ReplaceCodes,
                    StatementFails, store
<1> QED BY <1>1, <1>2, <1>3, <1>4 DEF Acts, Step

\* A step changes rows only under the key of its request, and leaves at most one
\* there; what it goes on with is what it has left.
LEMMA RowsTouched ==
    ASSUME Rows, NEW p \in Requests, Acts(p), UNCHANGED contested
    PROVE  /\ \A r : r.key # call[p].key => (r \in otps' <=> r \in otps)
           /\ OneRow' /\ AtRow(p)'
<1>0. /\ Typed /\ OneRow /\ AtRow(p) /\ Fits(pc[p], call[p], local[p])
      /\ pc \in [Requests -> Statements \cup {"idle"}] /\ local \in [Requests -> Local]
      /\ call \in [Requests -> Call] /\ otps \subseteq OtpRow
  BY DEF Rows, Typed, TypeOK
<1>1. CASE ~ (FindOtp(p) \/ ClearOtp(p) \/ CreateOtp(p) \/ ReadOtp(p) \/ Judge(p) \/ Recount(p))
  <2>1. UNCHANGED otps /\ pc'[p] \notin {"clear_otp", "judge", "create_otp", "recount"}
    BY <1>0, <1>1, NoRowTouched
  <2> QED BY <1>0, <2>1 DEF OneRow, AtRow
<1>2. CASE FindOtp(p)
  <2>1. /\ UNCHANGED <<otps, call>>
        /\ \/ RowsOf(call[p].key) = {} /\ pc'[p] = "create_otp"
           \/ pc'[p] = "clear_otp" /\ local'[p].otp \in RowsOf(call[p].key)
    BY <1>0, <1>2 DEF FindOtp, Goto, store, Local
  <2> QED BY <1>0, <2>1 DEF OneRow, AtRow, RowsOf
<1>3. CASE ReadOtp(p)
  <2>1. /\ UNCHANGED otps
        /\ \/ pc'[p] = "idle"
           \/ pc'[p] = "judge" /\ UNCHANGED call /\ local'[p].otp \in RowsOf(call[p].key)
    BY <1>0, <1>3 DEF ReadOtp, Goto, Refuse, Drop, store, Local
  <2> QED BY <1>0, <2>1 DEF OneRow, AtRow, RowsOf
<1>4. CASE ClearOtp(p)
  <2>1. /\ otps' = otps \ {local[p].otp} /\ UNCHANGED call /\ pc'[p] = "create_otp"
    BY <1>0, <1>4 DEF ClearOtp, RowCleared, Goto
  <2>2. /\ local[p].otp.key = call[p].key
        /\ call[p].key \notin contested => local[p].otp \in otps
    BY <1>0, <1>4 DEF ClearOtp, Fits, AtRow
  <2>3. call[p].key \notin contested => \A r \in otps' : r.key # call[p].key
    BY <1>0, <2>1, <2>2 DEF OneRow
  <2> QED BY <1>0, <2>1, <2>2, <2>3 DEF OneRow, AtRow, RowsOf
<1>5. CASE CreateOtp(p)
  <2> DEFINE n == [id |-> fresh, key |-> call[p].key, issue |-> fresh, tries |-> 0]
  <2>1. /\ otps' = otps \cup {n} /\ n.key = call[p].key /\ pc'[p] = "idle"
    BY <1>0, <1>5 DEF CreateOtp, Answer, Drop
  <2>2. call[p].key \notin contested => \A r \in otps : r.key # call[p].key
    BY <1>0, <1>5 DEF CreateOtp, AtRow, RowsOf
  <2> HIDE DEF n
  <2> QED BY <1>0, <2>1, <2>2 DEF OneRow, AtRow
<1>6. CASE Judge(p)
  <2>1. /\ otps' = otps \ {local[p].otp}
        /\ \/ pc'[p] = "recount" /\ UNCHANGED call
           \/ pc'[p] \notin {"clear_otp", "judge", "create_otp", "recount"}
    BY <1>0, <1>6 DEF Judge, Spent, RowCleared, Goto, Refuse, Drop, Accepted, Answer
  <2>2. /\ local[p].otp.key = call[p].key
        /\ call[p].key \notin contested => local[p].otp \in otps
    BY <1>0, <1>6 DEF Judge, Fits, AtRow
  <2>3. call[p].key \notin contested => \A r \in otps' : r.key # call[p].key
    BY <1>0, <2>1, <2>2 DEF OneRow
  <2> QED BY <1>0, <2>1, <2>2, <2>3 DEF OneRow, AtRow, RowsOf
<1>7. CASE Recount(p)
  <2> DEFINE n == [Counted(local[p].otp) EXCEPT !.id = fresh]
  <2>1. otps' = otps \cup {n} /\ pc'[p] = "idle"
    BY <1>0, <1>7 DEF Recount, Refuse, Drop
  <2>2. n.key = call[p].key
    BY <1>0, <1>7 DEF Recount, Fits, Counted, OtpRow
  <2>3. call[p].key \notin contested => \A r \in otps : r.key # call[p].key
    BY <1>0, <1>7 DEF Recount, AtRow, RowsOf
  <2> HIDE DEF n
  <2> QED BY <1>0, <2>1, <2>2, <2>3 DEF OneRow, AtRow
<1> QED BY <1>1, <1>2, <1>3, <1>4, <1>5, <1>6, <1>7

\* The user's row is written only on behalf of requests that have it in hand.
LEMMA CodesTouched ==
    ASSUME Rows, NEW p \in Requests, Acts(p), UNCHANGED contested
    PROVE  /\ UNCHANGED record \/ None \in Places(call[p])
           /\ AtCodes(p)'
<1>0. /\ Typed /\ Fits(pc[p], call[p], local[p])
      /\ pc \in [Requests -> Statements \cup {"idle"}] /\ local \in [Requests -> Local]
      /\ call \in [Requests -> Call]
  BY DEF Rows, Typed, TypeOK
<1>1. CASE ReadCodes(p)
  <2>1. /\ UNCHANGED record
        /\ \/ pc'[p] = "idle"
           \/ UNCHANGED call /\ local'[p].codes = record.codes \ {call[p].code}
    BY <1>0, <1>1 DEF ReadCodes, Goto, Refuse, Drop, store, Local, WithoutCode
  <2> QED BY <2>1 DEF AtCodes
<1>2. CASE WriteCodes(p) \/ DropRecord(p) \/ CreateRecord(p) \/ ReplaceCodes(p)
  <2>1. call[p].op \in {"verify_backup", "enable", "disable", "generate"}
    BY <1>0, <1>2 DEF Fits, WriteCodes, DropRecord, CreateRecord, ReplaceCodes
  <2>2. pc'[p] # "write_codes"
    BY <1>0, <1>2 DEF WriteCodes, DropRecord, CreateRecord, ReplaceCodes, Goto, Refuse, Drop,
                      Accepted, Answer
  <2> QED BY <2>1, <2>2 DEF Places, AtCodes
<1>3. CASE ~ (ReadCodes(p) \/ WriteCodes(p) \/ DropRecord(p) \/ CreateRecord(p)
                \/ ReplaceCodes(p))
  <2> USE DEF Goto, Refuse, Drop, Answer, Accepted, store
  <2>1. CASE Load(p) \/ Inspect(p) \/ Rotate(p) \/ Renew(p) \/ Challenge(p) \/ Issue(p)
               \/ Resolve(p)
    <3>1. call[p].op \in AllOps
      BY <1>0 DEF Call
    <3> QED BY <1>0, <2>1, <3>1 DEF Load, Inspect, Rotate, Renew, Challenge, Issue, Resolve,
                    Start, AtCodes, AllOps, Verify
  <2>2. CASE FindOtp(p) \/ ClearOtp(p) \/ CreateOtp(p) \/ ReadOtp(p) \/ Judge(p)
               \/ Recount(p) \/ ReadSecret(p)
    BY <1>0, <2>2 DEF FindOtp, ClearOtp, CreateOtp, ReadOtp, Judge, Recount, ReadSecret, AtCodes
  <2>3. CASE Consume(p) \/ Trust(p) \/ Promote(p) \/ Retire(p) \/ Demote(p) \/ Forget(p)
               \/ CheckRecord(p) \/ StatementFails(p)
    BY <1>0, <2>3 DEF Consume, Trust, Promote, Retire, Demote, Forget, CheckRecord,
                      StatementFails, AtCodes
  <2> QED BY <1>3, <2>1, <2>2, <2>3 DEF Acts, Step
<1> QED BY <1>1, <1>2, <1>3

LEMMA RowsStay ==
    ASSUME Rows, [Next]_vars
    PROVE  Rows'
<1>1. Typed' /\ Overlap' /\ contested \subseteq contested'
  BY TypedStays, OverlapStays DEF Rows
<1>2. CASE UNCHANGED vars
  BY <1>1, <1>2 DEF Rows, OneRow, AtRow, AtCodes, RowsOf, vars, store
<1>3. ASSUME NEW p \in Requests, Arrive(p) PROVE Rows'
  <2>1. /\ UNCHANGED <<otps, record, local>>
        /\ \A q \in Requests : \/ pc'[q] = pc[q] /\ call'[q] = call[q]
                               \/ pc'[q] \in {"load", "resolve"}
    BY <1>3 DEF Arrive, store, Rows, Typed, TypeOK
  <2> QED BY <1>1, <2>1 DEF Rows, OneRow, AtRow, AtCodes, RowsOf
<1>4. ASSUME NEW p \in Requests, Acts(p), UNCHANGED contested PROVE Rows'
  <2>1. Typed /\ Overlap /\ Moves(p) /\ Busy(p)
    BY <1>4, StepMoves, ActsBusy DEF Rows, Acts
  <2>2. /\ \A r : r.key # call[p].key => (r \in otps' <=> r \in otps)
        /\ OneRow' /\ AtRow(p)' /\ AtCodes(p)'
        /\ UNCHANGED record \/ None \in Places(call[p])
    BY <1>4, RowsTouched, CodesTouched
  <2>3. ASSUME NEW q \in Requests, q # p PROVE AtRow(q)' /\ AtCodes(q)'
    <3>1. pc'[q] = pc[q] /\ call'[q] = call[q] /\ local'[q] = local[q]
      BY <2>1, <2>3, Apart
    <3>2. AtRow(q) /\ AtCodes(q) /\ Fits(pc[q], call[q], local[q]) /\ Asked(call[q])
      BY DEF Rows, Typed
    <3>3. Busy(q) => /\ call[q].key # None /\ call[q].key = call[p].key => call[q].key \in contested
                     /\ None \in Places(call[q]) /\ None \in Places(call[p]) => None \in contested
      <4>1. \A c : c.key # None => c.key \in Places(c)
        BY DEF Places
      <4> QED BY <2>1, <2>3, <4>1, Meeting
    <3>4. AtRow(q)'
      <4>1. SUFFICES ASSUME call[q].key \notin contested,
                            pc[q] \in {"clear_otp", "judge", "create_otp", "recount"}
                     PROVE  AtRow(q)'
        BY <3>1, <1>4 DEF AtRow
      <4>2. call[q].key # call[p].key
        BY <3>2, <3>3, <4>1 DEF Busy, Fits, SignIn, Asked
      <4>3. pc[q] \in {"clear_otp", "judge"} => local[q].otp.key = call[q].key
        BY <3>2 DEF Fits
      <4> QED BY <2>2, <3>1, <3>2, <4>1, <4>2, <4>3 DEF AtRow, RowsOf
    <3>5. AtCodes(q)'
      <4>1. SUFFICES ASSUME pc[q] = "write_codes", None \notin contested PROVE AtCodes(q)'
        BY <3>1, <1>4 DEF AtCodes
      <4>2. None \in Places(call[q])
        BY <3>2, <4>1 DEF Fits, Places
      <4>3. UNCHANGED record
        BY <2>2, <3>3, <4>1, <4>2 DEF Busy
      <4> QED BY <3>1, <3>2, <4>1, <4>3 DEF AtCodes
    <3> QED BY <3>4, <3>5
  <2> QED BY <1>1, <2>2, <2>3 DEF Rows
<1> QED BY <1>2, <1>3, <1>4 DEF Next, Acts

-----------------------------------------------------------------------------
(* What has been accepted is gone.                                         *)

Gone(i) ==
    CASE kind[i] = "otp" -> \A r \in otps : r.issue # i
      [] kind[i] = "code" -> i \notin record.codes
      [] OTHER -> i \notin live

\* What a request may still have accepted, as it is at a statement.
Offered(label, c, l) ==
    (IF label = "rotate" THEN {c.cookie} ELSE {})
      \cup (IF label \in {"judge", "recount"} THEN {l.otp.issue} ELSE {})
      \cup (IF label = "write_codes" THEN {c.code} ELSE {})
      \cup (IF label \notin SignIn \cup {"idle", "resolve"} /\ c.op # "sign_in"
               /\ ~ l.signedIn
            THEN {c.key} ELSE {})

InHand(p) == Offered(pc[p], call[p], local[p]) \cup local[p].spent

Unspent(p) ==
    /\ \A i \in InHand(p) :
          /\ i \in Id /\ kind[i] # "unused" /\ Place(i) \in Places(call[p])
          /\ honoured[i] = 0 \/ Place(i) \in contested
    /\ \A i \in local[p].spent : Gone(i) \/ Place(i) \in contested

Accounted ==
    \A i \in Id : honoured[i] > 0 =>
        /\ kind[i] # "unused"
        /\ Place(i) \in contested \/ (honoured[i] = 1 /\ Gone(i))

AcceptInv == Rows /\ Accounted /\ \A p \in Requests : Busy(p) => Unspent(p)

\* What a step adds to the tables: things of its own, the row it has in hand, and
\* codes that it writes back to a row somebody else is at work on.
LEMMA Additions ==
    ASSUME AcceptInv, NEW p \in Requests, Acts(p)
    PROVE  /\ live' \subseteq live \cup {fresh}
           /\ \A r \in otps' : \/ r \in otps \/ r.issue = fresh
                               \/ pc[p] = "recount" /\ r.issue = local[p].otp.issue
           /\ \A c \in record'.codes : \/ c \in record.codes \/ c >= fresh
                                       \/ None \in contested
<1>0. /\ Rows /\ Typed /\ AtCodes(p) /\ record \in [secret : Id \cup {None}, codes : SUBSET Id]
      /\ Fits(pc[p], call[p], local[p])
  BY DEF AcceptInv, Rows, Typed, TypeOK
<1>1. live' \subseteq live \cup {fresh}
  BY DEF Acts, Step, Load, Inspect, Rotate, Renew, Challenge, Issue, Resolve, FindOtp,
         ClearOtp, CreateOtp, ReadOtp, Judge, Recount, ReadSecret, ReadCodes, WriteCodes,
         Consume, Trust, Promote, Retire, DropRecord, CreateRecord, Demote, Forget,
         CheckRecord, ReplaceCodes, StatementFails, store, WithoutChallenge
<1>2. ASSUME NEW r \in otps'
      PROVE  \/ r \in otps \/ r.issue = fresh
             \/ pc[p] = "recount" /\ r.issue = local[p].otp.issue
  <2>1. CASE ~ (FindOtp(p) \/ ClearOtp(p) \/ CreateOtp(p) \/ ReadOtp(p) \/ Judge(p) \/ Recount(p))
    BY <1>0, <1>2, <2>1, NoRowTouched
  <2>2. CASE FindOtp(p) \/ ClearOtp(p) \/ ReadOtp(p) \/ Judge(p)
    BY <1>2, <2>2 DEF FindOtp, ClearOtp, ReadOtp, Judge, Spent, RowCleared, store
  <2>3. CASE CreateOtp(p)
    BY <1>2, <2>3 DEF CreateOtp
  <2>4. CASE Recount(p)
    BY <1>0, <1>2, <2>4 DEF Recount, Counted, Fits, OtpRow
  <2> QED BY <2>1, <2>2, <2>3, <2>4
<1>3. ASSUME NEW c \in record'.codes
      PROVE  c \in record.codes \/ c >= fresh \/ None \in contested
  <2>1. CASE WriteCodes(p)
    BY <1>0, <1>3, <2>1 DEF WriteCodes, AtCodes
  <2>2. CASE DropRecord(p)
    BY <1>3, <2>2 DEF DropRecord, NoRecord
  <2>3. CASE CreateRecord(p) \/ ReplaceCodes(p)
    BY <1>0, <1>3, <2>3, CodesStored
  <2>4. CASE ~ (WriteCodes(p) \/ DropRecord(p) \/ CreateRecord(p) \/ ReplaceCodes(p))
    <3>1. UNCHANGED record
      BY <2>4
      DEF Acts, Step, Load, Inspect, Rotate, Renew, Challenge, Issue, Resolve, FindOtp,
          ClearOtp, CreateOtp, ReadOtp, Judge, Recount, ReadSecret, ReadCodes,
          Consume, Trust, Promote, Retire, Demote, Forget, CheckRecord, StatementFails, store
    <3> QED BY <1>3, <3>1
  <2> QED BY <2>1, <2>2, <2>3, <2>4
<1> QED BY <1>1, <1>2, <1>3

\* What is gone and has been accepted, or is about to be, stays gone.
LEMMA GoneStays ==
    ASSUME AcceptInv, NEW p \in Requests, Acts(p), UNCHANGED contested,
           NEW i \in Id, kind[i] # "unused", Place(i) \notin contested, Gone(i),
           honoured[i] > 0 \/ \E q \in Requests : Busy(q) /\ i \in local[q].spent
    PROVE  Gone(i)'
<1>0. /\ Typed /\ Overlap /\ Settled /\ kind'[i] = kind[i]
      /\ fresh \in Nat /\ i \in Nat /\ i < fresh
      /\ Fits(pc[p], call[p], local[p]) /\ Busy(p) /\ Unspent(p)
      /\ \A j \in Id : honoured[j] \in Nat
      /\ local[p].spent \subseteq Id
  <2>1. Typed /\ Overlap
    BY DEF AcceptInv, Rows
  <2>2. Settled /\ Busy(p)
    BY <2>1, Tables, ActsBusy DEF Acts
  <2> QED BY <2>1, <2>2, Constant
          DEF AcceptInv, Settled, Typed, TypeOK, Ids, Constants, Local
<1>1. pc[p] = "recount" => local[p].otp.issue # i
  <2>1. SUFFICES ASSUME pc[p] = "recount", local[p].otp.issue = i PROVE FALSE
    OBVIOUS
  <2>2. i \in InHand(p) /\ local[p].spent = {}
    BY <1>0, <2>1 DEF InHand, Offered, Fits
  <2>3. Place(i) \in Places(call[p]) /\ honoured[i] = 0
    BY <1>0, <2>2 DEF Unspent
  <2>4. PICK q \in Requests : Busy(q) /\ i \in local[q].spent
    BY <2>3
  <2>5. q # p
    BY <2>2, <2>4
  <2>6. Place(i) \in Places(call[q])
    BY <2>4 DEF AcceptInv, Unspent, InHand
  <2> QED BY <1>0, <2>3, <2>4, <2>5, <2>6, Meeting
<1>2. /\ live' \subseteq live \cup {fresh}
      /\ \A r \in otps' : \/ r \in otps \/ r.issue = fresh
                          \/ pc[p] = "recount" /\ r.issue = local[p].otp.issue
      /\ \A c \in record'.codes : c \in record.codes \/ c >= fresh \/ None \in contested
  BY Additions
<1>3. CASE kind[i] = "otp"
  BY <1>0, <1>1, <1>2, <1>3 DEF Gone
<1>4. CASE kind[i] = "code"
  BY <1>0, <1>2, <1>4 DEF Gone, Place
<1>5. CASE kind[i] \notin {"otp", "code"}
  BY <1>0, <1>2, <1>5 DEF Gone
<1> QED BY <1>3, <1>4, <1>5

\* What is still in a table can be offered: it has not been accepted.
Offerable(p, i) ==
    i \in Id /\ kind[i] # "unused" /\ ~ Gone(i) /\ Place(i) \in Places(call[p])

\* What a request has in hand further on it had already, or has just found; and
\* what it has spent is gone.
Spends(p, l) ==
    \A i \in l.spent :
        i \in InHand(p) /\ (i \in local[p].spent \/ Gone(i)' \/ Place(i) \in contested)

Carries(p, label, l) ==
    /\ Spends(p, l)
    /\ \A i \in Offered(label, call[p], l) : i \in InHand(p) \/ Offerable(p, i)

Proceeds(p) ==
    \/ \E label \in Statements, l \in Local : Goto(p, label, l) /\ Carries(p, label, l)
    \/ \E l \in Local : Answer(p, l) /\ Spends(p, l)
    \/ Refuse(p)

LEMMA Carrying ==
    ASSUME Typed, NEW p \in Requests, pc[p] \notin {"idle", "resolve"}
    PROVE  /\ \A label \in Statements, l \in Local :
                 /\ Goto(p, label, l) /\ l.signedIn = local[p].signedIn
                 /\ label \notin {"rotate", "judge", "recount", "write_codes"}
                 /\ Spends(p, l) \/ l.spent = local[p].spent
                 => Proceeds(p)
           /\ \A l \in Local :
                 Answer(p, l) /\ (Spends(p, l) \/ l.spent = local[p].spent) => Proceeds(p)
           /\ \A l \in Local :
                 Accepted(p, l) /\ l.signedIn = local[p].signedIn
                   /\ (Spends(p, l) \/ l.spent = local[p].spent)
                 => Proceeds(p)
<1>1. \A l : l.spent = local[p].spent => Spends(p, l)
  BY DEF Spends, InHand
<1>2. ASSUME NEW label \in Statements, NEW l \in Local, Spends(p, l), Goto(p, label, l),
             l.signedIn = local[p].signedIn,
             label \notin {"rotate", "judge", "recount", "write_codes"}
      PROVE  Proceeds(p)
  <2>1. Fits(pc[p], call[p], local[p])
    BY DEF Typed
  <2>2. Offered(label, call[p], l) \subseteq Offered(pc[p], call[p], local[p])
    BY <1>2, <2>1 DEF Offered, Fits
  <2> QED BY <1>2, <2>2 DEF Proceeds, Carries, InHand
<1>3. ASSUME NEW l \in Local, Spends(p, l), Answer(p, l) PROVE Proceeds(p)
  BY <1>3 DEF Proceeds
<1>4. ASSUME NEW l \in Local, Spends(p, l), Accepted(p, l), l.signedIn = local[p].signedIn
      PROVE  Proceeds(p)
  BY <1>2, <1>3, <1>4 DEF Accepted, Statements
<1> QED BY <1>1, <1>2, <1>3, <1>4

LEMMA SignInProceeds ==
    ASSUME AcceptInv, NEW p \in Requests,
           Load(p) \/ Inspect(p) \/ Rotate(p) \/ Renew(p) \/ Challenge(p) \/ Issue(p)
    PROVE  Proceeds(p)
<1>0. /\ Typed /\ Fits(pc[p], call[p], local[p]) /\ local[p] \in Local /\ call[p] \in Call
      /\ pc[p] \in {"idle", "load", "resolve"} => local[p] = Blank
      /\ Asked(call[p]) /\ fresh \in Nat /\ None \notin Id /\ Blank \in Local
  BY Constant DEF AcceptInv, Rows, Typed, TypeOK, Constants
<1> USE DEF Statements
<1>1. CASE Load(p)
  <2>1. \E label \in {"issue", "inspect", "challenge"} : Goto(p, label, Blank)
    BY <1>1 DEF Load
  <2> QED BY <1>0, <1>1, <2>1, Carrying DEF Load
<1>2. CASE Inspect(p)
  <2>1. CASE call[p].cookie \notin live
    BY <1>0, <1>2, <2>1, Carrying DEF Inspect
  <2>2. CASE call[p].cookie \in live
    <3>1. call[p].op = "sign_in" /\ call[p].cookie \in Id /\ kind[call[p].cookie] = "trust"
      BY <1>0, <1>2 DEF Inspect, Fits, SignIn, Asked, Call
    <3>2. Offerable(p, call[p].cookie)
      BY <1>0, <2>2, <3>1 DEF Offerable, Gone, Place, Places
    <3>3. Offered("rotate", call[p], local[p]) = {call[p].cookie}
      BY <3>1 DEF Offered
    <3>4. Goto(p, "rotate", local[p])
      BY <1>2, <2>2 DEF Inspect
    <3> QED BY <1>0, <3>2, <3>3, <3>4 DEF Proceeds, Carries, Spends, InHand
  <2> QED BY <2>1, <2>2
<1>3. CASE Rotate(p)
  <2> DEFINE l == [local[p] EXCEPT !.spent = {call[p].cookie}]
  <2>1. call[p].op = "sign_in" /\ call[p].cookie \in Id /\ kind[call[p].cookie] = "trust"
    BY <1>0, <1>3 DEF Rotate, Fits, SignIn, Asked, Call
  <2>2. l \in Local /\ l.signedIn = local[p].signedIn /\ l.spent = {call[p].cookie}
    BY <1>0, <2>1 DEF Local
  <2>3. ASSUME NEW i, i = call[p].cookie PROVE i \in InHand(p) /\ Gone(i)'
    BY <1>0, <1>3, <2>1, <2>3 DEF Rotate, InHand, Offered, Gone
  <2> HIDE DEF l
  <2>4. Spends(p, l)
    BY <2>2, <2>3 DEF Spends
  <2>5. Goto(p, "renew", l)
    BY <1>3 DEF Rotate, l
  <2> QED BY <1>0, <1>3, <2>2, <2>4, <2>5, Carrying DEF Rotate
<1>4. CASE Renew(p) \/ Challenge(p)
  <2> DEFINE l == [local[p] EXCEPT !.got = {fresh}]
  <2>0. fresh \in Id
    BY <1>4, <1>0, TwoFactorAssumption DEF Renew, Challenge, Draw, Id, Typed, TypeOK
  <2>1. l \in Local /\ l.spent = local[p].spent /\ l.signedIn = local[p].signedIn
    BY <1>0, <2>0 DEF Local
  <2>2. (Goto(p, "issue", l) \/ Answer(p, l)) /\ pc[p] \notin {"idle", "resolve"}
    BY <1>4 DEF Renew, Challenge
  <2> HIDE DEF l
  <2> QED BY <1>0, <2>1, <2>2, Carrying
<1>5. CASE Issue(p)
  <2> DEFINE l == [local[p] EXCEPT !.got = @ \cup {fresh}]
  <2>0. fresh \in Id
    BY <1>5, <1>0, TwoFactorAssumption DEF Issue, Draw, Id, Typed, TypeOK
  <2>1. l \in Local /\ l.spent = local[p].spent /\ l.signedIn = local[p].signedIn
    BY <1>0, <2>0 DEF Local
  <2>2. /\ Answer(p, l) \/ \E label \in {"retire", "consume"} : Goto(p, label, l)
        /\ pc[p] = "issue"
    BY <1>5 DEF Issue
  <2> HIDE DEF l
  <2> QED BY <1>0, <2>1, <2>2, Carrying
<1> QED BY <1>1, <1>2, <1>3, <1>4, <1>5

LEMMA OtpProceeds ==
    ASSUME AcceptInv, NEW p \in Requests, UNCHANGED contested,
           Resolve(p) \/ FindOtp(p) \/ ClearOtp(p) \/ CreateOtp(p) \/ ReadOtp(p)
             \/ Judge(p) \/ Recount(p)
    PROVE  Proceeds(p)
<1>0. /\ Typed /\ Fits(pc[p], call[p], local[p]) /\ local[p] \in Local /\ call[p] \in Call
      /\ pc[p] \in {"idle", "load", "resolve"} => local[p] = Blank
      /\ Asked(call[p]) /\ fresh \in Nat /\ None \notin Id /\ Blank \in Local
      /\ otps \subseteq OtpRow /\ OneRow /\ AtRow(p)
      /\ \A r \in otps : kind[r.issue] = "otp" /\ about[r.issue] = r.key
  BY Constant DEF AcceptInv, Rows, Typed, TypeOK, Constants, Ids
<1> USE DEF Statements
<1>1. CASE Resolve(p)
  <2> DEFINE b == [Blank EXCEPT !.signedIn = TRUE, !.enabled = enabled]
  <2>0. call[p].op \in AllOps \ {"sign_in"} /\ enabled \in BOOLEAN
    BY <1>0, <1>1 DEF Resolve, Fits, Typed, TypeOK, SignIn, Call
  <2>1. b \in Local /\ b.signedIn /\ b.spent = {} /\ Blank.spent = {}
    BY <2>0 DEF Blank, Local
  <2>2. \/ Goto(p, Start(call[p].op), b)
        \/ Goto(p, Start(call[p].op), Blank) /\ call[p].key \in Challenges
        \/ Refuse(p)
    BY <1>1 DEF Resolve
  <2>3. Start(call[p].op) \in Statements
        /\ Start(call[p].op) \notin {"rotate", "judge", "recount", "write_codes"}
    BY <2>0 DEF Start, AllOps, Verify
  <2>4. call[p].key \in Challenges => Offerable(p, call[p].key)
    BY <1>0 DEF Offerable, Challenges, Gone, Place, Places, Typed, TypeOK
  <2> HIDE DEF b
  <2>5. ASSUME NEW l, l.spent = {}, l.signedIn \/ call[p].key \in Challenges
        PROVE  Carries(p, Start(call[p].op), l)
    BY <2>3, <2>4, <2>5 DEF Carries, Spends, Offered
  <2> QED BY <1>0, <2>1, <2>2, <2>3, <2>5 DEF Proceeds
<1>2. CASE FindOtp(p)
  <2>1. ASSUME NEW r \in RowsOf(call[p].key)
        PROVE  LET l == [local[p] EXCEPT !.otp = r] IN
               l \in Local /\ l.spent = local[p].spent /\ l.signedIn = local[p].signedIn
    BY <1>0 DEF RowsOf, Local
  <2> QED BY <1>0, <1>2, <2>1, Carrying DEF FindOtp
<1>3. CASE ClearOtp(p)
  BY <1>0, <1>3, Carrying DEF ClearOtp
<1>4. CASE CreateOtp(p)
  <2> DEFINE l == [local[p] EXCEPT !.got = {fresh}]
  <2>0. fresh \in Id
    BY <1>4, <1>0, TwoFactorAssumption DEF CreateOtp, Draw, Id, Typed, TypeOK
  <2>1. l \in Local /\ l.spent = local[p].spent
    BY <1>0, <2>0 DEF Local
  <2>2. Answer(p, l) /\ pc[p] = "create_otp"
    BY <1>4 DEF CreateOtp
  <2> HIDE DEF l
  <2> QED BY <1>0, <2>1, <2>2, Carrying
<1>5. CASE ReadOtp(p)
  <2>1. ASSUME NEW r \in RowsOf(call[p].key), Goto(p, "judge", [local[p] EXCEPT !.otp = r])
        PROVE  Proceeds(p)
    <3> DEFINE l == [local[p] EXCEPT !.otp = r]
    <3>1. /\ l \in Local /\ l.spent = local[p].spent /\ l.signedIn = local[p].signedIn
          /\ l.otp = r
      BY <1>0 DEF RowsOf, Local
    <3>2. call[p].key # None /\ call[p].op # "sign_in" /\ pc[p] = "read_otp"
      BY <1>0, <1>5 DEF ReadOtp, Fits, SignIn, Asked
    <3>3. Offerable(p, r.issue)
      <4>1. r \in otps /\ r.issue \in Id /\ r.key = call[p].key
        BY <1>0 DEF RowsOf, OtpRow
      <4> QED BY <1>0, <3>2, <4>1 DEF Offerable, Gone, Place, Places
    <3> HIDE DEF l
    <3>4. \A i \in Offered("judge", call[p], l) : i = r.issue \/ i \in InHand(p)
      BY <1>5, <3>1, <3>2 DEF Offered, InHand, SignIn
    <3>5. Carries(p, "judge", l)
      BY <3>1, <3>3, <3>4 DEF Carries, Spends, InHand
    <3>6. Goto(p, "judge", l)
      BY <2>1 DEF l
    <3> QED BY <3>1, <3>5, <3>6 DEF Proceeds
  <2> QED BY <1>5, <2>1 DEF ReadOtp, Proceeds
<1>6. CASE Judge(p)
  <2> DEFINE l == [local[p] EXCEPT !.spent = {local[p].otp.issue}]
  <2>i. PICK i : i = local[p].otp.issue
    OBVIOUS
  <2>0. /\ local[p].otp \in OtpRow /\ i \in Id /\ local[p].otp.key = call[p].key
        /\ kind[i] = "otp" /\ about[i] = call[p].key /\ local[p].spent = {}
    BY <1>0, <1>6, <2>i DEF Judge, Fits, OtpRow
  <2>1. l \in Local /\ l.signedIn = local[p].signedIn /\ l.spent = {i}
    BY <1>0, <2>0, <2>i DEF Local
  <2>2. i \in InHand(p)
    BY <1>6, <2>i DEF Judge, InHand, Offered
  <2>3. Gone(i)' \/ Place(i) \in contested
    <3>1. SUFFICES ASSUME call[p].key \notin contested PROVE Gone(i)'
      BY <2>0 DEF Place
    <3>2. local[p].otp \in otps /\ otps' = otps \ {local[p].otp} /\ kind'[i] = kind[i]
      BY <1>0, <1>6, <3>1 DEF Judge, AtRow, Spent, RowCleared
    <3>3. \A r \in otps' : r.key # call[p].key
      BY <1>0, <2>0, <3>1, <3>2 DEF OneRow
    <3>4. \A r \in otps' : r.issue # i
      <4>1. \A r \in otps : about[r.issue] = r.key
        BY <1>0
      <4> QED BY <2>0, <3>2, <3>3, <4>1
    <3> QED BY <2>0, <3>2, <3>4 DEF Gone
  <2>4. \/ Refuse(p)
        \/ Goto(p, "recount", local[p])
        \/ Accepted(p, l)
    BY <1>6 DEF Judge
  <2> HIDE DEF l
  <2>5. Spends(p, l)
    BY <2>1, <2>2, <2>3 DEF Spends
  <2>6. Carries(p, "recount", local[p])
    <3>1. Offered("recount", call[p], local[p]) = Offered(pc[p], call[p], local[p])
      BY <1>6 DEF Judge, Offered, SignIn
    <3> QED BY <2>0, <3>1 DEF Carries, Spends, InHand
  <2>7. CASE Goto(p, "recount", local[p])
    BY <1>0, <2>6, <2>7 DEF Proceeds
  <2>8. CASE Refuse(p)
    BY <2>8 DEF Proceeds
  <2>9. CASE Accepted(p, l)
    BY <1>0, <1>6, <2>1, <2>5, <2>9, Carrying DEF Judge
  <2> QED BY <2>4, <2>7, <2>8, <2>9
<1>7. CASE Recount(p)
  BY <1>7 DEF Recount, Proceeds
<1> QED BY <1>1, <1>2, <1>3, <1>4, <1>5, <1>6, <1>7

LEMMA CodeProceeds ==
    ASSUME AcceptInv, NEW p \in Requests,
           ReadSecret(p) \/ ReadCodes(p) \/ WriteCodes(p) \/ Consume(p) \/ Trust(p)
             \/ Promote(p) \/ Retire(p)
    PROVE  Proceeds(p)
<1>0. /\ Typed /\ Fits(pc[p], call[p], local[p]) /\ local[p] \in Local /\ call[p] \in Call
      /\ Asked(call[p]) /\ fresh \in Nat /\ None \notin Id
      /\ record \in [secret : Id \cup {None}, codes : SUBSET Id] /\ AtCodes(p)
      /\ \A c \in record.codes : kind[c] = "code"
  BY Constant DEF AcceptInv, Rows, Typed, TypeOK, Constants, Ids
<1> USE DEF Statements
<1>1. CASE ReadSecret(p)
  <2>1. (Accepted(p, local[p]) \/ Refuse(p)) /\ pc[p] = "read_secret"
    BY <1>1 DEF ReadSecret
  <2> QED BY <1>0, <2>1, Carrying DEF Proceeds
<1>2. CASE ReadCodes(p)
  <2> DEFINE l == [local[p] EXCEPT !.codes = WithoutCode(record.codes, call[p].code)]
  <2>1. l \in Local /\ l.spent = local[p].spent /\ l.signedIn = local[p].signedIn
    BY <1>0 DEF Local, WithoutCode
  <2>2. call[p].op = "verify_backup" /\ call[p].code \in Id /\ kind[call[p].code] = "code"
        /\ pc[p] = "read_codes"
    BY <1>0, <1>2 DEF ReadCodes, Fits, Asked, Call
  <2>3. call[p].code \in record.codes => Offerable(p, call[p].code)
    BY <2>2 DEF Offerable, Gone, Place, Places
  <2> HIDE DEF l
  <2>4. \A i \in Offered("write_codes", call[p], l) : i = call[p].code \/ i \in InHand(p)
    BY <2>1, <2>2 DEF Offered, InHand, SignIn
  <2>5. call[p].code \in record.codes => Carries(p, "write_codes", l)
    BY <2>1, <2>3, <2>4 DEF Carries, Spends, InHand
  <2>6. Refuse(p) \/ (call[p].code \in record.codes /\ Goto(p, "write_codes", l))
    BY <1>2 DEF ReadCodes, l
  <2> QED BY <2>1, <2>5, <2>6 DEF Proceeds
<1>3. CASE WriteCodes(p)
  <2> DEFINE l == [local[p] EXCEPT !.spent = {call[p].code}]
  <2>i. PICK i : i = call[p].code
    OBVIOUS
  <2>0. call[p].op = "verify_backup" /\ i \in Id /\ kind[i] = "code"
    BY <1>0, <1>3, <2>i DEF WriteCodes, Fits, Asked, Call
  <2>1. l \in Local /\ l.signedIn = local[p].signedIn /\ l.spent = {i}
    BY <1>0, <2>0, <2>i DEF Local
  <2>2. i \in InHand(p)
    BY <1>3, <2>i DEF WriteCodes, InHand, Offered
  <2> HIDE DEF l
  <2>3. Refuse(p) \/ (Accepted(p, l) /\ record' = [record EXCEPT !.codes = local[p].codes])
    BY <1>3 DEF WriteCodes, l
  <2>4. CASE Refuse(p)
    BY <2>4 DEF Proceeds
  <2>5. CASE Accepted(p, l) /\ record' = [record EXCEPT !.codes = local[p].codes]
    <3>1. Gone(i)' \/ Place(i) \in contested
      <4>1. kind'[i] = "code"
        BY <1>3, <2>0 DEF WriteCodes
      <4>2. None \notin contested => i \notin record'.codes
        BY <1>0, <1>3, <2>5, <2>i DEF WriteCodes, AtCodes
      <4> QED BY <2>0, <4>1, <4>2 DEF Gone, Place
    <3>2. Spends(p, l)
      BY <2>1, <2>2, <3>1 DEF Spends
    <3> QED BY <1>0, <1>3, <2>1, <2>5, <3>2, Carrying DEF WriteCodes
  <2> QED BY <2>3, <2>4, <2>5
<1>4. CASE Consume(p)
  <2> DEFINE l == [local[p] EXCEPT !.spent = @ \cup {call[p].key}]
  <2>i. PICK i : i = call[p].key
    OBVIOUS
  <2>0. call[p].op # "sign_in" /\ i \in Id /\ kind[i] = "challenge" /\ ~ local[p].signedIn
    BY <1>0, <1>4, <2>i DEF Consume, Fits, Asked, Call, SignIn
  <2>1. l \in Local /\ l.signedIn = local[p].signedIn /\ l.spent = local[p].spent \cup {i}
    BY <1>0, <2>0, <2>i DEF Local
  <2>2. i \in InHand(p) /\ pc[p] = "consume"
    BY <1>4, <2>0, <2>i DEF Consume, InHand, Offered, SignIn
  <2> HIDE DEF l
  <2>3. /\ Answer(p, l) \/ Goto(p, "trust", l)
        /\ live' = live \ {i} /\ UNCHANGED kind
    BY <1>4, <2>i DEF Consume, WithoutChallenge, l
  <2>4. Gone(i)'
    BY <2>0, <2>3 DEF Gone
  <2>5. Spends(p, l)
    BY <2>1, <2>2, <2>4 DEF Spends, InHand
  <2> QED BY <1>0, <2>1, <2>2, <2>3, <2>5, Carrying
<1>5. CASE Trust(p)
  <2> DEFINE l == [local[p] EXCEPT !.got = @ \cup {fresh}]
  <2>0. fresh \in Id
    BY <1>5, <1>0, TwoFactorAssumption DEF Trust, Draw, Id, Typed, TypeOK
  <2>1. l \in Local /\ l.spent = local[p].spent
    BY <1>0, <2>0 DEF Local
  <2>2. Answer(p, l) /\ pc[p] = "trust"
    BY <1>5 DEF Trust
  <2> HIDE DEF l
  <2> QED BY <1>0, <2>1, <2>2, Carrying
<1>6. CASE Promote(p)
  BY <1>0, <1>6, Carrying DEF Promote
<1>7. CASE Retire(p)
  BY <1>0, <1>7, Carrying DEF Retire
<1> QED BY <1>1, <1>2, <1>3, <1>4, <1>5, <1>6, <1>7

LEMMA EnrolProceeds ==
    ASSUME AcceptInv, NEW p \in Requests,
           DropRecord(p) \/ CreateRecord(p) \/ Demote(p) \/ Forget(p) \/ CheckRecord(p)
             \/ ReplaceCodes(p) \/ StatementFails(p)
    PROVE  Proceeds(p)
<1>0. Typed /\ local[p] \in Local
  BY DEF AcceptInv, Rows, Typed, TypeOK
<1> USE DEF Statements
<1>1. CASE DropRecord(p)
  <2>1. (\E label \in {"create_record", "demote"} : Goto(p, label, local[p]))
        /\ pc[p] = "drop_record"
    BY <1>1 DEF DropRecord
  <2> QED BY <1>0, <2>1, Carrying
<1>2. CASE CreateRecord(p) \/ ReplaceCodes(p)
  <2>1. CASE Refuse(p)
    BY <2>1 DEF Proceeds
  <2>2. CASE ~ Refuse(p)
    <3>1. PICK kinds, g : /\ Draw(kinds) /\ Len(kinds) \in Nat /\ Len(kinds) >= 1
                          /\ g \in {CodesFrom(fresh), {fresh} \cup CodesFrom(fresh + 1)}
                          /\ g \subseteq fresh .. fresh + Len(kinds) - 1
                          /\ LET l == [local[p] EXCEPT !.got = g] IN
                             Goto(p, "promote", l) \/ Answer(p, l)
      <4>0. BackupCodes \in Nat /\ BackupCodes >= 1 /\ fresh \in Nat
        BY <1>0, TwoFactorAssumption DEF Typed, TypeOK
      <4>1. CASE CreateRecord(p)
        <5>1. /\ Draw(<<"secret">> \o CodeKinds)
              /\ LET l == [local[p] EXCEPT !.got = {fresh} \cup CodesFrom(fresh + 1)] IN
                 Goto(p, "promote", l) \/ Answer(p, l)
          BY <2>2, <4>1 DEF CreateRecord
        <5>2. Len(<<"secret">> \o CodeKinds) = BackupCodes + 1
          BY TwoFactorAssumption DEF CodeKinds
        <5>3. {fresh} \cup CodesFrom(fresh + 1) \subseteq fresh .. fresh + BackupCodes
          BY <4>0 DEF CodesFrom
        <5>4. Len(<<"secret">> \o CodeKinds) \in Nat /\ Len(<<"secret">> \o CodeKinds) >= 1
              /\ fresh + Len(<<"secret">> \o CodeKinds) - 1 = fresh + BackupCodes
          BY <4>0, <5>2
        <5> QED BY <5>1, <5>3, <5>4
      <4>2. CASE ReplaceCodes(p)
        <5>1. /\ Draw(CodeKinds) /\ Answer(p, [local[p] EXCEPT !.got = CodesFrom(fresh)])
          BY <2>2, <4>2 DEF ReplaceCodes
        <5>2. Len(CodeKinds) = BackupCodes
          BY TwoFactorAssumption DEF CodeKinds
        <5>3. CodesFrom(fresh) \subseteq fresh .. fresh + Len(CodeKinds) - 1
          BY <4>0, <5>2 DEF CodesFrom
        <5> QED BY <4>0, <5>1, <5>2, <5>3
      <4> QED BY <1>2, <4>1, <4>2
    <3>2. g \subseteq Id
      BY <1>0, <3>1, TwoFactorAssumption DEF Draw, Id, Typed, TypeOK
    <3> DEFINE l == [local[p] EXCEPT !.got = g]
    <3>3. l \in Local /\ l.spent = local[p].spent /\ l.signedIn = local[p].signedIn
      BY <1>0, <3>2 DEF Local
    <3>4. Goto(p, "promote", l) \/ Answer(p, l)
      BY <3>1
    <3>5. pc[p] \notin {"idle", "resolve"}
      BY <1>2 DEF CreateRecord, ReplaceCodes
    <3> HIDE DEF l
    <3> QED BY <1>0, <3>3, <3>4, <3>5, Carrying
  <2> QED BY <2>1, <2>2
<1>3. CASE Demote(p)
  BY <1>0, <1>3, Carrying DEF Demote
<1>4. CASE Forget(p)
  BY <1>0, <1>4, Carrying DEF Forget
<1>5. CASE CheckRecord(p)
  <2>1. (Refuse(p) \/ Goto(p, "replace_codes", local[p])) /\ pc[p] = "check_record"
    BY <1>5 DEF CheckRecord
  <2> QED BY <1>0, <2>1, Carrying DEF Proceeds
<1>6. CASE StatementFails(p)
  <2>1. \/ pc[p] = "drop_record" /\ Goto(p, "create_record", local[p])
        \/ pc[p] = "forget" /\ Answer(p, local[p])
        \/ Refuse(p)
    BY <1>6 DEF StatementFails
  <2>2. CASE Refuse(p)
    BY <2>2 DEF Proceeds
  <2> QED BY <1>0, <2>1, <2>2, Carrying
<1> QED BY <1>1, <1>2, <1>3, <1>4, <1>5, <1>6

LEMMA StepProceeds ==
    ASSUME AcceptInv, NEW p \in Requests, Acts(p), UNCHANGED contested
    PROVE  Proceeds(p)
<1>1. CASE Load(p) \/ Inspect(p) \/ Rotate(p) \/ Renew(p) \/ Challenge(p) \/ Issue(p)
  BY <1>1, SignInProceeds
<1>2. CASE Resolve(p) \/ FindOtp(p) \/ ClearOtp(p) \/ CreateOtp(p) \/ ReadOtp(p)
             \/ Judge(p) \/ Recount(p)
  BY <1>2, OtpProceeds
<1>3. CASE ReadSecret(p) \/ ReadCodes(p) \/ WriteCodes(p) \/ Consume(p) \/ Trust(p)
             \/ Promote(p) \/ Retire(p)
  BY <1>3, CodeProceeds
<1>4. CASE DropRecord(p) \/ CreateRecord(p) \/ Demote(p) \/ Forget(p) \/ CheckRecord(p)
             \/ ReplaceCodes(p) \/ StatementFails(p)
  BY <1>4, EnrolProceeds
<1> QED BY <1>1, <1>2, <1>3, <1>4 DEF Acts, Step

\* Nothing is accepted but by an answer, and then what the request has spent.
LEMMA Judging ==
    ASSUME Typed, NEW p \in Requests, Proceeds(p)
    PROVE  /\ \/ /\ pc'[p] \in Statements /\ call'[p] = call[p]
                 /\ Carries(p, pc'[p], local'[p]) /\ honoured' = honoured
              \/ pc'[p] = "idle" /\ honoured' = honoured
              \/ /\ pc'[p] = "idle"
                 /\ \E l \in Local :
                       /\ Spends(p, l)
                       /\ \A i \in Id : honoured'[i] = IF i \in l.spent THEN honoured[i] + 1
                                                                      ELSE honoured[i]
<1>0. /\ pc \in [Requests -> Statements \cup {"idle"}] /\ call \in [Requests -> Call]
      /\ local \in [Requests -> Local]
  BY DEF Typed, TypeOK
<1>1. ASSUME NEW label \in Statements, NEW l \in Local, Goto(p, label, l), Carries(p, label, l)
      PROVE  /\ pc'[p] \in Statements /\ call'[p] = call[p]
             /\ Carries(p, pc'[p], local'[p]) /\ honoured' = honoured
  <2>1. pc'[p] = label /\ local'[p] = l /\ call' = call /\ honoured' = honoured
    BY <1>0, <1>1 DEF Goto, history
  <2> QED BY <1>1, <2>1
<1>2. ASSUME Refuse(p) PROVE pc'[p] = "idle" /\ honoured' = honoured
  BY <1>0, <1>2 DEF Refuse, Drop, history
<1>3. ASSUME NEW l \in Local, Answer(p, l), Spends(p, l)
      PROVE  /\ pc'[p] = "idle"
             /\ \A i \in Id : honoured'[i] = IF i \in l.spent THEN honoured[i] + 1
                                                            ELSE honoured[i]
  BY <1>0, <1>3 DEF Answer, Drop
<1> QED BY <1>1, <1>2, <1>3 DEF Proceeds

LEMMA AcceptStays ==
    ASSUME AcceptInv, [Next]_vars
    PROVE  AcceptInv'
<1>0. Rows' /\ Typed /\ Overlap /\ contested \subseteq contested'
  BY RowsStay, OverlapStays DEF AcceptInv, Rows
<1>1. CASE UNCHANGED vars
  <2>1. \A i : Gone(i)' <=> Gone(i)
    BY <1>1 DEF vars, store, Gone
  <2> QED BY <1>0, <1>1, <2>1 DEF AcceptInv, Accounted, Unspent, InHand, Offered, Places, Place,
                                 Busy, vars, store, history
<1>2. ASSUME NEW p \in Requests, Arrive(p) PROVE AcceptInv'
  <2>1. /\ UNCHANGED <<store, local, history>>
        /\ pc'[p] \in {"load", "resolve"} /\ local[p] = Blank
        /\ \A q \in Requests \ {p} : pc'[q] = pc[q] /\ call'[q] = call[q]
    BY <1>0, <1>2 DEF Arrive, Typed, TypeOK
  <2>2. \A i : (Gone(i)' <=> Gone(i)) /\ Place(i)' = Place(i)
    BY <2>1 DEF store, Gone, Place
  <2>3. Accounted'
    BY <1>0, <2>1, <2>2 DEF AcceptInv, Accounted, store, history
  <2>4. InHand(p)' = {}
    BY <2>1 DEF InHand, Offered, Blank, SignIn
  <2>5. \A q \in Requests \ {p} : InHand(q)' = InHand(q) /\ Places(call[q])' = Places(call[q])
    BY <2>1 DEF InHand, Offered, Places
  <2>6. ASSUME NEW q \in Requests, Busy(q)' PROVE Unspent(q)'
    <3>1. CASE q = p
      BY <2>4, <3>1 DEF Unspent, InHand
    <3>2. CASE q # p
      <4>1. Unspent(q)
        BY <2>1, <2>6, <3>2 DEF AcceptInv, Busy
      <4> QED BY <1>0, <2>1, <2>2, <2>5, <3>2, <4>1 DEF Unspent, store, history
    <3> QED BY <3>1, <3>2
  <2> QED BY <1>0, <2>3, <2>6 DEF AcceptInv
<1>3. ASSUME NEW p \in Requests, Acts(p), UNCHANGED contested PROVE AcceptInv'
  <2>1. Proceeds(p) /\ Moves(p) /\ Busy(p) /\ Settled /\ Unspent(p)
    BY <1>0, <1>3, StepProceeds, StepMoves, ActsBusy, Tables DEF Acts, AcceptInv
  <2>2. \A i \in Id : kind[i] # "unused" => kind'[i] = kind[i] /\ Place(i)' = Place(i)
    BY <2>1 DEF Settled, Place
  <2>3. \A i \in Id : honoured[i] \in Nat
    BY <1>0 DEF Typed, TypeOK
  <2>4. ASSUME NEW i \in Id, kind[i] # "unused", Place(i) \notin contested, Gone(i),
               honoured[i] > 0 \/ \E q \in Requests : Busy(q) /\ i \in local[q].spent
        PROVE  Gone(i)'
    BY <1>3, <2>4, GoneStays
  <2>5. ASSUME NEW l, Spends(p, l), NEW i \in l.spent
        PROVE  /\ i \in Id /\ kind[i] # "unused" /\ Place(i) \in Places(call[p])
               /\ Place(i) \in contested \/ (honoured[i] = 0 /\ Gone(i)')
    <3>1. /\ i \in InHand(p)
          /\ i \in local[p].spent \/ Gone(i)' \/ Place(i) \in contested
      BY <2>5 DEF Spends
    <3>2. /\ i \in Id /\ kind[i] # "unused" /\ Place(i) \in Places(call[p])
          /\ honoured[i] = 0 \/ Place(i) \in contested
      BY <2>1, <3>1 DEF Unspent
    <3>3. i \in local[p].spent => Gone(i)' \/ Place(i) \in contested
      BY <2>1, <2>4, <3>2 DEF Unspent
    <3> QED BY <3>1, <3>2, <3>3
  <2>6. \/ /\ pc'[p] \in Statements /\ call'[p] = call[p]
           /\ Carries(p, pc'[p], local'[p]) /\ honoured' = honoured
        \/ pc'[p] = "idle" /\ honoured' = honoured
        \/ /\ pc'[p] = "idle"
           /\ \E l \in Local :
                 /\ Spends(p, l)
                 /\ \A i \in Id : honoured'[i] = IF i \in l.spent THEN honoured[i] + 1
                                                                ELSE honoured[i]
    BY <1>0, <2>1, Judging
  <2>7. ASSUME NEW i \in Id, honoured'[i] # honoured[i]
        PROVE  /\ kind[i] # "unused" /\ Place(i) \in Places(call[p])
               /\ Place(i) \in contested \/ (honoured'[i] = 1 /\ Gone(i)')
    <3>1. PICK l \in Local : /\ Spends(p, l) /\ i \in l.spent
                             /\ honoured'[i] = honoured[i] + 1
      BY <2>6, <2>7
    <3> QED BY <2>5, <3>1
  <2>8. Accounted'
    <3>1. SUFFICES ASSUME NEW i \in Id, honoured'[i] > 0
                   PROVE  /\ kind'[i] # "unused"
                          /\ Place(i)' \in contested \/ (honoured'[i] = 1 /\ Gone(i)')
      BY <1>3 DEF Accounted
    <3>2. CASE honoured'[i] # honoured[i]
      BY <2>2, <2>7, <3>2
    <3>3. CASE honoured'[i] = honoured[i]
      <4>1. kind[i] # "unused" /\ (Place(i) \in contested \/ (honoured[i] = 1 /\ Gone(i)))
        BY <3>1, <3>3 DEF AcceptInv, Accounted
      <4> QED BY <2>2, <2>4, <3>1, <3>3, <4>1
    <3> QED BY <3>2, <3>3
  <2>9. ASSUME Busy(p)' PROVE Unspent(p)'
    <3>1. /\ call'[p] = call[p] /\ Carries(p, pc'[p], local'[p]) /\ honoured' = honoured
      BY <2>6, <2>9 DEF Busy
    <3>2. ASSUME NEW i \in InHand(p)'
          PROVE  /\ i \in Id /\ kind[i] # "unused" /\ Place(i) \in Places(call[p])
                 /\ honoured[i] = 0 \/ Place(i) \in contested
      <4>1. i \in Offered(pc'[p], call[p], local'[p]) \/ i \in local'[p].spent
        BY <3>1, <3>2 DEF InHand, Offered
      <4>2. i \in InHand(p) \/ Offerable(p, i)
        BY <3>1, <4>1 DEF Carries, Spends
      <4>3. CASE i \in InHand(p)
        BY <2>1, <4>3 DEF Unspent
      <4>4. CASE Offerable(p, i)
        BY <2>3, <4>4 DEF Offerable, AcceptInv, Accounted
      <4> QED BY <4>2, <4>3, <4>4
    <3>3. ASSUME NEW i \in local'[p].spent PROVE Gone(i)' \/ Place(i) \in contested
      BY <2>5, <3>1, <3>3 DEF Carries
    <3>4. Places(call[p])' = Places(call[p])
      BY <3>1 DEF Places
    <3>5. \A i \in local'[p].spent : i \in InHand(p)'
      BY DEF InHand
    <3> QED BY <1>3, <2>2, <3>1, <3>2, <3>3, <3>4, <3>5 DEF Unspent
  <2>10. ASSUME NEW q \in Requests \ {p}, Busy(q)' PROVE Unspent(q)'
    <3>1. pc'[q] = pc[q] /\ call'[q] = call[q] /\ local'[q] = local[q]
      BY <1>0, <2>1, Apart
    <3>2. Unspent(q) /\ Busy(q) /\ InHand(q)' = InHand(q) /\ Places(call[q])' = Places(call[q])
      BY <2>10, <3>1 DEF AcceptInv, Busy, InHand, Offered, Places
    <3>3. ASSUME NEW i \in InHand(q)
          PROVE  i \in Id /\ kind'[i] # "unused" /\ Place(i)' \in Places(call[q])
                 /\ (honoured'[i] = 0 \/ Place(i)' \in contested)
      <4>1. /\ i \in Id /\ kind[i] # "unused" /\ Place(i) \in Places(call[q])
            /\ honoured[i] = 0 \/ Place(i) \in contested
        BY <3>2, <3>3 DEF Unspent
      <4>2. honoured'[i] # honoured[i] => Place(i) \in contested
        BY <1>0, <2>1, <2>7, <3>2, <4>1, Meeting
      <4> QED BY <2>2, <4>1, <4>2
    <3>4. ASSUME NEW i \in local[q].spent PROVE Gone(i)' \/ Place(i)' \in contested
      <4>1. i \in InHand(q) /\ (Gone(i) \/ Place(i) \in contested)
        BY <3>2, <3>4 DEF Unspent, InHand
      <4>2. i \in Id /\ kind[i] # "unused"
        BY <3>2, <4>1 DEF Unspent
      <4> QED BY <2>2, <2>4, <3>2, <3>4, <4>1, <4>2
    <3> QED BY <1>3, <3>1, <3>2, <3>3, <3>4 DEF Unspent
  <2> QED BY <1>0, <2>8, <2>9, <2>10 DEF AcceptInv
<1> QED BY <1>1, <1>2, <1>3 DEF Next, Acts

LEMMA InitRows == Init => Rows
<1> SUFFICES ASSUME Init PROVE Rows
  OBVIOUS
<1>1. otps = {} /\ \A p \in Requests : pc[p] = "idle"
  BY DEF Init
<1> QED BY <1>1, InitTyped DEF Rows, Overlap, Busy, OneRow, AtRow, AtCodes

\* Whatever a user's browsers send, and whatever fails, an OTP, a backup code, a
\* sign-in challenge and a trusted device are accepted once, unless two requests
\* were at work on the same one at a time.
THEOREM AcceptedAtMostOnce == Spec => []AcceptedOnce
<1>1. ASSUME Init PROVE AcceptInv
  <2>1. /\ \A p \in Requests : pc[p] = "idle"
        /\ \A i \in Id : honoured[i] = 0
    BY <1>1 DEF Init
  <2> QED BY <1>1, <2>1, InitRows DEF AcceptInv, Accounted, Busy
<1>2. AcceptInv => AcceptedOnce
  <2>1. SUFFICES ASSUME AcceptInv, NEW i \in Id
                 PROVE  honoured[i] <= 1 \/ Place(i) \in contested
    BY DEF AcceptedOnce
  <2>2. honoured[i] \in Nat
    BY <2>1 DEF AcceptInv, Rows, Typed, TypeOK
  <2> QED BY <2>1, <2>2 DEF AcceptInv, Accounted
<1> QED BY <1>1, <1>2, AcceptStays, PTL DEF Spec

-----------------------------------------------------------------------------
(* What is outdated is no longer accepted.                                 *)

\* Nothing older than the newest is in a table or in a request's hands.
Newest(i) == about[i] \in contested \/ latest[about[i]] <= i

NewestKept ==
    /\ \A r \in otps : Newest(r.issue)
    /\ \A c \in record.codes : Newest(c)

NewestAt(p) == \A i \in InHand(p) : kind[i] \in {"otp", "code"} => Newest(i)

\* The codes an answer is going to show are those of the row.
Showing(p) ==
    \A i \in local[p].got :
        /\ kind[i] \notin {"unused", "otp"}
        /\ kind[i] = "code" => /\ None \in Places(call[p])
                               /\ None \in contested \/ record.codes \subseteq local[p].got

NewestInv ==
    /\ AcceptInv /\ NewestOnly /\ NewestKept
    /\ \A i \in outdated : kind[i] # "unused"
    /\ \A x \in Id \cup {None} : latest[x] < fresh
    /\ \A p \in Requests : Busy(p) => NewestAt(p) /\ Showing(p)

\* An answer shows ids that are there, an OTP only when it is sent, and codes only
\* if they are those of the row.
Shows(p, l) ==
    \A i \in l.got :
        /\ kind'[i] \notin {"unused", "otp"}
        /\ kind'[i] = "code" => /\ None \in Places(call[p])
                                /\ None \in contested \/ record'.codes \subseteq l.got

Hands(p) ==
    \/ \E label \in Statements, l \in Local : Goto(p, label, l) /\ Shows(p, l)
    \/ \E l \in Local : Answer(p, l) /\ Shows(p, l)
    \/ Refuse(p)
    \/ CreateOtp(p)

\* What a request shows already it may go on showing, with rows of its own.
LEMMA Shown ==
    ASSUME NewestInv, NEW p \in Requests, Acts(p), ~ (CreateRecord(p) \/ ReplaceCodes(p)),
           NEW l \in Local, NEW new,
           l.got \in {local[p].got, local[p].got \cup new, new, {}},
           \A i \in new : kind'[i] \in {"session", "challenge", "trust"}
    PROVE  Shows(p, l)
<1>0. /\ Rows /\ Typed /\ Settled /\ Showing(p) /\ local[p].got \subseteq Id
      /\ \A c \in record.codes : c \in Id /\ kind[c] = "code"
  <2>1. Rows /\ Typed /\ Showing(p)
    BY ActsBusy DEF NewestInv, AcceptInv, Rows
  <2>2. Settled
    BY <2>1, Tables DEF Acts
  <2> QED BY <2>1, <2>2 DEF Typed, TypeOK, Local, Ids
<1>1. None \in contested \/ record'.codes \subseteq record.codes
  <2>1. CASE WriteCodes(p)
    BY <1>0, <2>1 DEF WriteCodes, Rows, AtCodes, Typed, TypeOK
  <2>2. CASE DropRecord(p)
    BY <2>2 DEF DropRecord, NoRecord
  <2>3. CASE ~ (WriteCodes(p) \/ DropRecord(p))
    BY <2>3
    DEF Acts, Step, Load, Inspect, Rotate, Renew, Challenge, Issue, Resolve, FindOtp,
        ClearOtp, CreateOtp, ReadOtp, Judge, Recount, ReadSecret, ReadCodes,
        Consume, Trust, Promote, Retire, Demote, Forget, CheckRecord, StatementFails, store
  <2> QED BY <2>1, <2>2, <2>3
<1>2. ASSUME NEW i \in local[p].got
      PROVE  /\ kind'[i] \notin {"unused", "otp"}
             /\ kind'[i] = "code" =>
                   /\ None \in Places(call[p])
                   /\ None \in contested \/ record.codes \subseteq local[p].got
  BY <1>0 DEF Showing, Settled
<1> QED BY <1>1, <1>2 DEF Shows

\* The ids that were drawn for new codes, and what the answer makes of them.
LEMMA CodesShown ==
    ASSUME Typed, NEW p \in Requests, CreateRecord(p) \/ ReplaceCodes(p)
    PROVE  Hands(p)
<1>0. /\ CodeKinds \in Seq(Kinds \ {"unused", "otp"}) /\ Len(CodeKinds) = BackupCodes
      /\ BackupCodes \in Nat /\ fresh \in Nat /\ local[p] \in Local
  BY TwoFactorAssumption DEF CodeKinds, Kinds, Typed, TypeOK
<1>1. <<"secret">> \in Seq(Kinds \ {"unused", "otp"}) /\ Len(<<"secret">>) = 1
  BY DEF Kinds
<1>2. /\ <<"secret">> \o CodeKinds \in Seq(Kinds \ {"unused", "otp"})
      /\ Len(<<"secret">> \o CodeKinds) = BackupCodes + 1
  <2> HIDE DEF CodeKinds
  <2> QED BY <1>0, <1>1
<1>3. Fits(pc[p], call[p], local[p])
  BY DEF Typed
<1>4. None \in Places(call[p])
  BY <1>3 DEF CreateRecord, ReplaceCodes, Fits, Places
<1>5. ASSUME NEW kinds \in Seq(Kinds \ {"unused", "otp"}), Draw(kinds), UNCHANGED about,
             NEW g \in SUBSET (fresh .. fresh + Len(kinds) - 1), record'.codes \subseteq g,
             NEW l, l = [local[p] EXCEPT !.got = g],
             Goto(p, "promote", l) \/ Answer(p, l)
      PROVE  Hands(p)
  <2>1. \A i \in fresh .. fresh + Len(kinds) - 1 :
           i \in Id /\ kind'[i] = kinds[i - fresh + 1]
    BY <1>5, Drawing
  <2>2. \A i \in g : i \in Id /\ kind'[i] \notin {"unused", "otp"}
    <3>1. ASSUME NEW i \in fresh .. fresh + Len(kinds) - 1
          PROVE  kinds[i - fresh + 1] \in Kinds \ {"unused", "otp"}
      BY <1>0
    <3> QED BY <2>1, <3>1
  <2>3. l \in Local /\ l.got = g
    BY <1>0, <1>5, <2>2 DEF Local
  <2>4. Shows(p, l)
    BY <1>4, <1>5, <2>2, <2>3 DEF Shows
  <2> QED BY <1>5, <2>3, <2>4 DEF Hands, Statements
<1>6. CASE CreateRecord(p) /\ ~ Refuse(p)
  <2> DEFINE g == {fresh} \cup CodesFrom(fresh + 1)
             l == [local[p] EXCEPT !.got = g]
  <2>1. /\ Draw(<<"secret">> \o CodeKinds) /\ UNCHANGED about
        /\ record'.codes \subseteq g /\ (Goto(p, "promote", l) \/ Answer(p, l))
    BY <1>6 DEF CreateRecord
  <2>2. g \subseteq fresh .. fresh + Len(<<"secret">> \o CodeKinds) - 1
    BY <1>0, <1>2 DEF CodesFrom
  <2> HIDE DEF g, CodeKinds
  <2> QED BY <1>2, <1>5, <2>1, <2>2
<1>7. CASE ReplaceCodes(p) /\ ~ Refuse(p)
  <2> DEFINE g == CodesFrom(fresh)
             l == [local[p] EXCEPT !.got = g]
  <2>1. /\ Draw(CodeKinds) /\ UNCHANGED about
        /\ record' = [record EXCEPT !.codes = g] /\ Answer(p, l)
    BY <1>7 DEF ReplaceCodes
  <2>2. record'.codes \subseteq g
    BY <2>1 DEF Typed, TypeOK
  <2>3. g \subseteq fresh .. fresh + Len(CodeKinds) - 1
    BY <1>0 DEF CodesFrom
  <2> HIDE DEF g, CodeKinds
  <2> QED BY <1>0, <1>5, <2>1, <2>2, <2>3
<1> QED BY <1>6, <1>7 DEF Hands

LEMMA Handing ==
    ASSUME NewestInv, NEW p \in Requests, Acts(p)
    PROVE  Hands(p)
<1>0. /\ Typed /\ local[p] \in Local /\ fresh \in Nat /\ Fits(pc[p], call[p], local[p])
      /\ call[p] \in Call /\ call[p].key \in Id \cup {None} /\ call[p].cookie \in Id \cup {None}
      /\ Blank \in Local /\ Blank.got = {} /\ otps \subseteq OtpRow /\ Asked(call[p])
  BY Constant DEF NewestInv, AcceptInv, Rows, Typed, TypeOK, Call, Blank
<1>1. CASE CreateRecord(p) \/ ReplaceCodes(p)
  BY <1>0, <1>1, CodesShown
<1> SUFFICES ASSUME ~ (CreateRecord(p) \/ ReplaceCodes(p)) PROVE Hands(p)
  BY <1>1
<1>2. ASSUME NEW l \in Local, l.got \in {local[p].got, {}} PROVE Shows(p, l)
  BY <1>2, Shown
<1>3. ASSUME NEW l \in Local, l.got \in {local[p].got, {}},
             \/ \E label \in Statements : Goto(p, label, l)
             \/ Answer(p, l) \/ Accepted(p, l)
      PROVE  Hands(p)
  BY <1>2, <1>3 DEF Hands, Accepted, Statements
<1>4. CASE Load(p) \/ Inspect(p) \/ FindOtp(p) \/ ClearOtp(p) \/ ReadOtp(p)
  <2>1. ASSUME NEW r \in otps
        PROVE  LET l == [local[p] EXCEPT !.otp = r] IN l \in Local /\ l.got = local[p].got
    BY <1>0 DEF Local
  <2>2. CASE Load(p) \/ Inspect(p) \/ ClearOtp(p)
    BY <1>0, <1>3, <2>2 DEF Load, Inspect, ClearOtp, Statements
  <2>3. CASE FindOtp(p) \/ ReadOtp(p)
    <3>1. \/ Refuse(p)
          \/ Goto(p, "create_otp", local[p])
          \/ \E r \in otps, label \in {"clear_otp", "judge"} :
                Goto(p, label, [local[p] EXCEPT !.otp = r])
      BY <2>3 DEF FindOtp, ReadOtp, RowsOf
    <3>2. ASSUME NEW r \in otps, NEW label \in {"clear_otp", "judge"},
                 Goto(p, label, [local[p] EXCEPT !.otp = r])
          PROVE  Hands(p)
      <4> DEFINE l == [local[p] EXCEPT !.otp = r]
      <4>1. l \in Local /\ l.got = local[p].got /\ Goto(p, label, l) /\ label \in Statements
        BY <2>1, <3>2 DEF Statements
      <4> HIDE DEF l
      <4> QED BY <1>3, <4>1
    <3> QED BY <1>0, <1>3, <3>1, <3>2 DEF Hands, Statements
  <2> QED BY <1>4, <2>2, <2>3
<1>5. CASE Rotate(p) \/ Consume(p) \/ Judge(p) \/ WriteCodes(p) \/ ReadCodes(p)
  <2>1. CASE Refuse(p)
    BY <2>1 DEF Hands
  <2>2. CASE ~ Refuse(p)
    <3>1. PICK s, c : LET l == [local[p] EXCEPT !.spent = s, !.codes = c] IN
             /\ s \subseteq Id /\ c \subseteq Id
             /\ \/ \E label \in Statements : Goto(p, label, l)
                \/ Answer(p, l) \/ Accepted(p, l)
      <4>1. CASE Rotate(p)
        <5>1. call[p].cookie \in Id
          BY <1>0, <4>1 DEF Rotate, Fits
        <5>2. [local[p] EXCEPT !.spent = {call[p].cookie}]
              = [local[p] EXCEPT !.spent = {call[p].cookie}, !.codes = local[p].codes]
          BY <1>0 DEF Local
        <5>3. Goto(p, "renew", [local[p] EXCEPT !.spent = {call[p].cookie}])
          BY <4>1 DEF Rotate
        <5>4. {call[p].cookie} \subseteq Id /\ local[p].codes \subseteq Id
          BY <1>0, <5>1 DEF Local
        <5> QED BY <5>2, <5>3, <5>4 DEF Statements
      <4>2. CASE Consume(p)
        <5>1. call[p].key \in Id
          BY <1>0, <4>2 DEF Consume, Fits, SignIn, Asked
        <5>2. [local[p] EXCEPT !.spent = @ \cup {call[p].key}]
              = [local[p] EXCEPT !.spent = local[p].spent \cup {call[p].key},
                                 !.codes = local[p].codes]
          BY <1>0 DEF Local
        <5>3. local[p].spent \cup {call[p].key} \subseteq Id /\ local[p].codes \subseteq Id
          BY <1>0, <5>1 DEF Local
        <5> QED BY <4>2, <5>2, <5>3 DEF Consume, Statements
      <4>3. CASE Judge(p)
        <5>1. local[p].otp.issue \in Id /\ local[p].codes \subseteq Id
          BY <1>0, <4>3 DEF Judge, Fits, OtpRow, Local
        <5>2. /\ [local[p] EXCEPT !.spent = {local[p].otp.issue}]
                 = [local[p] EXCEPT !.spent = {local[p].otp.issue}, !.codes = local[p].codes]
              /\ local[p] = [local[p] EXCEPT !.spent = local[p].spent, !.codes = local[p].codes]
              /\ local[p].spent \subseteq Id
          BY <1>0 DEF Local
        <5>3. \/ Goto(p, "recount", local[p])
              \/ Accepted(p, [local[p] EXCEPT !.spent = {local[p].otp.issue}])
          BY <2>2, <4>3 DEF Judge
        <5>4. CASE Goto(p, "recount", local[p])
          <6>1. Goto(p, "recount", [local[p] EXCEPT !.spent = local[p].spent,
                                                    !.codes = local[p].codes])
            BY <5>2, <5>4
          <6> QED BY <5>1, <5>2, <6>1 DEF Statements
        <5>5. CASE Accepted(p, [local[p] EXCEPT !.spent = {local[p].otp.issue}])
          BY <5>1, <5>2, <5>5
        <5> QED BY <5>3, <5>4, <5>5
      <4>4. CASE WriteCodes(p)
        <5>1. call[p].code \in Id /\ local[p].codes \subseteq Id
          BY <1>0, <4>4 DEF WriteCodes, Fits, Asked, Call, Local
        <5>2. [local[p] EXCEPT !.spent = {call[p].code}]
              = [local[p] EXCEPT !.spent = {call[p].code}, !.codes = local[p].codes]
          BY <1>0 DEF Local
        <5> QED BY <2>2, <4>4, <5>1, <5>2 DEF WriteCodes
      <4>5. CASE ReadCodes(p)
        <5> DEFINE c == WithoutCode(record.codes, call[p].code)
        <5>1. c \subseteq Id /\ local[p].spent \subseteq Id
          BY <1>0 DEF WithoutCode, Typed, TypeOK, Local
        <5>2. [local[p] EXCEPT !.codes = c]
              = [local[p] EXCEPT !.spent = local[p].spent, !.codes = c]
          BY <1>0 DEF Local
        <5>3. Goto(p, "write_codes", [local[p] EXCEPT !.codes = c])
          BY <2>2, <4>5 DEF ReadCodes
        <5> HIDE DEF c
        <5> QED BY <5>1, <5>2, <5>3 DEF Statements
      <4> QED BY <1>5, <4>1, <4>2, <4>3, <4>4, <4>5
    <3> DEFINE l == [local[p] EXCEPT !.spent = s, !.codes = c]
    <3>2. l \in Local /\ l.got = local[p].got
      BY <1>0, <3>1 DEF Local
    <3>3. (\E label \in Statements : Goto(p, label, l)) \/ Answer(p, l) \/ Accepted(p, l)
      BY <3>1
    <3> HIDE DEF l
    <3> QED BY <1>3, <3>2, <3>3
  <2> QED BY <2>1, <2>2
<1>6. CASE Renew(p) \/ Challenge(p) \/ Issue(p) \/ Trust(p)
  <2>1. PICK k \in {"session", "challenge", "trust"} : Draw(<<k>>)
    BY <1>6 DEF Renew, Challenge, Issue, Trust
  <2>2. fresh \in Id /\ kind'[fresh] = k
    <3>1. <<k>> \in Seq(Kinds \ {"unused"}) /\ Len(<<k>>) = 1 /\ <<k>>[1] = k
      BY DEF Kinds
    <3>2. \A i \in fresh .. fresh + Len(<<k>>) - 1 : i \in Id /\ kind'[i] = <<k>>[i - fresh + 1]
      BY <1>0, <2>1, <3>1, DrawTyped
    <3>3. fresh \in fresh .. fresh + Len(<<k>>) - 1 /\ fresh - fresh + 1 = 1
      BY <1>0, <3>1
    <3> QED BY <3>1, <3>2, <3>3
  <2>3. PICK g \in {{fresh}, local[p].got \cup {fresh}} :
           LET l == [local[p] EXCEPT !.got = g] IN
           Answer(p, l) \/ \E label \in Statements : Goto(p, label, l)
    BY <1>6 DEF Renew, Challenge, Issue, Trust, Statements
  <2> DEFINE l == [local[p] EXCEPT !.got = g]
  <2>4. l \in Local /\ l.got = g
    BY <1>0, <2>2 DEF Local
  <2>5. Answer(p, l) \/ \E label \in Statements : Goto(p, label, l)
    BY <2>3
  <2> HIDE DEF l
  <2>6. Shows(p, l)
    <3>1. PICK n : n = {fresh}
      OBVIOUS
    <3>2. /\ l.got \in {local[p].got, local[p].got \cup n, n, {}}
          /\ \A i \in n : kind'[i] \in {"session", "challenge", "trust"}
      BY <2>2, <2>4, <3>1
    <3> QED BY <2>4, <3>2, Shown
  <2> QED BY <2>4, <2>5, <2>6 DEF Hands
<1>7. CASE Resolve(p)
  <2> DEFINE b == [Blank EXCEPT !.signedIn = TRUE, !.enabled = enabled]
  <2>0. call[p].op \in AllOps \ {"sign_in"} /\ enabled \in BOOLEAN
    BY <1>0, <1>7 DEF Resolve, Fits, Typed, TypeOK, SignIn, Call
  <2>1. b \in Local /\ b.got = {}
    BY <1>0, <2>0 DEF Blank, Local
  <2>2. Goto(p, Start(call[p].op), b) \/ Goto(p, Start(call[p].op), Blank) \/ Refuse(p)
    BY <1>7 DEF Resolve
  <2>3. Start(call[p].op) \in Statements
    BY <2>0 DEF Start, AllOps, Verify, Statements
  <2> HIDE DEF b
  <2> QED BY <1>0, <1>3, <2>1, <2>2, <2>3 DEF Hands
<1>8. CASE CreateOtp(p) \/ Recount(p)
  BY <1>8 DEF Recount, Hands
<1>9. CASE ReadSecret(p) \/ Promote(p) \/ Retire(p) \/ DropRecord(p) \/ Demote(p) \/ Forget(p)
             \/ CheckRecord(p) \/ StatementFails(p)
  <2>1. \/ Refuse(p) \/ Answer(p, local[p]) \/ Accepted(p, local[p])
        \/ \E label \in Statements : Goto(p, label, local[p])
    BY <1>9 DEF ReadSecret, Promote, Retire, DropRecord, Demote, Forget, CheckRecord,
                StatementFails, Statements
  <2> QED BY <1>0, <1>3, <2>1 DEF Hands
<1> QED BY <1>4, <1>5, <1>6, <1>7, <1>8, <1>9 DEF Acts, Step

\* Nothing in the tables for x is older than the newest.
Renewed(x) ==
    /\ \A r \in otps : r.key = x => latest[x] <= r.issue
    /\ x = None => \A c \in record.codes : latest[x] <= c

\* An answer with something newer for x is that of a request at work on x.
LEMMA LatestMoves ==
    ASSUME NewestInv, NEW p \in Requests, Acts(p), UNCHANGED contested,
           NEW x \in Id \cup {None}, latest'[x] # latest[x]
    PROVE  /\ x \in Places(call[p]) /\ ~ Busy(p)' /\ latest'[x] < fresh'
           /\ x \in contested \/ Renewed(x)'
<1>0. /\ Typed /\ Rows /\ TablesTyped' /\ Settled /\ pc \in [Requests -> Statements \cup {"idle"}]
      /\ otps \subseteq OtpRow /\ local[p] \in Local
      /\ latest \in [Id \cup {None} -> Id \cup {None}] /\ Fits(pc[p], call[p], local[p])
      /\ None = 0 /\ Id \in SUBSET Nat /\ None \notin Id /\ fresh \in Nat /\ fresh' \in Nat
  <2>1. Typed /\ Rows
    BY DEF NewestInv, AcceptInv, Rows
  <2>2. TablesTyped' /\ Settled
    BY <2>1, Tables DEF Acts
  <2> QED BY <2>1, <2>2, Constant DEF Typed, TypeOK, TablesTyped, Constants, None
<1>1. CASE (\E label \in Statements, l \in Local : Goto(p, label, l)) \/ Refuse(p)
  BY <1>1 DEF Goto, Refuse, history
<1>2. ASSUME NEW l \in Local, Answer(p, l), Shows(p, l)
      PROVE  /\ x \in Places(call[p]) /\ ~ Busy(p)' /\ latest'[x] < fresh'
             /\ x \in contested \/ Renewed(x)'
  <2> DEFINE new == {i \in l.got : kind'[i] \in {"otp", "code"} /\ about'[i] = x}
  <2>1. latest'[x] = IF new = {} THEN latest[x] ELSE Min(new)
    BY <1>2 DEF Answer
  <2>2. \A i \in new : i \in Id /\ i \in l.got /\ kind'[i] = "code" /\ about'[i] = x
    BY <1>2 DEF Shows, Local
  <2>3. new # {} /\ x = None
    <3>1. new # {}
      BY <2>1
    <3> HIDE DEF new
    <3>2. PICK i \in new : TRUE
      BY <3>1
    <3>3. i \in Id /\ kind'[i] = "code" /\ about'[i] = x
      BY <2>2, <3>2
    <3>4. about'[i] = None
      BY <1>0, <3>3 DEF TablesTyped, Ids
    <3> QED BY <3>1, <3>3, <3>4
  <2>4. /\ \A i \in new : i \in l.got /\ kind'[i] = "code"
        /\ None \in Places(call[p]) /\ (None \in contested \/ record'.codes \subseteq l.got)
    <3> HIDE DEF new
    <3>1. PICK i \in new : TRUE
      BY <2>3
    <3> QED BY <1>2, <2>2, <3>1 DEF Shows
  <2>5. Min(new) \in new /\ \A i \in new : Min(new) <= i
    <3> HIDE DEF new
    <3>1. new \in SUBSET Nat
      BY <1>0, <2>2
    <3> QED BY <2>3, <3>1, Least
  <2>6. ~ Busy(p)'
    BY <1>0, <1>2 DEF Answer, Drop, Busy
  <2>7. None \in contested \/ \A c \in record'.codes : c \in new
    BY <1>0, <2>3, <2>4 DEF TablesTyped, Ids
  <2> HIDE DEF new
  <2>8. latest'[x] \in Nat /\ latest'[x] < fresh'
    <3>1. latest'[x] \in Id /\ kind'[latest'[x]] # "unused"
      BY <2>1, <2>2, <2>3, <2>5
    <3>2. \A i \in Id : i \in Nat /\ (kind'[i] # "unused" => i < fresh')
      BY <1>0 DEF TablesTyped, Ids
    <3> QED BY <3>1, <3>2
  <2>9. \A r \in otps' : r.key # x
    BY <1>0, <2>3 DEF TablesTyped, OtpRow
  <2> QED BY <2>1, <2>3, <2>4, <2>5, <2>6, <2>7, <2>8, <2>9 DEF Renewed
<1>3. CASE CreateOtp(p)
  <2> DEFINE l == [local[p] EXCEPT !.got = {fresh}]
             new == {i \in l.got : kind'[i] \in {"otp", "code"} /\ about'[i] = x}
  <2>1. /\ Answer(p, l) /\ pc[p] = "create_otp" /\ UNCHANGED record
        /\ otps' = otps \cup {[id |-> fresh, key |-> call[p].key, issue |-> fresh, tries |-> 0]}
    BY <1>3 DEF CreateOtp
  <2>2. /\ fresh \in Id /\ kind'[fresh] = "otp" /\ about'[fresh] = call[p].key
        /\ call[p].key \in Id
    BY <1>0, <1>3, OtpStored
  <2>3. l.got = {fresh}
    BY <1>0 DEF Local
  <2>4. latest'[x] = IF new = {} THEN latest[x] ELSE Min(new)
    BY <2>1 DEF Answer
  <2> HIDE DEF l
  <2>5. x = call[p].key /\ new = {fresh}
    BY <2>2, <2>3, <2>4
  <2>6. latest'[x] = fresh
    <3>1. Min({fresh}) \in {fresh}
      BY <1>0, Least
    <3> QED BY <2>4, <2>5, <3>1
  <2>7. ~ Busy(p)' /\ x \in Places(call[p]) /\ x # None
    BY <1>0, <2>1, <2>2, <2>5 DEF Answer, Drop, Busy, Places
  <2>8. fresh < fresh'
    BY <1>0, <2>2 DEF TablesTyped, Ids
  <2>9. x \notin contested => RowsOf(x) = {}
    BY <1>0, <2>1, <2>5 DEF Rows, AtRow
  <2>10. ASSUME x \notin contested, NEW r \in otps', r.key = x PROVE fresh <= r.issue
    <3>1. r \notin otps
      BY <2>9, <2>10 DEF RowsOf
    <3> QED BY <1>0, <2>1, <3>1
  <2> QED BY <2>6, <2>7, <2>8, <2>10 DEF Renewed
<1> QED BY <1>1, <1>2, <1>3, Handing DEF Hands

\* What an answer finds outdated is something the request had in hand.
LEMMA Outdating ==
    ASSUME Typed, NEW p \in Requests, Proceeds(p), NEW i \in outdated', i \notin outdated
    PROVE  i \in InHand(p) /\ Outdated(i)
<1>1. CASE \E label \in Statements, l \in Local : Goto(p, label, l)
  BY <1>1 DEF Goto, history
<1>2. CASE Refuse(p)
  BY <1>2 DEF Refuse, history
<1>3. ASSUME NEW l \in Local, Answer(p, l), Spends(p, l) PROVE i \in InHand(p) /\ Outdated(i)
  <2>1. i \in l.spent /\ Outdated(i)
    BY <1>3 DEF Answer
  <2> QED BY <1>3, <2>1 DEF Spends
<1> QED BY <1>1, <1>2, <1>3 DEF Proceeds

\* What a step leaves in the tables is not outdated.
LEMMA KeptStays ==
    ASSUME NewestInv, NEW p \in Requests, Acts(p), UNCHANGED contested
    PROVE  /\ NewestKept' /\ fresh <= fresh'
           /\ \A x \in Id \cup {None} : latest'[x] < fresh'
<1>0. /\ Typed /\ TablesTyped' /\ Settled /\ otps' \subseteq OtpRow
      /\ \A i \in Id : i \in Nat /\ about[i] \in Id \cup {None} /\ latest[about[i]] \in Nat
      /\ \A x \in Id \cup {None} : latest[x] \in Nat /\ latest[x] < fresh
      /\ fresh \in 1 .. MaxIds + 1 /\ fresh' \in 1 .. MaxIds + 1 /\ MaxIds \in Nat
      /\ Id = 1 .. MaxIds /\ NewestAt(p) /\ Unspent(p)
      /\ record' \in [secret : Id \cup {None}, codes : SUBSET Id]
  <2>1. Typed /\ Busy(p)
    BY ActsBusy DEF NewestInv, AcceptInv, Rows
  <2>2. TablesTyped' /\ Settled
    BY <2>1, Tables DEF Acts
  <2>3. /\ latest \in [Id \cup {None} -> Id \cup {None}] /\ about \in [Id -> Id \cup {None}]
        /\ Id = 1 .. MaxIds /\ MaxIds \in Nat /\ None = 0
    BY <2>1, TwoFactorAssumption DEF Typed, TypeOK, Id, None
  <2>4. \A x \in Id \cup {None} : latest[x] < fresh
    BY DEF NewestInv
  <2>5. NewestAt(p) /\ Unspent(p)
    BY <2>1 DEF NewestInv, AcceptInv
  <2>6. \A i \in Id : i \in Nat /\ about[i] \in Id \cup {None}
    BY <2>3
  <2>7. \A x \in Id \cup {None} : latest[x] \in Nat
    BY <2>3
  <2>8. fresh \in 1 .. MaxIds + 1
    BY <2>1 DEF Typed, TypeOK
  <2>9. /\ otps' \subseteq OtpRow /\ fresh' \in 1 .. MaxIds + 1
        /\ record' \in [secret : Id \cup {None}, codes : SUBSET Id]
    BY <2>2 DEF TablesTyped
  <2> QED BY <2>1, <2>2, <2>3, <2>4, <2>5, <2>6, <2>7, <2>8, <2>9
<1>1. fresh <= fresh'
  <2>1. SUFFICES ASSUME fresh' < fresh PROVE FALSE
    BY <1>0
  <2>2. fresh' \in Id /\ kind[fresh'] # "unused"
    BY <1>0, <2>1 DEF Typed, Ids
  <2>3. kind'[fresh'] = kind[fresh']
    BY <1>0, <2>2 DEF Settled
  <2> QED BY <1>0, <2>2, <2>3 DEF TablesTyped, Ids
<1>2. ASSUME NEW x \in Id \cup {None} PROVE latest'[x] < fresh'
  BY <1>0, <1>1, LatestMoves
<1>3. ASSUME NEW r \in otps' PROVE Newest(r.issue)'
  <2>1. r.issue \in Id /\ r.key \in Id /\ kind'[r.issue] = "otp" /\ about'[r.issue] = r.key
    BY <1>0 DEF TablesTyped, Ids, OtpRow
  <2>2. CASE latest'[r.key] # latest[r.key]
    <3>1. r.key \in contested \/ latest'[r.key] <= r.issue
      BY <2>1, <2>2, LatestMoves DEF Renewed
    <3> QED BY <2>1, <3>1 DEF Newest
  <2>3. CASE latest'[r.key] = latest[r.key]
    <3>1. CASE r.issue = fresh
      BY <1>0, <2>1, <2>3, <3>1 DEF Newest
    <3>2. CASE r \in otps
      <4>1. kind[r.issue] = "otp" /\ about[r.issue] = r.key /\ Newest(r.issue)
        BY <1>0, <3>2 DEF Typed, Ids, NewestInv, NewestKept
      <4> QED BY <2>1, <2>3, <4>1 DEF Newest
    <3>3. CASE pc[p] = "recount" /\ r.issue = local[p].otp.issue
      <4>1. r.issue \in InHand(p)
        BY <3>3 DEF InHand, Offered
      <4>2. kind[r.issue] # "unused"
        BY <1>0, <4>1 DEF Unspent
      <4>3. kind[r.issue] = "otp" /\ about[r.issue] = r.key
        BY <1>0, <2>1, <4>2 DEF Settled
      <4>4. Newest(r.issue)
        BY <1>0, <4>1, <4>3 DEF NewestAt
      <4> QED BY <2>1, <2>3, <4>3, <4>4 DEF Newest
    <3> QED BY <3>1, <3>2, <3>3, Additions DEF NewestInv
  <2> QED BY <2>2, <2>3
<1>4. ASSUME NEW c \in record'.codes PROVE Newest(c)'
  <2>1. c \in Id /\ kind'[c] = "code" /\ about'[c] = None
    BY <1>0 DEF TablesTyped, Ids
  <2>2. CASE latest'[None] # latest[None]
    <3>1. None \in contested \/ latest'[None] <= c
      BY <2>2, LatestMoves DEF Renewed
    <3> QED BY <2>1, <3>1 DEF Newest
  <2>3. CASE latest'[None] = latest[None]
    <3>1. CASE c >= fresh
      <4>1. latest[None] \in Nat /\ latest[None] < fresh /\ c \in Nat /\ fresh \in Nat
        <5>1. None \in Id \cup {None}
          OBVIOUS
        <5>2. latest[None] \in Nat /\ latest[None] < fresh
          BY <1>0, <5>1, Zenon
        <5>3. c \in Nat
          BY <1>0, <2>1, Zenon
        <5> QED BY <1>0, <5>2, <5>3
      <4>2. latest'[about'[c]] <= c
        BY <2>1, <2>3, <3>1, <4>1
      <4> QED BY <4>2 DEF Newest
    <3>2. CASE c \in record.codes
      <4>1. kind[c] = "code" /\ about[c] = None /\ Newest(c)
        BY <1>0, <2>1, <3>2 DEF Typed, Ids, NewestInv, NewestKept
      <4> QED BY <2>1, <2>3, <4>1 DEF Newest
    <3>3. CASE None \in contested
      BY <2>1, <3>3 DEF Newest
    <3> QED BY <3>1, <3>2, <3>3, Additions DEF NewestInv
  <2> QED BY <2>2, <2>3
<1> QED BY <1>1, <1>2, <1>3, <1>4 DEF NewestKept

LEMMA NewestStays ==
    ASSUME NewestInv, [Next]_vars
    PROVE  NewestInv'
<1>0. AcceptInv' /\ Rows /\ Typed /\ Overlap /\ contested \subseteq contested'
  BY AcceptStays, OverlapStays DEF NewestInv, AcceptInv, Rows
<1>1. CASE UNCHANGED vars
  <2>1. /\ \A i : Newest(i)' <=> Newest(i)
        /\ \A p \in Requests : InHand(p)' = InHand(p) /\ Busy(p)' = Busy(p)
        /\ \A p \in Requests : Places(call[p])' = Places(call[p])
    BY <1>1 DEF vars, store, history, Newest, InHand, Offered, Busy, Places
  <2>2. ASSUME NEW p \in Requests, Busy(p)' PROVE (NewestAt(p) /\ Showing(p))'
    BY <1>1, <2>1, <2>2 DEF NewestInv, NewestAt, Showing, vars, store
  <2>3. NewestOnly' /\ NewestKept' /\ \A i \in outdated' : kind'[i] # "unused"
    BY <1>1, <2>1 DEF NewestInv, NewestOnly, NewestKept, Place, vars, store, history
  <2>4. \A x \in Id \cup {None} : latest'[x] < fresh'
    BY <1>1 DEF NewestInv, vars, store, history
  <2> QED BY <1>0, <2>2, <2>3, <2>4 DEF NewestInv
<1>2. ASSUME NEW p \in Requests, Arrive(p) PROVE NewestInv'
  <2>1. /\ UNCHANGED <<store, local, history>>
        /\ pc'[p] \in {"load", "resolve"} /\ local[p] = Blank
        /\ \A q \in Requests \ {p} : pc'[q] = pc[q] /\ call'[q] = call[q]
    BY <1>0, <1>2 DEF Arrive, Typed, TypeOK
  <2>2. \A i : Newest(i) => Newest(i)'
    BY <1>0, <2>1 DEF store, history, Newest
  <2>3. NewestOnly' /\ NewestKept' /\ \A i \in outdated' : kind'[i] # "unused"
    BY <1>0, <2>1, <2>2 DEF NewestInv, NewestOnly, NewestKept, Place, store, history
  <2>4. ASSUME NEW q \in Requests, Busy(q)' PROVE (NewestAt(q) /\ Showing(q))'
    <3>1. CASE q = p
      <4>1. InHand(p)' = {} /\ local'[p].got = {}
        BY <2>1 DEF InHand, Offered, Blank, SignIn
      <4> QED BY <3>1, <4>1 DEF NewestAt, Showing
    <3>2. CASE q # p
      <4>1. /\ InHand(q)' = InHand(q) /\ Places(call[q])' = Places(call[q])
            /\ NewestAt(q) /\ Showing(q)
        BY <2>1, <2>4, <3>2 DEF InHand, Offered, Places, NewestInv, Busy
      <4> QED BY <1>0, <2>1, <2>2, <4>1 DEF NewestAt, Showing, store
    <3> QED BY <3>1, <3>2
  <2>5. \A x \in Id \cup {None} : latest'[x] < fresh'
    BY <2>1 DEF NewestInv, store, history
  <2> QED BY <1>0, <2>3, <2>4, <2>5 DEF NewestInv
<1>3. ASSUME NEW p \in Requests, Acts(p), UNCHANGED contested PROVE NewestInv'
  <2>1. Proceeds(p) /\ Moves(p) /\ Busy(p) /\ Settled /\ NewestAt(p) /\ Unspent(p)
    BY <1>0, <1>3, StepProceeds, StepMoves, ActsBusy, Tables DEF Acts, NewestInv, AcceptInv
  <2>2. \A i \in Id : kind[i] # "unused" => /\ kind'[i] = kind[i] /\ about'[i] = about[i]
                                            /\ Place(i)' = Place(i)
    BY <2>1 DEF Settled, Place
  <2>3. NewestKept' /\ \A x \in Id \cup {None} : latest'[x] < fresh'
    BY <1>3, KeptStays
  <2>4. \A i \in Id : /\ about[i] \in Id \cup {None}
                      /\ kind[i] \in {"otp", "code"} => Place(i) = about[i]
    BY <1>0 DEF Typed, TypeOK, Ids, Place
  <2>5. outdated \subseteq Id /\ outdated' \subseteq Id
    BY <1>0 DEF Typed, AcceptInv, Rows, TypeOK
  <2>6. ASSUME NEW i \in outdated' PROVE kind'[i] # "unused" /\ (Place(i)' \in contested)
    <3>1. CASE i \in outdated
      BY <2>2, <2>5, <3>1 DEF NewestInv, NewestOnly
    <3>2. CASE i \notin outdated
      <4>1. i \in InHand(p) /\ Outdated(i)
        BY <1>0, <2>1, <2>6, <3>2, Outdating
      <4>2. /\ i \in Id /\ kind[i] \in {"otp", "code"} /\ i < latest[about[i]] /\ Newest(i)
            /\ latest[about[i]] \in Nat /\ i \in Nat
        <5>1. i \in Id /\ i \in Nat
          BY <2>1, <4>1, Constant DEF Unspent, Constants
        <5>2. latest[about[i]] \in Nat
          <6>1. latest \in [Id \cup {None} -> Id \cup {None}] /\ None \in Nat
            BY <1>0 DEF Typed, TypeOK, None
          <6>2. about[i] \in Id \cup {None}
            BY <2>4, <5>1
          <6> QED BY <6>1, <6>2, Constant DEF Constants
        <5>3. kind[i] \in {"otp", "code"} /\ i < latest[about[i]]
          BY <4>1 DEF Outdated
        <5>4. Newest(i)
          BY <2>1, <4>1, <5>3 DEF NewestAt
        <5> QED BY <5>1, <5>2, <5>3, <5>4
      <4> QED BY <2>2, <2>4, <4>2 DEF Newest
    <3> QED BY <3>1, <3>2
  <2>7. ASSUME NEW q \in Requests \ {p}, Busy(q)' PROVE (NewestAt(q) /\ Showing(q))'
    <3>1. pc'[q] = pc[q] /\ call'[q] = call[q] /\ local'[q] = local[q]
      BY <1>0, <2>1, Apart
    <3>2. /\ Unspent(q) /\ Busy(q) /\ NewestAt(q) /\ Showing(q)
          /\ InHand(q)' = InHand(q) /\ Places(call[q])' = Places(call[q])
      BY <2>7, <3>1 DEF NewestInv, AcceptInv, Busy, InHand, Offered, Places
    <3>3. ASSUME NEW i \in InHand(q), kind'[i] \in {"otp", "code"} PROVE Newest(i)'
      <4>1. i \in Id /\ kind[i] # "unused" /\ Place(i) \in Places(call[q])
        BY <3>2, <3>3 DEF Unspent
      <4>2. kind[i] \in {"otp", "code"} /\ about'[i] = about[i] /\ Place(i) = about[i]
            /\ about[i] \in Id \cup {None} /\ Newest(i)
        BY <2>2, <2>4, <3>2, <3>3, <4>1 DEF NewestAt
      <4>3. CASE latest'[about[i]] # latest[about[i]]
        <5>1. about[i] \in Places(call[p])
          BY <1>3, <4>2, <4>3, LatestMoves
        <5>2. about[i] \in contested
          BY <1>0, <2>1, <3>2, <4>1, <4>2, <5>1, Meeting
        <5> QED BY <1>3, <4>2, <5>2 DEF Newest
      <4>4. CASE latest'[about[i]] = latest[about[i]]
        BY <1>3, <4>2, <4>4 DEF Newest
      <4> QED BY <4>3, <4>4
    <3>4. NewestAt(q)'
      BY <3>2, <3>3 DEF NewestAt
    <3>5. UNCHANGED record \/ None \in Places(call[p])
      BY <1>0, <1>3, CodesTouched
    <3>6. None \in Places(call[q]) => UNCHANGED record \/ None \in contested
      BY <1>0, <2>1, <3>2, <3>5, Meeting
    <3>7. local[q].got \subseteq Id
      BY <1>0 DEF Typed, TypeOK, Local
    <3>8. Showing(q)'
      BY <1>3, <2>2, <3>1, <3>2, <3>6, <3>7 DEF Showing
    <3> QED BY <3>4, <3>8
  <2>8. ASSUME Busy(p)' PROVE (NewestAt(p) /\ Showing(p))'
    <3>1. \A x \in Id \cup {None} : latest'[x] = latest[x]
      BY <1>3, <2>8, LatestMoves
    <3>2. /\ call'[p] = call[p] /\ Carries(p, pc'[p], local'[p])
      BY <1>0, <2>1, <2>8, Judging DEF Busy
    <3>3. ASSUME NEW i \in InHand(p)', kind'[i] \in {"otp", "code"} PROVE Newest(i)'
      <4>1. i \in InHand(p) \/ Offerable(p, i)
        BY <3>2 DEF InHand, Offered, Carries, Spends
      <4>2. i \in Id /\ kind[i] # "unused"
        BY <2>1, <4>1 DEF Unspent, Offerable
      <4>3. kind[i] \in {"otp", "code"} /\ about'[i] = about[i] /\ about[i] \in Id \cup {None}
        BY <2>2, <2>4, <3>3, <4>2
      <4>4. CASE i \in InHand(p)
        BY <1>3, <2>1, <3>1, <4>3, <4>4 DEF NewestAt, Newest
      <4>5. CASE Offerable(p, i)
        <5>1. Newest(i)
          BY <4>3, <4>5 DEF Offerable, Gone, NewestInv, NewestKept
        <5> QED BY <1>3, <3>1, <4>3, <5>1 DEF Newest
      <4> QED BY <4>1, <4>4, <4>5
    <3>4. NewestAt(p)'
      BY <3>3 DEF NewestAt
    <3>5. Shows(p, local'[p])
      <4>1. /\ pc \in [Requests -> Statements \cup {"idle"}] /\ local \in [Requests -> Local]
        BY <1>0 DEF Typed, TypeOK
      <4>2. ~ Refuse(p) /\ ~ (\E l : Answer(p, l))
        BY <2>8, <4>1 DEF Busy, Refuse, Answer, Drop
      <4>3. ~ CreateOtp(p)
        BY <4>2 DEF CreateOtp
      <4>4. PICK label \in Statements, l \in Local : Goto(p, label, l) /\ Shows(p, l)
        BY <1>3, <4>2, <4>3, Handing DEF Hands
      <4>5. local'[p] = l
        BY <4>1, <4>4 DEF Goto
      <4> QED BY <4>4, <4>5
    <3>6. Places(call[p])' = Places(call[p])
      BY <3>2 DEF Places
    <3>7. Showing(p)'
      BY <1>3, <3>5, <3>6 DEF Shows, Showing
    <3> QED BY <3>4, <3>7
  <2>9. NewestOnly'
    BY <1>3, <2>6 DEF NewestOnly
  <2> QED BY <1>0, <2>3, <2>6, <2>7, <2>8, <2>9 DEF NewestInv
<1> QED BY <1>1, <1>2, <1>3 DEF Next, Acts

\* Once a newer OTP was sent for a key, or newer backup codes were shown, no older
\* one is accepted any more, whatever requests were on their way, unless two of
\* them raced for the key or for the user's two_factor row.
THEOREM OnlyTheNewest == Spec => []NewestOnly
<1>1. ASSUME Init PROVE NewestInv
  <2>1. /\ AcceptInv /\ Typed
    <3>1. /\ \A p \in Requests : pc[p] = "idle"
          /\ \A i \in Id : honoured[i] = 0
      BY <1>1 DEF Init
    <3> QED BY <1>1, <3>1, InitRows, InitTyped DEF AcceptInv, Accounted, Busy
  <2>2. /\ otps = {} /\ outdated = {} /\ about = [i \in Id |-> None]
        /\ \A p \in Requests : pc[p] = "idle"
    BY <1>1 DEF Init
  <2>3. PICK enrolled \in BOOLEAN :
          /\ record.codes = IF enrolled THEN 3 .. BackupCodes + 2 ELSE {}
          /\ \A x \in Id \cup {None} : latest[x] = IF x = None /\ enrolled THEN 3 ELSE None
    <3>1. PICK enrolled \in BOOLEAN :
            /\ record = IF enrolled THEN [secret |-> 2, codes |-> (2 .. BackupCodes + 2) \ {2}]
                                    ELSE NoRecord
            /\ latest = [i \in Id \cup {None} |-> IF i = None /\ enrolled THEN 3 ELSE None]
      BY <1>1 DEF Init
    <3>2. (2 .. BackupCodes + 2) \ {2} = 3 .. BackupCodes + 2
      BY TwoFactorAssumption
    <3>3. record.codes = IF enrolled THEN 3 .. BackupCodes + 2 ELSE {}
      BY <3>1, <3>2 DEF NoRecord
    <3> QED BY <3>1, <3>3
  <2>4. BackupCodes \in Nat /\ BackupCodes >= 1 /\ MaxIds \in Nat /\ BackupCodes + 2 <= MaxIds
        /\ Id = 1 .. MaxIds /\ None = 0 /\ fresh \in 1 .. MaxIds + 1
    BY <2>1, TwoFactorAssumption DEF Id, None, Typed, TypeOK
  <2>5. \A x \in Id \cup {None} : latest[x] < fresh
    <3>1. enrolled => fresh > 3
      <4>1. enrolled => 3 \in record.codes /\ 3 \in Id
        BY <2>3, <2>4
      <4>2. enrolled => kind[3] = "code"
        BY <2>1, <4>1 DEF Typed, Ids
      <4> QED BY <2>1, <2>4, <4>1, <4>2 DEF Typed, Ids
    <3> QED BY <2>3, <2>4, <3>1
  <2>6. NewestKept
    BY <2>2, <2>3, <2>4 DEF NewestKept, Newest
  <2>7. NewestOnly
    BY <2>2 DEF NewestOnly
  <2> QED BY <2>1, <2>2, <2>5, <2>6, <2>7 DEF NewestInv, Busy
<1>2. NewestInv => NewestOnly
  BY DEF NewestInv
<1> QED BY <1>1, <1>2, NewestStays, PTL DEF Spec

-----------------------------------------------------------------------------
(* The number of guesses at an OTP.                                        *)

\* The guesses that can be judged form a tree: one is named by the requests whose wrong
\* guesses led to the row it is judged on, and by its own.
Nodes(n) == {s \in Seq(Requests) : Len(s) \in 1 .. n}

\* The recursive function has a value for every number of attempts.
GuessesFrom(n, f) ==
    f = [m \in 0 .. n |-> IF m = 0 THEN 0 ELSE Cardinality(Requests) * (1 + f[m - 1])]

LEMMA LeastNumber ==
    ASSUME NEW S \in SUBSET Nat, S # {}
    PROVE  \E x \in S : \A y \in S : x <= y
  BY Least

LEMMA GuessesExist ==
    ASSUME NEW n \in Nat
    PROVE  \E f : GuessesFrom(n, f)
<1> DEFINE bad == {m \in Nat : ~ \E f : GuessesFrom(m, f)}
<1>1. SUFFICES ASSUME bad # {}
               PROVE  FALSE
  OBVIOUS
<1>2. PICK m \in bad : \A y \in bad : m <= y
  <2>1. bad \in SUBSET Nat
    OBVIOUS
  <2> HIDE DEF bad
  <2> QED BY <1>1, <2>1, LeastNumber
<1>3. m \in Nat /\ ~ \E f : GuessesFrom(m, f)
  OBVIOUS
<1>4. CASE m = 0
  <2> DEFINE f == [k \in 0 .. 0 |-> 0]
  <2>1. f = [k \in 0 .. 0 |-> IF k = 0 THEN 0 ELSE Cardinality(Requests) * (1 + f[k - 1])]
    OBVIOUS
  <2> HIDE DEF f
  <2> QED BY <1>3, <1>4, <2>1 DEF GuessesFrom
<1>5. CASE m # 0
  <2>1. m - 1 \in Nat /\ m - 1 \notin bad
    BY <1>2, <1>3, <1>5
  <2>2. PICK g : GuessesFrom(m - 1, g)
    BY <2>1
  <2> DEFINE f == [k \in 0 .. m |-> IF k = 0 THEN 0 ELSE Cardinality(Requests) * (1 + g[k - 1])]
  <2>3. \A k \in 0 .. m - 1 : g[k] = IF k = 0 THEN 0 ELSE Cardinality(Requests) * (1 + g[k - 1])
    BY <2>2 DEF GuessesFrom
  <2>4. \A k \in 0 .. m - 1 : f[k] = g[k]
    BY <1>3, <2>1, <2>3
  <2>5. \A k \in 0 .. m : k # 0 => f[k - 1] = g[k - 1]
    <3>1. \A k \in 0 .. m : k # 0 => k - 1 \in 0 .. m - 1
      BY <1>3
    <3> QED BY <2>4, <3>1
  <2>6. f = [k \in 0 .. m |-> IF k = 0 THEN 0 ELSE Cardinality(Requests) * (1 + f[k - 1])]
    <3> DEFINE a(k) == IF k = 0 THEN 0 ELSE Cardinality(Requests) * (1 + g[k - 1])
               b(k) == IF k = 0 THEN 0 ELSE Cardinality(Requests) * (1 + f[k - 1])
    <3>1. \A k \in 0 .. m : a(k) = b(k)
      BY <2>5
    <3>2. f = [k \in 0 .. m |-> a(k)]
      OBVIOUS
    <3> HIDE DEF f, a, b
    <3>3. f = [k \in 0 .. m |-> b(k)]
      BY <3>1, <3>2
    <3> QED BY <3>3 DEF b
  <2> HIDE DEF f
  <2> QED BY <1>3, <2>6 DEF GuessesFrom
<1> QED BY <1>4, <1>5

LEMMA GuessesAre ==
    /\ Guesses[0] = 0
    /\ \A n \in 1 .. OtpAttempts :
          Guesses[n] = Cardinality(Requests) * (1 + Guesses[n - 1])
<1>1. GuessesFrom(OtpAttempts, Guesses)
  <2>1. \E f : f = [n \in 0 .. OtpAttempts |-> IF n = 0 THEN 0 ELSE Cardinality(Requests) * (1 + f[n - 1])]
    BY TwoFactorAssumption, GuessesExist DEF GuessesFrom
  <2> QED BY <2>1 DEF Guesses, GuessesFrom
<1>2. OtpAttempts \in Nat
  BY TwoFactorAssumption
<1>3. \A n \in 0 .. OtpAttempts :
         Guesses[n] = IF n = 0 THEN 0 ELSE Cardinality(Requests) * (1 + Guesses[n - 1])
  BY <1>1 DEF GuessesFrom
<1> QED BY <1>2, <1>3

LEMMA Scaled ==
    ASSUME NEW c \in Nat, NEW a \in Nat, NEW b \in Nat, a <= b
    PROVE  c * a <= c * b
<1>1. PICK d \in Nat : b = a + d
  <2>1. b - a \in Nat /\ b = a + (b - a)
    OBVIOUS
  <2> QED BY <2>1
<1>2. c * b = c * a + c * d
  BY <1>1
<1>3. c * d \in Nat /\ c * a \in Nat
  BY <1>1
<1> QED BY <1>2, <1>3

\* A tree that is one level deeper has, under each request, the whole of the tree
\* before and its root.
LEMMA NodesOnward ==
    ASSUME NEW n \in Nat, n # 0, IsFiniteSet(Nodes(n - 1))
    PROVE  /\ IsFiniteSet(Nodes(n))
           /\ Cardinality(Nodes(n)) <= Cardinality(Requests) * (1 + Cardinality(Nodes(n - 1)))
<1> DEFINE Roots == Nodes(n - 1) \cup {<<>>}
           Pairs == Requests \X Roots
           Child == [z \in Pairs |-> Append(z[2], z[1])]
           Below == {Child[z] : z \in Pairs}
<1>0. IsFiniteSet(Requests)
  BY TwoFactorAssumption
<1>1. <<>> \notin Nodes(n - 1)
  BY DEF Nodes
<1>2. IsFiniteSet(Roots) /\ Cardinality(Roots) = Cardinality(Nodes(n - 1)) + 1
  BY <1>1, FS_AddElement
<1>3. Roots \subseteq Seq(Requests)
  <2>1. <<>> \in Seq(Requests)
    OBVIOUS
  <2>2. Nodes(n - 1) \subseteq Seq(Requests)
    BY Zenon DEF Nodes
  <2> QED BY <2>1, <2>2, Zenon
<1>4. ASSUME NEW s \in Nodes(n) PROVE s \in Below
  <2>1. s \in Seq(Requests) /\ Len(s) \in 1 .. n /\ s # <<>>
    BY DEF Nodes
  <2>2. PICK t \in Seq(Requests), q \in Requests : s = Append(t, q)
    BY <2>1, SequenceEmptyOrAppend
  <2>3. Len(s) = Len(t) + 1 /\ Len(t) \in Nat
    BY <2>2, AppendProperties
  <2>4. t = <<>> \/ Len(t) # 0
    OBVIOUS
  <2>5. t \in Roots
    BY <2>1, <2>3, <2>4 DEF Nodes
  <2>6. <<q, t>> \in Pairs /\ Child[<<q, t>>] = s
    BY <2>2, <2>5
  <2> QED BY <2>6
<1> HIDE DEF Roots
<1>5. IsFiniteSet(Pairs) /\ Cardinality(Pairs) = Cardinality(Requests) * Cardinality(Roots)
  BY <1>0, <1>2, FS_Product
<1> HIDE DEF Pairs
<1>6. Child \in Surjection(Pairs, Below)
  BY DEF Surjection
<1> HIDE DEF Child
<1>7. IsFiniteSet(Below) /\ Cardinality(Below) <= Cardinality(Pairs)
  BY <1>5, <1>6, FS_Surjection
<1> HIDE DEF Below
<1>8. IsFiniteSet(Nodes(n)) /\ Cardinality(Nodes(n)) <= Cardinality(Below)
  BY <1>4, <1>7, FS_Subset
<1>9. /\ Cardinality(Nodes(n)) \in Nat /\ Cardinality(Below) \in Nat
      /\ Cardinality(Pairs) \in Nat /\ Cardinality(Nodes(n - 1)) \in Nat
  BY <1>5, <1>7, <1>8, FS_CardinalityType
<1> QED BY <1>2, <1>5, <1>7, <1>8, <1>9

LEMMA GuessCount ==
    \A n \in 0 .. OtpAttempts :
        /\ IsFiniteSet(Nodes(n)) /\ Guesses[n] \in Nat
        /\ Cardinality(Nodes(n)) <= Guesses[n]
<1> DEFINE Right(n) == /\ IsFiniteSet(Nodes(n)) /\ Guesses[n] \in Nat
                       /\ Cardinality(Nodes(n)) <= Guesses[n]
           bad == {n \in 0 .. OtpAttempts : ~ Right(n)}
<1>0. OtpAttempts \in Nat /\ Cardinality(Requests) \in Nat
  BY TwoFactorAssumption, FS_CardinalityType
<1>1. SUFFICES ASSUME bad # {} PROVE FALSE
  OBVIOUS
<1>2. PICK m \in bad : \A y \in bad : m <= y
  <2>1. bad \in SUBSET Nat
    BY <1>0
  <2> HIDE DEF bad
  <2> QED BY <1>1, <2>1, LeastNumber
<1>3. m \in 0 .. OtpAttempts /\ ~ Right(m)
  OBVIOUS
<1>4. CASE m = 0
  <2>1. Nodes(0) = {}
    BY DEF Nodes
  <2> QED BY <1>3, <1>4, <2>1, GuessesAre, FS_EmptySet
<1>5. CASE m # 0
  <2>1. m - 1 \in 0 .. OtpAttempts /\ m \in 1 .. OtpAttempts /\ m \in Nat
    BY <1>0, <1>3, <1>5
  <2>2. Right(m - 1)
    <3>1. ~ m <= m - 1
      BY <2>1
    <3>2. m - 1 \notin bad
      BY <1>2, <3>1
    <3> HIDE DEF Right
    <3> QED BY <2>1, <3>2
  <2>3. /\ IsFiniteSet(Nodes(m))
        /\ Cardinality(Nodes(m)) <= Cardinality(Requests) * (1 + Cardinality(Nodes(m - 1)))
    BY <1>5, <2>1, <2>2, NodesOnward
  <2>4. Guesses[m] = Cardinality(Requests) * (1 + Guesses[m - 1])
    BY <2>1, GuessesAre
  <2> DEFINE a == 1 + Cardinality(Nodes(m - 1))
             b == 1 + Guesses[m - 1]
  <2>5. a \in Nat /\ b \in Nat /\ a <= b
    BY <2>2, FS_CardinalityType
  <2>6. Cardinality(Nodes(m)) \in Nat
    BY <2>3, FS_CardinalityType
  <2>7. /\ Cardinality(Nodes(m)) <= Cardinality(Requests) * a
        /\ Guesses[m] = Cardinality(Requests) * b
    BY <2>3, <2>4
  <2> HIDE DEF a, b
  <2>8. Cardinality(Requests) * a <= Cardinality(Requests) * b
    BY <1>0, <2>5, Scaled
  <2>9. Cardinality(Requests) * a \in Nat /\ Cardinality(Requests) * b \in Nat
    BY <1>0, <2>5
  <2>10. Cardinality(Nodes(m)) <= Guesses[m] /\ Guesses[m] \in Nat
    BY <2>6, <2>7, <2>8, <2>9
  <2> QED BY <1>3, <2>3, <2>10
<1> QED BY <1>4, <1>5

\* A row that a guess of request p may yet be judged on: it is stored, or p holds a copy.
Open(p, r) ==
    r \in otps \/ (pc[p] \in {"judge", "recount"} /\ local[p].otp = r)

\* Every row is at a place of the tree of its OTP, no two at the same; the guesses
\* judged are the nodes that are done, and none of those can be judged again.
Traced(path, done) ==
    /\ path \in [Id -> Seq(Requests)] /\ done \in [Id -> SUBSET Nodes(OtpAttempts)]
    /\ \A i \in Id : /\ IsFiniteSet(done[i]) /\ Cardinality(done[i]) = answers[i]
                     /\ i >= fresh => done[i] = {}
    /\ \A i \in Id, s \in Seq(Requests), q \in Requests :
          Append(s, q) \in done[i] => s = <<>> \/ s \in done[i]
    /\ \A p \in Requests : \A r : Open(p, r) =>
          /\ r.id < fresh /\ Len(path[r.id]) = r.tries
          /\ path[r.id] = <<>> \/ path[r.id] \in done[r.issue]
          /\ Append(path[r.id], p) \notin done[r.issue]
    /\ \A p, q \in Requests : \A r, s :
          Open(p, r) /\ Open(q, s) /\ r.issue = s.issue /\ path[r.id] = path[s.id] => r = s

\* A row whose guess was found wrong is gone.
Removed == \A p \in Requests : pc[p] = "recount" => local[p].otp \notin otps

GuessInv == Typed /\ Removed /\ \E path, done : Traced(path, done)

LEMMA OpenTyped ==
    ASSUME Typed, NEW p \in Requests, NEW r, Open(p, r)
    PROVE  r \in OtpRow /\ r.issue \in Id /\ r.id \in Id /\ r.issue < fresh
<1>1. r \in OtpRow /\ kind[r.issue] = "otp"
  BY DEF Open, Typed, TypeOK, Fits, Ids
<1>2. r.issue \in Id /\ r.id \in Id
  BY <1>1 DEF OtpRow
<1>3. ~ r.issue >= fresh
  BY <1>1, <1>2 DEF Typed, Ids
<1> QED BY <1>1, <1>2, <1>3 DEF Typed, TypeOK, Id

\* Ids are only ever drawn.
LEMMA FreshGrows ==
    ASSUME Typed, Typed', Settled
    PROVE  fresh <= fresh'
<1>1. /\ fresh \in 1 .. MaxIds + 1 /\ fresh' \in 1 .. MaxIds + 1 /\ MaxIds \in Nat
      /\ \A i \in Id : kind[i] = "unused" <=> i >= fresh
      /\ \A i \in Id : kind'[i] = "unused" <=> i >= fresh'
  BY TwoFactorAssumption DEF Typed, TypeOK, Ids
<1>2. SUFFICES ASSUME fresh' < fresh PROVE FALSE
  BY <1>1
<1>3. PICK k : k = fresh'
  OBVIOUS
<1>4. k \in Id
  BY <1>1, <1>2, <1>3 DEF Id
<1>5. kind[k] # "unused" /\ kind'[k] = "unused"
  BY <1>1, <1>2, <1>3, <1>4
<1> QED BY <1>4, <1>5 DEF Settled

LEMMA TraceKept ==
    ASSUME Typed, Typed', NEW path, NEW done, Traced(path, done), UNCHANGED answers,
           fresh <= fresh', \A p \in Requests : \A r : Open(p, r)' => Open(p, r)
    PROVE  Traced(path, done)'
<1>1. fresh \in Nat /\ fresh' \in Nat /\ Id \in SUBSET Nat
  BY Constant DEF Typed, TypeOK, Constants
<1>2. \A i \in Id : (i >= fresh' => i >= fresh) /\ (i < fresh => i < fresh')
  BY <1>1
<1>3. ASSUME NEW p \in Requests, NEW r, Open(p, r)'
      PROVE  /\ r.id < fresh' /\ Len(path[r.id]) = r.tries
             /\ path[r.id] = <<>> \/ path[r.id] \in done[r.issue]
             /\ Append(path[r.id], p) \notin done[r.issue]
  <2>1. Open(p, r)
    BY <1>3
  <2>2. r.id \in Id
    BY <2>1, OpenTyped
  <2>3. r.id < fresh
    BY <2>1, Zenon DEF Traced
  <2>4. r.id < fresh'
    BY <1>2, <2>2, <2>3, Zenon
  <2> QED BY <2>1, <2>4, Zenon DEF Traced
<1>4. ASSUME NEW p \in Requests, NEW q \in Requests, NEW r, NEW s, Open(p, r)', Open(q, s)',
             r.issue = s.issue, path[r.id] = path[s.id]
      PROVE  r = s
  <2>1. Open(p, r) /\ Open(q, s)
    BY <1>4
  <2> QED BY <1>4, <2>1, Zenon DEF Traced
<1>5. /\ path \in [Id -> Seq(Requests)] /\ done \in [Id -> SUBSET Nodes(OtpAttempts)]
      /\ \A i \in Id : /\ IsFiniteSet(done[i]) /\ Cardinality(done[i]) = answers'[i]
                       /\ i >= fresh' => done[i] = {}
      /\ \A i \in Id, s \in Seq(Requests), q \in Requests :
            Append(s, q) \in done[i] => s = <<>> \/ s \in done[i]
  BY <1>2, Zenon DEF Traced
<1> QED BY <1>3, <1>4, <1>5, Zenon DEF Traced

\* A new OTP is at the root of a tree of its own.
LEMMA TraceStarted ==
    ASSUME Typed, Typed', NEW path, NEW done, Traced(path, done), UNCHANGED answers,
           NEW n, n \in OtpRow, n.id = fresh, n.issue = fresh, n.tries = 0, fresh < fresh',
           \A p \in Requests : \A r : Open(p, r)' => Open(p, r) \/ r = n
    PROVE  \E trail : Traced(trail, done)'
<1>1. fresh \in Nat /\ fresh' \in Nat /\ Id \in SUBSET Nat /\ n.id \in Id
  BY Constant DEF Typed, TypeOK, Constants, OtpRow
<1>2. PICK trail : trail = [path EXCEPT ![n.id] = <<>>]
  OBVIOUS
<1>3. path \in [Id -> Seq(Requests)] /\ <<>> \in Seq(Requests) /\ Len(<<>>) = 0
  <2>1. <<>> \in Seq(Requests) /\ Len(<<>>) = 0
    OBVIOUS
  <2> QED BY <2>1, Zenon DEF Traced
<1>4. /\ trail \in [Id -> Seq(Requests)] /\ trail[n.id] = <<>>
      /\ \A i \in Id : i # n.id => trail[i] = path[i]
  BY <1>1, <1>2, <1>3
<1>5. ASSUME NEW p \in Requests, NEW r, Open(p, r)
      PROVE  r.id \in Id /\ r.issue \in Id /\ r.id < fresh /\ r.issue < fresh
             /\ trail[r.id] = path[r.id]
  <2>1. r.id \in Id /\ r.issue \in Id /\ r.issue < fresh
    BY <1>5, OpenTyped
  <2>2. r.id < fresh
    BY <1>5, Zenon DEF Traced
  <2>3. r.id # n.id
    BY <1>1, <2>1, <2>2
  <2> QED BY <1>4, <2>1, <2>2, <2>3
<1>6. done[n.issue] = {}
  <2>1. n.issue \in Id /\ n.issue >= fresh
    BY <1>1
  <2> QED BY <2>1, Zenon DEF Traced
<1>7. ASSUME NEW p \in Requests, NEW r, Open(p, r)'
      PROVE  /\ r.id < fresh' /\ Len(trail[r.id]) = r.tries
             /\ trail[r.id] = <<>> \/ trail[r.id] \in done[r.issue]
             /\ Append(trail[r.id], p) \notin done[r.issue]
  <2>1. CASE Open(p, r)
    <3>1. r.id < fresh'
      <4>1. \A i \in Id : i < fresh => i < fresh'
        BY <1>1
      <4> QED BY <1>5, <2>1, <4>1, Zenon
    <3>2. trail[r.id] = path[r.id]
      BY <1>5, <2>1
    <3> QED BY <2>1, <3>1, <3>2, Zenon DEF Traced
  <2>2. CASE r = n
    BY <1>1, <1>3, <1>4, <1>6, <2>2
  <2> QED BY <1>7, <2>1, <2>2
<1>8. ASSUME NEW p \in Requests, NEW q \in Requests, NEW r, NEW s, Open(p, r)', Open(q, s)',
             r.issue = s.issue, trail[r.id] = trail[s.id]
      PROVE  r = s
  <2>1. CASE r = n \/ s = n
    <3>1. ASSUME NEW u, u \in {r, s}, u # n PROVE u.issue # n.issue
      <4>1. Open(p, u) \/ Open(q, u)
        BY <1>8, <3>1
      <4>2. u.issue \in Id /\ u.issue < fresh
        BY <1>5, <4>1
      <4> QED BY <1>1, <4>2
    <3> QED BY <1>8, <2>1, <3>1
  <2>2. CASE r # n /\ s # n
    <3>1. Open(p, r) /\ Open(q, s)
      BY <1>8, <2>2
    <3>2. path[r.id] = path[s.id]
      BY <1>5, <1>8, <3>1
    <3> QED BY <1>8, <3>1, <3>2, Zenon DEF Traced
  <2> QED BY <2>1, <2>2
<1>9. /\ done \in [Id -> SUBSET Nodes(OtpAttempts)]
      /\ \A i \in Id : /\ IsFiniteSet(done[i]) /\ Cardinality(done[i]) = answers'[i]
                       /\ i >= fresh' => done[i] = {}
      /\ \A i \in Id, s \in Seq(Requests), q \in Requests :
            Append(s, q) \in done[i] => s = <<>> \/ s \in done[i]
  <2>1. \A i \in Id : i >= fresh' => i >= fresh
    BY <1>1
  <2> QED BY <2>1, Zenon DEF Traced
<1>10. Traced(trail, done)'
  BY <1>4, <1>7, <1>8, <1>9, Zenon DEF Traced
<1> QED BY <1>10, Zenon

LEMMA Appended ==
    ASSUME NEW t \in Seq(Requests), NEW p \in Requests
    PROVE  /\ Append(t, p) \in Seq(Requests) /\ Append(t, p) # <<>>
           /\ Len(Append(t, p)) = Len(t) + 1 /\ Len(t) \in Nat
  BY AppendProperties

LEMMA AppendsDiffer ==
    ASSUME NEW s \in Seq(Requests), NEW t \in Seq(Requests), NEW p \in Requests,
           NEW q \in Requests, Append(s, q) = Append(t, p)
    PROVE  s = t /\ q = p
  BY AppendInjective

\* Nothing more can be judged after a step than before it, but on row n if it is new.
Adds(n) ==
    \A q \in Requests : \A s : Open(q, s)' => Open(q, s) \/ (s = n /\ fresh < fresh')

\* A guess that is judged is a node of its own, and what is stored after it is at it.
LEMMA TraceJudged ==
    ASSUME Typed, Typed', NEW path, NEW done, Traced(path, done),
           NEW p \in Requests, NEW r, Open(p, r), r.tries < OtpAttempts, ~ Open(p, r)',
           answers' = [answers EXCEPT ![r.issue] = @ + 1], fresh <= fresh',
           NEW n, n.id = fresh, n.issue = r.issue, n.tries = r.tries + 1, Adds(n)
    PROVE  \E trail, judged : Traced(trail, judged)'
<1>1. /\ fresh \in Nat /\ fresh' \in Nat /\ Id \in SUBSET Nat
      /\ \A i \in Id : (i >= fresh' => i >= fresh) /\ (i < fresh => i < fresh')
      /\ fresh < fresh' => n.id \in Id /\ n.id < fresh'
  <2>1. /\ fresh \in 1 .. MaxIds + 1 /\ fresh' \in 1 .. MaxIds + 1 /\ MaxIds \in Nat
        /\ Id \in SUBSET Nat
    BY Constant DEF Typed, TypeOK, Constants
  <2>2. fresh < fresh' => n.id \in Id
    BY <2>1 DEF Id
  <2> QED BY <2>1, <2>2
<1>b. \A q \in Requests : \A s : Open(q, s)' => Open(q, s) \/ (s = n /\ fresh < fresh')
  BY Zenon DEF Adds
<1>2. ASSUME NEW q \in Requests, NEW s, Open(q, s)
      PROVE  s.id \in Id /\ s.issue \in Id /\ s.issue < fresh /\ s.id < fresh /\ s.id # n.id
  <2>1. s.id \in Id /\ s.issue \in Id /\ s.issue < fresh
    BY <1>2, OpenTyped
  <2>2. s.id < fresh
    BY <1>2, Zenon DEF Traced
  <2> QED BY <1>1, <2>1, <2>2
<1>3. PICK t, x : t = path[r.id] /\ x = Append(t, p)
  OBVIOUS
<1>4. /\ t \in Seq(Requests) /\ Len(t) = r.tries /\ x \notin done[r.issue]
      /\ t = <<>> \/ t \in done[r.issue]
  <2>1. r.id \in Id
    BY <1>2
  <2>2. path \in [Id -> Seq(Requests)]
    BY Zenon DEF Traced
  <2>3. path[r.id] \in Seq(Requests)
    BY <2>1, <2>2
  <2> QED BY <1>3, <2>3, Zenon DEF Traced
<1>5. x \in Seq(Requests) /\ x # <<>> /\ Len(x) = r.tries + 1 /\ Len(t) \in Nat
  <2>1. /\ Append(t, p) \in Seq(Requests) /\ Append(t, p) # <<>>
        /\ Len(Append(t, p)) = Len(t) + 1 /\ Len(t) \in Nat
    BY <1>4, Appended, Zenon
  <2>2. x = Append(t, p) /\ Len(t) = r.tries
    BY <1>3, <1>4, Zenon
  <2> QED BY <2>1, <2>2, Zenon
<1>6. x \in Nodes(OtpAttempts)
  <2>1. r.tries \in Nat /\ OtpAttempts \in Nat
    BY <1>4, <1>5, TwoFactorAssumption
  <2>2. Len(x) \in 1 .. OtpAttempts
    BY <1>5, <2>1
  <2> QED BY <1>5, <2>2 DEF Nodes
<1>7. PICK trail : trail = [i \in Id |-> IF i = n.id THEN x ELSE path[i]]
  OBVIOUS
<1>8. PICK judged : judged = [i \in Id |-> IF i = r.issue THEN done[i] \cup {x} ELSE done[i]]
  OBVIOUS
<1>9. /\ path \in [Id -> Seq(Requests)] /\ done \in [Id -> SUBSET Nodes(OtpAttempts)]
      /\ \A i \in Id : /\ IsFiniteSet(done[i]) /\ Cardinality(done[i]) = answers[i]
                       /\ i >= fresh => done[i] = {}
      /\ \A i \in Id, s \in Seq(Requests), q \in Requests :
            Append(s, q) \in done[i] => s = <<>> \/ s \in done[i]
      /\ \A q \in Requests : \A s : Open(q, s) =>
            /\ Len(path[s.id]) = s.tries
            /\ path[s.id] = <<>> \/ path[s.id] \in done[s.issue]
            /\ Append(path[s.id], q) \notin done[s.issue]
      /\ \A q \in Requests, o \in Requests : \A u, s :
            Open(q, u) /\ Open(o, s) /\ u.issue = s.issue /\ path[u.id] = path[s.id] => u = s
  BY Zenon DEF Traced
<1>10. /\ trail \in [Id -> Seq(Requests)] /\ judged \in [Id -> SUBSET Nodes(OtpAttempts)]
       /\ \A i \in Id : i # n.id => trail[i] = path[i]
       /\ n.id \in Id => trail[n.id] = x
       /\ \A i \in Id : i # r.issue => judged[i] = done[i]
       /\ r.issue \in Id /\ judged[r.issue] = done[r.issue] \cup {x}
       /\ \A i \in Id : done[i] \subseteq judged[i]
  <2>1. r.issue \in Id
    BY <1>2
  <2> QED BY <1>5, <1>6, <1>7, <1>8, <1>9, <2>1
<1>a. ASSUME NEW i \in Id, NEW y \in judged[i], y \notin done[i]
      PROVE  i = r.issue /\ y = x
  BY <1>10, <1>a
<1>11. ASSUME NEW i \in Id
       PROVE  /\ IsFiniteSet(judged[i]) /\ Cardinality(judged[i]) = answers'[i]
              /\ i >= fresh' => judged[i] = {}
  <2>0. answers \in [Id -> Nat]
    BY DEF Typed, TypeOK
  <2>1. CASE i = r.issue
    <3>1. IsFiniteSet(done[i]) /\ Cardinality(done[i]) = answers[i] /\ x \notin done[i]
      BY <1>4, <1>9, <2>1
    <3>2. IsFiniteSet(done[i] \cup {x}) /\ Cardinality(done[i] \cup {x}) = answers[i] + 1
      BY <3>1, FS_AddElement
    <3>3. answers'[i] = answers[i] + 1
      BY <2>0, <2>1
    <3>4. i < fresh /\ ~ i >= fresh'
      BY <1>1, <1>2, <2>1
    <3> QED BY <1>10, <2>1, <3>2, <3>3, <3>4
  <2>2. CASE i # r.issue
    <3>1. answers'[i] = answers[i]
      BY <2>0, <2>2
    <3> QED BY <1>1, <1>9, <1>10, <2>2, <3>1
  <2> QED BY <2>1, <2>2
<1>12. ASSUME NEW i \in Id, NEW s \in Seq(Requests), NEW q \in Requests,
              Append(s, q) \in judged[i]
       PROVE  s = <<>> \/ s \in judged[i]
  <2>1. CASE Append(s, q) \in done[i]
    BY <1>9, <1>10, <2>1
  <2>2. CASE Append(s, q) \notin done[i]
    <3>1. i = r.issue /\ Append(s, q) = x
      BY <1>a, <1>12, <2>2, Zenon
    <3>2. s = t
      <4>1. Append(s, q) = Append(t, p)
        BY <1>3, <3>1, Zenon
      <4> QED BY <1>4, <4>1, AppendsDiffer, Zenon
    <3> QED BY <1>4, <1>10, <3>1, <3>2
  <2> QED BY <2>1, <2>2
<1>13. ASSUME NEW q \in Requests, NEW s, Open(q, s)'
       PROVE  /\ s.id < fresh' /\ Len(trail[s.id]) = s.tries
              /\ trail[s.id] = <<>> \/ trail[s.id] \in judged[s.issue]
              /\ Append(trail[s.id], q) \notin judged[s.issue]
  <2>1. CASE Open(q, s)
    <3>1. s.id < fresh' /\ s.issue \in Id /\ s.id \in Id
      BY <1>1, <1>2, <2>1
    <3>2. trail[s.id] = path[s.id]
      BY <1>2, <1>10, <2>1
    <3>3. /\ Len(path[s.id]) = s.tries
          /\ path[s.id] = <<>> \/ path[s.id] \in done[s.issue]
          /\ Append(path[s.id], q) \notin done[s.issue]
      BY <1>9, <2>1
    <3>4. ASSUME Append(path[s.id], q) \in judged[s.issue] PROVE FALSE
      <4>1. s.issue = r.issue /\ Append(path[s.id], q) = x
        BY <1>a, <3>1, <3>3, <3>4, Zenon
      <4>2. path[s.id] \in Seq(Requests)
        BY <1>9, <3>1
      <4>3. path[s.id] = t /\ q = p
        <5>1. Append(path[s.id], q) = Append(t, p)
          BY <1>3, <4>1, Zenon
        <5> QED BY <1>4, <4>2, <5>1, AppendsDiffer, Zenon
      <4>4. s = r
        BY <1>3, <1>9, <2>1, <4>1, <4>3
      <4> QED BY <1>13, <4>3, <4>4
    <3> QED BY <1>10, <3>1, <3>2, <3>3, <3>4
  <2>2. CASE s = n /\ fresh < fresh'
    <3>1. n.id \in Id /\ n.id < fresh' /\ trail[n.id] = x
      BY <1>1, <1>10, <2>2
    <3>2. ASSUME Append(x, q) \in judged[r.issue] PROVE FALSE
      <4>1. Append(x, q) # x
        <5>1. Len(Append(x, q)) = Len(x) + 1 /\ Len(x) \in Nat
          BY <1>5, AppendProperties
        <5> QED BY <5>1
      <4>2. Append(x, q) \in done[r.issue]
        BY <1>10, <3>2, <4>1
      <4> QED BY <1>4, <1>5, <1>9, <1>10, <4>2
    <3> QED BY <1>5, <1>10, <2>2, <3>1, <3>2
  <2> QED BY <1>b, <1>13, <2>1, <2>2
<1>14. ASSUME NEW q \in Requests, NEW o \in Requests, NEW u, NEW s, Open(q, u)', Open(o, s)',
              u.issue = s.issue, trail[u.id] = trail[s.id]
       PROVE  u = s
  <2>1. ASSUME NEW v, NEW h \in Requests, Open(h, v), v.issue = r.issue, fresh < fresh',
               trail[v.id] = trail[n.id]
        PROVE  FALSE
    <3>1. path[v.id] = x
      BY <1>1, <1>2, <1>10, <2>1
    <3> QED BY <1>4, <1>5, <1>9, <2>1, <3>1
  <2>2. CASE Open(q, u) /\ Open(o, s)
    <3>1. path[u.id] = path[s.id]
      BY <1>2, <1>10, <1>14, <2>2
    <3> QED BY <1>9, <1>14, <2>2, <3>1
  <2>3. CASE Open(q, u) /\ s = n /\ fresh < fresh'
    BY <1>14, <2>1, <2>3
  <2>4. CASE Open(o, s) /\ u = n /\ fresh < fresh'
    BY <1>14, <2>1, <2>4
  <2> QED BY <1>b, <1>14, <2>2, <2>3, <2>4
<1>15. Traced(trail, judged)'
  BY <1>10, <1>11, <1>12, <1>13, <1>14, Zenon DEF Traced
<1> QED BY <1>15, Zenon

\* Where a step leaves the request that takes it.
LEMMA Leads ==
    ASSUME Typed, NEW p \in Requests
    PROVE  /\ \A label, l : Goto(p, label, l) => pc'[p] = label /\ local'[p] = l
           /\ Refuse(p) => pc'[p] = "idle"
           /\ \A l : Answer(p, l) => pc'[p] = "idle"
           /\ \A l : Accepted(p, l) => pc'[p] \in {"issue", "promote", "idle"}
<1>0. /\ pc \in [Requests -> Statements \cup {"idle"}] /\ local \in [Requests -> Local]
  BY DEF Typed, TypeOK
<1>1. ASSUME NEW label, NEW l, Goto(p, label, l) PROVE pc'[p] = label /\ local'[p] = l
  BY <1>0, <1>1 DEF Goto
<1>2. Drop(p) => pc'[p] = "idle"
  BY <1>0 DEF Drop
<1>3. ASSUME NEW l, Answer(p, l) PROVE pc'[p] = "idle"
  BY <1>2, <1>3, Zenon DEF Answer
<1>4. Refuse(p) => pc'[p] = "idle"
  BY <1>2, Zenon DEF Refuse
<1>5. ASSUME NEW l, Accepted(p, l) PROVE pc'[p] \in {"issue", "promote", "idle"}
  <2>1. Goto(p, "issue", l) \/ Goto(p, "promote", l) \/ Answer(p, l)
    BY <1>5, Zenon DEF Accepted
  <2> QED BY <1>1, <1>3, <2>1
<1> QED BY <1>1, <1>3, <1>4, <1>5, Zenon

\* Only the statements about an OTP store a row, or have a request hold one.
LEMMA Shutting ==
    ASSUME Typed, NEW p \in Requests, Step(p) \/ StatementFails(p), ~ ReadOtp(p),
           ~ CreateOtp(p)
    PROVE  pc'[p] \notin {"judge", "recount"} /\ otps' \subseteq otps
<1>0. /\ \A label, l : Goto(p, label, l) => pc'[p] = label
      /\ Refuse(p) => pc'[p] = "idle"
      /\ \A l : Answer(p, l) => pc'[p] = "idle"
      /\ \A l : Accepted(p, l) => pc'[p] \in {"issue", "promote", "idle"}
  BY Leads, Zenon
<1>1. CASE Load(p)
  BY <1>0, <1>1 DEF Load, store
<1>2. CASE Inspect(p)
  BY <1>0, <1>2 DEF Inspect, store
<1>3. CASE Rotate(p) \/ Renew(p) \/ Challenge(p)
  BY <1>0, <1>3 DEF Rotate, Renew, Challenge
<1>4. CASE Issue(p)
  BY <1>0, <1>4 DEF Issue
<1>5. CASE Resolve(p)
  <2>1. call[p].op \in AllOps \ {"verify_otp"} \/ Start(call[p].op) = "read_otp"
    BY DEF Typed, TypeOK, Call, Start
  <2>2. Start(call[p].op) \notin {"judge", "recount"}
    BY <2>1 DEF Start, AllOps, Verify
  <2> QED BY <1>0, <1>5, <2>2 DEF Resolve, store
<1>6. CASE FindOtp(p)
  BY <1>0, <1>6 DEF FindOtp, store
<1>7. CASE ClearOtp(p)
  BY <1>0, <1>7 DEF ClearOtp, RowCleared
<1>8. CASE ReadSecret(p) \/ ReadCodes(p)
  BY <1>0, <1>8 DEF ReadSecret, ReadCodes, store
<1>9. CASE WriteCodes(p)
  BY <1>0, <1>9 DEF WriteCodes
<1>10. CASE Consume(p) \/ Trust(p)
  BY <1>0, <1>10 DEF Consume, Trust
<1>11. CASE Promote(p) \/ Retire(p)
  BY <1>0, <1>11 DEF Promote, Retire
<1>12. CASE DropRecord(p)
  BY <1>0, <1>12 DEF DropRecord
<1>13. CASE CreateRecord(p)
  BY <1>0, <1>13 DEF CreateRecord
<1>14. CASE Demote(p) \/ Forget(p)
  BY <1>0, <1>14 DEF Demote, Forget
<1>15. CASE CheckRecord(p)
  BY <1>0, <1>15 DEF CheckRecord, store
<1>16. CASE ReplaceCodes(p)
  BY <1>0, <1>16 DEF ReplaceCodes
<1>17. CASE StatementFails(p)
  <2>1. \/ \E l : Goto(p, "create_record", l)
        \/ \E l : Answer(p, l)
        \/ Refuse(p)
    BY <1>17, Zenon DEF StatementFails
  <2>2. otps' = otps
    BY <1>17 DEF StatementFails, store
  <2> QED BY <1>0, <2>1, <2>2
<1> QED BY <1>1, <1>2, <1>3, <1>4, <1>5, <1>6, <1>7, <1>8, <1>9, <1>10, <1>11, <1>12,
           <1>13, <1>14, <1>15, <1>16, <1>17 DEF Step

\* What a step of p makes judgeable is what it stores, or what it has just read.
LEMMA Opening ==
    ASSUME Typed, NEW p \in Requests, Acts(p)
    PROVE  /\ \A q \in Requests \ {p} : \A r : Open(q, r)' => Open(q, r) \/ r \in otps' \ otps
           /\ \A q \in Requests \ {p} : pc'[q] = pc[q] /\ local'[q] = local[q]
           /\ \A r : Open(p, r)' => \/ r \in otps'
                                    \/ pc'[p] \in {"judge", "recount"} /\ local'[p].otp = r
<1>1. \A q \in Requests \ {p} : pc'[q] = pc[q] /\ local'[q] = local[q]
  BY StepMoves, Apart DEF Acts
<1>2. ASSUME NEW q \in Requests \ {p}, NEW r, Open(q, r)'
      PROVE  Open(q, r) \/ r \in otps' \ otps
  BY <1>1, <1>2 DEF Open
<1> QED BY <1>1, <1>2 DEF Open

\* A step that stores no row leaves everything where it is.
LEMMA GuessesLeft ==
    ASSUME Typed, Typed', Removed, NEW path, NEW done, Traced(path, done), fresh <= fresh',
           NEW p \in Requests, Acts(p), otps' \subseteq otps, UNCHANGED answers,
           \/ pc'[p] \notin {"judge", "recount"}
           \/ pc'[p] = "judge" /\ local'[p].otp \in otps
           \/ /\ pc'[p] = "recount" /\ pc[p] = "judge"
              /\ local'[p] = local[p] /\ local[p].otp \notin otps'
    PROVE  Removed' /\ Traced(path, done)'
<1>1. /\ \A q \in Requests \ {p} : \A r : Open(q, r)' => Open(q, r)
      /\ \A q \in Requests \ {p} : pc'[q] = pc[q] /\ local'[q] = local[q]
      /\ \A r : Open(p, r)' => \/ r \in otps
                               \/ pc'[p] \in {"judge", "recount"} /\ local'[p].otp = r
  <2>1. \A r : r \notin otps' \ otps /\ (r \in otps' => r \in otps)
    OBVIOUS
  <2> QED BY <2>1, Opening, Zenon
<1>2. ASSUME NEW r, Open(p, r)' PROVE Open(p, r)
  BY <1>1, <1>2 DEF Open
<1>3. \A q \in Requests : \A r : Open(q, r)' => Open(q, r)
  BY <1>1, <1>2
<1>4. Traced(path, done)'
  BY <1>3, TraceKept
<1>5. Removed'
  <2>1. SUFFICES ASSUME NEW q \in Requests, pc'[q] = "recount"
                 PROVE  local'[q].otp \notin otps'
    BY DEF Removed
  <2>2. CASE q = p
    BY <2>1, <2>2
  <2>3. CASE q # p
    BY <1>1, <2>1, <2>3 DEF Removed
  <2> QED BY <2>2, <2>3
<1> QED BY <1>4, <1>5

\* A row that is stored is not one that a wrong guess has removed.
LEMMA RemovedStays ==
    ASSUME Typed, Removed, NEW path, NEW done, Traced(path, done),
           NEW p \in Requests, Acts(p), pc'[p] = "idle",
           NEW n, n.id = fresh, otps' \subseteq otps \cup {n}
    PROVE  Removed'
<1>1. SUFFICES ASSUME NEW q \in Requests, pc'[q] = "recount" PROVE local'[q].otp \notin otps'
  BY DEF Removed
<1>2. q # p
  BY <1>1
<1>3. pc[q] = "recount" /\ local'[q] = local[q]
  BY <1>1, <1>2, Opening
<1>4. PICK r : r = local[q].otp
  OBVIOUS
<1>5. Open(q, r) /\ r \notin otps
  BY <1>3, <1>4 DEF Open, Removed
<1>6. r.id < fresh /\ r.id \in Id
  BY <1>5, OpenTyped, Zenon DEF Traced
<1>7. r # n
  BY <1>6, Constant DEF Constants, Typed, TypeOK
<1> QED BY <1>3, <1>4, <1>5, <1>7

LEMMA GuessesGoOn ==
    ASSUME Typed, Typed', Removed, NEW path, NEW done, Traced(path, done), fresh <= fresh',
           NEW p \in Requests, Acts(p), Step(p) => UNCHANGED answers
    PROVE  Removed' /\ \E trail, judged : Traced(trail, judged)'
<1>0. /\ \A label, l : Goto(p, label, l) => pc'[p] = label /\ local'[p] = l
      /\ Refuse(p) => pc'[p] = "idle"
      /\ \A l : Answer(p, l) => pc'[p] = "idle"
      /\ \A l : Accepted(p, l) => pc'[p] \in {"issue", "promote", "idle"}
  BY Leads, Zenon
<1>k. fresh \in Nat /\ OtpAttempts \in Nat
  BY TwoFactorAssumption DEF Typed, TypeOK
<1>a. Traced(path, done)' => \E trail, judged : Traced(trail, judged)'
  BY Zenon
<1>1. CASE CreateOtp(p)
  <2>1. PICK n : n = [id |-> fresh, key |-> call[p].key, issue |-> fresh, tries |-> 0]
    OBVIOUS
  <2>2. /\ otps' = otps \cup {n} /\ pc'[p] = "idle" /\ UNCHANGED answers
        /\ fresh' = fresh + 1
    <3>1. otps' = otps \cup {n} /\ pc'[p] = "idle" /\ Draw(<<"otp">>)
      BY <1>0, <1>1, <2>1, Zenon DEF CreateOtp
    <3>2. UNCHANGED answers
      BY <1>1 DEF Step
    <3>3. fresh' = fresh + 1
      BY <3>1 DEF Draw
    <3> QED BY <3>1, <3>2, <3>3
  <2>3. n.id = fresh /\ n.issue = fresh /\ n.tries = 0
    BY <2>1
  <2>4. n \in OtpRow
    BY <2>2 DEF Typed, TypeOK
  <2>5. Removed'
    BY <2>2, <2>3, RemovedStays
  <2>6. ASSUME NEW q \in Requests, NEW r, Open(q, r)' PROVE Open(q, r) \/ r = n
    <3>1. CASE q = p
      BY <2>2, <2>6, <3>1 DEF Open
    <3>2. CASE q # p
      BY <2>2, <2>6, <3>2, Opening
    <3> QED BY <3>1, <3>2
  <2>7. \E trail : Traced(trail, done)'
    <3>1. fresh < fresh'
      BY <1>k, <2>2
    <3> QED BY <2>2, <2>3, <2>4, <2>6, <3>1, TraceStarted
  <2> QED BY <2>5, <2>7, Zenon
<1>2. CASE ReadOtp(p)
  <2>1. \/ Refuse(p)
        \/ \E r \in otps : Goto(p, "judge", [local[p] EXCEPT !.otp = r])
    BY <1>2 DEF ReadOtp, RowsOf
  <2>2. otps' = otps /\ UNCHANGED answers
    BY <1>2 DEF ReadOtp, store, Step
  <2>3. ASSUME NEW r \in otps, Goto(p, "judge", [local[p] EXCEPT !.otp = r])
        PROVE  pc'[p] = "judge" /\ local'[p].otp \in otps
    <3>1. pc'[p] = "judge" /\ local'[p] = [local[p] EXCEPT !.otp = r]
      BY <1>0, <2>3, Zenon
    <3>2. local[p] \in Local
      BY DEF Typed, TypeOK
    <3> QED BY <3>1, <3>2 DEF Local
  <2>4. pc'[p] = "idle" \/ (pc'[p] = "judge" /\ local'[p].otp \in otps)
    BY <1>0, <2>1, <2>3, Zenon
  <2>5. Removed' /\ Traced(path, done)'
    BY <2>2, <2>4, GuessesLeft
  <2> QED BY <1>a, <2>5
<1>3. CASE (Step(p) \/ StatementFails(p)) /\ ~ ReadOtp(p) /\ ~ CreateOtp(p)
  <2>1. pc'[p] \notin {"judge", "recount"} /\ otps' \subseteq otps
    BY <1>3, Shutting
  <2>2. UNCHANGED answers
    BY <1>3 DEF StatementFails
  <2>3. Removed' /\ Traced(path, done)'
    BY <2>1, <2>2, GuessesLeft
  <2> QED BY <1>a, <2>3
<1>4. CASE Judge(p)
  <2>1. PICK r : r = local[p].otp
    OBVIOUS
  <2>2. /\ pc[p] = "judge" /\ otps' = otps \ {r} /\ Open(p, r)
        /\ r \in OtpRow /\ r.tries \in Nat
    BY <1>4, <1>k, <2>1 DEF Judge, Spent, RowCleared, Open, Typed, Fits, OtpRow
  <2>3. \/ Refuse(p) /\ UNCHANGED answers
        \/ Goto(p, "recount", local[p]) /\ UNCHANGED answers
        \/ /\ ~ r.tries >= OtpAttempts /\ Judged(r.issue)
           /\ \E l : Accepted(p, l)
    BY <1>4, <2>1 DEF Judge, Verdict
  <2>4. CASE Refuse(p) /\ UNCHANGED answers
    <3>1. Removed' /\ Traced(path, done)'
      BY <1>0, <2>2, <2>4, GuessesLeft
    <3> QED BY <1>a, <3>1
  <2>5. CASE Goto(p, "recount", local[p]) /\ UNCHANGED answers
    <3>1. pc'[p] = "recount" /\ local'[p] = local[p]
      BY <1>0, <2>5, Zenon
    <3>2. otps' \subseteq otps /\ local[p].otp \notin otps'
      BY <2>1, <2>2
    <3>3. Removed' /\ Traced(path, done)'
      BY <2>2, <2>5, <3>1, <3>2, GuessesLeft
    <3> QED BY <1>a, <3>3
  <2>6. CASE ~ r.tries >= OtpAttempts /\ Judged(r.issue) /\ \E l : Accepted(p, l)
    <3>1. pc'[p] \notin {"judge", "recount"}
      BY <1>0, <2>6
    <3>2. otps' \subseteq otps /\ ~ Open(p, r)'
      BY <2>2, <3>1 DEF Open
    <3>3. ASSUME NEW q \in Requests, NEW s, Open(q, s)' PROVE Open(q, s)
      <4>1. CASE q = p
        BY <3>1, <3>2, <3>3, <4>1 DEF Open
      <4>2. CASE q # p
        BY <3>2, <3>3, <4>2, Opening
      <4> QED BY <4>1, <4>2
    <3>4. PICK n : n = [id |-> fresh, issue |-> r.issue, tries |-> r.tries + 1]
      OBVIOUS
    <3>5. n.id = fresh /\ n.issue = r.issue /\ n.tries = r.tries + 1
      BY <3>4
    <3>6. /\ r.tries < OtpAttempts
          /\ answers' = [answers EXCEPT ![r.issue] = @ + 1]
      BY <1>k, <2>2, <2>6 DEF Judged
    <3>7. Adds(n)
      BY <3>3 DEF Adds
    <3>8. \E trail, judged : Traced(trail, judged)'
      BY <2>2, <3>2, <3>5, <3>6, <3>7, TraceJudged
    <3>9. Removed'
      <4>1. SUFFICES ASSUME NEW q \in Requests, pc'[q] = "recount"
                     PROVE  local'[q].otp \notin otps'
        BY DEF Removed
      <4>2. q # p
        BY <3>1, <4>1
      <4>3. pc[q] = "recount" /\ local'[q] = local[q]
        BY <4>1, <4>2, Opening
      <4> QED BY <3>2, <4>3 DEF Removed
    <3> QED BY <3>8, <3>9
  <2> QED BY <2>3, <2>4, <2>5, <2>6
<1>5. CASE Recount(p)
  <2>1. PICK r : r = local[p].otp
    OBVIOUS
  <2>2. /\ pc[p] = "recount" /\ Open(p, r) /\ r \in OtpRow /\ r.tries \in Nat
        /\ r.tries < OtpAttempts /\ r \notin otps
    <3>1. /\ pc[p] = "recount" /\ Open(p, r) /\ r \in OtpRow /\ r.tries < OtpAttempts
          /\ r \notin otps
      BY <1>5, <2>1 DEF Recount, Open, Typed, Fits, Removed
    <3> QED BY <1>k, <3>1 DEF OtpRow
  <2>3. PICK n : n = [Counted(r) EXCEPT !.id = fresh]
    OBVIOUS
  <2>4. n.id = fresh /\ n.issue = r.issue /\ n.tries = r.tries + 1
    BY <2>2, <2>3 DEF Counted, OtpRow
  <2>5. /\ otps' = otps \cup {n} /\ pc'[p] = "idle" /\ Judged(r.issue) /\ Draw(<<"row">>)
    BY <1>0, <1>5, <2>1, <2>3, Zenon DEF Recount
  <2>6. fresh < fresh'
    <3>1. fresh' = fresh + 1
      BY <2>5 DEF Draw
    <3> QED BY <1>k, <3>1
  <2>7. Removed'
    BY <2>4, <2>5, RemovedStays
  <2>8. ~ Open(p, r)'
    <3>1. r # n
      BY <2>2, <2>4
    <3> QED BY <2>2, <2>5, <3>1 DEF Open
  <2>9. ASSUME NEW q \in Requests, NEW s, Open(q, s)'
        PROVE  Open(q, s) \/ (s = n /\ fresh < fresh')
    <3>1. CASE q = p
      BY <2>5, <2>6, <2>9, <3>1 DEF Open
    <3>2. CASE q # p
      BY <2>5, <2>6, <2>9, <3>2, Opening
    <3> QED BY <3>1, <3>2
  <2>10. answers' = [answers EXCEPT ![r.issue] = @ + 1]
    BY <2>5 DEF Judged
  <2>11. \E trail, judged : Traced(trail, judged)'
    <3>1. Adds(n)
      BY <2>9, Zenon DEF Adds
    <3> QED BY <2>2, <2>4, <2>8, <2>10, <3>1, TraceJudged
  <2> QED BY <2>7, <2>11
<1> QED BY <1>1, <1>2, <1>3, <1>4, <1>5 DEF Acts

LEMMA GuessStays ==
    ASSUME GuessInv, [Next]_vars
    PROVE  GuessInv'
<1>0. Typed /\ Typed' /\ Removed
  BY TypedStays DEF GuessInv
<1>1. PICK path, done : Traced(path, done)
  BY DEF GuessInv
<1>k. fresh \in Nat
  BY <1>0 DEF Typed, TypeOK
<1>2. CASE UNCHANGED vars
  <2>1. UNCHANGED <<otps, pc, local, answers, fresh>>
    BY <1>2 DEF vars, store
  <2>2. \A p \in Requests : \A r : Open(p, r)' => Open(p, r)
    BY <2>1 DEF Open
  <2>3. Traced(path, done)'
    BY <1>0, <1>1, <1>k, <2>1, <2>2, TraceKept
  <2>4. Removed'
    BY <1>0, <2>1 DEF Removed
  <2> QED BY <1>0, <2>3, <2>4, Zenon DEF GuessInv
<1>3. ASSUME NEW p \in Requests, Arrive(p) PROVE GuessInv'
  <2>1. /\ UNCHANGED <<otps, local, answers, fresh>>
        /\ pc'[p] \in {"load", "resolve"}
        /\ \A q \in Requests \ {p} : pc'[q] = pc[q]
    BY <1>0, <1>3 DEF Arrive, store, Typed, TypeOK
  <2>2. \A q \in Requests : pc'[q] \in {"judge", "recount"} => pc'[q] = pc[q]
    BY <2>1
  <2>3. \A q \in Requests : \A r : Open(q, r)' => Open(q, r)
    BY <2>1, <2>2 DEF Open
  <2>4. Traced(path, done)'
    BY <1>0, <1>1, <1>k, <2>1, <2>3, TraceKept
  <2>5. Removed'
    BY <1>0, <2>1, <2>2 DEF Removed
  <2> QED BY <1>0, <2>4, <2>5, Zenon DEF GuessInv
<1>4. ASSUME NEW p \in Requests, Acts(p), Step(p) => UNCHANGED answers PROVE GuessInv'
  <2>1. fresh <= fresh'
    BY <1>0, <1>4, Tables, FreshGrows DEF Acts
  <2>2. Removed' /\ \E trail, judged : Traced(trail, judged)'
    BY <1>0, <1>1, <1>4, <2>1, GuessesGoOn
  <2> QED BY <1>0, <2>2, Zenon DEF GuessInv
<1>5. ASSUME NEW p \in Requests,
             \/ Step(p) /\ UNCHANGED <<calls, answers, contested>>
             \/ (Judge(p) \/ Recount(p)) /\ UNCHANGED <<calls, contested>>
             \/ StatementFails(p) /\ UNCHANGED <<calls, contested>>
      PROVE  GuessInv'
  <2>1. Acts(p)
    BY <1>5 DEF Acts
  <2>2. Step(p) => UNCHANGED answers
    <3>1. SUFFICES ASSUME Step(p), Judge(p) \/ Recount(p) \/ StatementFails(p)
                   PROVE  UNCHANGED answers
      BY <1>5
    <3>2. pc[p] \notin {"judge", "recount"}
      BY <3>1 DEF Step, Load, Inspect, Rotate, Renew, Challenge, Issue, Resolve, FindOtp,
         ClearOtp, CreateOtp, ReadOtp, ReadSecret, ReadCodes, WriteCodes, Consume, Trust,
         Promote, Retire, DropRecord, CreateRecord, Demote, Forget, CheckRecord, ReplaceCodes
    <3> QED BY <3>1, <3>2 DEF Judge, Recount, StatementFails
  <2> QED BY <1>4, <2>1, <2>2
<1> QED BY <1>2, <1>3, <1>5 DEF Next

\* However the guesses of any number of requests race, the attempt limit bounds how
\* many are ever judged at one OTP, by the nodes of the tree its rows can make.
THEOREM GuessesAreBounded == Spec => []GuessesBounded
<1>1. ASSUME Init PROVE GuessInv
  <2>1. /\ otps = {} /\ \A p \in Requests : pc[p] = "idle"
        /\ answers = [i \in Id |-> 0]
    BY <1>1 DEF Init
  <2>2. \A p \in Requests : \A r : ~ Open(p, r)
    BY <2>1 DEF Open
  <2>3. PICK path, done : /\ path = [i \in Id |-> <<>>]
                          /\ done = [i \in Id |-> {}]
    OBVIOUS
  <2>4. /\ path \in [Id -> Seq(Requests)] /\ done \in [Id -> SUBSET Nodes(OtpAttempts)]
        /\ \A i \in Id : done[i] = {} /\ answers[i] = 0
    <3>1. <<>> \in Seq(Requests)
      OBVIOUS
    <3>2. path \in [Id -> Seq(Requests)]
      BY <2>3, <3>1, Zenon
    <3>3. done \in [Id -> SUBSET Nodes(OtpAttempts)] /\ \A i \in Id : done[i] = {}
      BY <2>3
    <3> QED BY <2>1, <3>2, <3>3
  <2>5. Traced(path, done)
    BY <2>2, <2>4, FS_EmptySet, Zenon DEF Traced
  <2>6. Typed /\ Removed
    BY <1>1, <2>1, InitTyped DEF Removed
  <2> QED BY <2>5, <2>6, Zenon DEF GuessInv
<1>2. ASSUME GuessInv PROVE GuessesBounded
  <2>1. PICK path, done : Traced(path, done)
    BY <1>2 DEF GuessInv
  <2>2. OtpAttempts \in 0 .. OtpAttempts /\ answers \in [Id -> Nat]
    BY <1>2, TwoFactorAssumption DEF GuessInv, Typed, TypeOK
  <2>3. /\ IsFiniteSet(Nodes(OtpAttempts)) /\ Guesses[OtpAttempts] \in Nat
        /\ Cardinality(Nodes(OtpAttempts)) <= Guesses[OtpAttempts]
    BY <2>2, GuessCount
  <2>4. ASSUME NEW i \in Id PROVE answers[i] <= Guesses[OtpAttempts]
    <3>1. /\ done[i] \in SUBSET Nodes(OtpAttempts) /\ Cardinality(done[i]) = answers[i]
      <4>1. done \in [Id -> SUBSET Nodes(OtpAttempts)] /\ Cardinality(done[i]) = answers[i]
        BY <2>1, Zenon DEF Traced
      <4> QED BY <4>1
    <3>2. Cardinality(done[i]) <= Cardinality(Nodes(OtpAttempts))
      BY <2>3, <3>1, FS_Subset
    <3>3. Cardinality(Nodes(OtpAttempts)) \in Nat /\ answers[i] \in Nat
      BY <2>2, <2>3, FS_CardinalityType
    <3> QED BY <2>3, <3>1, <3>2, <3>3
  <2> QED BY <2>4 DEF GuessesBounded
<1> QED BY <1>1, <1>2, GuessStays, PTL DEF Spec

=============================================================================
