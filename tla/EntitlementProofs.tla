------------------------- MODULE EntitlementProofs --------------------------
(***************************************************************************)
(* Theorems about Identity that follow a request from its arrival to its   *)
(* answer: whoever is answered was entitled to it, an address is marked    *)
(* only for who reads its mail, whoever was put out stays out, and the     *)
(* tokens kept of an account are ones its provider accepts.                *)
(***************************************************************************)
EXTENDS IdentityProofs

-----------------------------------------------------------------------------
(* Every answer is earned.                                                 *)

\* A sign-in at the provider, as opposed to a link asked for in a session.
SigningIn(c, l) == c.op \in Social /\ l.link.email = NoText

\* The statements on which a request has yet to find what entitles it to an answer.
Unreported == {"drop_state", "find_account", "find_by_report", "create_social_user"}
ReportKnown == {"create_account", "update_account", "find_account_user", "mark_reported",
                "override_verified", "override_unverified"}
Identifying == {"find_passkey", "update_passkey"}
Proving == {"check_password", "check_unverified", "find_by_email", "find_challenge",
            "check_owner", "find_link_user", "find_linked", "find_admin", "find_own_session"}
Admitting == {"check_password", "check_unverified", "issue", "find_target", "find_passkey",
              "update_passkey", "find_passkey_user"}

\* What a request may still have to show at statement x.
Unmet(x, c, l) ==
    {r \in Claims :
        \/ r = "who" /\ (x \in Identifying \/ (SigningIn(c, l) /\ x \in Unreported))
        \/ r = "proof" /\ (x \in Proving \/ (x = "find_delete_token" /\ c.op = "delete_callback"))
        \/ r = "admitted" /\ \/ x \in Admitting
                             \/ x = "drop_challenge" /\ c.op = "authenticate"
                             \/ SigningIn(c, l) /\ x \in Unreported \cup ReportKnown}

Pending == Unreported \cup ReportKnown \cup Identifying \cup Proving \cup Admitting
             \cup {"drop_challenge", "find_delete_token"}

LEMMA CredentialHolds ==
    ASSUME NEW d, NEW c, NEW l, c.op \in CredentialOps
    PROVE  /\ "who" \in Holds(d, c, l) <=>
                 /\ c.op \in SignIns => UserOf(d, l.user) \subseteq Named(d, c)
                 /\ c.op \in {"change_password", "verify_password"} =>
                       \E s \in Caller(d, c) : s.user = l.user
           /\ "proof" \in Holds(d, c, l) <=>
                 /\ c.op \in SignIns \cup {"verify_password"} => PasswordIs(d, l.user, c.secret)
                 /\ c.op = "change_password" /\ RequireCurrent => PasswordIs(d, l.user, c.secret)
                 /\ c.op = "reset" => \E v \in VerificationOf(d, c.secret, "reset") : v.about = l.user
           /\ "admitted" \in Holds(d, c, l) <=>
                 (c.op \in SignIns /\ AdminPlugin => \E u \in UserOf(d, l.user) : ~ InForce(u))
<1>1. \A r \in Claims : r \in Holds(d, c, l) <=> CredentialClaim(r, d, c, l.user)
  BY DEF Holds, CredentialOps, AdminOps, ProfileOps, PasskeyOps, SocialOps
<1> QED BY <1>1 DEF Claims, CredentialClaim, CredentialOps, SignIns

LEMMA AdminHolds ==
    ASSUME NEW d, NEW c, NEW l, c.op \in AdminOps
    PROVE  /\ "who" \in Holds(d, c, l) <=>
                 IF c.op = "stop_impersonating" THEN \E s \in Caller(d, c) : s.by # None
                 ELSE Permitted(d, c)
           /\ "proof" \in Holds(d, c, l) <=>
                 (c.op = "stop_impersonating" =>
                    \E s \in SessionOf(d, c.cookie), own \in SessionOf(d, c.target) : own.user = s.by)
           /\ "admitted" \in Holds(d, c, l) <=>
                 (c.op = "impersonate" =>
                    \E u \in UserOf(d, c.target) : ~ InForce(u) /\ (u.admin => ImpersonateAdmins))
<1>1. \A r \in Claims : r \in Holds(d, c, l) <=> AdminClaim(r, d, c)
  BY DEF Holds, CredentialOps, AdminOps, ProfileOps, PasskeyOps, SocialOps
<1> QED BY <1>1 DEF Claims, AdminClaim

LEMMA ProfileHolds ==
    ASSUME NEW d, NEW c, NEW l, c.op \in ProfileOps
    PROVE  /\ "who" \in Holds(d, c, l) <=>
                 (c.op \notin {"send_verification", "verify_email"} =>
                    \E s \in Caller(d, c) : s.user = l.user)
           /\ "proof" \in Holds(d, c, l) <=>
                 /\ c.op = "verify_email" =>
                       \E u \in UsersMailed(d, c.change.email) : l.user \in {None, u.id}
                 /\ c.op = "delete_user" /\ c.secret # None => PasswordIs(d, l.user, c.secret)
                 /\ c.op = "delete_callback" =>
                       \E v \in VerificationOf(d, c.target, "delete") : v.about = l.user
           /\ "admitted" \in Holds(d, c, l)
<1>1. \A r \in Claims : r \in Holds(d, c, l) <=> ProfileClaim(r, d, c, l.user)
  BY DEF Holds, CredentialOps, AdminOps, ProfileOps, PasskeyOps, SocialOps
<1> QED BY <1>1 DEF Claims, ProfileClaim

LEMMA PasskeyHolds ==
    ASSUME NEW d, NEW c, NEW l, c.op \in PasskeyOps
    PROVE  /\ "who" \in Holds(d, c, l) <=>
                 /\ c.op \notin {"authenticate_options", "authenticate"} =>
                       \E s \in Caller(d, c) : s.user = l.user
                 /\ c.op = "authenticate" => \E k \in PasskeyOf(d, c.target) : k.user = l.user
           /\ "proof" \in Holds(d, c, l) <=>
                 /\ c.op = "register" =>
                       \E v \in VerificationOf(d, c.secret, "register") : v.about = l.user
                 /\ c.op = "authenticate" =>
                       VerificationOf(d, c.secret, "login") # {} /\ PasskeyOf(d, c.target) # {}
                 /\ c.op = "delete_passkey" => \E k \in PasskeyOf(d, c.target) : k.user = l.user
           /\ "admitted" \in Holds(d, c, l) <=>
                 (c.op = "authenticate" /\ AdminPlugin => \E u \in UserOf(d, l.user) : ~ InForce(u))
<1>1. \A r \in Claims : r \in Holds(d, c, l) <=> PasskeyClaim(r, d, c, l.user)
  BY DEF Holds, CredentialOps, AdminOps, ProfileOps, PasskeyOps, SocialOps
<1> QED BY <1>1 DEF Claims, PasskeyClaim

LEMMA SocialHolds ==
    ASSUME NEW d, NEW c, NEW l, c.op \in SocialOps
    PROVE  /\ "who" \in Holds(d, c, l) <=>
                 /\ c.op \in Tokens \cup {"link_social", "link_id_token", "unlink"} =>
                       \E s \in Caller(d, c) : s.user = l.user
                 /\ SigningIn(c, l) =>
                       \/ l.user \in l.got
                       \/ \E a \in AccountAt(d, "social", c.target) :
                             a.user = l.user /\ a.id \notin l.got
                       \/ /\ Trusted \/ Vouched(c)
                          /\ \E u \in UsersMailed(d, c.email) :
                                u.id = l.user /\ (u.verified \/ ~ LocalVerified)
           /\ "proof" \in Holds(d, c, l) <=>
                 /\ c.op = "callback" =>
                       /\ SkipStateCheck \/ StateInCookie \/ c.flag
                       /\ \E v \in StateOf(d, c.secret) : v.about \in {None, l.user}
                 /\ c.op = "link_id_token" =>
                       \/ \E a \in AccountAt(d, "social", c.target) :
                             a.user = l.user /\ a.id \notin l.got
                       \/ LinkAllowed(c)
                 /\ c.op = "account_info" /\ c.target = None => c.change.user = l.user
           /\ "admitted" \in Holds(d, c, l) <=>
                 (SigningIn(c, l) /\ AdminPlugin => \E u \in UserOf(d, l.user) : ~ InForce(u))
<1>1. \A r \in Claims : r \in Holds(d, c, l) <=> SocialClaim(r, d, c, l)
  BY DEF Holds, CredentialOps, AdminOps, ProfileOps, PasskeyOps, SocialOps
<1> QED BY <1>1 DEF Claims, SocialClaim, SigningIn, Social, Tokens

\* A step that answers a request which has shown everything gives no undue answer.
Onward(p) ==
    /\ proven' = proven
    /\ earned[p] = Claims => undue' = undue
    /\ pc'[p] # "idle" => call'[p] = call[p]

LEMMA Onwards ==
    ASSUME Typed, NEW p \in Requests
    PROVE  /\ Refuse(p) \/ GiveUp(p) => Onward(p)
           /\ \A l : Answer(p, l) => Onward(p)
           /\ \A label, l : Goto(p, label, l) => Onward(p)
           /\ \A label, l : Continue(p, label, l) => Onward(p)
<1>0. /\ pc = [q \in Requests |-> pc[q]] /\ call = [q \in Requests |-> call[q]]
  BY DEF Typed
<1>1. Refuse(p) \/ GiveUp(p) => Onward(p)
  BY <1>0 DEF Refuse, GiveUp, Drop, history, Onward
<1>2. \A l : Answer(p, l) => Onward(p)
  BY <1>0 DEF Answer, Drop, Onward
<1>3. \A label, l : Goto(p, label, l) => Onward(p)
  BY <1>0 DEF Goto, history, Onward
<1>4. \A label, l : Continue(p, label, l) => Onward(p)
  BY <1>2, <1>3 DEF Continue
<1> QED BY <1>1, <1>2, <1>3, <1>4

LEMMA SharedOnward ==
    ASSUME Typed, NEW p \in Requests, SharedStep(p)
    PROVE  /\ Onward(p)
           /\ pc[p] \in Pending => ReadBan(p) \/ StatementFails(p)
  BY Onwards DEF SharedStep, ReadBan, LiftBanAndIssue, LiftBan, ListAccounts, DeleteOneAccount,
     DeleteUserKeys, StatementFails, Pending, Unreported, ReportKnown, Identifying, Proving, Admitting

LEMMA CredentialOnward ==
    ASSUME Typed, NEW p \in Requests, CredentialStep(p)
    PROVE  /\ Onward(p)
           /\ pc[p] \in Pending => CheckPassword(p) \/ CheckUnverified(p)
<1>1. Onward(p)
  <2>1. CASE CheckEmail(p) \/ SignUp(p) \/ CheckPassword(p) \/ CheckUnverified(p)
    BY <2>1, Onwards DEF CheckEmail, SignUp, CheckPassword, CheckUnverified
  <2>2. CASE SignIn(p) \/ StoreToken(p) \/ FindPasswordRow(p) \/ Reissue(p) \/ Reread(p)
    BY <2>2, Onwards DEF SignIn, StoreToken, FindPasswordRow, FindCredential, Reissue, Reread,
                         StoreSession
  <2>3. CASE WriteNewPassword(p) \/ AddPassword(p) \/ DeleteToken(p) \/ RevokeSessions(p)
    BY <2>3, Onwards DEF WriteNewPassword, WritePassword, AddPassword, AddCredential, DeleteToken,
                         RevokeSessions, DeleteSessions
  <2> QED BY <2>1, <2>2, <2>3 DEF CredentialStep
<1>2. pc[p] \in Pending => CheckPassword(p) \/ CheckUnverified(p)
  BY DEF CredentialStep, CheckEmail, SignUp, SignIn, StoreToken, FindPasswordRow, WriteNewPassword,
         AddPassword, DeleteToken, RevokeSessions, Reissue, Reread,
         Pending, Unreported, ReportKnown, Identifying, Proving, Admitting
<1> QED BY <1>1, <1>2

LEMMA AdminOnward ==
    ASSUME Typed, NEW p \in Requests, AdminStep(p)
    PROVE  /\ Onward(p)
           /\ pc[p] \in Pending => FindTarget(p) \/ FindAdmin(p) \/ FindOwnSession(p)
<1>1. Onward(p)
  <2>1. CASE AdminCreateUser(p) \/ CheckOwnName(p) \/ UpdateTarget(p) \/ FindTarget(p)
    BY <2>1, Onwards DEF AdminCreateUser, CheckOwnName, UpdateTarget, FindTarget
  <2>2. CASE LiftBanFirst(p) \/ Impersonate(p) \/ FindAdmin(p) \/ FindOwnSession(p)
    BY <2>2, Onwards DEF LiftBanFirst, LiftBan, Impersonate, StoreSession, FindAdmin, FindOwnSession
  <2>3. CASE EndImpersonation(p) \/ RevokeSession(p) \/ RevokeTargetSessions(p) \/ RemoveUser(p)
    BY <2>3, Onwards DEF EndImpersonation, RevokeSession, RevokeTargetSessions, DeleteSessions,
                         RemoveUser, DeleteUserRow
  <2> QED BY <2>1, <2>2, <2>3 DEF AdminStep
<1>2. pc[p] \in Pending => FindTarget(p) \/ FindAdmin(p) \/ FindOwnSession(p)
  BY DEF AdminStep, AdminCreateUser, CheckOwnName, UpdateTarget, LiftBanFirst, Impersonate,
         EndImpersonation, RevokeSession, RevokeTargetSessions, RemoveUser, DeleteUserRow,
         Pending, Unreported, ReportKnown, Identifying, Proving, Admitting
<1> QED BY <1>1, <1>2

LEMMA ProfileOnward ==
    ASSUME Typed, NEW p \in Requests, ProfileStep(p)
    PROVE  /\ Onward(p)
           /\ pc[p] \in Pending => FindByEmail(p) \/ CheckDeletionPassword(p) \/ FindDeleteToken(p)
<1>1. Onward(p)
  <2>1. CASE CheckAddress(p) \/ UpdateAddress(p) \/ MailLink(p) \/ FindByEmail(p)
    BY <2>1, Onwards DEF CheckAddress, UpdateAddress, WriteUser, MailLink, FindByEmail
  <2>2. CASE SessionForLink(p) \/ ChangeAddress(p) \/ MarkVerified(p) \/ CheckDeletionPassword(p)
    BY <2>2, Onwards DEF SessionForLink, StoreSession, ChangeAddress, MarkVerified, WriteUser,
                         CheckDeletionPassword
  <2>3. CASE StoreDeleteToken(p) \/ FindDeleteToken(p) \/ DeleteOwnSessions(p)
    BY <2>3, Onwards DEF StoreDeleteToken, FindDeleteToken, DeleteOwnSessions, DeleteSessions
  <2>4. CASE DeleteOneself(p) \/ DropDeleteToken(p) \/ CreateKey(p)
    BY <2>4, Onwards DEF DeleteOneself, DeleteUserRow, DropDeleteToken, CreateKey
  <2> QED BY <2>1, <2>2, <2>3, <2>4 DEF ProfileStep
<1>2. pc[p] \in Pending => FindByEmail(p) \/ CheckDeletionPassword(p) \/ FindDeleteToken(p)
  BY DEF ProfileStep, CheckAddress, UpdateAddress, MailLink, SessionForLink, ChangeAddress,
         MarkVerified, StoreDeleteToken, DeleteOwnSessions, DeleteOneself, DeleteUserRow,
         DropDeleteToken, CreateKey,
         Pending, Unreported, ReportKnown, Identifying, Proving, Admitting
<1> QED BY <1>1, <1>2

LEMMA PasskeyOnward ==
    ASSUME Typed, NEW p \in Requests, PasskeyStep(p)
    PROVE  /\ Onward(p)
           /\ pc[p] \in Pending => \/ FindRegistration(p) \/ FindPasskey(p) \/ WritePasskey(p)
                                   \/ FindPasskeyUser(p) \/ DropChallenge(p) \/ CheckOwner(p)
<1>1. Onward(p)
  <2>1. CASE ListPasskeys(p) \/ StoreChallenge(p) \/ FindRegistration(p) \/ StorePasskey(p)
    BY <2>1, Onwards DEF ListPasskeys, StoreChallenge, FindRegistration, StorePasskey
  <2>2. CASE FindPasskey(p) \/ WritePasskey(p) \/ FindPasskeyUser(p) \/ DropChallenge(p)
    BY <2>2, Onwards DEF FindPasskey, WritePasskey, FindPasskeyUser, DropChallenge
  <2>3. CASE SignInWithPasskey(p) \/ CheckOwner(p) \/ RemovePasskey(p)
    BY <2>3, Onwards DEF SignInWithPasskey, StoreSession, CheckOwner, RemovePasskey
  <2> QED BY <2>1, <2>2, <2>3 DEF PasskeyStep
<1>2. pc[p] \in Pending => \/ FindRegistration(p) \/ FindPasskey(p) \/ WritePasskey(p)
                           \/ FindPasskeyUser(p) \/ DropChallenge(p) \/ CheckOwner(p)
  BY DEF PasskeyStep, ListPasskeys, StoreChallenge, StorePasskey, SignInWithPasskey, RemovePasskey,
         Pending, Unreported, ReportKnown, Identifying, Proving, Admitting
<1> QED BY <1>1, <1>2

LEMMA SocialOnward ==
    ASSUME Typed, NEW p \in Requests, SocialStep(p)
    PROVE  /\ Onward(p)
           /\ pc[p] \in Pending =>
                 \/ FindLinkUser(p) \/ FindLinked(p) \/ DropState(p) \/ FindAccount(p)
                 \/ WriteTokens(p) \/ FindAccountUser(p) \/ MarkReported(p) \/ OverrideUser(p)
                 \/ FindByReport(p) \/ CreateSocialUser(p) \/ CreateSocialAccount(p)
<1>1. Onward(p)
  <2>1. CASE StoreState(p) \/ FindLinkUser(p) \/ FindLinked(p) \/ DropState(p) \/ FindAccount(p)
    BY <2>1, Onwards DEF StoreState, FindLinkUser, FindLinked, DropState, FindAccount
  <2>2. CASE WriteTokens(p) \/ FindAccountUser(p) \/ MarkReported(p) \/ OverrideUser(p)
    BY <2>2, Onwards DEF WriteTokens, FindAccountUser, MarkReported, OverrideUser, WriteUser
  <2>3. CASE FindByReport(p) \/ CreateSocialUser(p) \/ CreateSocialAccount(p) \/ SocialSession(p)
    BY <2>3, Onwards DEF FindByReport, CreateSocialUser, CreateSocialAccount, SocialSession,
                         StoreSession
  <2>4. CASE FindInfo(p) \/ FindTokens(p) \/ Exchange(p) \/ AnswerFromCookie(p)
    BY <2>4, Onwards DEF FindInfo, FindTokens, Exchange, AnswerFromCookie
  <2>5. CASE ListToUnlink(p) \/ HasPassword(p) \/ Unlink(p)
    BY <2>5, Onwards DEF ListToUnlink, HasPassword, Unlink
  <2> QED BY <2>1, <2>2, <2>3, <2>4, <2>5 DEF SocialStep
<1>2. pc[p] \in Pending =>
         \/ FindLinkUser(p) \/ FindLinked(p) \/ DropState(p) \/ FindAccount(p)
         \/ WriteTokens(p) \/ FindAccountUser(p) \/ MarkReported(p) \/ OverrideUser(p)
         \/ FindByReport(p) \/ CreateSocialUser(p) \/ CreateSocialAccount(p)
  BY DEF SocialStep, StoreState, SocialSession, FindInfo, FindTokens, Exchange, AnswerFromCookie,
         ListToUnlink, HasPassword, Unlink,
         Pending, Unreported, ReportKnown, Identifying, Proving, Admitting
<1> QED BY <1>1, <1>2

-----------------------------------------------------------------------------
(* What each of those statements finds.                                    *)

\* What a request has had so far; what is not found yet leaves a trace of it.
Yet(p) ==
    LET c == call[p]
        l == local[p]
    IN  /\ c.op = "verify_email" => "proof" \in earned[p] \/ l.user = None
        /\ c.op \in Social => "who" \in earned[p] \/ l.got = {}
        /\ c.op = "link_id_token" => "proof" \in earned[p] \/ l.got = {}
        /\ c.op = "stop_impersonating" =>
              /\ c.target \in 0 .. Len(kind)
              /\ "proof" \in earned[p] \/ OwnSessionOf(db, c.target, l.user) = {}

Due(p) ==
    pc[p] # "idle" =>
        /\ Holds(db, call[p], local[p]) \subseteq earned[p]
        /\ Claims \ Unmet(pc[p], call[p], local[p]) \subseteq earned[p]
        /\ Yet(p)

\* What a step of a request does for its own answer.
Earns(p) ==
    LET c == call[p]
        l == local'[p]
        had == earned[p] \cup Holds(db', c, l)
    IN  /\ undue' = undue
        /\ pc'[p] # "idle" =>
              /\ call'[p] = c
              /\ Claims \ Unmet(pc'[p], c, l) \subseteq had
              /\ c.op = "verify_email" => "proof" \in had \/ l.user = None
              /\ c.op \in Social => "who" \in had \/ l.got = {}
              /\ c.op = "link_id_token" => "proof" \in had \/ l.got = {}
              /\ c.op = "stop_impersonating" => "proof" \in had \/ l.user = local[p].user

\* What goes on from a request with l leaves its traces.
Traces(p, l) ==
    LET c == call[p]
        had == earned[p] \cup Holds(db', c, l)
    IN  /\ c.op \in {"verify_email", "stop_impersonating"} => "proof" \in had \/ l.user = local[p].user
        /\ c.op \in Social => "who" \in had \/ l.got = local[p].got
        /\ c.op = "link_id_token" => "proof" \in had \/ l.got = local[p].got

LEMMA Showing ==
    ASSUME Typed, NEW p \in Requests, pc[p] # "idle", Due(p)
    PROVE  /\ Refuse(p) \/ GiveUp(p) => Earns(p)
           /\ \A l : Answer(p, l)
                       /\ Unmet(pc[p], call[p], local[p]) \subseteq Holds(db, call[p], local[p])
                     => Earns(p)
           /\ \A label, l : Goto(p, label, l) /\ Traces(p, l)
                              /\ Unmet(pc[p], call[p], local[p]) \subseteq
                                    Unmet(label, call[p], l) \cup Holds(db, call[p], local[p])
                                      \cup Holds(db', call[p], l)
                            => Earns(p)
<1>0. /\ Holds(db, call[p], local[p]) \subseteq earned[p] /\ Yet(p)
      /\ Claims \ Unmet(pc[p], call[p], local[p]) \subseteq earned[p]
      /\ earned[p] \subseteq Claims
  BY DEF Due, Typed
<1>1. Refuse(p) \/ GiveUp(p) => Earns(p)
  BY Lands DEF Refuse, GiveUp, history, Earns
<1>2. ASSUME NEW l, Answer(p, l),
             Unmet(pc[p], call[p], local[p]) \subseteq Holds(db, call[p], local[p])
      PROVE  Earns(p)
  <2>1. earned[p] = Claims
    BY <1>0, <1>2
  <2> QED BY <1>2, <2>1, Lands DEF Answer, Earns
<1>3. ASSUME NEW label, NEW l, Goto(p, label, l), Traces(p, l),
             Unmet(pc[p], call[p], local[p]) \subseteq
                Unmet(label, call[p], l) \cup Holds(db, call[p], local[p]) \cup Holds(db', call[p], l)
      PROVE  Earns(p)
  <2>1. undue' = undue /\ call'[p] = call[p] /\ pc'[p] = label /\ local'[p] = l
    BY <1>3, Lands DEF history
  <2>2. Claims \ Unmet(label, call[p], l) \subseteq earned[p] \cup Holds(db', call[p], l)
    BY <1>0, <1>3
  <2> QED BY <1>0, <1>3, <2>1, <2>2 DEF Traces, Yet, Earns
<1> QED BY <1>1, <1>2, <1>3

\* A request that has nothing left to show.
LEMMA Shown ==
    ASSUME Typed, NEW p \in Requests, pc[p] # "idle", Due(p), Onward(p),
           Unmet(pc[p], call[p], local[p]) \subseteq Holds(db, call[p], local[p])
    PROVE  Earns(p)
<1>1. earned[p] = Claims
  BY DEF Due, Typed
<1>2. {"who", "proof"} \subseteq Claims
  BY DEF Claims
<1> QED BY <1>1, <1>2 DEF Onward, Earns

LEMMA NothingUnmet ==
    ASSUME NEW x, x \notin Pending, NEW c, NEW l
    PROVE  Unmet(x, c, l) = {}
  BY DEF Unmet, Pending

LEMMA CredentialEarns ==
    ASSUME Typed, NEW p \in Requests, pc[p] # "idle", Due(p),
           CheckPassword(p) \/ CheckUnverified(p)
    PROVE  Earns(p)
<1>0. At(pc[p], call[p], local[p])
  BY StillThere
<1>1. CASE CheckUnverified(p)
  BY <1>1, Showing DEF CheckUnverified
<1>2. CASE CheckPassword(p) /\ ~ PasswordRight(p)
  BY <1>2, Showing DEF CheckPassword
<1>3. CASE CheckPassword(p) /\ PasswordRight(p)
  <2>1. /\ call[p].op \in CredentialOps /\ pc[p] = "check_password"
        /\ call[p].op \in SignIns \cup {"change_password", "verify_password"}
    BY <1>0, <1>3 DEF CheckPassword, At, CredentialOps
  <2>2. "proof" \in Holds(db, call[p], local[p])
    BY <1>3, <2>1, CredentialHolds DEF PasswordRight, SignIns
  <2>3. call[p].op \notin SignIns => "admitted" \in Holds(db, call[p], local[p])
    BY <2>1, CredentialHolds
  <2>4. Unmet(pc[p], call[p], local[p]) = {"proof", "admitted"}
    BY <2>1 DEF Unmet, Claims, SigningIn, Social, SignIns, Identifying, Proving, Admitting
  <2>5. Traces(p, local[p])
    BY DEF Traces
  <2>6. CASE call[p].op = "verify_password"
    BY <1>3, <2>1, <2>2, <2>3, <2>4, <2>6, Showing DEF CheckPassword, Continue, SignIns
  <2>7. CASE call[p].op = "change_password"
    BY <1>3, <2>1, <2>2, <2>3, <2>4, <2>5, <2>7, Showing DEF CheckPassword, Continue, SignIns
  <2>8. CASE call[p].op \in SignIns
    <3>1. Goto(p, "issue", local[p])
      BY <1>3, <2>8 DEF CheckPassword, Continue, SignIns
    <3>2. "admitted" \in Unmet("issue", call[p], local[p])
      BY DEF Unmet, Claims, Admitting
    <3> QED BY <2>2, <2>4, <2>5, <3>1, <3>2, Showing
  <2> QED BY <2>1, <2>6, <2>7, <2>8
<1> QED BY <1>1, <1>2, <1>3

LEMMA Admitted ==
    ASSUME NEW d, NEW c, NEW l, c.op \in Issuing,
           ~ AdminPlugin \/ \E u \in UserOf(d, l.user) : ~ InForce(u)
    PROVE  "admitted" \in Holds(d, c, l)
<1>1. CASE c.op \in CredentialOps
  BY <1>1, CredentialHolds
<1>2. CASE c.op \in ProfileOps
  BY <1>2, ProfileHolds
<1>3. CASE c.op \in PasskeyOps
  BY <1>3, PasskeyHolds
<1>4. CASE c.op \in SocialOps
  BY <1>4, SocialHolds
<1>5. c.op \in CredentialOps \cup ProfileOps \cup PasskeyOps \cup SocialOps
  BY DEF Issuing, SignIns, Social, CredentialOps, ProfileOps, PasskeyOps, SocialOps
<1> QED BY <1>1, <1>2, <1>3, <1>4, <1>5

LEMMA SharedEarns ==
    ASSUME Typed, NEW p \in Requests, pc[p] # "idle", Due(p), ReadBan(p) \/ StatementFails(p)
    PROVE  Earns(p)
<1>0. At(pc[p], call[p], local[p])
  BY StillThere
<1>1. CASE StatementFails(p)
  BY <1>1, Showing DEF StatementFails
<1>2. CASE Refuse(p)
  BY <1>2, Showing
<1>3. CASE ReadBan(p) /\ ~ Refuse(p)
  <2>1. PICK u \in UserOf(db, local[p].user) :
           /\ ~ AdminPlugin \/ ~ u.banned \/ Lifts(u)
           /\ Goto(p, "create_session", local[p]) \/ Goto(p, "lift_ban", local[p])
    BY <1>3 DEF ReadBan
  <2>2. ~ AdminPlugin \/ ~ InForce(u)
    BY <2>1 DEF Lifts, Over, InForce
  <2>3. call[p].op \in Issuing /\ pc[p] = "issue"
    BY <1>0, <1>3 DEF ReadBan, At
  <2>4. "admitted" \in Holds(db, call[p], local[p])
    BY <2>2, <2>3, Admitted
  <2>5. Unmet(pc[p], call[p], local[p]) \subseteq {"admitted"}
    BY <2>3 DEF Unmet, Claims, Identifying, Proving, Unreported
  <2>6. Traces(p, local[p])
    BY DEF Traces
  <2> QED BY <2>1, <2>4, <2>5, <2>6, Showing
<1> QED BY <1>1, <1>2, <1>3

LEMMA AdminEarns ==
    ASSUME Typed, NEW p \in Requests, pc[p] # "idle", Due(p),
           FindTarget(p) \/ FindAdmin(p) \/ FindOwnSession(p)
    PROVE  Earns(p)
<1>0. At(pc[p], call[p], local[p]) /\ earned[p] \subseteq Claims
  BY StillThere DEF Typed
<1>1. CASE Refuse(p)
  BY <1>1, Showing
<1>2. Traces(p, local[p])
  BY DEF Traces
<1>3. CASE FindTarget(p) /\ ~ Refuse(p)
  <2>1. PICK u \in UserOf(db, call[p].target) :
           /\ call[p].op = "impersonate" => ~ InForce(u) /\ (u.admin => ImpersonateAdmins)
           /\ \E label : Goto(p, label, local[p])
    BY <1>3 DEF FindTarget
  <2>2. call[p].op \in AdminOps /\ pc[p] = "find_target"
    BY <1>0, <1>3 DEF FindTarget, At, AdminOps
  <2>3. "admitted" \in Holds(db, call[p], local[p])
    BY <2>1, <2>2, AdminHolds
  <2>4. Unmet(pc[p], call[p], local[p]) \subseteq {"admitted"}
    BY <2>2 DEF Unmet, Claims, Identifying, Proving, Unreported
  <2> QED BY <1>2, <2>1, <2>3, <2>4, Showing
<1>4. CASE FindAdmin(p) /\ ~ Refuse(p)
  <2>1. Goto(p, "find_own_session", local[p]) /\ pc[p] = "find_admin"
    BY <1>4 DEF FindAdmin
  <2>2. call[p].op = "stop_impersonating"
    BY <1>0, <2>1 DEF At
  <2>3. Unmet(pc[p], call[p], local[p]) \subseteq {"proof"}
    BY <2>1, <2>2 DEF Unmet, Claims, Identifying, Admitting, SigningIn, Social
  <2>4. "proof" \in Unmet("find_own_session", call[p], local[p])
    BY DEF Unmet, Claims, Proving
  <2> QED BY <1>2, <2>1, <2>3, <2>4, Showing
<1>5. CASE FindOwnSession(p) /\ ~ Refuse(p)
  <2>1. /\ Goto(p, "end_impersonation", local[p]) /\ pc[p] = "find_own_session"
        /\ OwnSessionOf(db, call[p].target, local[p].user) # {}
    BY <1>5 DEF FindOwnSession
  <2>2. call[p].op = "stop_impersonating"
    BY <1>0, <2>1 DEF At
  <2>3. Unmet(pc[p], call[p], local[p]) \subseteq {"proof"}
    BY <2>1, <2>2 DEF Unmet, Claims, Identifying, Admitting, SigningIn, Social
  <2>4. "proof" \in earned[p]
    BY <2>1, <2>2 DEF Due, Yet
  <2>5. earned[p] = Claims
    BY <1>0, <2>3, <2>4 DEF Due
  <2>6. undue' = undue /\ call'[p] = call[p]
    BY <2>1, Lands DEF history
  <2> QED BY <2>5, <2>6 DEF Earns, Claims
<1> QED BY <1>1, <1>3, <1>4, <1>5

LEMMA ProfileEarns ==
    ASSUME Typed, NEW p \in Requests, pc[p] # "idle", Due(p),
           FindByEmail(p) \/ CheckDeletionPassword(p) \/ FindDeleteToken(p)
    PROVE  Earns(p)
<1>0. /\ At(pc[p], call[p], local[p]) /\ Asked(call[p]) /\ earned[p] \subseteq Claims
      /\ local[p] \in Local
  BY StillThere DEF Typed
<1>1. CASE Refuse(p)
  BY <1>1, Showing
<1>2. ASSUME pc[p] \in {"check_password", "find_by_email", "find_delete_token"},
             call[p].op \in ProfileOps
      PROVE  /\ "admitted" \in Holds(db, call[p], local[p])
             /\ Unmet(pc[p], call[p], local[p]) \subseteq {"proof", "admitted"}
  <2>1. "admitted" \in Holds(db, call[p], local[p])
    BY <1>2, ProfileHolds
  <2>2. Unmet(pc[p], call[p], local[p]) \subseteq {"proof", "admitted"}
    BY <1>2 DEF Unmet, Claims, Identifying, Unreported
  <2> QED BY <2>1, <2>2
<1>3. CASE FindByEmail(p) /\ ~ Refuse(p)
  <2>1. /\ pc[p] = "find_by_email" /\ NamedByLink(call[p]) # {}
        /\ Onward(p)
    BY <1>3, Onwards DEF FindByEmail
  <2>2. call[p].op = "verify_email" /\ call[p].op \in ProfileOps
    BY <1>0, <2>1 DEF At, ProfileOps
  <2>3. "proof" \in earned[p]
    <3>1. CASE local[p].user = None
      <4>1. "proof" \in Holds(db, call[p], local[p])
        BY <2>1, <2>2, <3>1, ProfileHolds DEF NamedByLink
      <4> QED BY <2>1, <4>1 DEF Due
    <3> QED BY <2>1, <2>2, <3>1 DEF Due, Yet
  <2>4. earned[p] = Claims
    BY <1>0, <1>2, <2>1, <2>2, <2>3 DEF Due
  <2> QED BY <2>1, <2>4 DEF Onward, Earns, Claims
<1>4. CASE CheckDeletionPassword(p) /\ ~ Refuse(p)
  <2>1. /\ pc[p] = "check_password" /\ call[p].op = "delete_user" /\ PasswordRight(p)
        /\ Onward(p)
    BY <1>4, Onwards DEF CheckDeletionPassword
  <2>2. "proof" \in Holds(db, call[p], local[p])
    BY <2>1, ProfileHolds DEF PasswordRight, ProfileOps
  <2>3. call[p].op \in ProfileOps
    BY <2>1 DEF ProfileOps
  <2> QED BY <1>2, <2>1, <2>2, <2>3, Shown
<1>5. CASE FindDeleteToken(p) /\ ~ Refuse(p)
  <2>1. /\ pc[p] = "find_delete_token" /\ OwnToken(call[p].target, local[p].user) # {}
        /\ Onward(p)
    BY <1>5, Onwards DEF FindDeleteToken
  <2>2. call[p].op \in {"delete_user", "delete_callback"} /\ call[p].op \in ProfileOps
    BY <1>0, <2>1 DEF At, ProfileOps
  <2>3. CASE call[p].op = "delete_callback"
    <3>1. "proof" \in Holds(db, call[p], local[p])
      BY <2>1, <2>2, <2>3, ProfileHolds DEF OwnToken
    <3> QED BY <1>2, <2>1, <2>2, <3>1, Shown
  <2>4. CASE call[p].op = "delete_user"
    <3>1. Unmet(pc[p], call[p], local[p]) = {}
      BY <2>1, <2>4 DEF Unmet, Identifying, Proving, Admitting, SigningIn, Social
    <3> QED BY <2>1, <3>1, Shown
  <2> QED BY <2>2, <2>3, <2>4
<1> QED BY <1>1, <1>3, <1>4, <1>5

\* The copy of a passkey that a sign-in is going to write has its owner.
OwnerOf(p) ==
    pc[p] = "update_passkey" =>
        \A x \in local[p].keys : \A k \in PasskeyOf(db, x.id) : k.user = x.user

LEMMA PasskeyEarns ==
    ASSUME Typed, NEW p \in Requests, pc[p] # "idle", Due(p), CounterOf(p), OwnerOf(p),
           \/ FindRegistration(p) \/ FindPasskey(p) \/ WritePasskey(p)
           \/ FindPasskeyUser(p) \/ DropChallenge(p) \/ CheckOwner(p)
    PROVE  Earns(p)
<1>0. /\ At(pc[p], call[p], local[p]) /\ local[p] \in Local /\ db.passkeys \subseteq Passkey
      /\ db \in Database
  BY StillThere, Now DEF Database
<1>1. CASE Refuse(p)
  BY <1>1, Showing
<1>2. call[p].op \in PasskeyOps => \A l : Traces(p, l)
  BY DEF Traces, PasskeyOps, Social
<1>3. CASE FindRegistration(p) /\ ~ Refuse(p)
  <2>1. /\ pc[p] = "find_challenge" /\ call[p].op = "register"
        /\ \E v \in VerificationOf(db, call[p].secret, "register") : v.about = local[p].user
        /\ Onward(p)
    BY <1>3, Onwards DEF FindRegistration
  <2>2. "proof" \in Holds(db, call[p], local[p])
    BY <2>1, PasskeyHolds DEF PasskeyOps
  <2>3. Unmet(pc[p], call[p], local[p]) \subseteq {"proof"}
    BY <2>1 DEF Unmet, Claims, SigningIn, Social, Identifying, Admitting
  <2> QED BY <2>1, <2>2, <2>3, Shown
<1>4. CASE FindPasskey(p) /\ ~ Refuse(p)
  <2>1. PICK l : pc[p] = "find_passkey" /\ Goto(p, "update_passkey", l)
    BY <1>4 DEF FindPasskey
  <2>2. call[p].op \in PasskeyOps /\ call[p].op = "authenticate"
    BY <1>0, <2>1 DEF At, PasskeyOps
  <2>3. Unmet(pc[p], call[p], local[p]) \subseteq Unmet("update_passkey", call[p], l)
    BY <2>1, <2>2 DEF Unmet, Claims, Identifying, Proving, Admitting
  <2> QED BY <1>2, <2>1, <2>2, <2>3, Showing
<1>5. CASE WritePasskey(p) /\ ~ Refuse(p)
  <2>1. PICK k \in local[p].keys :
           /\ PasskeyOf(db, k.id) # {} /\ db' = UpdatePasskey(db, k.id, k.counter)
           /\ Goto(p, "find_passkey_user", [local[p] EXCEPT !.user = k.user])
    BY <1>5 DEF WritePasskey
  <2>2. pc[p] = "update_passkey"
    BY <1>5 DEF WritePasskey
  <2>3. call[p].op \in PasskeyOps /\ call[p].op = "authenticate" /\ k.id = call[p].target
    BY <1>0, <2>1, <2>2 DEF At, PasskeyOps, CounterOf
  <2>4. PICK j \in PasskeyOf(db, k.id) : j.user = k.user
    BY <2>1, <2>2 DEF OwnerOf
  <2>5. [j EXCEPT !.counter = k.counter] \in PasskeyOf(db', call[p].target)
    BY <1>0, <2>1, <2>3, <2>4 DEF PasskeyOf, UpdatePasskey, Database, Passkey
  <2>6. [j EXCEPT !.counter = k.counter].user = k.user
    BY <1>0, <2>4 DEF PasskeyOf, Passkey
  <2>7. [local[p] EXCEPT !.user = k.user].user = k.user
    BY <1>0 DEF Local
  <2>8. "who" \in Holds(db', call[p], [local[p] EXCEPT !.user = k.user])
    <3>1. \A l : l.user = k.user => "who" \in Holds(db', call[p], l)
      <4>1. SUFFICES ASSUME NEW l, l.user = k.user PROVE "who" \in Holds(db', call[p], l)
        OBVIOUS
      <4>2. \E n \in PasskeyOf(db', call[p].target) : n.user = l.user
        BY <2>5, <2>6, <4>1
      <4> QED BY <2>3, <4>2, PasskeyHolds
    <3> QED BY <2>7, <3>1
  <2>9. Unmet(pc[p], call[p], local[p]) \subseteq
          Unmet("find_passkey_user", call[p], [local[p] EXCEPT !.user = k.user]) \cup {"who"}
    BY <2>2 DEF Unmet, Claims, Proving, Admitting
  <2> QED BY <1>2, <2>1, <2>3, <2>8, <2>9, Showing
<1>6. CASE FindPasskeyUser(p) /\ ~ Refuse(p)
  <2>1. pc[p] = "find_passkey_user" /\ Goto(p, "drop_challenge", local[p])
    BY <1>6 DEF FindPasskeyUser
  <2>2. call[p].op \in PasskeyOps /\ call[p].op = "authenticate"
    BY <1>0, <2>1 DEF At, PasskeyOps
  <2>3. Unmet(pc[p], call[p], local[p]) \subseteq Unmet("drop_challenge", call[p], local[p])
    BY <2>1, <2>2 DEF Unmet, Claims, Identifying, Proving, Admitting, SigningIn, Social
  <2> QED BY <1>2, <2>1, <2>2, <2>3, Showing
<1>7. CASE DropChallenge(p)
  <2>1. pc[p] = "drop_challenge" /\ call[p].op \in {"register", "authenticate"} /\ Onward(p)
    BY <1>0, <1>7, Onwards DEF DropChallenge, At
  <2>2. CASE call[p].op = "register"
    <3>1. Unmet(pc[p], call[p], local[p]) = {}
      BY <2>1, <2>2 DEF Unmet, Identifying, Proving, Admitting, SigningIn, Social
    <3> QED BY <2>1, <3>1, Shown
  <2>3. CASE call[p].op = "authenticate"
    <3>1. Goto(p, "issue", local[p]) /\ call[p].op \in PasskeyOps
      BY <1>7, <2>3 DEF DropChallenge, Continue, PasskeyOps
    <3>2. Unmet(pc[p], call[p], local[p]) \subseteq Unmet("issue", call[p], local[p])
      BY <2>1, <2>3 DEF Unmet, Claims, Identifying, Proving, Admitting, SigningIn, Social
    <3> QED BY <1>2, <3>1, <3>2, Showing
  <2> QED BY <2>1, <2>2, <2>3
<1>8. CASE CheckOwner(p) /\ ~ Refuse(p)
  <2>1. /\ pc[p] = "check_owner" /\ \E k \in PasskeyOf(db, call[p].target) : k.user = local[p].user
        /\ Onward(p)
    BY <1>8, Onwards DEF CheckOwner
  <2>2. call[p].op \in PasskeyOps /\ call[p].op = "delete_passkey"
    BY <1>0, <2>1 DEF At, PasskeyOps
  <2>3. "proof" \in Holds(db, call[p], local[p])
    BY <2>1, <2>2, PasskeyHolds
  <2>4. Unmet(pc[p], call[p], local[p]) \subseteq {"proof"}
    BY <2>1, <2>2 DEF Unmet, Claims, SigningIn, Social, Identifying, Admitting
  <2> QED BY <2>1, <2>3, <2>4, Shown
<1> QED BY <1>1, <1>3, <1>4, <1>5, <1>6, <1>7, <1>8

\* What a sign-in at the provider has yet to show.
LEMMA SocialUnmet ==
    ASSUME NEW c, c.op \in Social, NEW l
    PROVE  /\ \A x \in Unreported :
                 Unmet(x, c, l) = IF l.link.email = NoText THEN {"who", "admitted"} ELSE {}
           /\ \A x \in ReportKnown :
                 Unmet(x, c, l) = IF l.link.email = NoText THEN {"admitted"} ELSE {}
           /\ Unmet("issue", c, l) = {"admitted"}
  BY DEF Unmet, Claims, SigningIn, Social, Unreported, ReportKnown, Identifying, Proving, Admitting

\* A request that goes on with what it has had and what it finds.
LEMMA Gaining ==
    ASSUME Typed, NEW p \in Requests, pc[p] # "idle", Due(p), NEW label, NEW l, Goto(p, label, l),
           Traces(p, l),
           Unmet(pc[p], call[p], local[p]) \subseteq
              Unmet(label, call[p], l) \cup earned[p] \cup Holds(db', call[p], l)
    PROVE  Earns(p)
<1>1. undue' = undue /\ call'[p] = call[p] /\ pc'[p] = label /\ local'[p] = l
  BY Lands DEF history
<1>2. Claims \ Unmet(label, call[p], l) \subseteq earned[p] \cup Holds(db', call[p], l)
  BY DEF Due
<1> QED BY <1>1, <1>2 DEF Traces, Due, Yet, Earns

LEMMA LinkEarns ==
    ASSUME Typed, NEW p \in Requests, pc[p] # "idle", Due(p), FindLinkUser(p) \/ FindLinked(p)
    PROVE  Earns(p)
<1>0. At(pc[p], call[p], local[p]) /\ earned[p] \subseteq Claims
  BY StillThere DEF Typed
<1>1. CASE Refuse(p)
  BY <1>1, Showing
<1>2. CASE FindLinkUser(p) /\ ~ Refuse(p)
  <2>1. /\ pc[p] = "find_link_user" /\ Onward(p)
        /\ call[p].op = "link_social" \/ LinkAllowed(call[p])
    BY <1>2, Onwards DEF FindLinkUser, LinkMatches
  <2>2. call[p].op \in {"link_social", "link_id_token"} /\ call[p].op \in SocialOps
    BY <1>0, <2>1 DEF At, SocialOps
  <2>3. "proof" \in Holds(db, call[p], local[p])
    BY <2>1, <2>2, SocialHolds
  <2>4. Unmet(pc[p], call[p], local[p]) \subseteq {"proof"}
    BY <2>1, <2>2 DEF Unmet, Claims, SigningIn, Social, Identifying, Admitting
  <2> QED BY <2>1, <2>3, <2>4, Shown
<1>3. CASE FindLinked(p) /\ ~ Refuse(p)
  <2>1. pc[p] = "find_linked" /\ Onward(p)
    BY <1>3, Onwards DEF FindLinked
  <2>2. call[p].op = "link_id_token" /\ call[p].op \in SocialOps
    BY <1>0, <2>1 DEF At, SocialOps
  <2>3. Unmet(pc[p], call[p], local[p]) \subseteq {"proof"}
    BY <2>1, <2>2 DEF Unmet, Claims, SigningIn, Social, Identifying, Admitting
  <2>4. CASE \E a \in AccountAt(db, "social", call[p].target) : a.user = local[p].user
    <3>1. "proof" \in earned[p]
      <4>1. CASE local[p].got = {}
        <5>1. \E a \in AccountAt(db, "social", call[p].target) :
                 a.user = local[p].user /\ a.id \notin local[p].got
          BY <2>4, <4>1
        <5>2. "proof" \in Holds(db, call[p], local[p])
          BY <2>2, <5>1, SocialHolds
        <5> QED BY <2>1, <5>2 DEF Due
      <4> QED BY <2>1, <2>2, <4>1 DEF Due, Yet
    <3>2. earned[p] = Claims
      BY <1>0, <2>1, <2>3, <3>1 DEF Due
    <3> QED BY <2>1, <3>2 DEF Onward, Earns, Claims
  <2>5. CASE ~ \E a \in AccountAt(db, "social", call[p].target) : a.user = local[p].user
    <3>1. Goto(p, "find_link_user", local[p])
      BY <1>3, <2>5 DEF FindLinked
    <3>2. "proof" \in Unmet("find_link_user", call[p], local[p])
      BY DEF Unmet, Claims, Proving
    <3>3. Traces(p, local[p])
      BY DEF Traces
    <3> QED BY <2>3, <3>1, <3>2, <3>3, Showing
  <2> QED BY <2>4, <2>5
<1> QED BY <1>1, <1>2, <1>3

\* What tells a sign-in whose account it is.
LEMMA Knowing ==
    ASSUME NEW d, NEW c, NEW l, c.op \in Social,
           \/ l.user \in l.got
           \/ \E a \in AccountAt(d, "social", c.target) : a.user = l.user /\ a.id \notin l.got
           \/ /\ Trusted \/ Vouched(c)
              /\ \E u \in UsersMailed(d, c.email) : u.id = l.user /\ (u.verified \/ ~ LocalVerified)
    PROVE  "who" \in Holds(d, c, l)
<1>1. c.op \in SocialOps /\ c.op \notin Tokens \cup {"link_social", "link_id_token", "unlink"}
  BY DEF Social, SocialOps, Tokens
<1> QED BY <1>1, SocialHolds

LEMMA ReturnEarns ==
    ASSUME Typed, NEW p \in Requests, pc[p] # "idle", Due(p),
           DropState(p) \/ FindAccount(p) \/ FindByReport(p) \/ CreateSocialUser(p)
    PROVE  Earns(p)
<1>0. /\ At(pc[p], call[p], local[p]) /\ local[p] \in Local /\ earned[p] \subseteq Claims
  BY StillThere DEF Typed
<1>1. /\ pc[p] \in {"drop_state", "find_account", "find_by_report", "create_social_user"}
      /\ pc[p] \in Unreported /\ call[p].op \in Social /\ call[p].op \in SocialOps
      /\ Onward(p)
  <2>1. pc[p] \in {"drop_state", "find_account", "find_by_report", "create_social_user"}
    BY DEF DropState, FindAccount, FindByReport, CreateSocialUser
  <2>2. Onward(p)
    BY Onwards DEF DropState, FindAccount, FindByReport, CreateSocialUser
  <2> QED BY <1>0, <2>1, <2>2 DEF At, Unreported, Social, SocialOps
<1>2. CASE Refuse(p)
  BY <1>2, Showing
<1>3. CASE local[p].link.email # NoText
  <2>1. Unmet(pc[p], call[p], local[p]) = {}
    BY <1>1, <1>3, SocialUnmet
  <2> QED BY <1>1, <2>1, Shown
<1> SUFFICES ASSUME local[p].link.email = NoText, ~ Refuse(p) PROVE Earns(p)
  BY <1>2, <1>3
<1>4. Unmet(pc[p], call[p], local[p]) = {"who", "admitted"}
  BY <1>1, SocialUnmet
\* It goes on to look for itself,
<1>5. ASSUME NEW label \in Unreported, NEW l, Goto(p, label, l),
             l.link.email = NoText, l.got = local[p].got
      PROVE  Earns(p)
  <2>1. Unmet(label, call[p], l) = {"who", "admitted"}
    BY <1>1, <1>5, SocialUnmet
  <2>2. Traces(p, l)
    BY <1>1, <1>5 DEF Traces, Social
  <2> QED BY <1>4, <1>5, <2>1, <2>2, Gaining
\* or has found who it is.
<1>6. ASSUME NEW label \in ReportKnown, NEW l, Goto(p, label, l), l.link.email = NoText,
             "who" \in earned[p] \cup Holds(db', call[p], l)
      PROVE  Earns(p)
  <2>1. Unmet(label, call[p], l) = {"admitted"}
    BY <1>1, <1>6, SocialUnmet
  <2>2. Traces(p, l)
    BY <1>1, <1>6 DEF Traces, Social
  <2> QED BY <1>4, <1>6, <2>1, <2>2, Gaining
<1>7. CASE DropState(p)
  <2>1. Goto(p, "find_account", [local[p] EXCEPT !.row = fresh])
    BY <1>7 DEF DropState
  <2>2. /\ [local[p] EXCEPT !.row = fresh].link = local[p].link
        /\ [local[p] EXCEPT !.row = fresh].got = local[p].got
    BY <1>0 DEF Local
  <2> QED BY <1>5, <2>1, <2>2 DEF Unreported
<1>8. CASE FindAccount(p)
  <2>1. pc[p] = "find_account" /\ local[p].user = None /\ db' = db
    BY <1>0, <1>8 DEF FindAccount, At
  <2>2. CASE Goto(p, "find_by_report", local[p])
    BY <1>5, <2>2 DEF Unreported
  <2>3. ASSUME NEW a \in AccountAt(db, "social", call[p].target), NEW label \in ReportKnown,
               Goto(p, label, [local[p] EXCEPT !.user = a.user, !.todo = {a.id}])
        PROVE  Earns(p)
    <3>1. \A l : l.user = a.user /\ l.got = {} => "who" \in Holds(db', call[p], l)
      <4> SUFFICES ASSUME NEW l, l.user = a.user, l.got = {}
                   PROVE  "who" \in Holds(db', call[p], l)
        OBVIOUS
      <4>1. \E b \in AccountAt(db', "social", call[p].target) : b.user = l.user /\ b.id \notin l.got
        BY <2>1
      <4> QED BY <1>1, <4>1, Knowing
    <3>2. /\ [local[p] EXCEPT !.user = a.user, !.todo = {a.id}].link = local[p].link
          /\ [local[p] EXCEPT !.user = a.user, !.todo = {a.id}].got = local[p].got
          /\ [local[p] EXCEPT !.user = a.user, !.todo = {a.id}].user = a.user
      BY <1>0 DEF Local
    <3>3. "who" \in earned[p] \/ local[p].got = {}
      BY <1>1 DEF Due, Yet
    <3> QED BY <1>6, <2>3, <3>1, <3>2, <3>3
  <2>4. \/ Goto(p, "find_by_report", local[p])
        \/ \E a \in AccountAt(db, "social", call[p].target), label \in ReportKnown :
              Goto(p, label, [local[p] EXCEPT !.user = a.user, !.todo = {a.id}])
    BY <1>8, <2>1 DEF FindAccount, ReportKnown
  <2> QED BY <2>2, <2>3, <2>4
<1>9. CASE FindByReport(p)
  <2>1. CASE Goto(p, "create_social_user", [local[p] EXCEPT !.then = "issue"])
    <3>1. /\ [local[p] EXCEPT !.then = "issue"].link = local[p].link
          /\ [local[p] EXCEPT !.then = "issue"].got = local[p].got
      BY <1>0 DEF Local
    <3> QED BY <1>5, <2>1, <3>1 DEF Unreported
  <2>2. ASSUME NEW u \in UsersMailed(db, call[p].email), Linkable(call[p], u), NEW then,
               Goto(p, "create_account", [local[p] EXCEPT !.user = u.id, !.then = then])
        PROVE  Earns(p)
    <3>1. \A l : l.user = u.id => "who" \in Holds(db, call[p], l)
      <4> SUFFICES ASSUME NEW l, l.user = u.id PROVE "who" \in Holds(db, call[p], l)
        OBVIOUS
      <4>1. /\ Trusted \/ Vouched(call[p])
            /\ u.verified \/ ~ LocalVerified
        BY <2>2, SocialAssumption DEF Linkable, LinkAllowed
      <4> QED BY <1>1, <4>1, Knowing
    <3>2. /\ [local[p] EXCEPT !.user = u.id, !.then = then].link = local[p].link
          /\ [local[p] EXCEPT !.user = u.id, !.then = then].user = u.id
      BY <1>0 DEF Local
    <3>3. db' = db
      BY <1>9 DEF FindByReport
    <3> QED BY <1>6, <2>2, <3>1, <3>2, <3>3 DEF ReportKnown
  <2> QED BY <1>9, <2>1, <2>2 DEF FindByReport
<1>10. CASE CreateSocialUser(p)
  <2>1. Goto(p, "create_account", [local[p] EXCEPT !.user = fresh, !.got = {fresh}])
    BY <1>10 DEF CreateSocialUser
  <2>2. \A l : l.user = fresh /\ l.got = {fresh} => "who" \in Holds(db', call[p], l)
    BY <1>1, Knowing
  <2>3. /\ [local[p] EXCEPT !.user = fresh, !.got = {fresh}].link = local[p].link
        /\ [local[p] EXCEPT !.user = fresh, !.got = {fresh}].user = fresh
        /\ [local[p] EXCEPT !.user = fresh, !.got = {fresh}].got = {fresh}
    BY <1>0 DEF Local
  <2> QED BY <1>6, <2>1, <2>2, <2>3 DEF ReportKnown
<1> QED BY <1>7, <1>8, <1>9, <1>10

LEMMA ReportEarns ==
    ASSUME Typed, NEW p \in Requests, pc[p] # "idle", Due(p),
           \/ WriteTokens(p) \/ FindAccountUser(p) \/ MarkReported(p) \/ OverrideUser(p)
           \/ CreateSocialAccount(p)
    PROVE  Earns(p)
<1>0. /\ At(pc[p], call[p], local[p]) /\ local[p] \in Local /\ earned[p] \subseteq Claims
  BY StillThere DEF Typed
<1>1. /\ pc[p] \in {"update_account", "find_account_user", "mark_reported", "override_verified",
                    "override_unverified", "create_account"}
      /\ pc[p] \in ReportKnown /\ Onward(p)
  <2>1. pc[p] \in {"update_account", "find_account_user", "mark_reported", "override_verified",
                    "override_unverified", "create_account"}
    BY DEF WriteTokens, FindAccountUser, MarkReported, OverrideUser, CreateSocialAccount
  <2>2. Onward(p)
    BY Onwards DEF WriteTokens, FindAccountUser, MarkReported, OverrideUser, CreateSocialAccount,
                   WriteUser
  <2> QED BY <2>1, <2>2 DEF ReportKnown
<1>2. CASE Refuse(p) \/ GiveUp(p)
  BY <1>2, Showing
<1>3. CASE ~ SigningIn(call[p], local[p])
  <2>1. Unmet(pc[p], call[p], local[p]) = {}
    BY <1>1, <1>3 DEF Unmet, Identifying, Proving, Admitting
  <2> QED BY <1>1, <2>1, Shown
<1> SUFFICES ASSUME SigningIn(call[p], local[p]), ~ Refuse(p), ~ GiveUp(p) PROVE Earns(p)
  BY <1>2, <1>3
<1>4. /\ call[p].op \in Social /\ local[p].link.email = NoText
      /\ Unmet(pc[p], call[p], local[p]) = {"admitted"}
  BY <1>1, SocialUnmet DEF SigningIn
<1>5. "who" \in earned[p]
  BY <1>4 DEF Due, Claims
<1>6. ASSUME NEW label \in ReportKnown \cup {"issue"}, NEW l, Goto(p, label, l),
             l.link.email = NoText
      PROVE  Earns(p)
  <2>1. Unmet(label, call[p], l) = {"admitted"}
    BY <1>4, <1>6, SocialUnmet
  <2>2. Traces(p, l)
    BY <1>4, <1>5 DEF Traces, Social
  <2> QED BY <1>4, <1>6, <2>1, <2>2, Gaining
<1>7. CASE WriteTokens(p)
  <2>1. SignsIn(p)
    BY <1>4 DEF SignsIn, Refreshes, Social
  <2>2. Goto(p, "find_account_user", local[p])
    BY <1>7, <2>1 DEF WriteTokens, Continue
  <2> QED BY <1>4, <1>6, <2>2 DEF ReportKnown
<1>8. CASE FindAccountUser(p) \/ MarkReported(p) \/ OverrideUser(p)
  <2>1. /\ \A c, u, verified : Overrides(c, u, verified) \in (ReportKnown \cup {"issue"}) \ {"answer"}
        /\ \A c, u : ThenFor(c, u) \in (ReportKnown \cup {"issue"}) \ {"answer"}
    BY DEF Overrides, ThenFor, ReportKnown
  <2>2. \E label \in ReportKnown \cup {"issue"} : Goto(p, label, local[p])
    BY <1>8, <2>1 DEF FindAccountUser, MarkReported, OverrideUser, WriteUser, Continue
  <2> QED BY <1>4, <1>6, <2>2
<1>9. CASE CreateSocialAccount(p)
  <2>1. pc[p] = "create_account"
    BY <1>9 DEF CreateSocialAccount
  <2>2. local[p].then \in (ReportKnown \cup {"issue"}) \ {"answer"}
    BY <1>0, <1>4, <2>1 DEF At, ReportKnown
  <2>3. Goto(p, local[p].then,
             [local[p] EXCEPT !.got = @ \cup {fresh}, !.todo = {fresh}])
    BY <1>9, <2>2 DEF CreateSocialAccount, Continue
  <2>4. [local[p] EXCEPT !.got = @ \cup {fresh}, !.todo = {fresh}].link = local[p].link
    BY <1>0 DEF Local
  <2> QED BY <1>4, <1>6, <2>2, <2>3, <2>4
<1> QED BY <1>1, <1>7, <1>8, <1>9

\* Whatever its statement finds, a request has a right to what it says.
LEMMA StepsEarn ==
    ASSUME Typed, NEW p \in Requests, pc[p] # "idle", Due(p), CounterOf(p), OwnerOf(p), Step(p)
    PROVE  Earns(p)
<1>1. ASSUME pc[p] \notin Pending, Onward(p) PROVE Earns(p)
  BY <1>1, NothingUnmet, Shown
<1>2. CASE SharedStep(p)
  BY <1>1, <1>2, SharedOnward, SharedEarns
<1>3. CASE CredentialStep(p)
  BY <1>1, <1>3, CredentialOnward, CredentialEarns
<1>4. CASE AdminStep(p)
  BY <1>1, <1>4, AdminOnward, AdminEarns
<1>5. CASE ProfileStep(p)
  BY <1>1, <1>5, ProfileOnward, ProfileEarns
<1>6. CASE PasskeyStep(p)
  BY <1>1, <1>6, PasskeyOnward, PasskeyEarns
<1>7. CASE SocialStep(p)
  BY <1>1, <1>7, SocialOnward, LinkEarns, ReturnEarns, ReportEarns
<1> QED BY <1>2, <1>3, <1>4, <1>5, <1>6, <1>7 DEF Step

\* A state signed meanwhile is no proof that was missing.
LEMMA SignedSince ==
    ASSUME NEW p \in Requests, pc'[p] # "idle", RequestOK(p)',
           Claims \ Unmet(pc'[p], call'[p], local'[p]) \subseteq earned'[p],
           Holds(db', call'[p], local'[p]) \subseteq earned'[p]
    PROVE  Holds(db, call[p], local[p])' \subseteq earned'[p]
<1>1. call'[p].op = "callback" => pc'[p] \notin Proving \cup {"find_delete_token"}
  BY DEF RequestOK, At, Proving, SignIns
<1>2. call'[p].op = "callback" => "proof" \in earned'[p]
  BY <1>1 DEF Unmet, Claims
<1>3. ASSUME NEW r \in Holds(db, call[p], local[p])', r \notin Holds(db', call'[p], local'[p])
      PROVE  r = "proof" /\ call'[p].op = "callback"
  <2>1. r \in Claims
    BY <1>3 DEF Holds
  <2>2. ~ (r = "proof" /\ call'[p].op = "callback") =>
           SocialClaim(r, db, call[p], local[p])' = SocialClaim(r, db', call'[p], local'[p])
    BY <2>1 DEF SocialClaim, Claims
  <2> QED BY <1>3, <2>2 DEF Holds
<1> QED BY <1>2, <1>3

\* What an onlooker has seen of it since.
LEMMA StaysDue ==
    ASSUME Typed, NEW p \in Requests, RequestOK(p)', pc[p] # "idle", Due(p), Earns(p), Watch, pc'[p] # "idle",
           call[p].target \in 0 .. Len(kind) =>
              OwnSessionOf(db', call[p].target, local[p].user) \subseteq
                 OwnSessionOf(db, call[p].target, local[p].user),
           Len(kind) \in Nat /\ Len(kind') \in Nat /\ Len(kind) <= Len(kind')
    PROVE  Due(p)'
<1>1. /\ earned'[p] = earned[p] \cup Holds(db', call[p], local'[p])
      /\ call'[p] = call[p]
  BY DEF Watch, Earns
<1>2. Claims \ Unmet(pc'[p], call[p], local'[p]) \subseteq earned'[p]
  BY <1>1 DEF Earns
<1>3. Yet(p)'
  <2>1. call[p].op = "verify_email" => "proof" \in earned'[p] \/ local'[p].user = None
    BY <1>1 DEF Earns
  <2>2. call[p].op \in Social => "who" \in earned'[p] \/ local'[p].got = {}
    BY <1>1 DEF Earns
  <2>3. call[p].op = "link_id_token" => "proof" \in earned'[p] \/ local'[p].got = {}
    BY <1>1 DEF Earns
  <2>4. ASSUME call[p].op = "stop_impersonating"
        PROVE  /\ call[p].target \in 0 .. Len(kind')
               /\ "proof" \in earned'[p] \/ OwnSessionOf(db', call[p].target, local'[p].user) = {}
    <3>1. /\ call[p].target \in 0 .. Len(kind)
          /\ "proof" \in earned[p] \/ OwnSessionOf(db, call[p].target, local[p].user) = {}
      BY <2>4 DEF Due, Yet
    <3>2. "proof" \in earned'[p] \/ local'[p].user = local[p].user
      BY <1>1, <2>4 DEF Earns
    <3> QED BY <1>1, <3>1, <3>2
  <2> QED BY <1>1, <2>1, <2>2, <2>3, <2>4 DEF Yet
<1>4. Holds(db, call[p], local[p])' \subseteq earned'[p]
  BY <1>1, <1>2, SignedSince
<1> QED BY <1>1, <1>2, <1>3, <1>4 DEF Due

LEMMA OthersDue ==
    ASSUME Typed, NEW q \in Requests, Due(q), Watch, RequestOK(q)',
           pc'[q] = pc[q], call'[q] = call[q], local'[q] = local[q],
           call[q].target \in 0 .. Len(kind) =>
              OwnSessionOf(db', call[q].target, local[q].user) \subseteq
                 OwnSessionOf(db, call[q].target, local[q].user),
           Len(kind) \in Nat /\ Len(kind') \in Nat /\ Len(kind) <= Len(kind')
    PROVE  Due(q)'
<1> SUFFICES ASSUME pc[q] # "idle" PROVE Due(q)'
  BY DEF Due
<1>1. earned'[q] = earned[q] \cup Holds(db', call[q], local[q])
  BY DEF Watch
<1>2. Claims \ Unmet(pc'[q], call'[q], local'[q]) \subseteq earned'[q]
  BY <1>1 DEF Due
<1>3. Yet(q)'
  <2>1. Yet(q)
    BY DEF Due
  <2>2. ASSUME call[q].op = "stop_impersonating"
        PROVE  /\ call[q].target \in 0 .. Len(kind')
               /\ "proof" \in earned'[q] \/ OwnSessionOf(db', call[q].target, local[q].user) = {}
    BY <1>1, <2>1, <2>2 DEF Yet
  <2> QED BY <1>1, <2>1, <2>2 DEF Yet
<1>4. Holds(db, call[q], local[q])' \subseteq earned'[q]
  BY <1>1, <1>2, SignedSince
<1> QED BY <1>2, <1>3, <1>4 DEF Due

\* No session comes with an id drawn before.
LEMMA SessionsSince ==
    ASSUME Typed, NEW p \in Requests, pc[p] # "idle", Sends(p), NEW i \in 0 .. Len(kind), NEW user
    PROVE  OwnSessionOf(db', i, user) \subseteq OwnSessionOf(db, i, user)
<1>0. /\ db \in Database /\ Len(kind) \in Nat
      /\ fresh = Len(kind) + 1
  BY Now DEF fresh
<1> SUFFICES ASSUME NEW s \in db'.sessions, s.id = i, s \notin db.sessions PROVE FALSE
  BY DEF OwnSessionOf, SessionOf
<1>1. CASE SendsSession(p)
  BY <1>0, <1>1 DEF SendsSession, CreateSession, Database
<1>2. CASE SendsRevoke(p)
  BY <1>0, <1>2 DEF SendsRevoke, DeleteSession, DeleteUserSessions, SessionsGone, Database
<1>3. CASE SendsEnd(p)
  BY <1>0, <1>3 DEF SendsEnd, DeleteSession, Database
<1>4. CASE SendsSignUp(p)
  <2>1. s = [id |-> fresh + 3, user |-> fresh, by |-> None]
    BY <1>4, SignUpRows
  <2> QED BY <1>0, <2>1
<1>5. CASE SendsDelete(p)
  BY <1>5, DeletionRows DEF OnlyKeys
<1>6. CASE \/ SendsLift(p) \/ SendsNewUser(p) \/ SendsUpdate(p) \/ SendsProfile(p)
           \/ SendsAccounts(p) \/ SendsLink(p) \/ SendsSecret(p) \/ SendsSpend(p)
           \/ SendsState(p) \/ SendsPasskey(p) \/ SendsKey(p) \/ SendsExchange(p) \/ SendsRead
  BY <1>6, Tables DEF OnlyUsers, OnlyAccounts, OnlySecrets, OnlyPasskeys, OnlyKeys
<1> QED BY <1>1, <1>2, <1>3, <1>4, <1>5, <1>6 DEF Sends, SendsUser, SendsSessions, SendsOther

-----------------------------------------------------------------------------
(* What a request has shown when it arrives.                               *)

Begun(c, label, l) ==
    /\ Claims \subseteq Unmet(label, c, l) \cup Holds(db, c, l)
    /\ l.got = {}
    /\ c.op = "verify_email" => l.user = None
    /\ c.op = "stop_impersonating" =>
          /\ c.target \in 0 .. Len(kind)
          /\ "proof" \in Holds(db, c, l) \/ OwnSessionOf(db, c.target, l.user) = {}

\* Calls that need not be told apart from those of stop-impersonating and verify-email.
LEMMA Beginning ==
    ASSUME NEW c, c.op \notin {"verify_email", "stop_impersonating"}, NEW label, NEW l, l.got = {},
           {"who", "proof", "admitted"} \subseteq Unmet(label, c, l) \cup Holds(db, c, l)
    PROVE  Begun(c, label, l)
  BY DEF Begun, Claims

LEMMA BlankFields ==
    /\ Blank.got = {} /\ Blank.user = None /\ Blank.link = NoLink /\ NoLink.email = NoText
    /\ \A u : /\ [Blank EXCEPT !.user = u].got = {} /\ [Blank EXCEPT !.user = u].user = u
              /\ [Blank EXCEPT !.user = u].link = NoLink
  BY DEF Blank, NoLink

LEMMA CredentialBegins ==
    ASSUME Typed, NEW p \in Requests, NEW c, c.op \in CredentialOps, CredentialArrives(p, c)
    PROVE  \E label, l : Arrive(p, c, label, l) /\ Begun(c, label, l)
<1>0. /\ \A u, w \in db.users : u.id = w.id => u = w
      /\ c.op \notin {"verify_email", "stop_impersonating"}
  BY Now DEF Good, Sound, CredentialOps
<1>1. CASE SignUpArrives(p, c)
  <2>1. Arrive(p, c, "check_email", Blank) /\ c.op = "sign_up"
    BY <1>1 DEF SignUpArrives
  <2>2. {"who", "proof", "admitted"} \subseteq Holds(db, c, Blank)
    BY <2>1, CredentialHolds DEF CredentialOps, SignIns
  <2> QED BY <1>0, <2>1, <2>2, Beginning, BlankFields
<1>2. CASE NamedArrives(p, c)
  <2>1. PICK u \in Named(db, c), label \in {"store_token", "check_unverified", "check_password"} :
           /\ Arrive(p, c, label, [Blank EXCEPT !.user = u.id])
           /\ c.op \in {"sign_in", "sign_in_username", "request_reset"}
           /\ c.op # "request_reset" => label \in {"check_unverified", "check_password"}
    BY <1>2 DEF NamedArrives
  <2> DEFINE l == [Blank EXCEPT !.user = u.id]
  <2>2. l.user = u.id /\ l.got = {}
    BY BlankFields
  <2> HIDE DEF l
  <2>3. UserOf(db, u.id) \subseteq Named(db, c)
    BY <1>0, <2>1 DEF UserOf, Named, UsersNamed, UsersMailed
  <2>4. CASE c.op = "request_reset"
    <3>1. {"who", "proof", "admitted"} \subseteq Holds(db, c, l)
      BY <2>4, CredentialHolds DEF CredentialOps, SignIns
    <3>2. Begun(c, label, l)
      BY <1>0, <2>2, <3>1, Beginning
    <3> QED BY <2>1, <3>2 DEF l
  <2>5. CASE c.op # "request_reset"
    <3>1. "who" \in Holds(db, c, l)
      BY <2>1, <2>2, <2>3, <2>5, CredentialHolds DEF SignIns, CredentialOps
    <3>2. {"proof", "admitted"} \subseteq Unmet(label, c, l)
      BY <2>1, <2>5 DEF Unmet, Claims, Proving, Admitting
    <3>3. Begun(c, label, l)
      BY <1>0, <2>2, <3>1, <3>2, Beginning
    <3> QED BY <2>1, <3>3 DEF l
  <2> QED BY <2>4, <2>5
<1>3. CASE ResetArrives(p, c)
  <2>1. PICK v \in VerificationOf(db, c.secret, "reset") :
           /\ Arrive(p, c, "find_credential", [Blank EXCEPT !.user = v.about, !.spent = {v.id}])
           /\ c.op = "reset"
    BY <1>3 DEF ResetArrives
  <2> DEFINE l == [Blank EXCEPT !.user = v.about, !.spent = {v.id}]
  <2>2. l.user = v.about /\ l.got = {}
    BY DEF Blank
  <2> HIDE DEF l
  <2>3. {"who", "proof", "admitted"} \subseteq Holds(db, c, l)
    BY <2>1, <2>2, CredentialHolds DEF CredentialOps, SignIns
  <2>4. Begun(c, "find_credential", l)
    BY <1>0, <2>2, <2>3, Beginning
  <2> QED BY <2>1, <2>4 DEF l
<1>4. CASE CurrentUserArrives(p, c)
  <2>1. PICK s \in Caller(db, c), label \in {"check_password", "find_credential"} :
           /\ Arrive(p, c, label, [Blank EXCEPT !.user = s.user])
           /\ c.op \in {"change_password", "verify_password"}
           /\ label = "find_credential" => c.op = "change_password" /\ ~ RequireCurrent
    BY <1>4 DEF CurrentUserArrives
  <2> DEFINE l == [Blank EXCEPT !.user = s.user]
  <2>2. l.user = s.user /\ l.got = {}
    BY BlankFields
  <2> HIDE DEF l
  <2>3. {"who", "admitted"} \subseteq Holds(db, c, l)
    BY <2>1, <2>2, CredentialHolds DEF CredentialOps, SignIns
  <2>4. "proof" \in Unmet(label, c, l) \cup Holds(db, c, l)
    <3>1. CASE label = "check_password"
      BY <3>1 DEF Unmet, Claims, Proving
    <3>2. CASE label = "find_credential"
      BY <2>1, <3>2, CredentialHolds DEF CredentialOps, SignIns
    <3> QED BY <2>1, <3>1, <3>2
  <2>5. Begun(c, label, l)
    BY <1>0, <2>2, <2>3, <2>4, Beginning
  <2> QED BY <2>1, <2>5 DEF l
<1> QED BY <1>1, <1>2, <1>3, <1>4 DEF CredentialArrives

LEMMA AdminBegins ==
    ASSUME Typed, NEW p \in Requests, NEW c, c.op \in AdminOps, c \in AdminRequests(c.op),
           AdminArrives(p, c)
    PROVE  \E label, l : Arrive(p, c, label, l) /\ Begun(c, label, l)
<1>0. /\ \A s \in db.sessions : UserOf(db, s.user) # {}
      /\ c.op # "verify_email"
      /\ Clients
  BY Now DEF Good, Sound, AdminOps, Typed
<1>1. CASE AuthorizedArrives(p, c)
  <2>1. PICK s \in Caller(db, c) :
           /\ Arrive(p, c, AdminStart(c), [Blank EXCEPT !.user = c.target, !.row = s.user])
           /\ c.op # "stop_impersonating" /\ Permitted(db, c)
    BY <1>1 DEF AuthorizedArrives, Authorized
  <2> DEFINE l == [Blank EXCEPT !.user = c.target, !.row = s.user]
  <2>2. l.got = {}
    BY DEF Blank
  <2> HIDE DEF l
  <2>3. {"who", "proof"} \subseteq Holds(db, c, l)
    BY <2>1, AdminHolds
  <2>4. "admitted" \in Unmet(AdminStart(c), c, l) \cup Holds(db, c, l)
    <3>1. CASE c.op = "impersonate"
      <4>1. AdminStart(c) = "find_target"
        BY <3>1 DEF AdminStart
      <4> QED BY <4>1 DEF Unmet, Claims, Admitting
    <3>2. CASE c.op # "impersonate"
      BY <3>2, AdminHolds
    <3> QED BY <3>1, <3>2
  <2>5. Begun(c, AdminStart(c), l)
    BY <1>0, <2>1, <2>2, <2>3, <2>4, Beginning
  <2> QED BY <2>1, <2>5 DEF l
<1>2. CASE StopArrives(p, c)
  <2>1. PICK s \in SessionOf(db, c.cookie) :
           /\ s.by # None /\ Arrive(p, c, "find_admin", [Blank EXCEPT !.user = s.by])
           /\ c.op = "stop_impersonating"
    BY <1>2 DEF StopArrives
  <2> DEFINE l == [Blank EXCEPT !.user = s.by]
  <2>2. l.user = s.by /\ l.got = {}
    BY BlankFields
  <2> HIDE DEF l
  <2>3. s \in Caller(db, c)
    BY <1>0, <2>1 DEF Caller, SessionOf
  <2>4. {"who", "admitted"} \subseteq Holds(db, c, l)
    BY <2>1, <2>3, AdminHolds
  <2>5. "proof" \in Unmet("find_admin", c, l)
    BY DEF Unmet, Claims, Proving
  <2>6. "proof" \in Holds(db, c, l) \/ OwnSessionOf(db, c.target, l.user) = {}
    BY <2>1, <2>2, AdminHolds DEF OwnSessionOf
  <2>7. c.target \in 0 .. Len(kind)
    <3>1. c.target \in {t.session : t \in AdminCookies}
      BY <2>1 DEF AdminRequests, Calls, Only
    <3>2. PICK i \in Id : AdminCookie(i) \in signed /\ c.target = i
      BY <3>1, Records DEF AdminCookies
    <3> QED BY <1>0, <3>2, Now DEF Clients, SignedOK, Id
  <2>8. Begun(c, "find_admin", l)
    BY <1>0, <2>1, <2>2, <2>4, <2>5, <2>6, <2>7 DEF Begun, Claims
  <2> QED BY <2>1, <2>8 DEF l
<1> QED BY <1>1, <1>2 DEF AdminArrives

LEMMA ProfileBegins ==
    ASSUME Typed, NEW p \in Requests, NEW c, c.op \in ProfileOps, Asked(c), ProfileArrives(p, c)
    PROVE  \E label, l : Arrive(p, c, label, l) /\ Begun(c, label, l)
<1>1. CASE SendArrives(p, c)
  <2>1. PICK l : Arrive(p, c, "mail_link", l) /\ l.got = {} /\ c.op = "send_verification"
    <3>1. \A u, k : [Blank EXCEPT !.user = u, !.link = k].got = {}
      BY DEF Blank
    <3> QED BY <1>1, <3>1 DEF SendArrives
  <2>2. {"who", "proof", "admitted"} \subseteq Holds(db, c, l)
    BY <2>1, ProfileHolds
  <2> QED BY <2>1, <2>2, Beginning
<1>2. CASE ChangeEmailArrives(p, c)
  <2>1. PICK s, l :
           /\ s \in Caller(db, c)
           /\ Arrive(p, c, "check_address", l) /\ l.got = {} /\ l.user = s.user
           /\ c.op = "change_email"
    <3>1. \A u, k : /\ [Blank EXCEPT !.user = u, !.link = k].got = {}
                    /\ [Blank EXCEPT !.user = u, !.link = k].user = u
      BY DEF Blank
    <3>2. PICK s, u, k :
             /\ s \in Caller(db, c)
             /\ u \in UserOf(db, s.user)
             /\ Arrive(p, c, "check_address", [Blank EXCEPT !.user = u.id, !.link = k])
             /\ c.op = "change_email"
      BY <1>2 DEF ChangeEmailArrives
    <3>3. u.id = s.user
      BY <3>2 DEF UserOf
    <3> DEFINE l == [Blank EXCEPT !.user = u.id, !.link = k]
    <3>4. l.got = {} /\ l.user = s.user
      BY <3>1, <3>3
    <3>5. Arrive(p, c, "check_address", l)
      BY <3>2
    <3> HIDE DEF l
    <3> QED BY <3>2, <3>4, <3>5
  <2>2. {"who", "proof", "admitted"} \subseteq Holds(db, c, l)
    BY <2>1, ProfileHolds
  <2> QED BY <2>1, <2>2, Beginning
<1>3. CASE VerifyArrives(p, c)
  <2>1. PICK l : /\ Arrive(p, c, "find_by_email", l) /\ l.got = {} /\ l.user = None
                 /\ c.op = "verify_email"
    <3>1. \A r : /\ [Blank EXCEPT !.row = r].got = {}
                 /\ [Blank EXCEPT !.row = r].user = None
      BY DEF Blank
    <3> QED BY <1>3, <3>1 DEF VerifyArrives
  <2>2. {"who", "admitted"} \subseteq Holds(db, c, l)
    BY <2>1, ProfileHolds
  <2>3. "proof" \in Unmet("find_by_email", c, l)
    BY DEF Unmet, Claims, Proving
  <2> QED BY <2>1, <2>2, <2>3 DEF Begun, Claims
<1>4. CASE DeletionArrives(p, c)
  <2>1. PICK s, label :
           /\ s \in Caller(db, c)
           /\ Arrive(p, c, label, [Blank EXCEPT !.user = s.user])
           /\ c.op \in {"delete_user", "delete_callback"}
           /\ label = IF c.secret # None THEN "check_password" ELSE AfterPassword(c)
    BY <1>4 DEF DeletionArrives
  <2> DEFINE l == [Blank EXCEPT !.user = s.user]
  <2>2. l.user = s.user /\ l.got = {}
    BY BlankFields
  <2> HIDE DEF l
  <2>3. {"who", "admitted"} \subseteq Holds(db, c, l)
    BY <2>1, <2>2, ProfileHolds
  <2>4. "proof" \in Unmet(label, c, l) \cup Holds(db, c, l)
    <3>1. CASE c.op = "delete_user" /\ c.secret = None
      BY <3>1, ProfileHolds
    <3>2. CASE c.op = "delete_user" /\ c.secret # None
      BY <2>1, <3>2 DEF Unmet, Claims, Proving
    <3>3. CASE c.op = "delete_callback"
      <4>1. label = "find_delete_token"
        BY <2>1, <3>3 DEF Asked, AfterPassword
      <4> QED BY <3>3, <4>1 DEF Unmet, Claims
    <3> QED BY <2>1, <3>1, <3>2, <3>3
  <2>5. Begun(c, label, l)
    BY <2>1, <2>2, <2>3, <2>4, Beginning
  <2> QED BY <2>1, <2>5 DEF l
<1>5. CASE CreateKeyArrives(p, c)
  <2>1. PICK s, l :
           /\ s \in Caller(db, c)
           /\ Arrive(p, c, "create_key", l) /\ l.got = {} /\ l.user = s.user
           /\ c.op = "create_key"
    BY <1>5, BlankFields DEF CreateKeyArrives
  <2>2. {"who", "proof", "admitted"} \subseteq Holds(db, c, l)
    BY <2>1, ProfileHolds
  <2> QED BY <2>1, <2>2, Beginning
<1> QED BY <1>1, <1>2, <1>3, <1>4, <1>5 DEF ProfileArrives

LEMMA PasskeyBegins ==
    ASSUME Typed, NEW p \in Requests, NEW c, c.op \in PasskeyOps, c \in PasskeyRequests(c.op),
           PasskeyArrives(p, c)
    PROVE  \E label, l : Arrive(p, c, label, l) /\ Begun(c, label, l)
<1>0. c.op \notin {"verify_email", "stop_impersonating"}
  BY DEF PasskeyOps
<1>1. CASE OptionsArrive(p, c)
  <2>1. PICK l : /\ Arrive(p, c, "list_passkeys", l) /\ l.got = {}
                 /\ \/ c.op = "authenticate_options"
                    \/ c.op = "register_options" /\ \E s \in Caller(db, c) : s.user = l.user
    <3>1. ASSUME c.op = "register_options",
                 NEW s \in Caller(db, c),
                 Arrive(p, c, "list_passkeys", [Blank EXCEPT !.user = s.user])
          PROVE  \E l : /\ Arrive(p, c, "list_passkeys", l) /\ l.got = {}
                        /\ \E x \in Caller(db, c) : x.user = l.user
      <4>1. /\ [Blank EXCEPT !.user = s.user].got = {}
            /\ [Blank EXCEPT !.user = s.user].user = s.user
        BY BlankFields, Zenon
      <4> QED BY <3>1, <4>1, Zenon
    <3>2. ASSUME NEW u, Arrive(p, c, "list_passkeys", [Blank EXCEPT !.user = u])
          PROVE  \E l : Arrive(p, c, "list_passkeys", l) /\ l.got = {}
      <4>1. [Blank EXCEPT !.user = u].got = {}
        BY BlankFields, Zenon
      <4> QED BY <3>2, <4>1, Zenon
    <3> QED BY <1>1, <3>1, <3>2 DEF OptionsArrive
  <2>2. {"who", "proof", "admitted"} \subseteq Holds(db, c, l)
    BY <2>1, PasskeyHolds DEF PasskeyOps
  <2> QED BY <1>0, <2>1, <2>2, Beginning
<1>2. CASE RegisterArrives(p, c)
  <2>1. PICK s, l :
           /\ s \in Caller(db, c)
           /\ Arrive(p, c, "find_challenge", l) /\ l.got = {} /\ l.user = s.user
           /\ c.op = "register"
    BY <1>2, BlankFields DEF RegisterArrives
  <2>2. {"who", "admitted"} \subseteq Holds(db, c, l)
    BY <2>1, PasskeyHolds
  <2>3. "proof" \in Unmet("find_challenge", c, l)
    BY DEF Unmet, Claims, Proving
  <2> QED BY <1>0, <2>1, <2>2, <2>3, Beginning
<1>3. CASE AuthenticateArrives(p, c)
  <2>1. PICK l : /\ Arrive(p, c, "find_passkey", l) /\ l.got = {}
                 /\ c.op = "authenticate" /\ VerificationOf(db, c.secret, "login") # {}
    <3>1. \A r, k, s : [Blank EXCEPT !.row = r, !.keys = k, !.spent = s].got = {}
      BY DEF Blank
    <3> QED BY <1>3, <3>1 DEF AuthenticateArrives
  <2>2. c.target \in {k.id : k \in db.passkeys}
    BY <2>1 DEF PasskeyRequests, Calls, Only
  <2>3. "proof" \in Holds(db, c, l)
    BY <2>1, <2>2, PasskeyHolds DEF PasskeyOf
  <2>4. {"who", "admitted"} \subseteq Unmet("find_passkey", c, l)
    BY DEF Unmet, Claims, Identifying, Admitting
  <2> QED BY <1>0, <2>1, <2>3, <2>4, Beginning
<1>4. CASE DeletePasskeyArrives(p, c)
  <2>1. PICK s, l :
           /\ s \in Caller(db, c)
           /\ Arrive(p, c, "check_owner", l) /\ l.got = {} /\ l.user = s.user
           /\ c.op = "delete_passkey"
    BY <1>4, BlankFields DEF DeletePasskeyArrives
  <2>2. {"who", "admitted"} \subseteq Holds(db, c, l)
    BY <2>1, PasskeyHolds
  <2>3. "proof" \in Unmet("check_owner", c, l)
    BY DEF Unmet, Claims, Proving
  <2> QED BY <1>0, <2>1, <2>2, <2>3, Beginning
<1> QED BY <1>1, <1>2, <1>3, <1>4 DEF PasskeyArrives

LEMMA SocialBegins ==
    ASSUME Typed, NEW p \in Requests, NEW c, c.op \in SocialOps, SocialArrives(p, c)
    PROVE  \E label, l : Arrive(p, c, label, l) /\ Begun(c, label, l)
<1>0. c.op \notin {"verify_email", "stop_impersonating"}
  BY DEF SocialOps
<1>1. CASE StartArrives(p, c)
  <2>1. Arrive(p, c, "store_state", Blank) /\ c.op = "social_sign_in"
    BY <1>1 DEF StartArrives
  <2>2. {"who", "proof", "admitted"} \subseteq Holds(db, c, Blank)
    BY <2>1, SocialHolds DEF SocialOps, Tokens, SigningIn, Social
  <2> QED BY <1>0, <2>1, <2>2, Beginning, BlankFields
<1>2. CASE LinkArrives(p, c)
  <2>1. PICK s, label, l :
           /\ s \in Caller(db, c)
           /\ Arrive(p, c, label, l) /\ l.got = {} /\ l.user = s.user
           /\ \/ c.op = "link_social" /\ label = "find_link_user"
              \/ c.op = "link_id_token" /\ label = "find_linked"
    BY <1>2, BlankFields DEF LinkArrives
  <2>2. {"who", "admitted"} \subseteq Holds(db, c, l)
    BY <2>1, SocialHolds DEF SocialOps, SigningIn, Social
  <2>3. "proof" \in Unmet(label, c, l)
    BY <2>1 DEF Unmet, Claims, Proving
  <2> QED BY <1>0, <2>1, <2>2, <2>3, Beginning
<1>3. CASE CallbackArrives(p, c)
  <2>1. PICK v, l :
           /\ v \in StateOf(db, c.secret)
           /\ Arrive(p, c, "drop_state", l) /\ l.got = {} /\ l.user = v.about
           /\ c.op = "callback" /\ (StateInCookie \/ SkipStateCheck \/ c.flag)
    <3>1. PICK v \in StateOf(db, c.secret) :
             Arrive(p, c, "drop_state",
                    [Blank EXCEPT !.user = v.about, !.link.email = v.email, !.spent = {v.id}])
      BY <1>3 DEF CallbackArrives
    <3> DEFINE l == [Blank EXCEPT !.user = v.about, !.link.email = v.email, !.spent = {v.id}]
    <3>2. l.got = {} /\ l.user = v.about
      BY DEF Blank
    <3> HIDE DEF l
    <3>3. Arrive(p, c, "drop_state", l)
      BY <3>1 DEF l
    <3> QED BY <1>3, <3>2, <3>3 DEF CallbackArrives
  <2>2. "proof" \in Holds(db, c, l)
    BY <2>1, SocialHolds
  <2>3. {"who", "admitted"} \subseteq Unmet("drop_state", c, l) \cup Holds(db, c, l)
    <3>1. CASE l.link.email = NoText
      BY <2>1, <3>1 DEF Unmet, Claims, SigningIn, Social, Unreported
    <3>2. CASE l.link.email # NoText
      BY <2>1, <3>2, SocialHolds DEF SocialOps, SigningIn, Social, Tokens
    <3> QED BY <3>1, <3>2
  <2> QED BY <1>0, <2>1, <2>2, <2>3, Beginning
<1>4. CASE IdTokenArrives(p, c)
  <2>1. Arrive(p, c, "find_account", Blank) /\ c.op = "id_token_sign_in"
    BY <1>4 DEF IdTokenArrives
  <2>2. "proof" \in Holds(db, c, Blank)
    BY <2>1, SocialHolds DEF SocialOps
  <2>3. {"who", "admitted"} \subseteq Unmet("find_account", c, Blank)
    BY <2>1, BlankFields DEF Unmet, Claims, SigningIn, Social, Unreported
  <2> QED BY <1>0, <2>1, <2>2, <2>3, Beginning, BlankFields
<1>5. ASSUME NEW s \in Caller(db, c), NEW label, NEW l, Arrive(p, c, label, l), l.got = {},
             l.user = s.user, c.op \in Tokens \cup {"unlink"},
             c.op = "account_info" /\ c.target = None => c.change.user = s.user
      PROVE  \E x, k : Arrive(p, c, x, k) /\ Begun(c, x, k)
  <2>1. {"who", "proof", "admitted"} \subseteq Holds(db, c, l)
    BY <1>5, SocialHolds DEF SocialOps, SigningIn, Social, Tokens
  <2> QED BY <1>0, <1>5, <2>1, Beginning
<1>6. \A u : /\ CopyOf(c, [Blank EXCEPT !.user = u]).user = u
             /\ CopyOf(c, [Blank EXCEPT !.user = u]).got = {}
  BY DEF CopyOf, Blank
<1>7. CASE RefreshArrives(p, c) \/ UnlinkArrives(p, c)
  BY <1>5, <1>6, <1>7, BlankFields DEF RefreshArrives, UnlinkArrives, Tokens
<1>8. CASE InfoArrives(p, c)
  BY <1>5, <1>6, <1>8, BlankFields DEF InfoArrives, Tokens
<1> QED BY <1>1, <1>2, <1>3, <1>4, <1>7, <1>8 DEF SocialArrives

-----------------------------------------------------------------------------
(* Whose a passkey is, from its challenge on.                              *)

\* The passkey with id i, registered, being registered or being written, is user u's.
Owns(i, u) ==
    \/ \E k \in db.passkeys : k.id = i /\ k.user = u
    \/ \E v \in db.verifications : v.purpose = "register" /\ v.id = i /\ v.about = u
    \/ \E p \in Requests : pc[p] = "create_passkey" /\ call[p].secret = i /\ local[p].user = u
    \/ \E p \in Requests : /\ pc[p] = "update_passkey"
                           /\ \E x \in local[p].keys : x.id = i /\ x.user = u

OneOwner ==
    \A i, u, w \in IdOrNone :
        Owns(i, u) => i <= Len(kind) /\ (Owns(i, w) => u = w)

\* A statement makes nobody the owner but of a challenge that it draws.
LEMMA Owning ==
    ASSUME Typed, NEW q \in Requests, pc[q] # "idle", Step(q), Stepped(q),
           NEW i \in IdOrNone, NEW u \in IdOrNone, Owns(i, u)'
    PROVE  Owns(i, u) \/ (i = fresh /\ i <= Len(kind') /\ u = local[q].user)
<1>0. /\ Sends(q) /\ db.passkeys \subseteq Passkey /\ local[q] \in Local
      /\ \A p \in Requests \ {q} : pc'[p] = pc[p] /\ local'[p] = local[p] /\ call'[p] = call[p]
      /\ Good(db', Len(kind'))
  BY Now, StillThere DEF Stepped, Settled, Left, Database
<1>1. ASSUME NEW n \in db'.passkeys, n.id = i, n.user = u
      PROVE  Owns(i, u)
  BY <1>0, <1>1, PasskeyRows DEF Owns
<1>2. ASSUME NEW v \in db'.verifications, v.purpose = "register", v.id = i, v.about = u
      PROVE  Owns(i, u) \/ (i = fresh /\ i <= Len(kind') /\ u = local[q].user)
  <2>1. i <= Len(kind')
    BY <1>0, <1>2 DEF Good, Drawn
  <2> QED BY <1>0, <1>2, <2>1, SecretRows DEF Owns
<1>3. ASSUME pc'[q] = "create_passkey", call'[q].secret = i, local'[q].user = u
      PROVE  Owns(i, u)
  <2>1. FindRegistration(q)
    BY <1>3, Enters
  <2>2. PICK v \in VerificationOf(db, call[q].secret, "register") :
           /\ v.about = local[q].user
           /\ Goto(q, "create_passkey", [local[q] EXCEPT !.row = v.id, !.spent = {v.id}])
    BY <1>3, <2>1, Lands DEF FindRegistration
  <2>3. /\ call'[q] = call[q]
        /\ local'[q] = [local[q] EXCEPT !.row = v.id, !.spent = {v.id}]
    BY <2>2, Lands
  <2>4. local'[q].user = local[q].user
    BY <1>0, <2>3 DEF Local
  <2> QED BY <1>3, <2>2, <2>3, <2>4 DEF Owns, VerificationOf
<1>4. ASSUME pc'[q] = "update_passkey", NEW x \in local'[q].keys, x.id = i, x.user = u
      PROVE  Owns(i, u)
  <2>1. FindPasskey(q)
    BY <1>4, Enters
  <2>2. PICK k \in PasskeyOf(db, call[q].target) :
           Goto(q, "update_passkey",
                [local[q] EXCEPT !.keys = {CounterRaised(k, call[q].change.counter)}])
    BY <1>4, <2>1, Lands DEF FindPasskey
  <2>3. local'[q] = [local[q] EXCEPT !.keys = {CounterRaised(k, call[q].change.counter)}]
    BY <2>2, Lands
  <2>4. x = CounterRaised(k, call[q].change.counter)
    BY <1>0, <1>4, <2>3 DEF Local
  <2>5. k \in db.passkeys /\ x.id = k.id /\ x.user = k.user
    BY <1>0, <2>4 DEF PasskeyOf, CounterRaised, Passkey
  <2> QED BY <1>4, <2>5 DEF Owns
<1>5. \/ \E n \in db'.passkeys : n.id = i /\ n.user = u
      \/ \E v \in db'.verifications : v.purpose = "register" /\ v.id = i /\ v.about = u
      \/ \E p \in Requests : pc'[p] = "create_passkey" /\ call'[p].secret = i /\ local'[p].user = u
      \/ \E p \in Requests : /\ pc'[p] = "update_passkey"
                             /\ \E x \in local'[p].keys : x.id = i /\ x.user = u
  BY DEF Owns
<1>6. ASSUME NEW p \in Requests \ {q},
             \/ pc'[p] = "create_passkey" /\ call'[p].secret = i /\ local'[p].user = u
             \/ pc'[p] = "update_passkey" /\ \E x \in local'[p].keys : x.id = i /\ x.user = u
      PROVE  Owns(i, u)
  BY <1>0, <1>6 DEF Owns
<1> QED BY <1>1, <1>2, <1>3, <1>4, <1>5, <1>6

LEMMA OneOwnerStays ==
    ASSUME Typed, OneOwner, [Next]_vars
    PROVE  OneOwner'
<1>0. Len(kind) \in Nat /\ fresh = Len(kind) + 1
  BY Now
<1>1. ASSUME \A i, u \in IdOrNone : Owns(i, u)' => Owns(i, u), kind' = kind
      PROVE  OneOwner'
  BY <1>1 DEF OneOwner
<1>2. CASE UNCHANGED vars
  <2>1. \A i, u \in IdOrNone : Owns(i, u)' => Owns(i, u)
    BY <1>2 DEF vars, Owns
  <2> QED BY <1>1, <1>2, <2>1 DEF vars
<1>3. CASE BansEnd
  <2>1. db'.passkeys = db.passkeys /\ db'.verifications = db.verifications /\ kind' = kind
        /\ pc' = pc /\ call' = call /\ local' = local
    BY <1>3, BanRows DEF OnlyUsers
  <2>2. \A i, u \in IdOrNone : Owns(i, u)' => Owns(i, u)
    BY <2>1 DEF Owns
  <2> QED BY <1>1, <2>1, <2>2
<1>4. ASSUME NEW p \in Requests, pc[p] = "idle", Arrived(p), NEW op \in Ops,
             NEW c \in Possible(op), Arrives(p, c)
      PROVE  OneOwner'
  <2>1. /\ db' = db /\ kind' = kind
        /\ \A q \in Requests \ {p} : pc'[q] = pc[q] /\ local'[q] = local[q] /\ call'[q] = call[q]
    BY <1>4 DEF Arrived, SendsRead, Settled, KeepIds
  <2>2. pc'[p] \notin {"update_passkey", "create_passkey"}
    BY <1>4, Begins DEF Spoilable
  <2>3. \A i, u \in IdOrNone : Owns(i, u)' => Owns(i, u)
    BY <2>1, <2>2 DEF Owns
  <2> QED BY <1>1, <2>1, <2>3
<1>5. ASSUME NEW q \in Requests, pc[q] # "idle", Step(q), Stepped(q)
      PROVE  OneOwner'
  <2>1. Len(kind') \in Nat /\ Len(kind) <= Len(kind')
    BY <1>5 DEF Stepped, Left
  <2>2. ASSUME NEW i \in IdOrNone, NEW u \in IdOrNone, NEW w \in IdOrNone, Owns(i, u)'
        PROVE  i <= Len(kind') /\ (Owns(i, w)' => u = w)
    <3>1. /\ Owns(i, u) \/ (i = fresh /\ i <= Len(kind') /\ u = local[q].user)
          /\ Owns(i, w)' => Owns(i, w) \/ (i = fresh /\ i <= Len(kind') /\ w = local[q].user)
      BY <1>5, <2>2, Owning
    <3>2. Owns(i, u) \/ Owns(i, w) => i <= Len(kind)
      BY DEF OneOwner
    <3>3. Owns(i, u) /\ Owns(i, w) => u = w
      BY DEF OneOwner
    <3>4. i \in Int
      BY Now DEF IdOrNone, Id
    <3> QED BY <1>0, <2>1, <3>1, <3>2, <3>3, <3>4
  <2> QED BY <2>2 DEF OneOwner
<1> QED BY <1>2, <1>3, <1>4, <1>5, Moves

-----------------------------------------------------------------------------
(* The invariant that every answer is earned rests on.                     *)

Entitled ==
    /\ CountersKept /\ OneOwner
    /\ EveryAnswerEarned
    /\ \A p \in Requests : Due(p)

LEMMA OwnersKnown ==
    ASSUME Typed, OneOwner, NEW p \in Requests
    PROVE  OwnerOf(p)
<1> SUFFICES ASSUME pc[p] = "update_passkey", NEW x \in local[p].keys,
                    NEW k \in PasskeyOf(db, x.id)
             PROVE  k.user = x.user
  BY DEF OwnerOf
<1>1. x \in Passkey /\ k \in Passkey /\ k \in db.passkeys /\ k.id = x.id
  BY Now, StillThere DEF Local, Database, PasskeyOf
<1>2. Owns(x.id, x.user) /\ Owns(x.id, k.user)
  BY <1>1 DEF Owns
<1>3. x.id \in IdOrNone /\ x.user \in IdOrNone /\ k.user \in IdOrNone
  BY <1>1 DEF Passkey, IdOrNone
<1> QED BY <1>2, <1>3 DEF OneOwner

\* A request begins with what entitles it to go on.
LEMMA Begin ==
    ASSUME Typed, NEW p \in Requests, pc[p] = "idle", NEW op \in Ops, NEW c \in Possible(op),
           Arrives(p, c)
    PROVE  \E label, l : Arrive(p, c, label, l) /\ Begun(c, label, l)
<1>1. c.op = op /\ op \in AllOps /\ Asked(c)
  BY PossibleAsked, IdentityAssumption DEF Typed
<1>2. CASE op \in CredentialOps
  <2>1. CredentialArrives(p, c)
    BY <1>1, <1>2 DEF Arrives, CredentialOps, AdminOps, ProfileOps, PasskeyOps, SocialOps
  <2> QED BY <1>1, <1>2, <2>1, CredentialBegins
<1>3. CASE op \in AdminOps
  <2>1. AdminArrives(p, c) /\ c \in AdminRequests(op)
    BY <1>1, <1>3 DEF Arrives, Possible, CredentialOps, AdminOps, ProfileOps, PasskeyOps, SocialOps
  <2> QED BY <1>1, <1>3, <2>1, AdminBegins
<1>4. CASE op \in ProfileOps
  <2>1. ProfileArrives(p, c)
    BY <1>1, <1>4 DEF Arrives, CredentialOps, AdminOps, ProfileOps, PasskeyOps, SocialOps
  <2> QED BY <1>1, <1>4, <2>1, ProfileBegins
<1>5. CASE op \in PasskeyOps
  <2>1. PasskeyArrives(p, c) /\ c \in PasskeyRequests(op)
    BY <1>1, <1>5 DEF Arrives, Possible, CredentialOps, AdminOps, ProfileOps, PasskeyOps, SocialOps
  <2> QED BY <1>1, <1>5, <2>1, PasskeyBegins
<1>6. CASE op \in SocialOps
  <2>1. SocialArrives(p, c)
    BY <1>1, <1>6 DEF Arrives, CredentialOps, AdminOps, ProfileOps, PasskeyOps, SocialOps
  <2> QED BY <1>1, <1>6, <2>1, SocialBegins
<1> QED BY <1>1, <1>2, <1>3, <1>4, <1>5, <1>6 DEF AllOps

LEMMA BegunDue ==
    ASSUME Typed, NEW p \in Requests, NEW c, NEW label, NEW l, Arrive(p, c, label, l),
           Begun(c, label, l), Watch, RequestOK(p)'
    PROVE  Due(p)' /\ undue' = undue
<1>1. /\ pc'[p] = label /\ call'[p] = c /\ local'[p] = l /\ db' = db /\ kind' = kind
      /\ undue' = undue
  BY DEF Arrive, Typed, KeepIds
<1> SUFFICES ASSUME label # "idle" PROVE Due(p)'
  BY <1>1 DEF Due
<1>2. Holds(db', c, l) \subseteq earned'[p]
  BY <1>1 DEF Watch
<1>3. Claims \ Unmet(pc'[p], call'[p], local'[p]) \subseteq earned'[p]
  BY <1>1, <1>2 DEF Begun
<1>4. Yet(p)'
  BY <1>1, <1>2 DEF Begun, Yet
<1>5. Holds(db, call[p], local[p])' \subseteq earned'[p]
  BY <1>1, <1>2, <1>3, SignedSince
<1> QED BY <1>3, <1>4, <1>5 DEF Due

LEMMA EntitledStay ==
    ASSUME Entitled, [Next]_vars
    PROVE  Entitled'
<1>0. /\ Typed /\ OneOwner /\ EveryAnswerEarned /\ Len(kind) \in Nat
      /\ \A p \in Requests : Due(p) /\ CounterOf(p) /\ OwnerOf(p)
  BY Now, OwnersKnown DEF Entitled, CountersKept
<1>1. CountersKept' /\ OneOwner' /\ Typed'
  BY <1>0, CountersStayKept, OneOwnerStays, TypedStays DEF Entitled
<1>2. \A p \in Requests : RequestOK(p)'
  BY <1>1 DEF Typed
<1>3. CASE UNCHANGED vars
  <2>1. /\ UNCHANGED <<db, signed, kind, pc, call, local, earned, undue>>
    BY <1>3 DEF vars, watched, history
  <2>2. ASSUME NEW p \in Requests
        PROVE  Holds(db, call[p], local[p])' = Holds(db, call[p], local[p])
    BY <2>1 DEF Holds, SocialClaim, StateOf, States
  <2>3. \A p \in Requests : Yet(p) => Yet(p)'
    BY <2>1 DEF Yet
  <2>4. \A p \in Requests : Due(p)'
    BY <1>0, <2>1, <2>2, <2>3 DEF Due
  <2> QED BY <1>0, <1>1, <2>1, <2>4 DEF Entitled, EveryAnswerEarned
<1>4. CASE BansEnd /\ Watch
  <2>1. /\ db'.sessions = db.sessions /\ kind' = kind /\ undue' = undue
        /\ pc' = pc /\ call' = call /\ local' = local
    BY <1>0, <1>4, BanRows DEF OnlyUsers
  <2>2. \A i, u : OwnSessionOf(db', i, u) = OwnSessionOf(db, i, u)
    BY <2>1 DEF OwnSessionOf, SessionOf
  <2>3. \A p \in Requests : Due(p)'
    BY <1>0, <1>2, <1>4, <2>1, <2>2, OthersDue
  <2> QED BY <1>0, <1>1, <2>1, <2>3 DEF Entitled, EveryAnswerEarned
<1>5. ASSUME Watch, NEW p \in Requests, pc[p] = "idle", Arrived(p), NEW op \in Ops,
             NEW c \in Possible(op), Arrives(p, c)
      PROVE  Entitled'
  <2>1. PICK label, l : Arrive(p, c, label, l) /\ Begun(c, label, l)
    BY <1>0, <1>5, Begin
  <2>2. Due(p)' /\ undue' = undue
    BY <1>0, <1>2, <1>5, <2>1, BegunDue
  <2>3. ASSUME NEW q \in Requests \ {p} PROVE Due(q)'
    <3>1. /\ pc'[q] = pc[q] /\ call'[q] = call[q] /\ local'[q] = local[q]
          /\ db' = db /\ kind' = kind
      BY <1>5 DEF Arrived, SendsRead, Settled, KeepIds
    <3> QED BY <1>0, <1>2, <1>5, <3>1, OthersDue
  <2> QED BY <1>0, <1>1, <2>2, <2>3 DEF Entitled, EveryAnswerEarned
<1>6. ASSUME Watch, NEW p \in Requests, pc[p] # "idle", Step(p), Stepped(p)
      PROVE  Entitled'
  <2>1. Earns(p)
    BY <1>0, <1>6, StepsEarn
  <2>2. Len(kind') \in Nat /\ Len(kind) <= Len(kind')
    BY <1>6 DEF Stepped, Left
  <2>3. \A i \in 0 .. Len(kind) : \A u : OwnSessionOf(db', i, u) \subseteq OwnSessionOf(db, i, u)
    BY <1>0, <1>6, SessionsSince DEF Stepped
  <2>4. Due(p)'
    <3>1. CASE pc'[p] = "idle"
      BY <3>1 DEF Due
    <3>2. CASE pc'[p] # "idle"
      BY <1>0, <1>2, <1>6, <2>1, <2>2, <2>3, <3>2, StaysDue
    <3> QED BY <3>1, <3>2
  <2>5. ASSUME NEW q \in Requests \ {p} PROVE Due(q)'
    <3>1. pc'[q] = pc[q] /\ call'[q] = call[q] /\ local'[q] = local[q]
      BY <1>6 DEF Stepped, Settled
    <3> QED BY <1>0, <1>2, <1>6, <2>2, <2>3, <3>1, OthersDue
  <2>6. undue' = undue
    BY <2>1 DEF Earns
  <2> QED BY <1>0, <1>1, <2>4, <2>5, <2>6 DEF Entitled, EveryAnswerEarned
<1> QED BY <1>0, <1>3, <1>4, <1>5, <1>6, Moves

LEMMA InitEntitled ==
    ASSUME Init
    PROVE  Entitled
<1>1. /\ \A p \in Requests : pc[p] = "idle"
      /\ undue = {} /\ db.verifications = {} /\ Len(kind) = 11
      /\ db.passkeys = {[id |-> 9, user |-> 5, counter |-> 0]}
  BY DEF Init
<1>2. \A i, u \in IdOrNone : Owns(i, u) => i = 9 /\ u = 5
  BY <1>1 DEF Owns
<1>3. OneOwner
  BY <1>1, <1>2 DEF OneOwner
<1> QED BY <1>1, <1>3, InitCounters DEF Entitled, Due, EveryAnswerEarned

\* Whoever is answered has had, at some moment of the request, each of the things that
\* entitle to that answer, whatever other requests did to the database in between.
THEOREM AnswersAreEarned == Spec => []EveryAnswerEarned
<1>1. Init => Entitled
  BY InitEntitled
<1>2. Entitled /\ [Next]_vars => Entitled'
  BY EntitledStay
<1>3. Entitled => EveryAnswerEarned
  BY DEF Entitled
<1> QED BY <1>1, <1>2, <1>3, PTL DEF Spec

-----------------------------------------------------------------------------
(* An address is marked as verified only when it is proven, as long as no  *)
(* administrator writes addresses.                                         *)

Proven == proven \cup FirstVerified

\* A link that marks an address, or changes to one, goes to that address.
ToItsOwn(k) ==
    /\ k.type = "verify" => k.box = k.email
    /\ k.type = "change" => k.box = k.to

\* The statements that write an address or a mark, but for the one that goes by the
\* link alone, and the one before.
Vetting == {"check_address", "update_address", "mark_verified", "mark_reported",
            "override_verified"}

\* The statement that comes after the account, where one is to be created.
Bound(x, l) == IF x = "create_account" THEN l.then ELSE x

\* What a request goes by at such a statement still holds of its user, unless somebody
\* else is at work on that user.
Vets(p) ==
    LET x == Bound(pc[p], local[p])
        rows == UserOf(db, local[p].user)
    IN  /\ x \in Vetting => local[p].user \in 1 .. Len(kind)
        /\ x = "update_address" \/ (x = "check_address" /\ local[p].link = NoLink) =>
              \A u \in rows : ~ u.verified \/ u.id \in contested
        /\ x \in {"mark_verified", "mark_reported"} =>
              \A u \in rows : u.email \in Proven \/ u.id \in contested
        /\ x = "override_verified" => call[p].email \in Proven \/ local[p].user \in contested

\* The links a request comes with and is going to mail.
Follows(p) ==
    pc[p] # "idle" =>
        /\ "box" \in DOMAIN call[p].change => call[p].change.box \in proven
        /\ call[p].op = "verify_email" => ToItsOwn(call[p].change)
        /\ pc[p] \in {"check_address", "mail_link"} => ToItsOwn(local[p].link)

Vetted ==
    /\ Typed /\ Overlap
    /\ VerifiedIsProven
    /\ \A k \in Mailed : ToItsOwn(k)
    /\ \A p \in Requests : Follows(p) /\ Vets(p)

LEMMA EveryOnward ==
    ASSUME Typed, NEW p \in Requests, Step(p)
    PROVE  Onward(p)
  BY SharedOnward, CredentialOnward, AdminOnward, ProfileOnward, PasskeyOnward, SocialOnward
     DEF Step

\* The statements that lead there.
LEMMA ProfileAddresses ==
    ASSUME Typed, NEW p \in Requests, ProfileStep(p), pc'[p] \in Addressing
    PROVE  \/ CheckAddress(p) /\ pc'[p] \in {"update_address", "mail_link"}
           \/ FindByEmail(p) /\ pc'[p] \in {"mail_link", "mark_verified"}
<1>1. CASE CheckAddress(p)
  BY <1>1, Lands DEF CheckAddress, Addressing
<1>2. CASE MailLink(p) \/ StoreDeleteToken(p) \/ FindDeleteToken(p) \/ DropDeleteToken(p)
  BY <1>2, Lands DEF MailLink, StoreDeleteToken, FindDeleteToken, DropDeleteToken, Addressing
<1>3. CASE UpdateAddress(p) \/ ChangeAddress(p) \/ MarkVerified(p)
  BY <1>3, Lands DEF UpdateAddress, ChangeAddress, MarkVerified, WriteUser, Addressing
<1>4. CASE FindByEmail(p)
  BY <1>4 DEF Typed, FindByEmail, Goto, Refuse, Drop, Answer, Addressing
<1>5. CASE SessionForLink(p) \/ CreateKey(p)
  BY <1>5, Lands DEF SessionForLink, StoreSession, CreateKey, Addressing
<1>6. AfterPassword(call[p]) \notin Addressing
  BY DEF AfterPassword, Addressing
<1>7. CASE CheckDeletionPassword(p)
  BY <1>6, <1>7, Lands DEF CheckDeletionPassword, Addressing
<1>8. CASE DeleteOwnSessions(p) \/ DeleteOneself(p)
  BY <1>8, Lands DEF DeleteOwnSessions, DeleteSessions, DeleteOneself, DeleteUserRow, Addressing
<1> QED BY <1>1, <1>2, <1>3, <1>4, <1>5, <1>7, <1>8 DEF ProfileStep

LEMMA SocialAddresses ==
    ASSUME Typed, NEW p \in Requests, pc[p] # "idle", SocialStep(p), pc'[p] \in Addressing
    PROVE  \/ FindAccountUser(p) \/ MarkReported(p) \/ FindByReport(p) \/ CreateSocialAccount(p)
           \/ pc'[p] = "create_account" /\ local'[p].then \in {"answer", "issue"}
<1>0. local[p] \in Local /\ At(pc[p], call[p], local[p])
  BY StillThere
<1>1. CASE StoreState(p) \/ FindLinked(p) \/ DropState(p) \/ WriteTokens(p)
  BY <1>1, Lands DEF StoreState, FindLinked, DropState, WriteTokens, Addressing
<1>2. CASE FindLinkUser(p)
  <2>1. pc[p] = "find_link_user" /\ local[p].then = "answer"
    BY <1>0, <1>2 DEF FindLinkUser, At
  <2>2. CASE Refuse(p)
    BY <2>2, Lands DEF Addressing
  <2>3. ASSUME NEW l, Goto(p, "store_state", l)
        PROVE  pc'[p] = "store_state"
    BY <2>3, Lands
  <2>4. CASE Goto(p, "create_account", local[p])
    BY <2>1, <2>4, Lands
  <2> QED BY <1>2, <2>2, <2>3, <2>4 DEF FindLinkUser, Addressing
<1>3. CASE FindAccount(p)
  <2>1. pc[p] = "find_account" /\ local[p].then = "answer"
    BY <1>0, <1>3 DEF FindAccount, At
  <2>2. CASE Refuse(p)
    BY <2>2, Lands DEF Addressing
  <2>3. ASSUME NEW label, label \notin Addressing, NEW l, Goto(p, label, l)
        PROVE  FALSE
    BY <2>3, Lands
  <2>4. CASE Goto(p, "create_account", local[p])
    BY <2>1, <2>4, Lands
  <2>5. {"find_by_report", "update_account", "find_account_user"} \cap Addressing = {}
    BY DEF Addressing
  <2> QED BY <1>3, <2>2, <2>3, <2>4, <2>5 DEF FindAccount
<1>4. CASE OverrideUser(p)
  BY <1>4, Lands DEF OverrideUser, WriteUser, Addressing
<1>5. CASE CreateSocialUser(p)
  <2>1. local[p].then = "issue"
    BY <1>0, <1>5 DEF CreateSocialUser, At
  <2>2. CASE Refuse(p)
    BY <2>2, Lands DEF Addressing
  <2> DEFINE l == [local[p] EXCEPT !.user = fresh, !.got = {fresh}]
  <2>3. CASE Goto(p, "create_account", l)
    <3>1. l.then = local[p].then
      BY <1>0 DEF Local
    <3> HIDE DEF l
    <3>2. pc'[p] = "create_account" /\ local'[p] = l
      BY <2>3, Lands
    <3> QED BY <2>1, <3>1, <3>2
  <2> QED BY <1>5, <2>2, <2>3 DEF CreateSocialUser
<1>6. CASE SocialSession(p)
  BY <1>6, Lands DEF SocialSession, StoreSession, Addressing
<1>7. Copied(call[p]) \notin Addressing
  BY DEF Copied, Addressing
<1>8. CASE FindInfo(p)
  BY <1>7, <1>8 DEF Typed, FindInfo, Continue, Goto, Refuse, Drop, Answer, Addressing
<1>9. CASE FindTokens(p) \/ Exchange(p) \/ AnswerFromCookie(p)
  <2>1. /\ ~ Refuse(p) /\ \A l : ~ Answer(p, l)
        /\ \A l : ~ Goto(p, "exchange", l) /\ ~ Goto(p, "update_account", l)
    BY Lands DEF Addressing
  <2> QED BY <1>9, <2>1 DEF FindTokens, Exchange, AnswerFromCookie
<1>10. CASE ListToUnlink(p)
  <2>1. Refuse(p) \/ \E l : Goto(p, "has_password", l)
    BY <1>10 DEF ListToUnlink
  <2> QED BY <2>1, Lands DEF Addressing
<1>11. CASE HasPassword(p)
  <2>1. Refuse(p) \/ Goto(p, "unlink", local[p])
    BY <1>11 DEF HasPassword
  <2> QED BY <2>1, Lands DEF Addressing
<1>12. CASE Unlink(p)
  <2>1. Refuse(p) \/ Answer(p, local[p])
    BY <1>12 DEF Unlink
  <2> QED BY <2>1, Lands DEF Addressing
<1> QED BY <1>1, <1>2, <1>3, <1>4, <1>5, <1>6, <1>8, <1>9, <1>10, <1>11, <1>12 DEF SocialStep

LEMMA Addresses ==
    ASSUME Typed, NEW p \in Requests, pc[p] # "idle", Step(p), pc'[p] \in Addressing
    PROVE  \/ CheckAddress(p) /\ pc'[p] \in {"update_address", "mail_link"}
           \/ FindByEmail(p) /\ pc'[p] \in {"mail_link", "mark_verified"}
           \/ FindAccountUser(p) \/ MarkReported(p) \/ FindByReport(p) \/ CreateSocialAccount(p)
           \/ pc'[p] = "create_account" /\ local'[p].then \in {"answer", "issue"}
<1>1. pc'[p] \in Taken
  BY DEF Taken
<1>2. Addressing \cap {"lift_ban", "create_session", "delete_user", "lift_first", "impersonate",
                       "create_passkey", "update_passkey", "write_password",
                       "delete_account"} = {}
  BY DEF Addressing
<1> QED BY <1>1, <1>2, SharedEnters, CredentialEnters, AdminEnters, PasskeyEnters,
           ProfileAddresses, SocialAddresses DEF Step

\* Whose address or mark a statement writes, and what.
LEMMA ChangedFields ==
    ASSUME NEW u \in User, NEW change
    PROVE  /\ Updated(u, change).email = IF "email" \in DOMAIN change THEN change.email ELSE u.email
           /\ Updated(u, change).verified =
                IF "verified" \in DOMAIN change THEN change.verified ELSE u.verified
  BY DEF Updated, User

Rewrites(q, w) ==
    LET c == call[q] IN
    \E u \in UserOf(db, w.id) :
        \/ u.email = w.email /\ u.verified = w.verified
        \/ /\ w.id = local[q].user /\ pc[q] \in Vetting \cup {"change_address", "override_unverified"}
           /\ \/ pc[q] = "update_address" /\ w.verified = u.verified
              \/ pc[q] = "change_address" /\ w.email = c.change.to
              \/ pc[q] \in {"mark_verified", "mark_reported"} /\ w.email = u.email
              \/ pc[q] = "override_verified" /\ w.email = c.email
              \/ pc[q] = "override_unverified" /\ ~ w.verified

LEMMA AddressRows ==
    ASSUME Typed, "update_user" \notin Ops, NEW q \in Requests, pc[q] # "idle", Sends(q),
           NEW w \in db'.users
    PROVE  \/ Rewrites(q, w)
           \/ /\ w.id = fresh
              /\ w.verified => /\ pc[q] = "create_social_user" /\ Vouched(call[q])
                               /\ w.email = call[q].email
<1>0. /\ db \in Database /\ db.users \subseteq User /\ Asked(call[q])
      /\ At(pc[q], call[q], local[q])
  BY Now, StillThere DEF Database
<1>1. ASSUME w \in db.users
      PROVE  Rewrites(q, w)
  BY <1>1 DEF Rewrites, UserOf
<1>2. ASSUME NEW i, NEW change, UserChange(change), db' = UpdateUser(db, i, change)
      PROVE  \E u \in db.users : w.id = u.id /\ (w = u \/ (u.id = i /\ w = Updated(u, change)))
  <2> DEFINE New(u) == IF u.id = i THEN Updated(u, change) ELSE u
  <2>1. \A u \in db.users : New(u).id = u.id
    BY <1>0, <1>2, UpdatedUser
  <2>2. db'.users = {New(u) : u \in db.users}
    BY <1>0, <1>2 DEF UpdateUser, Database
  <2> QED BY <2>1, <2>2
<1>3. ASSUME NEW i, NEW change, UserChange(change), db' = UpdateUser(db, i, change),
             {"email", "verified"} \cap DOMAIN change = {}
      PROVE  Rewrites(q, w)
  <2>1. PICK u \in db.users : w.id = u.id /\ (w = u \/ w = Updated(u, change))
    <3>1. \E u \in db.users : w.id = u.id /\ (w = u \/ (u.id = i /\ w = Updated(u, change)))
      BY <1>2, <1>3
    <3> QED BY <3>1
  <2>2. u.email = w.email /\ u.verified = w.verified
    BY <1>0, <1>3, <2>1, ChangedFields
  <2> QED BY <2>1, <2>2 DEF Rewrites, UserOf
<1>4. CASE SendsSessions(q) \/ SendsAccounts(q) \/ SendsOther(q) \/ SendsRead
  <2>1. db'.users = db.users
    BY <1>4, Tables DEF SendsOther, OnlySessions, OnlyAccounts, OnlySecrets, OnlyPasskeys, OnlyKeys
  <2> QED BY <1>1, <2>1
<1>5. CASE SendsLift(q)
  <2> DEFINE lift == [banned |-> FALSE]
  <2>1. UserChange(lift) /\ {"email", "verified"} \cap DOMAIN lift = {}
    BY DEF UserChange, UserFields
  <2> QED BY <1>3, <1>5, <2>1 DEF SendsLift
<1>6. CASE SendsUpdate(q)
  <2> DEFINE change == Change(call[q])
  <2>1. call[q].op \in {"set_role", "ban", "unban"} /\ db' = UpdateUser(db, call[q].target, change)
    BY <1>0, <1>6 DEF SendsUpdate, At, Asked
  <2>2. UserChange(change) /\ {"email", "verified"} \cap DOMAIN change = {}
    <3>1. CASE call[q].op = "set_role"
      BY <1>0, <3>1 DEF Change, Asked
    <3>2. CASE call[q].op \in {"ban", "unban"}
      <4>1. change \in {[banned |-> FALSE], [banned |-> TRUE], [banned |-> TRUE, ends |-> "ahead"]}
        BY <3>2 DEF Change, BanChange
      <4>2. /\ UserChange([banned |-> FALSE]) /\ UserChange([banned |-> TRUE])
            /\ UserChange([banned |-> TRUE, ends |-> "ahead"])
        BY DEF UserChange, UserFields, Ends
      <4>3. \A k \in {[banned |-> FALSE], [banned |-> TRUE], [banned |-> TRUE, ends |-> "ahead"]} :
               {"email", "verified"} \cap DOMAIN k = {}
        OBVIOUS
      <4> QED BY <4>1, <4>2, <4>3
    <3> QED BY <2>1, <3>1, <3>2
  <2> HIDE DEF change
  <2> QED BY <1>3, <2>1, <2>2
<1>7. CASE SendsProfile(q)
  <2>1. PICK change : /\ UserChange(change) /\ change = ChangeOf(pc[q], call[q])
                      /\ db' = UpdateUser(db, local[q].user, change)
    BY <1>7 DEF SendsProfile
  <2>2. PICK u \in db.users :
           w.id = u.id /\ (w = u \/ (u.id = local[q].user /\ w = Updated(u, change)))
    BY <1>2, <2>1
  <2>3. pc[q] \in {"update_address", "change_address", "mark_verified", "mark_reported",
                   "override_verified", "override_unverified"}
    BY <1>7 DEF SendsProfile
  <2>4. u \in UserOf(db, w.id) /\ u \in User
    BY <1>0, <2>2 DEF UserOf
  <2> DEFINE c == call[q]
  <2>5. ASSUME w = Updated(u, change)
        PROVE  \/ pc[q] = "update_address" /\ w.verified = u.verified
               \/ pc[q] = "change_address" /\ w.email = call[q].change.to
               \/ pc[q] \in {"mark_verified", "mark_reported"} /\ w.email = u.email
               \/ pc[q] = "override_verified" /\ w.email = call[q].email
               \/ pc[q] = "override_unverified" /\ ~ w.verified
    <3> HIDE DEF c
    <3>0. /\ w.email = IF "email" \in DOMAIN change THEN change.email ELSE u.email
          /\ w.verified = IF "verified" \in DOMAIN change THEN change.verified ELSE u.verified
      BY <2>4, <2>5, ChangedFields
    <3>1. CASE pc[q] = "update_address"
      <4>1. change = [email |-> c.email]
        BY <2>1, <3>1 DEF ChangeOf, c
      <4> QED BY <3>0, <3>1, <4>1
    <3>2. CASE pc[q] = "change_address"
      <4>1. change = [email |-> c.change.to, verified |-> TRUE]
        BY <2>1, <3>2 DEF ChangeOf, c
      <4> QED BY <3>0, <3>2, <4>1 DEF c
    <3>3. CASE pc[q] \in {"mark_verified", "mark_reported"}
      <4>1. change = [verified |-> TRUE]
        BY <2>1, <3>3 DEF ChangeOf, c
      <4> QED BY <3>0, <3>3, <4>1
    <3>4. CASE pc[q] \in {"override_verified", "override_unverified"}
      <4>1. change = [email |-> c.email, verified |-> pc[q] = "override_verified"]
        BY <2>1, <3>4 DEF ChangeOf, c
      <4> QED BY <3>0, <3>4, <4>1 DEF c
    <3> QED BY <2>3, <3>1, <3>2, <3>3, <3>4
  <2> QED BY <2>2, <2>3, <2>4, <2>5 DEF Rewrites, Vetting
<1>8. CASE SendsNewUser(q)
  <2>1. PICK verified \in BOOLEAN :
           /\ verified => pc[q] = "create_social_user" /\ Vouched(call[q])
           /\ db' = CreateUser(db, NewUser(fresh, call[q].email, NoText, verified, FALSE))
    BY <1>8 DEF SendsNewUser
  <2>2. db'.users = db.users \cup {NewUser(fresh, call[q].email, NoText, verified, FALSE)}
    BY <1>0, <2>1 DEF CreateUser, Database
  <2>3. CASE w = NewUser(fresh, call[q].email, NoText, verified, FALSE)
    <3>1. w.id = fresh /\ w.verified = verified /\ w.email = call[q].email
      BY <2>3 DEF NewUser
    <3> QED BY <2>1, <3>1
  <2> QED BY <1>1, <2>2, <2>3
<1>9. CASE SendsSignUp(q)
  <2>1. db'.users = db.users \cup {NewUser(fresh, call[q].email, call[q].name, FALSE, FALSE)}
    BY <1>9, SignUpRows
  <2> QED BY <1>1, <2>1 DEF NewUser
<1>10. CASE SendsDelete(q)
  BY <1>1, <1>10, DeletionRows DEF OnlyKeys
<1> QED BY <1>4, <1>5, <1>6, <1>7, <1>8, <1>9, <1>10 DEF Sends, SendsUser

\* Users have ids that are drawn, one each.
LEMMA UsersDrawn ==
    ASSUME Typed
    PROVE  /\ db.users \subseteq User /\ Len(kind) \in Nat /\ fresh = Len(kind) + 1
           /\ \A u \in db.users : u.id \in 1 .. Len(kind) /\ u.email \in Emails /\ u.id # None
           /\ \A u, w \in db.users : u.id = w.id => u = w
<1>1. Good(db, Len(kind)) /\ Len(kind) \in Nat /\ fresh = Len(kind) + 1 /\ None \notin Id
  BY Now
<1> QED BY <1>1 DEF Good, Drawn, Database, Sound, User, Id

\* What a statement marks is proven.
LEMMA MarksMade ==
    ASSUME Vetted, "update_user" \notin Ops, NEW q \in Requests, pc[q] # "idle", Sends(q),
           NEW w \in db'.users, w.verified
    PROVE  w.email \in Proven \/ w.id \in contested
<1>0. /\ Typed /\ VerifiedIsProven /\ Follows(q) /\ Vets(q)
      /\ Asked(call[q]) /\ At(pc[q], call[q], local[q])
  BY StillThere DEF Vetted
<1>1. \A u \in db.users : u.verified => u.email \in Proven \/ u.id \in contested
  BY <1>0 DEF VerifiedIsProven, Proven
<1>2. CASE w.id = fresh /\ pc[q] = "create_social_user" /\ Vouched(call[q]) /\ w.email = call[q].email
  <2>1. call[q].change.box \in proven /\ call[q].change.box = call[q].email
    BY <1>0, <1>2 DEF Follows, Asked, At, Vouched
  <2> QED BY <1>2, <2>1 DEF Proven
<1>3. ASSUME NEW u \in UserOf(db, w.id), u.email = w.email, u.verified = w.verified
      PROVE  w.email \in Proven \/ w.id \in contested
  BY <1>1, <1>3 DEF UserOf
<1>4. ASSUME NEW u \in UserOf(db, w.id), w.id = local[q].user, pc[q] = "update_address",
             w.verified = u.verified
      PROVE  w.email \in Proven \/ w.id \in contested
  <2>1. ~ u.verified \/ u.id \in contested
    BY <1>0, <1>4 DEF Vets, Bound, UserOf
  <2> QED BY <1>4, <2>1 DEF UserOf
<1>5. ASSUME pc[q] = "change_address", w.email = call[q].change.to
      PROVE  w.email \in Proven
  <2>1. call[q].op = "verify_email" /\ call[q].change.type = "change" /\ call[q].change \in Link
    BY <1>0, <1>5 DEF At, Asked, LinkOK
  <2>2. call[q].change.box = call[q].change.to /\ call[q].change.box \in proven
    BY <1>0, <1>5, <2>1, Records DEF Follows, ToItsOwn
  <2> QED BY <1>5, <2>2 DEF Proven
<1>6. ASSUME NEW u \in UserOf(db, w.id), w.id = local[q].user,
             pc[q] \in {"mark_verified", "mark_reported"}, w.email = u.email
      PROVE  w.email \in Proven \/ w.id \in contested
  <2>1. u.email \in Proven \/ u.id \in contested
    BY <1>0, <1>6 DEF Vets, Bound, UserOf
  <2> QED BY <1>6, <2>1 DEF UserOf
<1>7. ASSUME w.id = local[q].user, pc[q] = "override_verified", w.email = call[q].email
      PROVE  w.email \in Proven \/ w.id \in contested
  BY <1>0, <1>7 DEF Vets, Bound
<1>8. CASE Rewrites(q, w)
  BY <1>3, <1>4, <1>5, <1>6, <1>7, <1>8 DEF Rewrites
<1> QED BY <1>0, <1>2, <1>8, AddressRows

\* The only links that are mailed are those requests carry.
LEMMA LinksMade ==
    ASSUME Vetted, NEW q \in Requests, pc[q] # "idle", Sends(q), NEW k \in Mailed'
    PROVE  ToItsOwn(k)
<1>0. k \in signed' /\ k \in Link /\ Follows(q) /\ \A j \in Mailed : ToItsOwn(j)
  BY DEF Vetted, Mailed
<1>1. k \in signed => ToItsOwn(k)
  BY <1>0 DEF Mailed
<1>2. /\ DOMAIN k = {"type", "email", "to", "box"}
      /\ "type" \notin {"id", "purpose", "about", "email", "keys"}
      /\ "type" \notin {"account", "user", "grant"} /\ "type" \notin {"session"}
  BY <1>0, Records
<1>3. /\ k \notin Verification
      /\ \A a, u, g : k # AccountCookie(a, u, g)
      /\ \A i : k # AdminCookie(i)
  <2>1. ASSUME k \in Verification
        PROVE  FALSE
    BY <1>2, <2>1, Records
  <2>2. ASSUME NEW a, NEW u, NEW g, k = AccountCookie(a, u, g)
        PROVE  FALSE
    BY <1>2, <2>2, Records
  <2>3. ASSUME NEW i, k = AdminCookie(i)
        PROVE  FALSE
    BY <1>2, <2>3, Records
  <2> QED BY <2>1, <2>2, <2>3
<1>4. CASE SendsLink(q)
  BY <1>0, <1>1, <1>4 DEF SendsLink, Follows
<1>5. CASE SendsSecret(q)
  BY <1>0, <1>1, <1>3, <1>5 DEF SendsSecret
<1>6. CASE SendsSession(q)
  BY <1>0, <1>1, <1>3, <1>6 DEF SendsSession
<1>7. CASE SendsGrant(q)
  BY <1>0, <1>1, <1>3, <1>7 DEF SendsGrant, CookieAnew
<1>8. CASE SendsRead \/ SendsUser(q)
  BY <1>0, <1>1, <1>8 DEF SendsRead, SendsUser, SendsLift, SendsSignUp, SendsNewUser, SendsUpdate,
                          SendsProfile, SendsDelete, Unsigned
<1>9. CASE SendsRevoke(q) \/ SendsEnd(q) \/ SendsUnlink(q) \/ SendsPassword(q)
             \/ SendsCredential(q) \/ SendsAccount(q)
  BY <1>0, <1>1, <1>9 DEF SendsRevoke, SendsEnd, SendsUnlink, SendsPassword, SendsCredential,
                          SendsAccount, Unsigned
<1>10. CASE SendsSpend(q) \/ SendsState(q) \/ SendsKey(q) \/ SendsPasskey(q) \/ SendsExchange(q)
  BY <1>0, <1>1, <1>10 DEF SendsSpend, SendsState, SendsKey, SendsPasskey, SendsExchange, Unsigned
<1> QED BY <1>4, <1>5, <1>6, <1>7, <1>8, <1>9, <1>10 DEF Sends, SendsSessions, SendsAccounts,
           SendsOther

\* What a sign-in at the provider is told to mark is proven.
LEMMA ThenProven ==
    ASSUME Vetted, NEW q \in Requests, pc[q] # "idle", call[q].op \in Social, NEW u \in db.users
    PROVE  /\ ThenFor(call[q], u) = "mark_reported" => u.email \in Proven
           /\ ThenFor(call[q], u) = "override_verified" =>
                 call[q].email \in Proven \/ u.id \in contested
           /\ ThenFor(call[q], u) \notin {"idle", "create_account", "check_address",
                                          "update_address", "mail_link", "mark_verified"}
<1>1. Typed /\ VerifiedIsProven /\ Follows(q) /\ Asked(call[q])
  BY StillThere DEF Vetted
<1>2. Vouched(call[q]) => call[q].email \in Proven
  BY <1>1 DEF Follows, Asked, Vouched, Proven
<1>3. u.verified => u.email \in Proven \/ u.id \in contested
  BY <1>1 DEF VerifiedIsProven, Proven
<1> QED BY <1>2, <1>3 DEF ThenFor, Overrides

\* A request that goes on has what the next statement needs, if it writes an address
\* or a mark.
LEMMA StaysVetted ==
    ASSUME Vetted, NEW q \in Requests, pc[q] # "idle", Step(q), Stepped(q),
           contested \subseteq contested'
    PROVE  Follows(q)' /\ Vets(q)'
<1>0. /\ Typed /\ Follows(q) /\ Vets(q) /\ Asked(call[q]) /\ local[q] \in Local
      /\ At(pc[q], call[q], local[q]) /\ Onward(q)
  BY StillThere, EveryOnward DEF Vetted
<1>1. /\ proven' = proven /\ (pc'[q] # "idle" => call'[q] = call[q])
      /\ Sends(q) /\ Len(kind) \in Nat /\ Len(kind') \in Nat /\ Len(kind) <= Len(kind')
  BY <1>0, Now DEF Onward, Stepped, Left
<1>2. ASSUME pc'[q] \notin {"check_address", "mail_link"} \/ ToItsOwn(local'[q].link)
      PROVE  Follows(q)'
  BY <1>0, <1>1, <1>2 DEF Follows
<1>3. ASSUME Bound(pc'[q], local'[q]) \notin Vetting
      PROVE  Vets(q)'
  BY <1>3 DEF Vets, Vetting
<1>4. CASE pc'[q] \notin Addressing
  <2>1. Bound(pc'[q], local'[q]) = pc'[q]
    BY <1>4 DEF Bound, Addressing
  <2> QED BY <1>2, <1>3, <1>4, <2>1 DEF Addressing, Vetting
<1>5. CASE CheckAddress(q) /\ pc'[q] \in {"update_address", "mail_link"}
  <2>1. db' = db /\ kind' = kind /\ pc[q] = "check_address"
    BY <1>5 DEF CheckAddress, KeepIds
  <2>2. Goto(q, IF local[q].link = NoLink THEN "update_address" ELSE "mail_link", local[q])
    BY <1>0, <1>5, Lands DEF CheckAddress
  <2>3. /\ pc'[q] = IF local[q].link = NoLink THEN "update_address" ELSE "mail_link"
        /\ local'[q] = local[q]
    BY <1>0, <2>2, Lands
  <2>4. ToItsOwn(local'[q].link)
    BY <1>0, <2>1, <2>3 DEF Follows
  <2>5. Vets(q)'
    BY <1>0, <1>1, <2>1, <2>3 DEF Vets, Bound, Vetting, UserOf
  <2> QED BY <1>2, <2>4, <2>5
<1>6. CASE FindByEmail(q) /\ pc'[q] \in {"mail_link", "mark_verified"}
  <2> DEFINE k == call[q].change
             l(u) == [local[q] EXCEPT !.user = u.id]
             m(u) == [l(u) EXCEPT !.link = [k EXCEPT !.type = "change", !.box = k.to]]
  <2>0. /\ db' = db /\ kind' = kind /\ k \in Link /\ call[q].op = "verify_email"
        /\ k.box \in proven /\ ToItsOwn(k)
    <3>1. db' = db /\ kind' = kind /\ pc[q] = "find_by_email"
      BY <1>6 DEF FindByEmail, KeepIds
    <3>2. call[q].op = "verify_email" /\ k \in Link
      BY <1>0, <3>1 DEF At, Asked, LinkOK
    <3> QED BY <1>0, <3>1, <3>2, Records DEF Follows
  <2>1. ~ Refuse(q) /\ \A j : ~ Answer(q, j)
    BY <1>0, <1>6, Lands
  <2>2. PICK u \in NamedByLink(call[q]) :
           CASE k.type = "confirm_change" ->
                  IF Sender THEN Goto(q, "mail_link", m(u)) ELSE Answer(q, l(u))
             [] k.type = "change" ->
                  Goto(q, IF local[q].row = None THEN "issue" ELSE "change_address", l(u))
             [] k.type = "verify" /\ u.verified -> Answer(q, l(u))
             [] OTHER -> Goto(q, "mark_verified", l(u))
    BY <1>6, <2>1 DEF FindByEmail
  <2>3. /\ l(u).user = u.id /\ m(u).user = u.id
        /\ m(u).link.type = "change" /\ m(u).link.box = m(u).link.to
    BY <1>0, <2>0 DEF Local, Link
  <2>4. k.type \in {"verify", "confirm_change", "change"}
    BY <2>0 DEF Link, Links
  <2>5. u \in db.users /\ u.email = k.email
    BY <2>2 DEF NamedByLink, UsersMailed
  <2>6. u.id \in 1 .. Len(kind) /\ \A w \in UserOf(db, u.id) : w = u
    BY <1>0, <2>5, UsersDrawn DEF UserOf
  <2> HIDE DEF l, m, k
  <2>7. CASE k.type = "confirm_change"
    <3>1. pc'[q] = "mail_link" /\ local'[q] = m(u)
      BY <1>0, <2>1, <2>2, <2>7, Lands
    <3>2. Follows(q)'
      BY <1>2, <2>3, <3>1 DEF ToItsOwn
    <3> QED BY <1>3, <3>1, <3>2 DEF Bound, Vetting
  <2>8. CASE k.type = "change"
    <3>1. pc'[q] \in {"issue", "change_address"}
      BY <1>0, <2>1, <2>2, <2>8, Lands
    <3> QED BY <1>6, <3>1
  <2>9. CASE k.type = "verify"
    <3>1. pc'[q] = "mark_verified" /\ local'[q] = l(u)
      BY <1>0, <2>1, <2>2, <2>9, Lands
    <3>2. u.email \in Proven
      BY <2>0, <2>5, <2>9 DEF ToItsOwn, Proven
    <3>3. local'[q].user = u.id
      BY <2>3, <3>1
    <3>4. Vets(q)'
      BY <1>1, <2>0, <2>6, <3>1, <3>2, <3>3 DEF Vets, Bound, Vetting, UserOf, Proven
    <3> QED BY <1>2, <3>1, <3>4
  <2> QED BY <2>4, <2>7, <2>8, <2>9
<1>7. ASSUME NEW u \in db.users, call[q].op \in Social, db' = db, kind' = kind,
             local'[q].user = u.id, Bound(pc'[q], local'[q]) = ThenFor(call[q], u),
             pc'[q] \in {"create_account", ThenFor(call[q], u)}
      PROVE  Follows(q)' /\ Vets(q)'
  <2>1. /\ ThenFor(call[q], u) = "mark_reported" => u.email \in Proven
        /\ ThenFor(call[q], u) = "override_verified" =>
              call[q].email \in Proven \/ u.id \in contested
        /\ ThenFor(call[q], u) \notin {"idle", "create_account", "check_address",
                                       "update_address", "mail_link", "mark_verified"}
    BY <1>7, ThenProven
  <2>2. u.id \in 1 .. Len(kind) /\ \A w \in UserOf(db, u.id) : w = u
    BY <1>0, <1>7, UsersDrawn DEF UserOf
  <2>3. pc'[q] \notin {"idle", "check_address", "mail_link"}
    BY <1>7, <2>1
  <2>4. Vets(q)'
    BY <1>1, <1>7, <2>1, <2>2, <2>3 DEF Vets, UserOf, Proven
  <2> QED BY <1>2, <2>3, <2>4
<1>8. CASE FindAccountUser(q) /\ pc'[q] # "idle"
  <2>1. /\ db' = db /\ kind' = kind /\ call[q].op \in Social /\ ~ Refuse(q)
    BY <1>0, <1>8, Lands DEF FindAccountUser, KeepIds, At
  <2>2. PICK u \in UserOf(db, local[q].user) : Goto(q, ThenFor(call[q], u), local[q])
    BY <1>8, <2>1 DEF FindAccountUser
  <2>3. pc'[q] = ThenFor(call[q], u) /\ local'[q] = local[q]
    BY <1>0, <2>2, Lands
  <2>4. ThenFor(call[q], u) # "create_account"
    BY AfterAccount
  <2> QED BY <1>7, <2>1, <2>2, <2>3, <2>4 DEF Bound, UserOf
<1>9. CASE FindByReport(q) /\ pc'[q] \in Addressing
  <2> DEFINE m(u) == [local[q] EXCEPT !.user = u.id, !.then = ThenFor(call[q], u)]
  <2>1. /\ db' = db /\ kind' = kind /\ call[q].op \in Social /\ ~ Refuse(q)
    BY <1>0, <1>9, Lands DEF FindByReport, KeepIds, At, Addressing
  <2>2. \A l : ~ Goto(q, "create_social_user", l)
    BY <1>0, <1>9, Lands DEF Addressing
  <2>3. PICK u \in UsersMailed(db, call[q].email) : Goto(q, "create_account", m(u))
    BY <1>9, <2>1, <2>2 DEF FindByReport
  <2>4. m(u).user = u.id /\ m(u).then = ThenFor(call[q], u)
    BY <1>0 DEF Local
  <2> HIDE DEF m
  <2>5. pc'[q] = "create_account" /\ local'[q] = m(u)
    BY <1>0, <2>3, Lands
  <2> QED BY <1>7, <2>1, <2>3, <2>4, <2>5 DEF Bound, UsersMailed
<1>10. CASE MarkReported(q) /\ pc'[q] \in Addressing
  <2> DEFINE rows == UserOf(db, local[q].user)
             u == CHOOSE w \in rows : TRUE
             label == IF rows = {} THEN "issue" ELSE Overrides(call[q], u, TRUE)
  <2>1. pc[q] = "mark_reported" /\ WriteUser(q, [verified |-> TRUE], label)
    BY <1>10 DEF MarkReported
  <2>2. label \in {"issue", "override_verified", "override_unverified"}
    BY DEF Overrides
  <2> HIDE DEF label
  <2>3. Goto(q, label, local[q]) /\ kind' = kind
    BY <1>0, <1>10, <2>1, <2>2, Lands DEF WriteUser, Continue, Unsigned, KeepIds, Addressing
  <2>4. pc'[q] = label /\ local'[q] = local[q]
    BY <1>0, <2>3, Lands
  <2>5. label = "override_verified"
    BY <1>10, <2>2, <2>4 DEF Addressing
  <2>6. rows # {} /\ u.email = call[q].email
    BY <2>5 DEF label, Overrides
  <2>7. u \in rows
    BY <2>6
  <2>8. u.email \in Proven \/ u.id \in contested
    BY <1>0, <2>1, <2>7 DEF Vets, Bound
  <2>9. call[q].email \in Proven \/ local[q].user \in contested
    BY <2>6, <2>7, <2>8 DEF UserOf
  <2>10. local[q].user \in 1 .. Len(kind)
    BY <1>0, <2>1 DEF Vets, Bound, Vetting
  <2>11. Vets(q)'
    BY <1>1, <2>3, <2>4, <2>5, <2>9, <2>10 DEF Vets, Bound, Proven
  <2> QED BY <1>2, <2>4, <2>5, <2>11
<1>11. CASE CreateSocialAccount(q) /\ pc'[q] # "idle"
  <2> DEFINE l == [local[q] EXCEPT !.got = @ \cup {fresh}, !.todo = {fresh}]
             a == [id |-> fresh, user |-> local[q].user, provider |-> "social",
                   subject |-> call[q].target, password |-> None, grant |-> local[q].row]
  <2>0. pc[q] = "create_account" /\ local[q].then \in Afterwards \ {"idle"}
    BY <1>0, <1>11 DEF CreateSocialAccount, Local, Afterwards
  <2>1. ~ GiveUp(q)
    BY <1>0, <1>11, Lands
  <2>2. db' = CreateAccount(db, a) /\ Continue(q, local[q].then, l)
    BY <1>11, <2>1 DEF CreateSocialAccount
  <2>3. l.user = local[q].user /\ l.then = local[q].then
    BY <1>0 DEF Local
  <2>4. db'.users = db.users
    <3>1. OnlyAccounts(db, CreateAccount(db, a))
      BY <1>0, Frames, Now
    <3> QED BY <2>2, <3>1 DEF OnlyAccounts
  <2> HIDE DEF l
  <2>5. Goto(q, local[q].then, l)
    BY <1>0, <1>11, <2>2, Lands DEF Continue
  <2>6. pc'[q] = local[q].then /\ local'[q] = l
    BY <1>0, <2>5, Lands
  <2>7. pc'[q] # "create_account" /\ pc'[q] \notin {"check_address", "mail_link"}
    BY <2>0, <2>6 DEF Afterwards
  <2>8. Vets(q)'
    BY <1>0, <1>1, <1>11, <2>0, <2>3, <2>4, <2>6, <2>7 DEF Vets, Bound, UserOf, Proven
  <2> QED BY <1>2, <2>7, <2>8
<1>12. CASE pc'[q] = "create_account" /\ local'[q].then \in {"answer", "issue"}
  BY <1>2, <1>3, <1>12 DEF Bound, Vetting
<1>13. "idle" \notin Addressing
  BY DEF Addressing
<1> QED BY <1>0, <1>4, <1>5, <1>6, <1>8, <1>9, <1>10, <1>11, <1>12, <1>13, Addresses

\* What a request goes by still holds once another has sent a statement.
LEMMA OthersVetted ==
    ASSUME Vetted, "update_user" \notin Ops, NEW q \in Requests, pc[q] # "idle", Sends(q),
           Len(kind') \in Nat, Len(kind) <= Len(kind'),
           contested \subseteq contested', proven' = proven,
           NEW p \in Requests, p # q, pc'[p] = pc[p], call'[p] = call[p], local'[p] = local[p]
    PROVE  Follows(p)' /\ Vets(p)'
<1>0. Typed /\ Overlap /\ Follows(p) /\ Vets(p) /\ Len(kind) \in Nat
  BY Now DEF Vetted
<1>1. Follows(p)'
  BY <1>0 DEF Follows
<1> DEFINE x == Bound(pc[p], local[p])
<1>2. ASSUME x \in Vetting, NEW w \in UserOf(db', local[p].user)
      PROVE  \/ w.id \in contested
             \/ \E u \in UserOf(db, local[p].user) : u.email = w.email /\ u.verified = w.verified
  <2>1. local[p].user \in 1 .. Len(kind) /\ pc[p] # "idle" /\ w.id = local[p].user /\ w \in db'.users
    BY <1>0, <1>2 DEF Vets, Bound, Vetting, UserOf
  <2>2. w.id # fresh /\ w.id # None
    BY <1>0, <2>1, UsersDrawn, Now
  <2>3. Rewrites(q, w)
    BY <1>0, <2>1, <2>2, AddressRows
  <2>4. CASE w.id = local[q].user
    <3>1. w.id \in Touched(p) \cap Touched(q)
      BY <2>1, <2>2, <2>4 DEF Touched
    <3> QED BY <1>0, <3>1, Met
  <2> QED BY <2>1, <2>3, <2>4 DEF Rewrites
<1> HIDE DEF x
<1>3. Bound(pc'[p], local'[p]) = x
  BY DEF x
<1>4. /\ x \in Vetting => local[p].user \in 1 .. Len(kind)
      /\ x = "update_address" \/ (x = "check_address" /\ local[p].link = NoLink) =>
            \A u \in UserOf(db, local[p].user) : ~ u.verified \/ u.id \in contested
      /\ x \in {"mark_verified", "mark_reported"} =>
            \A u \in UserOf(db, local[p].user) : u.email \in Proven \/ u.id \in contested
      /\ x = "override_verified" => call[p].email \in Proven \/ local[p].user \in contested
  BY <1>0 DEF Vets, x
<1>5. \A u \in UserOf(db, local[p].user) : \A w \in UserOf(db', local[p].user) : u.id = w.id
  BY DEF UserOf
<1>6. Proven' = Proven
  BY DEF Proven, FirstVerified, AdminEmail
<1>7. x = "update_address" \/ (x = "check_address" /\ local[p].link = NoLink) =>
         \A w \in UserOf(db', local[p].user) : ~ w.verified \/ w.id \in contested'
  BY <1>2, <1>4, <1>5 DEF Vetting
<1>8. x \in {"mark_verified", "mark_reported"} =>
         \A w \in UserOf(db', local[p].user) : w.email \in Proven \/ w.id \in contested'
  BY <1>2, <1>4, <1>5 DEF Vetting
<1>9. x \in Vetting => local[p].user \in 1 .. Len(kind')
  BY <1>0, <1>4
<1>10. x = "override_verified" => call[p].email \in Proven \/ local[p].user \in contested'
  BY <1>4
<1> QED BY <1>1, <1>3, <1>6, <1>7, <1>8, <1>9, <1>10 DEF Vets

\* The requests that arrive at a statement that leads there, and those that do not.
LEMMA AddressArrivals ==
    ASSUME Typed, NEW p \in Requests, pc[p] = "idle", NEW op \in Ops, NEW c \in Possible(op),
           Arrives(p, c), pc'[p] \in Addressing
    PROVE  SendArrives(p, c) \/ ChangeEmailArrives(p, c)
<1>0. c.op = op /\ op \in AllOps
  BY PossibleAsked, IdentityAssumption DEF Typed
<1> USE DEF Arrive, Typed
<1>1. \/ CredentialArrives(p, c) \/ AdminArrives(p, c) \/ ProfileArrives(p, c)
      \/ PasskeyArrives(p, c) \/ SocialArrives(p, c)
  BY <1>0 DEF Arrives, AllOps
<1>2. CASE CredentialArrives(p, c)
  BY <1>0, <1>2 DEF CredentialArrives, SignUpArrives, NamedArrives, ResetArrives,
                          CurrentUserArrives, Addressing
<1>3. CASE AdminArrives(p, c)
  <2>1. AdminStart(c) \notin Addressing
    BY DEF AdminStart, Addressing
  <2> QED BY <1>0, <1>3, <2>1 DEF AdminArrives, AuthorizedArrives, StopArrives, Addressing
<1>4. CASE VerifyArrives(p, c) \/ DeletionArrives(p, c) \/ CreateKeyArrives(p, c)
  <2>1. AfterPassword(c) \notin Addressing
    BY DEF AfterPassword, Addressing
  <2> QED BY <1>4, <2>1 DEF VerifyArrives, DeletionArrives, CreateKeyArrives, Addressing
<1>5. CASE PasskeyArrives(p, c)
  BY <1>0, <1>5 DEF PasskeyArrives, OptionsArrive, RegisterArrives, AuthenticateArrives,
                          DeletePasskeyArrives, Addressing
<1>6. CASE SocialArrives(p, c)
  <2>1. Copied(c) \notin Addressing
    BY DEF Copied, Addressing
  <2> QED BY <1>0, <1>6, <2>1 DEF SocialArrives, StartArrives, LinkArrives, CallbackArrives,
             IdTokenArrives, RefreshArrives, InfoArrives, UnlinkArrives, Addressing
<1> QED BY <1>1, <1>2, <1>3, <1>4, <1>5, <1>6 DEF ProfileArrives

\* A link is only followed if it has been mailed.
LEMMA LinksFollowed ==
    ASSUME Typed, NEW op \in Ops, NEW c \in Possible(op), c.op = "verify_email"
    PROVE  c.change \in Mailed
<1>1. op = "verify_email"
  BY PossibleAsked DEF Typed
<1>2. /\ op \in ProfileOps
      /\ op \notin CredentialOps /\ op \notin AdminOps
      /\ op \notin PasskeyOps /\ op \notin SocialOps
  BY <1>1 DEF ProfileOps, CredentialOps, AdminOps, PasskeyOps, SocialOps
<1>3. c \in ProfileRequests(op)
  BY <1>2 DEF Possible
<1>4. c \in Calls([Only(op) EXCEPT !.cookie = Known("session") \cup {None}, !.change = Mailed])
  BY <1>1, <1>3 DEF ProfileRequests
<1> QED BY <1>4 DEF Calls, Only

LEMMA ArrivesVetted ==
    ASSUME Vetted, NEW p \in Requests, pc[p] = "idle", NEW op \in Ops, NEW c \in Possible(op),
           Arrives(p, c), contested \subseteq contested'
    PROVE  Follows(p)' /\ Vets(p)' /\ proven \subseteq proven' /\ UNCHANGED <<db, kind>>
<1>0. Typed /\ \A k \in Mailed : ToItsOwn(k)
  BY DEF Vetted
<1>1. PICK label, l : Arrive(p, c, label, l)
  BY <1>0, Begin
<1>2. /\ pc'[p] = label /\ call'[p] = c /\ local'[p] = l
      /\ proven' = IF "box" \in DOMAIN c.change THEN proven \cup {c.change.box} ELSE proven
      /\ UNCHANGED <<db, kind>>
  BY <1>0, <1>1 DEF Arrive, KeepIds, Typed
<1>3. /\ proven \subseteq proven'
      /\ "box" \in DOMAIN c.change => c.change.box \in proven'
  BY <1>2
<1>4. c.op = "verify_email" => ToItsOwn(c.change)
  BY <1>0, LinksFollowed
<1>5. ASSUME pc'[p] \notin {"check_address", "mail_link"} \/ ToItsOwn(local'[p].link)
      PROVE  Follows(p)'
  BY <1>2, <1>3, <1>4, <1>5 DEF Follows
<1>6. CASE pc'[p] \notin Addressing
  <2>1. Bound(pc'[p], local'[p]) \notin Vetting /\ pc'[p] \notin {"check_address", "mail_link"}
    BY <1>6 DEF Bound, Vetting, Addressing
  <2>2. Vets(p)'
    BY <2>1 DEF Vets, Vetting
  <2> QED BY <1>2, <1>3, <1>5, <2>1, <2>2
<1>7. CASE SendArrives(p, c)
  <2>1. PICK u \in UsersMailed(db, c.email) :
           Arrive(p, c, "mail_link", [Blank EXCEPT !.user = u.id, !.link = VerifyLink(c.email)])
    BY <1>7 DEF SendArrives
  <2>2. [Blank EXCEPT !.user = u.id, !.link = VerifyLink(c.email)].link = VerifyLink(c.email)
    BY DEF Blank
  <2>3. pc'[p] = "mail_link" /\ local'[p].link = VerifyLink(c.email)
    BY <1>0, <2>1, <2>2 DEF Arrive, Typed
  <2>4. ToItsOwn(local'[p].link)
    BY <2>3 DEF ToItsOwn, VerifyLink
  <2>5. Vets(p)'
    BY <2>3 DEF Vets, Bound, Vetting
  <2> QED BY <1>2, <1>3, <1>5, <2>4, <2>5
<1>8. CASE ChangeEmailArrives(p, c)
  <2> DEFINE k(u) == IF ~ u.verified /\ UpdateUnverified THEN NoLink ELSE ChangeLink(u, c.email)
             m(u) == [Blank EXCEPT !.user = u.id, !.link = k(u)]
  <2>1. PICK s \in Caller(db, c) : \E u \in UserOf(db, s.user) : Arrive(p, c, "check_address", m(u))
    BY <1>8 DEF ChangeEmailArrives
  <2>2. PICK u \in UserOf(db, s.user) : Arrive(p, c, "check_address", m(u))
    BY <2>1
  <2>3. m(u).user = u.id /\ m(u).link = k(u)
    BY DEF Blank
  <2>4. ToItsOwn(k(u)) /\ (k(u) = NoLink => ~ u.verified)
    BY DEF ToItsOwn, ChangeLink, NoLink
  <2>5. u.id \in 1 .. Len(kind) /\ \A w \in UserOf(db, u.id) : w = u
    BY <1>0, <2>2, UsersDrawn DEF UserOf
  <2> HIDE DEF k, m
  <2>6. pc'[p] = "check_address" /\ local'[p] = m(u)
    BY <1>0, <2>2 DEF Arrive, Typed
  <2>7. Vets(p)'
    BY <1>2, <2>3, <2>4, <2>5, <2>6 DEF Vets, Bound, UserOf
  <2> QED BY <1>2, <1>3, <1>5, <2>3, <2>4, <2>6, <2>7
<1> QED BY <1>0, <1>6, <1>7, <1>8, AddressArrivals

\* The end of bans leaves addresses and marks.
LEMMA BanAddresses ==
    ASSUME Typed, BansEnd, NEW w \in db'.users
    PROVE  \E u \in UserOf(db, w.id) : u.email = w.email /\ u.verified = w.verified
<1> DEFINE New(u) == IF u.ends = "ahead" THEN [u EXCEPT !.ends = "over"] ELSE u
<1>1. db \in Database /\ db.users \subseteq User
  BY Now DEF Database
<1>2. db'.users = {New(u) : u \in db.users}
  BY <1>1 DEF BansEnd, Database
<1>3. \A u \in User : New(u).id = u.id /\ New(u).email = u.email /\ New(u).verified = u.verified
  BY DEF User
<1> HIDE DEF New
<1> QED BY <1>1, <1>2, <1>3 DEF UserOf

LEMMA VettedStays ==
    ASSUME Vetted, "update_user" \notin Ops, [Next]_vars
    PROVE  Vetted'
<1>0. /\ Typed /\ Overlap /\ VerifiedIsProven /\ (\A k \in Mailed : ToItsOwn(k))
      /\ \A p \in Requests : Follows(p) /\ Vets(p)
  BY DEF Vetted
<1>1. Typed' /\ Overlap' /\ contested \subseteq contested'
  BY <1>0, TypedStays, OverlapStays
<1>2. CASE UNCHANGED vars
  BY <1>0, <1>1, <1>2 DEF vars, history, watched, Vetted, VerifiedIsProven, Mailed, Follows, Vets,
                          UserOf, Proven
<1>3. CASE BansEnd
  <2>1. /\ pc' = pc /\ call' = call /\ local' = local /\ kind' = kind /\ proven' = proven
        /\ signed' = signed
    BY <1>0, <1>3, BanRows
  <2>2. \A w \in db'.users : \E u \in UserOf(db, w.id) : u.email = w.email /\ u.verified = w.verified
    BY <1>0, <1>3, BanAddresses
  <2>3. VerifiedIsProven'
    BY <1>0, <1>1, <2>1, <2>2 DEF VerifiedIsProven, UserOf
  <2>4. ASSUME NEW p \in Requests
        PROVE  Follows(p)' /\ Vets(p)'
    <3>1. Follows(p) /\ Vets(p)
      BY <1>0
    <3>2. Follows(p)'
      BY <2>1, <3>1 DEF Follows
    <3> DEFINE i == local[p].user
               x == Bound(pc[p], local[p])
    <3>3. \A w \in UserOf(db', i) : \E u \in UserOf(db, i) :
             u.id = w.id /\ u.email = w.email /\ u.verified = w.verified
      BY <2>2 DEF UserOf
    <3>4. /\ x \in Vetting => i \in 1 .. Len(kind)
          /\ x = "update_address" \/ (x = "check_address" /\ local[p].link = NoLink) =>
                \A u \in UserOf(db, i) : ~ u.verified \/ u.id \in contested
          /\ x \in {"mark_verified", "mark_reported"} =>
                \A u \in UserOf(db, i) : u.email \in Proven \/ u.id \in contested
          /\ x = "override_verified" => call[p].email \in Proven \/ i \in contested
      BY <3>1 DEF Vets
    <3>5. Proven' = Proven /\ local'[p].user = i /\ Bound(pc'[p], local'[p]) = x
      BY <2>1 DEF Proven, FirstVerified, AdminEmail
    <3> HIDE DEF i, x
    <3>6. Vets(p)'
      BY <1>1, <2>1, <3>3, <3>4, <3>5 DEF Vets
    <3> QED BY <3>2, <3>6
  <2> QED BY <1>0, <1>1, <2>1, <2>3, <2>4 DEF Vetted, Mailed
<1>4. ASSUME NEW p \in Requests, pc[p] = "idle", Arrived(p), NEW op \in Ops,
             NEW c \in Possible(op), Arrives(p, c)
      PROVE  Vetted'
  <2>1. /\ db' = db /\ signed' = signed /\ kind' = kind
        /\ \A q \in Requests \ {p} : pc'[q] = pc[q] /\ call'[q] = call[q] /\ local'[q] = local[q]
    BY <1>4 DEF Arrived, SendsRead, Settled, KeepIds
  <2>2. Follows(p)' /\ Vets(p)' /\ proven \subseteq proven'
    BY <1>1, <1>4, ArrivesVetted
  <2>3. Proven \subseteq Proven'
    BY <2>2 DEF Proven, FirstVerified, AdminEmail
  <2>4. ASSUME NEW q \in Requests \ {p}
        PROVE  Follows(q)' /\ Vets(q)'
    <3>1. Follows(q) /\ Vets(q)
      BY <1>0
    <3>2. Follows(q)'
      BY <2>1, <2>2, <3>1 DEF Follows
    <3>3. Vets(q)'
      BY <1>1, <2>1, <2>3, <3>1 DEF Vets, UserOf
    <3> QED BY <3>2, <3>3
  <2>5. VerifiedIsProven'
    BY <1>0, <1>1, <2>1, <2>2 DEF VerifiedIsProven
  <2> QED BY <1>0, <1>1, <2>1, <2>2, <2>4, <2>5 DEF Vetted, Mailed
<1>5. ASSUME NEW q \in Requests, pc[q] # "idle", Step(q), Stepped(q)
      PROVE  Vetted'
  <2>1. /\ Sends(q) /\ Len(kind') \in Nat /\ Len(kind) <= Len(kind') /\ proven' = proven
        /\ \A p \in Requests \ {q} : pc'[p] = pc[p] /\ call'[p] = call[p] /\ local'[p] = local[p]
    BY <1>0, <1>5, EveryOnward DEF Stepped, Settled, Left, Onward
  <2>2. Follows(q)' /\ Vets(q)'
    BY <1>1, <1>5, StaysVetted
  <2>3. \A p \in Requests \ {q} : Follows(p)' /\ Vets(p)'
    BY <1>1, <1>5, <2>1, OthersVetted
  <2>4. \A w \in db'.users : w.verified => w.email \in Proven \/ w.id \in contested
    BY <1>5, <2>1, MarksMade
  <2>5. VerifiedIsProven'
    BY <1>1, <2>1, <2>4 DEF VerifiedIsProven, Proven, FirstVerified, AdminEmail
  <2>6. \A k \in Mailed' : ToItsOwn(k)
    BY <1>5, <2>1, LinksMade
  <2> QED BY <1>1, <2>2, <2>3, <2>5, <2>6 DEF Vetted
<1>6. CASE Next
  BY <1>0, <1>3, <1>4, <1>5, <1>6, Moves
<1> QED BY <1>2, <1>6

LEMMA InitVetted ==
    ASSUME Init
    PROVE  Vetted
<1>1. Typed /\ Overlap
  BY InitTyped, InitOverlap
<1>2. /\ \A p \in Requests : pc[p] = "idle"
      /\ signed = {}
      /\ \E f : db.users = {NewUser(1, AdminEmail, NoText, TRUE, TRUE),
                            NewUser(5, f, NoText, FALSE, FALSE)}
  BY DEF Init
<1>3. VerifiedIsProven
  BY <1>2 DEF VerifiedIsProven, NewUser, FirstVerified
<1>4. \A p \in Requests : Follows(p) /\ Vets(p)
  BY <1>2 DEF Follows, Vets, Bound, Vetting
<1> QED BY <1>1, <1>2, <1>3, <1>4 DEF Vetted, Mailed

\* Unless administrators write addresses, one is marked as verified only once its owner
\* has followed a link to it or the provider has vouched for it, whichever of the seven
\* statements writes the address or the mark, and however long ago it was judged; with
\* admin update-user among the endpoints it does not hold, because that one writes an
\* address and leaves the mark.
THEOREM MarksAreProven ==
    ASSUME "update_user" \notin Ops
    PROVE  Spec => []VerifiedIsProven
<1>1. Init => Vetted
  BY InitVetted
<1>2. Vetted /\ [Next]_vars => Vetted'
  BY VettedStays
<1>3. Vetted => VerifiedIsProven
  BY DEF Vetted
<1> QED BY <1>1, <1>2, <1>3, PTL DEF Spec

-----------------------------------------------------------------------------
(* Who is locked out, and what a request under way can do about it.         *)

\* What a step does with those its answer is to lock out: it refuses, answers, or goes
\* on with them.
Forgets(p) == pc'[p] = "idle" /\ ousted' = ousted
Ousts(p) == pc'[p] = "idle" /\ ousted' = StillOut(db', ousted \cup local[p].out)
Remembers(p) == /\ ousted' = ousted /\ call'[p] = call[p] /\ local'[p].out = local[p].out
Minds(p) == (Forgets(p) \/ Ousts(p) \/ Remembers(p)) /\ broken \subseteq broken'

LEMMA Minding ==
    ASSUME Typed, NEW p \in Requests
    PROVE  /\ Refuse(p) => Minds(p)
           /\ GiveUp(p) => Minds(p)
           /\ \A l : Answer(p, l) /\ l.out = local[p].out => Minds(p)
           /\ \A label, l : Goto(p, label, l) /\ l.out = local[p].out => Minds(p)
           /\ \A label, l : Continue(p, label, l) /\ l.out = local[p].out => Minds(p)
<1>0. /\ pc = [q \in Requests |-> pc[q]] /\ call = [q \in Requests |-> call[q]]
      /\ local = [q \in Requests |-> local[q]]
  BY DEF Typed
<1>1. (Refuse(p) => Minds(p)) /\ (GiveUp(p) => Minds(p))
  BY <1>0 DEF Refuse, GiveUp, Drop, Minds, Forgets, history
<1>2. \A l : Answer(p, l) /\ l.out = local[p].out => Minds(p)
  BY <1>0 DEF Answer, Drop, Minds, Ousts
<1>3. \A label, l : Goto(p, label, l) /\ l.out = local[p].out => Minds(p)
  BY <1>0 DEF Goto, Minds, Remembers, history
<1>4. \A label, l : Continue(p, label, l) /\ l.out = local[p].out => Minds(p)
  BY <1>2, <1>3 DEF Continue
<1> QED BY <1>1, <1>2, <1>3, <1>4

LEMMA SharedMinds ==
    ASSUME Typed, NEW p \in Requests, pc[p] # "idle", SharedStep(p)
    PROVE  Minds(p)
<1>0. local[p] \in Local
  BY StillThere
<1>1. CASE ReadBan(p)
  BY <1>1, Minding DEF ReadBan
<1>2. CASE LiftBanAndIssue(p)
  BY <1>2, Minding DEF LiftBanAndIssue, LiftBan
<1>3. CASE ListAccounts(p)
  BY <1>0, <1>3, Minding DEF ListAccounts, Local
<1>4. CASE DeleteOneAccount(p)
  BY <1>0, <1>4, Minding DEF DeleteOneAccount, Local
<1>5. CASE DeleteUserKeys(p)
  BY <1>5, Minding DEF DeleteUserKeys
<1>6. CASE StatementFails(p)
  BY <1>6, Minding DEF StatementFails
<1> QED BY <1>1, <1>2, <1>3, <1>4, <1>5, <1>6 DEF SharedStep

LEMMA CredentialMinds ==
    ASSUME Typed, NEW p \in Requests, pc[p] # "idle", CredentialStep(p)
    PROVE  Minds(p) \/ (WriteNewPassword(p) /\ Revokes(call[p]))
<1>0. local[p] \in Local
  BY StillThere
<1>1. CASE CheckEmail(p)
  BY <1>1, Minding DEF CheckEmail
<1>2. CASE SignUp(p)
  BY <1>0, <1>2, Minding DEF SignUp, Local
<1>3. CASE CheckPassword(p) \/ CheckUnverified(p)
  BY <1>3, Minding DEF CheckPassword, CheckUnverified
<1>4. CASE SignIn(p) \/ Reissue(p)
  BY <1>0, <1>4, Minding DEF SignIn, Reissue, StoreSession, Local
<1>5. CASE StoreToken(p)
  BY <1>0, <1>5, Minding DEF StoreToken, Local
<1>6. CASE FindPasswordRow(p)
  BY <1>0, <1>6, Minding DEF FindPasswordRow, FindCredential, Local
<1>7. CASE WriteNewPassword(p) /\ ~ Revokes(call[p])
  BY <1>7, Minding DEF WriteNewPassword, WritePassword
<1>8. CASE AddPassword(p)
  BY <1>8, Minding DEF AddPassword, AddCredential
<1>9. CASE DeleteToken(p)
  BY <1>9, Minding DEF DeleteToken
<1>10. CASE RevokeSessions(p)
  BY <1>10, Minding DEF RevokeSessions, DeleteSessions
<1>11. CASE Reread(p)
  BY <1>11, Minding DEF Reread
<1> QED BY <1>1, <1>2, <1>3, <1>4, <1>5, <1>6, <1>7, <1>8, <1>9, <1>10, <1>11 DEF CredentialStep

LEMMA AdminMinds ==
    ASSUME Typed, NEW p \in Requests, pc[p] # "idle", AdminStep(p)
    PROVE  Minds(p) \/ (UpdateTarget(p) /\ call[p].op = "ban")
<1>0. local[p] \in Local
  BY StillThere
<1>1. CASE AdminCreateUser(p)
  BY <1>0, <1>1, Minding DEF AdminCreateUser, Local
<1>2. CASE CheckOwnName(p)
  BY <1>2, Minding DEF CheckOwnName
<1>3. CASE UpdateTarget(p) /\ call[p].op # "ban"
  BY <1>3, Minding DEF UpdateTarget
<1>4. CASE FindTarget(p)
  BY <1>4, Minding DEF FindTarget
<1>5. CASE LiftBanFirst(p)
  BY <1>5, Minding DEF LiftBanFirst, LiftBan
<1>6. CASE Impersonate(p)
  BY <1>0, <1>6, Minding DEF Impersonate, StoreSession, Local
<1>7. CASE FindAdmin(p) \/ FindOwnSession(p) \/ EndImpersonation(p) \/ RevokeSession(p)
  BY <1>7, Minding DEF FindAdmin, FindOwnSession, EndImpersonation, RevokeSession
<1>8. CASE RevokeTargetSessions(p)
  BY <1>8, Minding DEF RevokeTargetSessions, DeleteSessions
<1>9. CASE RemoveUser(p)
  BY <1>9, Minding DEF RemoveUser, DeleteUserRow
<1> QED BY <1>1, <1>2, <1>3, <1>4, <1>5, <1>6, <1>7, <1>8, <1>9 DEF AdminStep

LEMMA ProfileMinds ==
    ASSUME Typed, NEW p \in Requests, pc[p] # "idle", ProfileStep(p)
    PROVE  Minds(p)
<1>0. local[p] \in Local
  BY StillThere
<1>1. CASE CheckAddress(p)
  BY <1>1, Minding DEF CheckAddress
<1>2. ASSUME NEW change, NEW label, WriteUser(p, change, label)
      PROVE  Minds(p)
  BY <1>2, Minding DEF WriteUser
<1>3. CASE UpdateAddress(p) \/ ChangeAddress(p) \/ MarkVerified(p)
  BY <1>2, <1>3 DEF UpdateAddress, ChangeAddress, MarkVerified
<1>4. CASE MailLink(p)
  BY <1>4, Minding DEF MailLink
<1>5. CASE FindByEmail(p)
  BY <1>0, <1>5, Minding DEF FindByEmail, Local
<1>6. CASE SessionForLink(p)
  BY <1>0, <1>6, Minding DEF SessionForLink, StoreSession, Local
<1>7. CASE CheckDeletionPassword(p)
  BY <1>7, Minding DEF CheckDeletionPassword
<1>8. CASE StoreDeleteToken(p) \/ FindDeleteToken(p)
  BY <1>0, <1>8, Minding DEF StoreDeleteToken, FindDeleteToken, Local
<1>9. CASE DeleteOwnSessions(p)
  BY <1>9, Minding DEF DeleteOwnSessions, DeleteSessions
<1>10. CASE DeleteOneself(p)
  BY <1>10, Minding DEF DeleteOneself, DeleteUserRow
<1>11. CASE DropDeleteToken(p)
  BY <1>11, Minding DEF DropDeleteToken
<1>12. CASE CreateKey(p)
  BY <1>0, <1>12, Minding DEF CreateKey, Local
<1> QED BY <1>1, <1>3, <1>4, <1>5, <1>6, <1>7, <1>8, <1>9, <1>10, <1>11, <1>12 DEF ProfileStep

LEMMA PasskeyMinds ==
    ASSUME Typed, NEW p \in Requests, pc[p] # "idle", PasskeyStep(p)
    PROVE  Minds(p)
<1>0. local[p] \in Local
  BY StillThere
<1>1. CASE ListPasskeys(p) \/ StoreChallenge(p)
  BY <1>0, <1>1, Minding DEF ListPasskeys, StoreChallenge, Local
<1>2. CASE FindRegistration(p)
  BY <1>0, <1>2, Minding DEF FindRegistration, Local
<1>3. CASE StorePasskey(p)
  BY <1>3, Minding DEF StorePasskey
<1>4. CASE FindPasskey(p)
  BY <1>0, <1>4, Minding DEF FindPasskey, Local
<1>5. CASE WritePasskey(p)
  BY <1>0, <1>5, Minding DEF WritePasskey, Local
<1>6. CASE FindPasskeyUser(p) \/ DropChallenge(p) \/ CheckOwner(p) \/ RemovePasskey(p)
  BY <1>6, Minding DEF FindPasskeyUser, DropChallenge, CheckOwner, RemovePasskey
<1>7. CASE SignInWithPasskey(p)
  BY <1>0, <1>7, Minding DEF SignInWithPasskey, StoreSession, Local
<1> QED BY <1>1, <1>2, <1>3, <1>4, <1>5, <1>6, <1>7 DEF PasskeyStep

LEMMA SocialMinds ==
    ASSUME Typed, NEW p \in Requests, pc[p] # "idle", SocialStep(p)
    PROVE  Minds(p)
<1>0. local[p] \in Local
  BY StillThere
<1>1. CASE StoreState(p) \/ FindLinkUser(p)
  BY <1>0, <1>1, Minding DEF StoreState, FindLinkUser, Local
<1>2. CASE FindLinked(p)
  BY <1>2, Minding DEF FindLinked
<1>3. CASE DropState(p)
  BY <1>0, <1>3, Minding DEF DropState, Local
<1>4. CASE FindAccount(p)
  BY <1>0, <1>4, Minding DEF FindAccount, Local
<1>5. CASE WriteTokens(p)
  BY <1>5, Minding DEF WriteTokens
<1>6. CASE FindAccountUser(p)
  BY <1>6, Minding DEF FindAccountUser
<1>7. ASSUME NEW change, NEW label, WriteUser(p, change, label)
      PROVE  Minds(p)
  BY <1>7, Minding DEF WriteUser
<1>8. CASE MarkReported(p) \/ OverrideUser(p)
  BY <1>7, <1>8 DEF MarkReported, OverrideUser
<1>9. CASE FindByReport(p)
  BY <1>0, <1>9, Minding DEF FindByReport, Local
<1>10. CASE CreateSocialUser(p) \/ CreateSocialAccount(p)
  BY <1>0, <1>10, Minding DEF CreateSocialUser, CreateSocialAccount, Local
<1>11. CASE SocialSession(p)
  BY <1>0, <1>11, Minding DEF SocialSession, StoreSession, Local
<1>12. CASE FindInfo(p)
  BY <1>0, <1>12, Minding DEF FindInfo, CopyOf, Local
<1>13. CASE FindTokens(p)
  BY <1>0, <1>13, Minding DEF FindTokens, Local
<1>14. CASE Exchange(p)
  BY <1>0, <1>14, Minding DEF Exchange, Local
<1>15. CASE AnswerFromCookie(p) \/ HasPassword(p) \/ Unlink(p)
  BY <1>15, Minding DEF AnswerFromCookie, HasPassword, Unlink
<1>16. CASE ListToUnlink(p)
  BY <1>0, <1>16, Minding DEF ListToUnlink, Local
<1> QED BY <1>1, <1>2, <1>3, <1>4, <1>5, <1>6, <1>8, <1>9, <1>10, <1>11, <1>12, <1>13, <1>14, <1>15,
           <1>16 DEF SocialStep

LEMMA EveryMinds ==
    ASSUME Typed, NEW p \in Requests, pc[p] # "idle", Step(p)
    PROVE  \/ Minds(p)
           \/ WriteNewPassword(p) /\ Revokes(call[p])
           \/ UpdateTarget(p) /\ call[p].op = "ban"
  BY SharedMinds, CredentialMinds, AdminMinds, ProfileMinds, PasskeyMinds, SocialMinds DEF Step

\* The endpoints that revoke, and those that sign in with a password, send no others'
\* statements.
LEMMA CredentialOnly ==
    ASSUME Typed, NEW p \in Requests, pc[p] # "idle", Step(p), call[p].op \in CredentialOps
    PROVE  ReadBan(p) \/ LiftBanAndIssue(p) \/ StatementFails(p) \/ CredentialStep(p)
<1>0. At(pc[p], call[p], local[p])
  BY StillThere
<1>1. ASSUME ListAccounts(p) \/ DeleteOneAccount(p) \/ DeleteUserKeys(p) PROVE FALSE
  BY <1>0, <1>1 DEF At, ListAccounts, DeleteOneAccount, DeleteUserKeys, Deleting, CredentialOps
<1>2. ASSUME AdminStep(p) PROVE FALSE
  <2>1. call[p].op \notin AdminOps
    BY DEF CredentialOps, AdminOps
  <2>2. pc[p] \in {"create_user", "check_name", "update_user", "find_target", "lift_first",
                   "impersonate", "find_admin", "find_own_session", "end_impersonation",
                   "delete_session", "delete_user"}
    BY <1>2, <2>1 DEF AdminStep, AdminCreateUser, CheckOwnName, UpdateTarget, FindTarget,
                      LiftBanFirst, Impersonate, FindAdmin, FindOwnSession, EndImpersonation,
                      RevokeSession, RevokeTargetSessions, RemoveUser, DeleteUserRow
  <2> QED BY <1>0, <2>2 DEF At, CredentialOps, Deleting
<1>3. ASSUME ProfileStep(p) PROVE FALSE
  <2>1. call[p].op \notin ProfileOps
    BY DEF CredentialOps, ProfileOps
  <2>2. pc[p] \in {"check_address", "update_address", "mail_link", "find_by_email",
                   "change_address", "mark_verified", "store_delete_token",
                   "find_delete_token", "drop_delete_token", "create_key"}
    BY <1>3, <2>1 DEF ProfileStep, CheckAddress, UpdateAddress, MailLink, FindByEmail,
              SessionForLink, ChangeAddress, MarkVerified, CheckDeletionPassword,
              StoreDeleteToken, FindDeleteToken, DeleteOwnSessions, DeleteOneself,
              DropDeleteToken, CreateKey, ProfileOps
  <2> QED BY <1>0, <2>2 DEF At, CredentialOps
<1>4. ASSUME PasskeyStep(p) PROVE FALSE
  <2>1. call[p].op # "authenticate"
    BY DEF CredentialOps
  <2>2. pc[p] \in {"list_passkeys", "store_challenge", "find_challenge", "create_passkey",
                   "find_passkey", "update_passkey", "find_passkey_user", "drop_challenge",
                   "check_owner", "delete_passkey"}
    BY <1>4, <2>1 DEF PasskeyStep, ListPasskeys, StoreChallenge, FindRegistration, StorePasskey,
              FindPasskey, WritePasskey, FindPasskeyUser, DropChallenge, SignInWithPasskey,
              CheckOwner, RemovePasskey
  <2> QED BY <1>0, <2>2 DEF At, CredentialOps
<1>5. ASSUME SocialStep(p) PROVE FALSE
  <2>1. call[p].op \notin Social
    BY DEF CredentialOps, Social
  <2>2. pc[p] \in {"store_state", "find_link_user", "find_linked", "drop_state", "find_account",
                   "update_account", "find_account_user", "mark_reported",
                   "override_verified", "override_unverified", "find_by_report",
                   "create_social_user", "create_account", "find_info", "find_tokens",
                   "exchange", "answer", "list_unlink", "has_password", "unlink"}
    BY <1>5, <2>1 DEF SocialStep, StoreState, FindLinkUser, FindLinked, DropState, FindAccount,
              WriteTokens, FindAccountUser, MarkReported, OverrideUser, FindByReport,
              CreateSocialUser, CreateSocialAccount, SocialSession, FindInfo, FindTokens,
              Exchange, AnswerFromCookie, ListToUnlink, HasPassword, Unlink, Social
  <2> QED BY <1>0, <2>2 DEF At, CredentialOps, Social, Tokens
<1> QED BY <1>1, <1>2, <1>3, <1>4, <1>5 DEF Step, SharedStep

\* Whoever deletes the sessions of a user deletes them.
LEMMA Revoking ==
    ASSUME Typed, NEW p \in Requests, pc[p] = "delete_sessions", Step(p)
    PROVE  \/ StatementFails(p)
           \/ /\ SendsRevoke(p)
              /\ call[p].op = "ban" => \E l : Answer(p, l)
<1>0. At(pc[p], call[p], local[p]) /\ call[p].op \in Ops
  BY StillThere DEF Asked
<1>1. ASSUME NEW label, DeleteSessions(p, label)
      PROVE  SendsRevoke(p)
  BY <1>1 DEF DeleteSessions, SessionsGone, SendsRevoke, Unsigned
<1>2. CASE SharedStep(p)
  BY <1>2 DEF SharedStep, ReadBan, LiftBanAndIssue, ListAccounts, DeleteOneAccount,
              DeleteUserKeys
<1>3. CASE CredentialStep(p)
  BY <1>1, <1>3 DEF CredentialStep, CheckEmail, SignUp, CheckPassword, CheckUnverified, SignIn,
              StoreToken, FindPasswordRow, WriteNewPassword, AddPassword, DeleteToken,
              RevokeSessions, Reissue, Reread, CredentialOps
<1>4. CASE AdminStep(p)
  <2>1. RevokeTargetSessions(p)
    BY <1>4 DEF AdminStep, AdminCreateUser, CheckOwnName, UpdateTarget, FindTarget,
                      LiftBanFirst, Impersonate, FindAdmin, FindOwnSession, EndImpersonation,
                      RevokeSession, RemoveUser, DeleteUserRow
  <2> QED BY <1>1, <2>1 DEF RevokeTargetSessions, DeleteSessions, Continue
<1>5. CASE ProfileStep(p)
  BY <1>1, <1>5 DEF ProfileStep, CheckAddress, UpdateAddress, MailLink, FindByEmail,
              SessionForLink, ChangeAddress, MarkVerified, CheckDeletionPassword,
              StoreDeleteToken, FindDeleteToken, DeleteOwnSessions, DeleteOneself, DeleteUserRow,
              DropDeleteToken, CreateKey
<1>6. CASE PasskeyStep(p)
  BY <1>6 DEF PasskeyStep, ListPasskeys, StoreChallenge, FindRegistration, StorePasskey,
              FindPasskey, WritePasskey, FindPasskeyUser, DropChallenge, SignInWithPasskey,
              CheckOwner, RemovePasskey
<1>7. CASE SocialStep(p)
  BY <1>7 DEF SocialStep, StoreState, FindLinkUser, FindLinked, DropState, FindAccount,
              WriteTokens, FindAccountUser, MarkReported, OverrideUser, FindByReport,
              CreateSocialUser, CreateSocialAccount, SocialSession, FindInfo, FindTokens,
              Exchange, AnswerFromCookie, ListToUnlink, HasPassword, Unlink
<1> QED BY <1>2, <1>3, <1>4, <1>5, <1>6, <1>7 DEF Step

\* A request that arrives locks nobody out yet.
LEMMA ArrivesMindless ==
    ASSUME Typed, NEW p \in Requests, pc[p] = "idle", NEW op \in Ops, NEW c \in Possible(op),
           Arrives(p, c)
    PROVE  local'[p].out = {} /\ ousted' = ousted /\ via' = via
<1>0. op \in AllOps /\ c.op = op
  BY PossibleAsked, IdentityAssumption DEF Typed
<1>1. \/ CredentialArrives(p, c) \/ AdminArrives(p, c) \/ ProfileArrives(p, c)
      \/ PasskeyArrives(p, c) \/ SocialArrives(p, c)
  BY <1>0 DEF Arrives, AllOps
<1>2. ASSUME NEW label, NEW l, Arrive(p, c, label, l), l.out = {}
      PROVE  local'[p].out = {} /\ ousted' = ousted /\ via' = via
  BY <1>2 DEF Arrive, Typed, KeepIds
<1>3. CASE SignUpArrives(p, c) \/ StartArrives(p, c) \/ IdTokenArrives(p, c)
  BY <1>2, <1>3 DEF SignUpArrives, StartArrives, IdTokenArrives, Blank
<1>4. /\ \A i : [Blank EXCEPT !.user = i].out = {} /\ [Blank EXCEPT !.row = i].out = {}
      /\ \A i, x : /\ [Blank EXCEPT !.user = i, !.row = x].out = {}
                   /\ [Blank EXCEPT !.user = i, !.spent = x].out = {}
                   /\ [Blank EXCEPT !.user = i, !.link = x].out = {}
      /\ \A i, x, y : /\ [Blank EXCEPT !.row = i, !.keys = x, !.spent = y].out = {}
                      /\ [Blank EXCEPT !.user = i, !.link.email = x, !.spent = y].out = {}
      /\ \A i : CopyOf(c, [Blank EXCEPT !.user = i]).out = {}
  BY DEF Blank, CopyOf
<1>5. CASE NamedArrives(p, c) \/ CurrentUserArrives(p, c)
  <2>1. \E label, i : Arrive(p, c, label, [Blank EXCEPT !.user = i])
    BY <1>5 DEF NamedArrives, CurrentUserArrives
  <2> QED BY <1>2, <1>4, <2>1
<1>6. CASE ResetArrives(p, c)
  <2>1. \E label, i, x : Arrive(p, c, label, [Blank EXCEPT !.user = i, !.spent = x])
    BY <1>6 DEF ResetArrives
  <2> QED BY <1>2, <1>4, <2>1
<1>7. CASE AdminArrives(p, c)
  <2>1. \/ \E label, i, x : Arrive(p, c, label, [Blank EXCEPT !.user = i, !.row = x])
        \/ \E label, i : Arrive(p, c, label, [Blank EXCEPT !.user = i])
    BY <1>7 DEF AdminArrives, AuthorizedArrives, StopArrives
  <2> QED BY <1>2, <1>4, <2>1
<1>8. CASE ProfileArrives(p, c)
  <2>1. \/ \E label, i, x : Arrive(p, c, label, [Blank EXCEPT !.user = i, !.link = x])
        \/ \E label, i : Arrive(p, c, label, [Blank EXCEPT !.user = i])
        \/ \E label, i : Arrive(p, c, label, [Blank EXCEPT !.row = i])
    BY <1>8 DEF ProfileArrives, SendArrives, ChangeEmailArrives, VerifyArrives, DeletionArrives,
                CreateKeyArrives
  <2> QED BY <1>2, <1>4, <2>1
<1>9. CASE OptionsArrive(p, c) \/ RegisterArrives(p, c) \/ DeletePasskeyArrives(p, c)
  <2>1. \E label, i : Arrive(p, c, label, [Blank EXCEPT !.user = i])
    BY <1>9 DEF OptionsArrive, RegisterArrives, DeletePasskeyArrives
  <2> QED BY <1>2, <1>4, <2>1
<1>10. CASE AuthenticateArrives(p, c)
  <2>1. \E label, i, x, y : Arrive(p, c, label, [Blank EXCEPT !.row = i, !.keys = x, !.spent = y])
    BY <1>10 DEF AuthenticateArrives
  <2> QED BY <1>2, <1>4, <2>1
<1>11. CASE LinkArrives(p, c) \/ InfoArrives(p, c) \/ RefreshArrives(p, c) \/ UnlinkArrives(p, c)
  <2>1. \/ \E label, i : Arrive(p, c, label, [Blank EXCEPT !.user = i])
        \/ \E label, i : Arrive(p, c, label, CopyOf(c, [Blank EXCEPT !.user = i]))
    BY <1>11 DEF LinkArrives, InfoArrives, RefreshArrives, UnlinkArrives
  <2> QED BY <1>2, <1>4, <2>1
<1>12. CASE CallbackArrives(p, c)
  <2>1. \E label, i, x, y :
           Arrive(p, c, label, [Blank EXCEPT !.user = i, !.link.email = x, !.spent = y])
    BY <1>12 DEF CallbackArrives
  <2> QED BY <1>2, <1>4, <2>1
<1> QED BY <1>1, <1>3, <1>5, <1>6, <1>7, <1>8, <1>9, <1>10, <1>11, <1>12
        DEF CredentialArrives, PasskeyArrives, SocialArrives

-----------------------------------------------------------------------------
(* Which rows a statement adds, and what they are drawn for.               *)

IsA(i, k) == i \in 1 .. Len(kind) /\ kind[i] = k

\* A user, an account that has a password, a password that a session was given for.
KindsKnown ==
    /\ \A u \in db.users : IsA(u.id, "user")
    /\ \A a \in db.accounts : a.password # None => IsA(a.password, "password")
    /\ \A x \in via : x[1] \in 1 .. Len(kind) /\ IsA(x[2], "password")

\* The kinds drawn are the next ones, and those drawn before stay.
LEMMA DrawnNext ==
    ASSUME Typed, NEW kinds \in Seq(Kinds), NEW password, DrawFor(kinds, password)
    PROVE  /\ Len(kind') = Len(kind) + Len(kinds) /\ Len(kinds) \in Nat
           /\ \A i \in 1 .. Len(kind) : kind'[i] = kind[i]
           /\ \A i \in 1 .. Len(kinds) : kind'[Len(kind) + i] = kinds[i]
<1>1. kind \in Seq(Kinds) /\ Len(kind) \in Nat /\ Len(kinds) \in Nat
  BY Now
<1>2. kind' = kind \o kinds
  BY DEF DrawFor
<1> QED BY <1>1, <1>2, ConcatProperties

\* Users and passwords stay what they are.
LEMMA KindsStay ==
    ASSUME Typed, NEW p \in Requests, Sends(p), Left
    PROVE  /\ Len(kind) \in Nat /\ Len(kind') \in Nat /\ Len(kind) <= Len(kind')
           /\ fresh = Len(kind) + 1
           /\ \A i, k : k \in {"user", "password"} /\ IsA(i, k) => IsA(i, k)'
           /\ \A i, k : IsA(i, k) => IsA(i, k)' \/ (SendsExchange(p) /\ i = local[p].row)
<1>0. /\ Len(kind) \in Nat /\ Len(kind') \in Nat /\ Len(kind) <= Len(kind') /\ kind \in Seq(Kinds)
      /\ fresh = Len(kind) + 1
  BY Now DEF Left
<1> SUFFICES /\ \A i, k : k \in {"user", "password"} /\ IsA(i, k) => IsA(i, k)'
             /\ \A i, k : IsA(i, k) => IsA(i, k)' \/ (SendsExchange(p) /\ i = local[p].row)
  BY <1>0
<1>1. ASSUME \A i \in 1 .. Len(kind) : kind'[i] = kind[i]
      PROVE  \A i, k : IsA(i, k) => IsA(i, k)'
  BY <1>0, <1>1 DEF IsA
<1>2. \A kinds \in Seq(Kinds) : \A password :
         DrawFor(kinds, password) => \A i, k : IsA(i, k) => IsA(i, k)'
  <2> SUFFICES ASSUME NEW kinds \in Seq(Kinds), NEW password, DrawFor(kinds, password)
               PROVE  \A i, k : IsA(i, k) => IsA(i, k)'
    OBVIOUS
  <2>1. \A i \in 1 .. Len(kind) : kind'[i] = kind[i]
    BY DrawnNext
  <2> QED BY <1>1, <2>1
<1>3. ASSUME NEW k \in Kinds, NEW password, DrawFor(<<k>>, password)
      PROVE  \A i, x : IsA(i, x) => IsA(i, x)'
  <2> DEFINE new == <<k>>
  <2>1. new \in Seq(Kinds) /\ DrawFor(new, password)
    BY <1>3
  <2> HIDE DEF new
  <2> QED BY <1>2, <2>1
<1>4. KeepIds => \A i, k : IsA(i, k) => IsA(i, k)'
  BY <1>1 DEF KeepIds
<1>5. CASE SendsExchange(p)
  <2>1. /\ kind[local[p].row] = "grant"
        /\ kind' = Append([kind EXCEPT ![local[p].row] = "replaced"], "grant")
    BY <1>5 DEF SendsExchange
  <2> DEFINE new == [kind EXCEPT ![local[p].row] = "replaced"]
  <2>2. new \in Seq(Kinds) /\ Len(new) = Len(kind)
    <3>1. kind \in [1 .. Len(kind) -> Kinds]
      BY <1>0
    <3>2. new \in [1 .. Len(kind) -> Kinds]
      BY <3>1 DEF Kinds
    <3> QED BY <1>0, <3>2
  <2>3. \A i \in 1 .. Len(kind) : i # local[p].row => new[i] = kind[i]
    BY <1>0
  <2> HIDE DEF new
  <2>4. kind' = Append(new, "grant")
    BY <2>1 DEF new
  <2>5. "grant" \in Kinds
    BY DEF Kinds
  <2>6. \A i \in 1 .. Len(kind) : kind'[i] = new[i]
    BY <1>0, <2>2, <2>4, <2>5, AppendProperties
  <2>7. \A i, k : IsA(i, k) => IsA(i, k)' \/ i = local[p].row
    BY <1>0, <2>3, <2>6 DEF IsA
  <2>8. \A k : k \in {"user", "password"} => ~ IsA(local[p].row, k)
    BY <2>1 DEF IsA
  <2> QED BY <1>5, <2>7, <2>8
<1>6. CASE \/ SendsRead \/ (SendsSessions(p) /\ ~ SendsSession(p)) \/ SendsUnlink(p) \/ SendsGrant(p)
           \/ SendsLift(p) \/ SendsDelete(p) \/ SendsUpdate(p) \/ SendsProfile(p)
           \/ SendsLink(p) \/ SendsSpend(p) \/ SendsPasskey(p)
  <2>1. SendsRead \/ (SendsSessions(p) /\ ~ SendsSession(p)) \/ SendsUnlink(p) \/ SendsGrant(p) => KeepIds
    BY DEF SendsRead, SendsSessions, SendsRevoke, SendsEnd, SendsUnlink, SendsGrant, Unsigned
  <2>2. SendsLift(p) \/ SendsDelete(p) \/ SendsUpdate(p) \/ SendsProfile(p) => KeepIds
    BY DEF SendsLift, SendsDelete, SendsUpdate, SendsProfile, Unsigned
  <2>3. SendsLink(p) \/ SendsSpend(p) \/ SendsPasskey(p) => KeepIds
    BY DEF SendsLink, SendsSpend, SendsPasskey, Unsigned
  <2> QED BY <1>4, <1>6, <2>1, <2>2, <2>3
<1>7. {"user", "account", "password", "session", "grant", "key"} \subseteq Kinds
      /\ Purposes \subseteq Kinds
  BY DEF Kinds
<1>8. CASE SendsSession(p)
  <2>1. \E password : DrawFor(<<"session">>, password)
    BY <1>8 DEF SendsSession
  <2> QED BY <1>3, <1>7, <2>1
<1>9. CASE SendsPassword(p) \/ SendsNewUser(p) \/ SendsSecret(p) \/ SendsState(p) \/ SendsKey(p)
           \/ SendsAccount(p)
  <2>1. KeepIds \/ \E k \in Kinds : DrawFor(<<k>>, None)
    <3>1. CASE SendsSecret(p)
      <4>1. PICK v \in Verification : Draw(<<v.purpose>>)
        BY <3>1 DEF SendsSecret
      <4>2. v.purpose \in Kinds
        BY <1>7 DEF Verification
      <4> QED BY <4>1, <4>2 DEF Draw
    <3> QED BY <1>7, <1>9, <3>1 DEF SendsPassword, SendsNewUser, SendsState, SendsKey, SendsAccount, Draw
  <2> QED BY <1>3, <1>4, <2>1
<1>10. CASE SendsCredential(p)
  <2> DEFINE new == <<"account", "password">>
  <2>1. new \in Seq(Kinds)
    BY <1>7
  <2>2. DrawFor(new, None)
    BY <1>10 DEF SendsCredential, Draw
  <2> HIDE DEF new
  <2> QED BY <1>2, <2>1, <2>2
<1>11. CASE SendsSignUp(p)
  <2> DEFINE with == <<"user", "account", "password", "session">>
             bare == <<"user", "account", "password">>
  <2>1. with \in Seq(Kinds) /\ bare \in Seq(Kinds)
    BY <1>7
  <2>2. DrawFor(with, fresh + 2) \/ DrawFor(bare, None)
    BY <1>11 DEF SendsSignUp, Draw
  <2> HIDE DEF with, bare
  <2> QED BY <1>2, <2>1, <2>2
<1> QED BY <1>0, <1>5, <1>6, <1>8, <1>9, <1>10, <1>11
        DEF Sends, SendsUser, SendsSessions, SendsAccounts, SendsOther

\* What an id is after the statement.
Becomes(i, k) == i \in 1 .. Len(kind') /\ kind'[i] = k

\* What is drawn, and for which password.
LEMMA OneDrawn ==
    ASSUME Typed, NEW k \in Kinds, NEW password, DrawFor(<<k>>, password)
    PROVE  /\ Becomes(fresh, k) /\ fresh \in 1 .. Len(kind')
           /\ \A x \in via' : x \in via \/ /\ k = "session" /\ password # None
                                           /\ x = <<fresh, password>>
<1> DEFINE new == <<k>>
<1>1. new \in Seq(Kinds) /\ Len(new) = 1 /\ new[1] = k /\ DrawFor(new, password)
  OBVIOUS
<1> HIDE DEF new
<1>2. /\ Len(kind') = Len(kind) + 1
      /\ \A i \in 1 .. Len(new) : kind'[Len(kind) + i] = new[i]
  BY <1>1, DrawnNext
<1>3. Len(kind) \in Nat /\ fresh = Len(kind) + 1
  BY Now
<1>4. kind'[fresh] = k /\ fresh \in 1 .. Len(kind')
  BY <1>1, <1>2, <1>3
<1>5. ASSUME NEW x \in via', x \notin via
      PROVE  k = "session" /\ password # None /\ x = <<fresh, password>>
  <2>1. PICK i \in 1 .. Len(new) : /\ new[i] = "session" /\ password # None
                                   /\ x = <<fresh + i - 1, password>>
    BY <1>1, <1>5 DEF DrawFor
  <2>2. i = 1
    BY <1>1
  <2> QED BY <1>1, <1>3, <2>1, <2>2
<1> QED BY <1>4, <1>5 DEF Becomes

LEMMA SignUpDrawn ==
    ASSUME Typed, NEW p \in Requests, SendsSignUp(p)
    PROVE  /\ Becomes(fresh, "user") /\ Becomes(fresh + 2, "password")
           /\ db'.sessions # db.sessions => fresh + 3 \in 1 .. Len(kind')
           /\ \A x \in via' : x \in via \/ (/\ x = <<fresh + 3, fresh + 2>>
                                            /\ fresh + 3 \in 1 .. Len(kind'))
<1>0. /\ Len(kind) \in Nat /\ fresh = Len(kind) + 1 /\ db \in Database
      /\ {"user", "account", "password", "session"} \subseteq Kinds
  BY Now DEF Kinds
<1> DEFINE with == <<"user", "account", "password", "session">>
           bare == <<"user", "account", "password">>
<1>1. /\ with \in Seq(Kinds) /\ Len(with) = 4 /\ with[1] = "user" /\ with[3] = "password"
      /\ \A i \in 1 .. 4 : with[i] = "session" => i = 4
  BY <1>0
<1>2. /\ bare \in Seq(Kinds) /\ Len(bare) = 3 /\ bare[1] = "user" /\ bare[3] = "password"
      /\ \A i \in 1 .. 3 : bare[i] # "session"
  BY <1>0
<1>3. \/ DrawFor(with, fresh + 2)
      \/ DrawFor(bare, None) /\ db'.sessions = db.sessions
  <2>1. CASE DrawFor(with, fresh + 2)
    BY <2>1
  <2>2. CASE /\ db' = CreateAccount(CreateUser(db, NewUser(fresh, call[p].email, call[p].name,
                                                            FALSE, FALSE)),
                                    NewCredential(fresh + 1, fresh, fresh + 2))
             /\ DrawFor(bare, None)
    BY <1>0, <2>2 DEF CreateAccount, CreateUser, Database
  <2> QED BY <2>1, <2>2 DEF SendsSignUp, Draw
<1> HIDE DEF with, bare
<1>4. CASE DrawFor(with, fresh + 2)
  <2>1. /\ Len(kind') = Len(kind) + 4
        /\ \A i \in 1 .. 4 : kind'[Len(kind) + i] = with[i]
    BY <1>1, <1>4, DrawnNext
  <2>2. kind'[fresh] = "user" /\ kind'[fresh + 2] = "password"
    <3>1. kind'[Len(kind) + 1] = "user" /\ kind'[Len(kind) + 3] = "password"
      BY <1>1, <2>1
    <3>2. Len(kind) + 1 = fresh /\ Len(kind) + 3 = fresh + 2
      BY <1>0
    <3> QED BY <3>1, <3>2
  <2>3. fresh \in 1 .. Len(kind') /\ fresh + 2 \in 1 .. Len(kind') /\ fresh + 3 \in 1 .. Len(kind')
    BY <1>0, <2>1
  <2>4. ASSUME NEW x \in via', x \notin via
        PROVE  x = <<fresh + 3, fresh + 2>>
    <3>1. PICK i \in 1 .. Len(with) : with[i] = "session" /\ x = <<fresh + i - 1, fresh + 2>>
      BY <1>4, <2>4 DEF DrawFor
    <3>2. i = 4
      BY <1>1, <3>1
    <3>3. fresh + i - 1 = fresh + 3
      BY <1>0, <3>2
    <3> QED BY <3>1, <3>3
  <2> QED BY <2>2, <2>3, <2>4 DEF Becomes
<1>5. CASE DrawFor(bare, None) /\ db'.sessions = db.sessions
  <2>1. /\ Len(kind') = Len(kind) + 3
        /\ \A i \in 1 .. 3 : kind'[Len(kind) + i] = bare[i]
    BY <1>2, <1>5, DrawnNext
  <2>2. kind'[fresh] = "user" /\ kind'[fresh + 2] = "password"
    <3>1. kind'[Len(kind) + 1] = "user" /\ kind'[Len(kind) + 3] = "password"
      BY <1>2, <2>1
    <3>2. Len(kind) + 1 = fresh /\ Len(kind) + 3 = fresh + 2
      BY <1>0
    <3> QED BY <3>1, <3>2
  <2>3. fresh \in 1 .. Len(kind') /\ fresh + 2 \in 1 .. Len(kind')
    BY <1>0, <2>1
  <2>4. via' \subseteq via
    BY <1>2, <1>5 DEF DrawFor
  <2> QED BY <1>5, <2>2, <2>3, <2>4 DEF Becomes
<1> QED BY <1>3, <1>4, <1>5

\* A user who was not there is made now, and not banned.
LEMMA MoreUsers ==
    ASSUME Typed, NEW p \in Requests, pc[p] # "idle", Sends(p), NEW w \in db'.users
    PROVE  \/ \E u \in db.users : u.id = w.id
           \/ /\ w.id = fresh /\ ~ InForce(w) /\ Becomes(fresh, "user")
              /\ SendsNewUser(p) \/ SendsSignUp(p)
<1>0. /\ db \in Database /\ db.users \subseteq User /\ Asked(call[p]) /\ At(pc[p], call[p], local[p])
  BY Now, StillThere DEF Database
<1>1. ASSUME NEW i, NEW change, UserChange(change), db' = UpdateUser(db, i, change)
      PROVE  \E u \in db.users : u.id = w.id
  <2> DEFINE New(u) == IF u.id = i THEN Updated(u, change) ELSE u
  <2>1. \A u \in db.users : New(u).id = u.id
    BY <1>0, <1>1, UpdatedUser
  <2>2. db'.users = {New(u) : u \in db.users}
    BY <1>0, <1>1 DEF UpdateUser, Database
  <2> QED BY <2>1, <2>2
<1>2. CASE SendsSessions(p) \/ SendsAccounts(p) \/ SendsOther(p) \/ SendsRead \/ SendsDelete(p)
  <2>1. db'.users \subseteq db.users
    <3>1. CASE SendsDelete(p)
      BY <3>1, DeletionRows DEF OnlyKeys
    <3> QED BY <1>2, <3>1, Tables
            DEF SendsOther, OnlySessions, OnlyAccounts, OnlySecrets, OnlyPasskeys, OnlyKeys
  <2> QED BY <2>1
<1>3. CASE SendsLift(p)
  <2>1. UserChange([banned |-> FALSE])
    BY DEF UserChange, UserFields
  <2> QED BY <1>1, <1>3, <2>1 DEF SendsLift
<1>4. CASE SendsUpdate(p)
  <2>1. UserChange(Change(call[p]))
    <3>1. call[p].op \in {"update_user", "set_role"} => UserChange(call[p].change)
      BY <1>0 DEF Asked
    <3>2. /\ UserChange([banned |-> FALSE]) /\ UserChange([banned |-> TRUE])
          /\ UserChange([banned |-> TRUE, ends |-> "ahead"])
      BY DEF UserChange, UserFields, Ends
    <3>3. call[p].op \in {"update_user", "set_role", "ban", "unban"}
      BY <1>0, <1>4 DEF SendsUpdate, At
    <3> QED BY <3>1, <3>2, <3>3 DEF Change, BanChange
  <2> QED BY <1>1, <1>4, <2>1 DEF SendsUpdate
<1>5. CASE SendsProfile(p)
  BY <1>1, <1>5 DEF SendsProfile
<1>6. CASE SendsNewUser(p)
  <2>1. PICK verified \in BOOLEAN :
           db' = CreateUser(db, NewUser(fresh, call[p].email, NoText, verified, FALSE))
    BY <1>6 DEF SendsNewUser
  <2>2. db'.users = db.users \cup {NewUser(fresh, call[p].email, NoText, verified, FALSE)}
    BY <1>0, <2>1 DEF CreateUser, Database
  <2>3. Becomes(fresh, "user")
    <3>1. DrawFor(<<"user">>, None) /\ "user" \in Kinds
      BY <1>6 DEF SendsNewUser, Draw, Kinds
    <3> QED BY <3>1, OneDrawn
  <2>4. CASE w = NewUser(fresh, call[p].email, NoText, verified, FALSE)
    <3>1. w.id = fresh /\ ~ w.banned
      BY <2>4 DEF NewUser
    <3> QED BY <1>6, <2>3, <3>1 DEF InForce
  <2> QED BY <2>2, <2>4
<1>7. CASE SendsSignUp(p)
  <2>1. db'.users = db.users \cup {NewUser(fresh, call[p].email, call[p].name, FALSE, FALSE)}
    BY <1>7, SignUpRows
  <2>2. CASE w = NewUser(fresh, call[p].email, call[p].name, FALSE, FALSE)
    <3>1. w.id = fresh /\ ~ w.banned
      BY <2>2 DEF NewUser
    <3> QED BY <1>7, <3>1, SignUpDrawn DEF InForce
  <2> QED BY <2>1, <2>2
<1> QED BY <1>2, <1>3, <1>4, <1>5, <1>6, <1>7 DEF Sends, SendsUser

\* A session that was not there is the user's of the request, or the new user's.
LEMMA MoreSessions ==
    ASSUME Typed, NEW p \in Requests, pc[p] # "idle", Sends(p), NEW s \in db'.sessions
    PROVE  /\ \/ s \in db.sessions
              \/ SendsSession(p) /\ s.id = fresh /\ s.user = local[p].user
              \/ SendsSignUp(p) /\ s.id = fresh + 3 /\ s.user = fresh
           /\ SendsRevoke(p) => s \in db.sessions /\ s.user # local[p].user
<1>0. db \in Database
  BY Now
<1>1. CASE SendsRevoke(p)
  BY <1>0, <1>1 DEF SendsRevoke, DeleteUserSessions, Database
<1>2. CASE SendsSession(p)
  <2>1. \E by : db'.sessions = db.sessions \cup {[id |-> fresh, user |-> local[p].user, by |-> by]}
    BY <1>0, <1>2 DEF SendsSession, CreateSession, Database
  <2>2. pc[p] # "delete_sessions"
    BY <1>2 DEF SendsSession
  <2> QED BY <1>2, <2>1, <2>2 DEF SendsRevoke
<1>3. CASE SendsSignUp(p)
  <2>1. ~ SendsRevoke(p)
    BY <1>3 DEF SendsSignUp, SendsRevoke
  <2> DEFINE new == [id |-> fresh + 3, user |-> fresh, by |-> None]
  <2>2. new.id = fresh + 3 /\ new.user = fresh
    OBVIOUS
  <2>3. db'.sessions \in {db.sessions, db.sessions \cup {new}}
    BY <1>3, SignUpRows
  <2> HIDE DEF new
  <2>4. s \in db.sessions \/ s = new
    BY <2>3
  <2> QED BY <1>3, <2>1, <2>2, <2>4
<1>4. CASE SendsEnd(p) \/ SendsDelete(p)
  <2>1. db'.sessions \subseteq db.sessions
    <3>1. CASE SendsEnd(p)
      BY <1>0, <3>1 DEF SendsEnd, DeleteSession, Database
    <3>2. CASE SendsDelete(p)
      BY <3>2, DeletionRows DEF OnlyKeys
    <3> QED BY <1>4, <3>1, <3>2
  <2>2. pc[p] # "delete_sessions"
    BY <1>4 DEF SendsEnd, SendsDelete
  <2> QED BY <2>1, <2>2 DEF SendsRevoke
<1>5. CASE \/ SendsLift(p) \/ SendsNewUser(p) \/ SendsUpdate(p) \/ SendsProfile(p)
           \/ SendsAccounts(p) \/ SendsOther(p) \/ SendsRead
  <2>1. db'.sessions = db.sessions
    BY <1>5, Tables DEF SendsOther, OnlyUsers, OnlyAccounts, OnlySecrets, OnlyPasskeys, OnlyKeys
  <2> QED BY <1>1, <2>1
<1> QED BY <1>1, <1>2, <1>3, <1>4, <1>5 DEF Sends, SendsUser, SendsSessions

\* A session is given for the password that was shown, or set with the sign-up.
LEMMA MorePairs ==
    ASSUME Typed, NEW p \in Requests, pc[p] # "idle", Sends(p), NEW x \in via', x \notin via
    PROVE  \/ /\ SendsSession(p) /\ pc[p] = "create_session" /\ call[p].op \in SignIns
              /\ x = <<fresh, call[p].secret>> /\ fresh \in 1 .. Len(kind')
           \/ /\ SendsSignUp(p) /\ x = <<fresh + 3, fresh + 2>>
              /\ fresh + 3 \in 1 .. Len(kind') /\ Becomes(fresh + 2, "password")
<1>1. ~ KeepIds
  BY DEF KeepIds
<1>2. ASSUME NEW kinds \in Seq(Kinds), DrawFor(kinds, None)
      PROVE  FALSE
  <2>1. x \in via \cup {<<fresh + i - 1, None>> :
                          i \in {j \in 1 .. Len(kinds) : kinds[j] = "session" /\ None # None}}
    BY <1>2 DEF DrawFor
  <2> QED BY <2>1
<1>3. {"user", "account", "password", "session", "grant", "key"} \cup Purposes \subseteq Kinds
  BY DEF Kinds
<1>4. \A k \in Kinds : ~ Draw(<<k>>)
  <2> SUFFICES ASSUME NEW k \in Kinds, Draw(<<k>>) PROVE FALSE
    OBVIOUS
  <2> DEFINE new == <<k>>
  <2>1. new \in Seq(Kinds) /\ DrawFor(new, None)
    BY DEF Draw
  <2> HIDE DEF new
  <2> QED BY <1>2, <2>1
<1>5. CASE SendsSession(p)
  <2> DEFINE password == IF pc[p] # "impersonate" /\ call[p].op \in SignIns THEN call[p].secret
                         ELSE None
  <2>1. DrawFor(<<"session">>, password) /\ pc[p] \in {"create_session", "impersonate"}
    BY <1>5 DEF SendsSession
  <2> HIDE DEF password
  <2>2. password # None /\ x = <<fresh, password>> /\ fresh \in 1 .. Len(kind')
    BY <1>3, <2>1, OneDrawn
  <2> QED BY <1>5, <2>1, <2>2 DEF password
<1>6. CASE SendsSignUp(p)
  BY <1>6, SignUpDrawn
<1>7. ~ SendsCredential(p)
  <2> DEFINE new == <<"account", "password">>
  <2>1. new \in Seq(Kinds)
    BY <1>3
  <2>2. SendsCredential(p) => DrawFor(new, None)
    BY DEF SendsCredential, Draw
  <2> HIDE DEF new
  <2> QED BY <1>2, <2>1, <2>2
<1>8. ~ SendsSecret(p)
  BY <1>3, <1>4 DEF SendsSecret, Verification
<1>9. /\ ~ SendsPassword(p) /\ ~ SendsNewUser(p) /\ ~ SendsState(p) /\ ~ SendsKey(p)
      /\ ~ SendsAccount(p)
  BY <1>1, <1>3, <1>4 DEF SendsPassword, SendsNewUser, SendsState, SendsKey, SendsAccount
<1>10. /\ ~ SendsRead /\ ~ SendsRevoke(p) /\ ~ SendsEnd(p) /\ ~ SendsUnlink(p) /\ ~ SendsGrant(p)
  BY <1>1 DEF SendsRead, SendsRevoke, SendsEnd, SendsUnlink, SendsGrant, Unsigned
<1>11. ~ SendsLift(p) /\ ~ SendsDelete(p) /\ ~ SendsUpdate(p) /\ ~ SendsProfile(p)
  BY <1>1 DEF SendsLift, SendsDelete, SendsUpdate, SendsProfile, Unsigned
<1>12. ~ SendsLink(p) /\ ~ SendsSpend(p) /\ ~ SendsPasskey(p) /\ ~ SendsExchange(p)
  BY <1>1 DEF SendsLink, SendsSpend, SendsPasskey, SendsExchange, Unsigned
<1> QED BY <1>5, <1>6, <1>7, <1>8, <1>9, <1>10, <1>11, <1>12
        DEF Sends, SendsUser, SendsSessions, SendsAccounts, SendsOther

\* An account that has a password had it before, is given a new one, or is new with it.
LEMMA MoreAccounts ==
    ASSUME Typed, NEW p \in Requests, pc[p] # "idle", Sends(p), NEW a \in db'.accounts
    PROVE  \/ /\ \E b \in db.accounts : b.id = a.id /\ b.user = a.user /\ b.password = a.password
              /\ ~ (SendsPassword(p) /\ a.id = local[p].row)
           \/ /\ SendsPassword(p) /\ a.id = local[p].row
              /\ a.password = fresh /\ Becomes(fresh, "password")
              /\ \E b \in db.accounts : b.id = a.id /\ b.user = a.user
           \/ /\ SendsSignUp(p) /\ a.id = fresh + 1 /\ a.user = fresh
              /\ a.password = fresh + 2 /\ Becomes(fresh + 2, "password")
           \/ /\ SendsCredential(p) /\ a.id = fresh
              /\ a.password = fresh + 1 /\ Becomes(fresh + 1, "password")
           \/ SendsAccount(p) /\ a.id = fresh /\ a.password = None
<1>0. db \in Database /\ db.accounts \subseteq Account /\ Len(kind) \in Nat /\ fresh = Len(kind) + 1
  BY Now DEF Database
<1> DEFINE Had == \E b \in db.accounts : b.id = a.id /\ b.user = a.user /\ b.password = a.password
<1>1. ASSUME db'.accounts \subseteq db.accounts
      PROVE  Had
  BY <1>1
<1>2. ASSUME NEW i, NEW change, db' = UpdateAccount(db, i, change), DOMAIN change \subseteq {"grant"}
      PROVE  Had
  <2> DEFINE New(b) == IF b.id = i
                       THEN [f \in DOMAIN b |-> IF f \in DOMAIN change THEN change[f] ELSE b[f]]
                       ELSE b
  <2>1. \A b \in db.accounts : /\ New(b).id = b.id /\ New(b).user = b.user
                               /\ New(b).password = b.password
    BY <1>0, <1>2 DEF Account
  <2>2. db'.accounts = {New(b) : b \in db.accounts}
    BY <1>0, <1>2 DEF UpdateAccount, Database
  <2> HIDE DEF New
  <2> QED BY <2>1, <2>2
<1>3. CASE /\ ~ SendsPassword(p)
           /\ \/ SendsSessions(p) \/ SendsOther(p) \/ SendsRead \/ SendsDelete(p) \/ SendsLift(p)
              \/ SendsUpdate(p) \/ SendsProfile(p) \/ SendsNewUser(p)
  <2>1. db'.accounts \subseteq db.accounts
    <3>1. CASE SendsDelete(p)
      BY <3>1, DeletionRows DEF OnlyKeys
    <3> QED BY <1>3, <3>1, Tables
            DEF SendsOther, OnlySessions, OnlyUsers, OnlySecrets, OnlyPasskeys, OnlyKeys
  <2> QED BY <1>1, <1>3, <2>1
<1>4. CASE SendsUnlink(p)
  <2>1. db'.accounts \subseteq db.accounts /\ ~ SendsPassword(p)
    BY <1>0, <1>4 DEF SendsUnlink, SendsPassword, DeleteAccount, Database
  <2> QED BY <1>1, <2>1
<1>5. CASE SendsGrant(p)
  <2>1. PICK i, x : db' = GrantStored(i, x)
    BY <1>5 DEF SendsGrant
  <2>2. DOMAIN [grant |-> x] \subseteq {"grant"}
    OBVIOUS
  <2>3. Had
    BY <1>2, <2>1, <2>2 DEF GrantStored
  <2> QED BY <1>5, <2>3 DEF SendsGrant, SendsPassword
<1>6. CASE SendsPassword(p)
  <2>1. PICK i \in Id : i = local[p].row /\ db' = UpdateAccount(db, i, [password |-> fresh])
    BY <1>0, <1>6 DEF SendsPassword, AccountOf, Account
  <2> DEFINE new == [password |-> fresh]
             New(b) == IF b.id = i
                       THEN [f \in DOMAIN b |-> IF f \in DOMAIN new THEN new[f] ELSE b[f]]
                       ELSE b
  <2>2. \A b \in db.accounts : /\ New(b).id = b.id /\ New(b).user = b.user
                               /\ IF b.id = i THEN New(b).password = fresh
                                  ELSE New(b).password = b.password
    BY <1>0 DEF Account
  <2>3. db'.accounts = {New(b) : b \in db.accounts}
    BY <1>0, <2>1 DEF UpdateAccount, Database
  <2>4. Becomes(fresh, "password")
    <3>1. DrawFor(<<"password">>, None) /\ "password" \in Kinds
      BY <1>6 DEF SendsPassword, Draw, Kinds
    <3> QED BY <3>1, OneDrawn
  <2> HIDE DEF New, new
  <2>5. PICK b \in db.accounts : a = New(b)
    BY <2>3
  <2> QED BY <1>6, <2>1, <2>2, <2>4, <2>5
<1>7. CASE SendsCredential(p)
  <2> DEFINE new == NewCredential(fresh, local[p].user, fresh + 1)
  <2>1. new.id = fresh /\ new.password = fresh + 1
    BY DEF NewCredential
  <2>2. db' = CreateAccount(db, new)
    BY <1>7 DEF SendsCredential
  <2> HIDE DEF new
  <2>3. db'.accounts = db.accounts \cup {new}
    BY <1>0, <2>2 DEF CreateAccount, Database
  <2>4. Becomes(fresh + 1, "password")
    <3> DEFINE kinds == <<"account", "password">>
    <3>1. kinds \in Seq(Kinds) /\ Len(kinds) = 2 /\ kinds[2] = "password"
      BY DEF Kinds
    <3>2. DrawFor(kinds, None)
      BY <1>7 DEF SendsCredential, Draw
    <3> HIDE DEF kinds
    <3>3. /\ Len(kind') = Len(kind) + Len(kinds)
          /\ \A i \in 1 .. Len(kinds) : kind'[Len(kind) + i] = kinds[i]
      BY <3>1, <3>2, DrawnNext
    <3>4. Len(kind) + 2 = fresh + 1
      BY <1>0
    <3>5. fresh + 1 \in 1 .. Len(kind')
      BY <1>0, <3>1, <3>3
    <3>6. kind'[Len(kind) + 2] = "password"
      BY <3>1, <3>3
    <3> QED BY <3>4, <3>5, <3>6 DEF Becomes
  <2> QED BY <1>7, <2>1, <2>3, <2>4 DEF SendsCredential, SendsPassword
<1>8. CASE SendsAccount(p)
  <2> DEFINE new == [id |-> fresh, user |-> local[p].user, provider |-> "social",
                     subject |-> call[p].target, password |-> None, grant |-> local[p].row]
  <2>1. new.id = fresh /\ new.password = None
    OBVIOUS
  <2>2. db' = CreateAccount(db, new)
    BY <1>8 DEF SendsAccount
  <2> HIDE DEF new
  <2>3. db'.accounts = db.accounts \cup {new}
    BY <1>0, <2>2 DEF CreateAccount, Database
  <2> QED BY <1>8, <2>1, <2>3 DEF SendsAccount, SendsPassword
<1>9. CASE SendsSignUp(p)
  <2> DEFINE new == NewCredential(fresh + 1, fresh, fresh + 2)
  <2>1. new.id = fresh + 1 /\ new.user = fresh /\ new.password = fresh + 2
    BY DEF NewCredential
  <2>2. db'.accounts = db.accounts \cup {new}
    BY <1>9, SignUpRows
  <2>3. Becomes(fresh + 2, "password") /\ ~ SendsPassword(p)
    BY <1>9, SignUpDrawn DEF SendsSignUp, SendsPassword
  <2> HIDE DEF new
  <2> QED BY <1>9, <2>1, <2>2, <2>3
<1> QED BY <1>3, <1>4, <1>5, <1>6, <1>7, <1>8, <1>9 DEF Sends, SendsUser, SendsAccounts

-----------------------------------------------------------------------------
(* How a request comes to what it does to the locked out.                  *)

\* A new password is about to lock the old one out, a ban its user.
Replacing(p) ==
    /\ pc[p] = "write_password" /\ Revokes(call[p]) /\ SendsPassword(p)
    /\ ousted' = ousted /\ call'[p] = call[p] /\ local'[p].user = local[p].user
    /\ pc'[p] \in {"delete_token", "delete_sessions"}
    /\ \E a \in AccountOf(db, local[p].row) : local'[p].out = {a.password} \ {None}
Banning(p) ==
    /\ pc[p] = "update_user" /\ call[p].op = "ban"
    /\ ousted' = ousted /\ call'[p] = call[p] /\ local'[p].user = local[p].user
    /\ pc'[p] = "delete_sessions" /\ local'[p].out = {call[p].target}
    /\ UserOf(db, call[p].target) # {}

LEMMA OutGrows ==
    ASSUME Typed, NEW p \in Requests, pc[p] # "idle", Step(p)
    PROVE  Minds(p) \/ Replacing(p) \/ Banning(p)
<1>0. /\ pc = [q \in Requests |-> pc[q]] /\ call = [q \in Requests |-> call[q]]
      /\ local = [q \in Requests |-> local[q]] /\ local[p] \in Local
  BY StillThere
<1>1. ASSUME WriteNewPassword(p), Revokes(call[p])
      PROVE  Minds(p) \/ Replacing(p)
  <2>1. CASE Refuse(p)
    BY <2>1, Minding
  <2>2. CASE ~ Refuse(p)
    <3>1. PICK a \in AccountOf(db, local[p].row) :
             /\ db' = UpdateAccount(db, a.id, [password |-> fresh])
             /\ Draw(<<"password">>)
             /\ Continue(p, AfterWrite(call[p]), [local[p] EXCEPT !.out = {a.password} \ {None}])
      BY <1>1, <2>2 DEF WriteNewPassword, WritePassword
    <3>2. AfterWrite(call[p]) \in {"delete_token", "delete_sessions"}
      BY <1>1 DEF Revokes, AfterWrite
    <3>3. Goto(p, AfterWrite(call[p]), [local[p] EXCEPT !.out = {a.password} \ {None}])
      BY <3>1, <3>2 DEF Continue
    <3>4. SendsPassword(p) /\ pc[p] = "write_password"
      BY <1>1, <3>1 DEF WriteNewPassword, WritePassword, SendsPassword
    <3>5. /\ local'[p] = [local[p] EXCEPT !.out = {a.password} \ {None}]
          /\ pc'[p] = AfterWrite(call[p]) /\ call'[p] = call[p] /\ ousted' = ousted
      BY <1>0, <3>3 DEF Goto, history
    <3>6. local'[p].out = {a.password} \ {None} /\ local'[p].user = local[p].user
      BY <1>0, <3>5 DEF Local
    <3> QED BY <1>1, <3>2, <3>4, <3>5, <3>6 DEF Replacing
  <2> QED BY <2>1, <2>2
<1>2. ASSUME UpdateTarget(p), call[p].op = "ban"
      PROVE  Minds(p) \/ Banning(p)
  <2>1. CASE Refuse(p)
    BY <2>1, Minding
  <2>2. CASE ~ Refuse(p)
    <3>1. /\ pc[p] = "update_user" /\ CanUpdateUser(db, call[p].target, Change(call[p]))
          /\ Goto(p, "delete_sessions", [local[p] EXCEPT !.out = {call[p].target}])
      BY <1>2, <2>2 DEF UpdateTarget
    <3>2. /\ local'[p] = [local[p] EXCEPT !.out = {call[p].target}]
          /\ pc'[p] = "delete_sessions" /\ call'[p] = call[p] /\ ousted' = ousted
      BY <1>0, <3>1 DEF Goto, history
    <3>3. local'[p].out = {call[p].target} /\ local'[p].user = local[p].user
      BY <1>0, <3>2 DEF Local
    <3>4. UserOf(db, call[p].target) # {}
      BY <3>1 DEF CanUpdateUser
    <3> QED BY <1>2, <3>1, <3>2, <3>3, <3>4 DEF Banning
  <2> QED BY <2>1, <2>2
<1> QED BY <1>1, <1>2, EveryMinds

\* Whoever is let in has been found, and with no ban in force.
Admits == {"lift_ban", "lift_first", "create_session", "impersonate"}
LEMMA LetsIn ==
    ASSUME Typed, NEW p \in Requests, pc[p] # "idle", Step(p), pc'[p] \in Admits
    PROVE  /\ local'[p] = local[p] /\ ousted' = ousted /\ db'.accounts = db.accounts
           /\ pc[p] \in {"issue", "lift_ban", "find_target", "lift_first"}
           /\ \/ pc[p] \in {"lift_ban", "lift_first"}
              \/ \E u \in UserOf(db, local[p].user) : ~ AdminPlugin \/ ~ InForce(u)
<1>0. /\ pc = [q \in Requests |-> pc[q]] /\ call = [q \in Requests |-> call[q]]
      /\ local = [q \in Requests |-> local[q]] /\ At(pc[p], call[p], local[p]) /\ db \in Database
  BY StillThere, Now
<1>1. ~ Refuse(p)
  BY Lands DEF Admits
<1>2. \A label, l : Goto(p, label, l) => pc'[p] = label /\ local'[p] = l /\ ousted' = ousted
  BY Lands DEF history
<1>3. ReadBan(p) \/ LiftBanAndIssue(p) \/ FindTarget(p) \/ LiftBanFirst(p)
  BY Enters DEF Admits
<1>4. CASE ReadBan(p)
  <2>1. PICK u \in UserOf(db, local[p].user) :
               IF ~ AdminPlugin \/ ~ u.banned THEN Goto(p, "create_session", local[p])
               ELSE IF Lifts(u) THEN Goto(p, "lift_ban", local[p])
               ELSE Refuse(p)
    BY <1>1, <1>4 DEF ReadBan
  <2>2. ~ AdminPlugin \/ ~ InForce(u)
    BY <1>1, <2>1 DEF InForce, Lifts, Over
  <2>3. local'[p] = local[p] /\ ousted' = ousted
    BY <1>1, <1>2, <2>1
  <2> QED BY <1>4, <2>2, <2>3 DEF ReadBan
<1>5. CASE LiftBanAndIssue(p) \/ LiftBanFirst(p)
  <2>1. PICK label : LiftBan(p, label) /\ pc[p] \in {"lift_ban", "lift_first"}
    BY <1>5 DEF LiftBanAndIssue, LiftBanFirst
  <2>2. db' = UpdateUser(db, local[p].user, [banned |-> FALSE]) /\ Goto(p, label, local[p])
    BY <1>1, <2>1 DEF LiftBan
  <2>3. db'.accounts = db.accounts
    BY <1>0, <2>2, Frames DEF OnlyUsers
  <2> QED BY <1>2, <2>1, <2>2, <2>3
<1>6. CASE FindTarget(p)
  <2>1. pc[p] = "find_target" /\ local[p].user = call[p].target /\ db' = db
    BY <1>0, <1>6 DEF FindTarget, At
  <2>2. PICK u \in UserOf(db, call[p].target) :
               CASE call[p].op = "remove_user" -> Goto(p, "delete_sessions", local[p])
                 [] call[p].op = "impersonate" ->
                      IF (u.admin /\ ~ ImpersonateAdmins) \/ InForce(u) THEN Refuse(p)
                      ELSE Goto(p, IF u.banned THEN "lift_first" ELSE "impersonate", local[p])
                 [] OTHER -> Goto(p, "update_user", local[p])
    BY <1>1, <1>6 DEF FindTarget
  <2>3. ~ Goto(p, "delete_sessions", local[p]) /\ ~ Goto(p, "update_user", local[p])
    BY <1>2 DEF Admits
  <2>4. /\ ~ InForce(u)
        /\ Goto(p, IF u.banned THEN "lift_first" ELSE "impersonate", local[p])
    BY <1>1, <2>2, <2>3
  <2> QED BY <1>2, <2>1, <2>4
<1> QED BY <1>3, <1>4, <1>5, <1>6

\* A sign-in with a password has shown it, and the row that is to be written over has
\* been found at its user.
LEMMA ShowsPassword ==
    ASSUME Typed, NEW p \in Requests, pc[p] # "idle", Step(p), call[p].op \in SignIns,
           pc'[p] \in {"issue", "lift_ban", "create_session"}
    PROVE  /\ local'[p] = local[p] /\ ousted' = ousted /\ db'.accounts = db.accounts
           /\ pc[p] \in {"issue", "lift_ban"} \/ PasswordIs(db, local[p].user, call[p].secret)
<1>0. At(pc[p], call[p], local[p]) /\ call[p].op \in CredentialOps
      /\ call[p].op \notin {"change_password", "reset", "verify_password"}
  BY StillThere DEF SignIns, CredentialOps
<1>1. CASE pc'[p] \in {"lift_ban", "create_session"}
  <2>1. pc[p] \notin {"find_target", "lift_first"}
    BY <1>0 DEF At, CredentialOps
  <2> QED BY <1>1, <2>1, LetsIn DEF Admits
<1>2. CASE pc'[p] = "issue"
  <2>1. ReadBan(p) \/ LiftBanAndIssue(p) \/ StatementFails(p) \/ CredentialStep(p)
    BY <1>0, CredentialOnly
  <2>2. ASSUME ReadBan(p) \/ LiftBanAndIssue(p) \/ StatementFails(p)
        PROVE  FALSE
    BY <1>2, <2>2, Lands DEF ReadBan, LiftBanAndIssue, LiftBan, StatementFails
  <2>3. ASSUME CheckEmail(p) \/ SignUp(p) \/ CheckUnverified(p) \/ SignIn(p) \/ StoreToken(p)
        PROVE  FALSE
    <3>1. ~ CheckEmail(p) /\ ~ SignUp(p)
      BY <1>0 DEF CheckEmail, SignUp, At, SignIns
    <3>2. \A l : ~ Answer(p, l) /\ ~ Refuse(p)
      BY <1>2, Lands
    <3> QED BY <2>3, <3>1, <3>2 DEF CheckUnverified, SignIn, StoreSession, StoreToken, Continue
  <2>4. ASSUME FindPasswordRow(p) \/ WriteNewPassword(p) \/ AddPassword(p) \/ DeleteToken(p)
               \/ RevokeSessions(p) \/ Reissue(p) \/ Reread(p)
        PROVE  FALSE
    <3>1. pc[p] \in {"find_credential", "write_password", "add_credential", "delete_token",
                     "delete_sessions", "reread"} \/ call[p].op = "change_password"
      BY <2>4 DEF FindPasswordRow, WriteNewPassword, AddPassword, DeleteToken, RevokeSessions,
                  Reissue, Reread
    <3> QED BY <1>0, <3>1 DEF At, SignIns, Deleting
  <2>5. CheckPassword(p)
    BY <2>1, <2>2, <2>3, <2>4 DEF CredentialStep
  <2>6. /\ ~ Refuse(p) /\ db' = db
        /\ \A l : ~ Answer(p, l)
    BY <1>2, <2>5, Lands DEF CheckPassword
  <2>7. PasswordRight(p) /\ \E label : Goto(p, label, local[p])
    BY <2>5, <2>6 DEF CheckPassword, Continue
  <2> QED BY <2>6, <2>7, Lands DEF PasswordRight, history
<1> QED BY <1>1, <1>2

LEMMA FindsRow ==
    ASSUME Typed, NEW p \in Requests, pc[p] # "idle", Step(p), call[p].op \in CredentialOps,
           pc'[p] = "write_password"
    PROVE  /\ db' = db /\ local'[p].user = local[p].user
           /\ \E a \in CredentialOf(db, local[p].user) : local'[p].row = a.id
<1>0. /\ pc = [q \in Requests |-> pc[q]] /\ call = [q \in Requests |-> call[q]]
      /\ local = [q \in Requests |-> local[q]] /\ local[p] \in Local
  BY StillThere
<1>1. ReadBan(p) \/ LiftBanAndIssue(p) \/ StatementFails(p) \/ CredentialStep(p)
  BY CredentialOnly
<1>2. ASSUME ReadBan(p) \/ LiftBanAndIssue(p) \/ StatementFails(p)
      PROVE  FALSE
  BY <1>2, Lands DEF ReadBan, LiftBanAndIssue, LiftBan, StatementFails
<1>3. ASSUME CheckEmail(p) \/ SignUp(p) \/ CheckUnverified(p) \/ SignIn(p) \/ StoreToken(p)
      PROVE  FALSE
  <2>1. \A l : ~ Answer(p, l) /\ ~ Refuse(p)
    BY Lands
  <2>2. ~ Goto(p, "sign_up", local[p]) /\ ~ Goto(p, "create_user", local[p])
    BY Lands
  <2>3. ~ CheckEmail(p)
    BY <2>1, <2>2 DEF CheckEmail
  <2> QED BY <1>3, <2>1, <2>3 DEF SignUp, CheckUnverified, SignIn, StoreSession, StoreToken, Continue
<1>4. ASSUME CheckPassword(p) \/ DeleteToken(p) \/ RevokeSessions(p) \/ Reissue(p) \/ Reread(p)
      PROVE  FALSE
  BY <1>4, Lands DEF CheckPassword, DeleteToken, RevokeSessions, DeleteSessions, Reissue,
                     StoreSession, Reread
<1>5. AfterWrite(call[p]) # "write_password"
  BY DEF AfterWrite
<1>6. ASSUME WriteNewPassword(p) \/ AddPassword(p)
      PROVE  FALSE
  BY <1>5, <1>6, Lands DEF WriteNewPassword, WritePassword, AddPassword, AddCredential
<1>7. FindPasswordRow(p)
  BY <1>1, <1>2, <1>3, <1>4, <1>6 DEF CredentialStep
<1>8. /\ ~ Refuse(p) /\ ~ Goto(p, "add_credential", local[p]) /\ ~ Answer(p, local[p]) /\ db' = db
  BY <1>7, Lands DEF FindPasswordRow, FindCredential
<1>9. PICK a \in CredentialOf(db, local[p].user) :
               Goto(p, "write_password", [local[p] EXCEPT !.row = a.id])
  BY <1>7, <1>8 DEF FindPasswordRow, FindCredential
<1>10. local'[p] = [local[p] EXCEPT !.row = a.id]
  BY <1>9, Lands
<1>11. local'[p].row = a.id /\ local'[p].user = local[p].user
  BY <1>0, <1>10 DEF Local
<1> QED BY <1>8, <1>11

\* Whoever has replaced a password and revokes goes on until the sessions are deleted.
Locking == {"delete_token", "delete_sessions", "issue", "lift_ban", "create_session", "reread"}
LEMMA RevokesOn ==
    ASSUME Typed, NEW p \in Requests, Step(p), Revokes(call[p]), pc[p] \in Locking
    PROVE  /\ pc'[p] = "idle" \/ (pc'[p] \in Locking /\ local'[p].user = local[p].user)
           /\ pc[p] = "delete_token" => pc'[p] = "delete_sessions" \/ ousted' = ousted
           /\ pc[p] = "delete_token" /\ pc'[p] # "idle" => pc'[p] = "delete_sessions"
<1>0. pc[p] # "idle"
  BY DEF Locking
<1>1. /\ pc = [q \in Requests |-> pc[q]] /\ call = [q \in Requests |-> call[q]]
      /\ local = [q \in Requests |-> local[q]] /\ local[p] \in Local
      /\ call[p].op \in {"reset", "change_password"} /\ call[p].op \in CredentialOps
      /\ At(pc[p], call[p], local[p])
  BY <1>0, StillThere DEF Revokes, CredentialOps
<1>2. ReadBan(p) \/ LiftBanAndIssue(p) \/ StatementFails(p) \/ CredentialStep(p)
  BY <1>0, <1>1, CredentialOnly
<1> DEFINE Goal == /\ pc'[p] = "idle" \/ (pc'[p] \in Locking /\ local'[p].user = local[p].user)
                   /\ pc[p] = "delete_token" => pc'[p] = "delete_sessions" \/ ousted' = ousted
                   /\ pc[p] = "delete_token" /\ pc'[p] # "idle" => pc'[p] = "delete_sessions"
<1>3. /\ Refuse(p) => Goal
      /\ GiveUp(p) => Goal
      /\ \A l : Answer(p, l) /\ pc[p] # "delete_token" => Goal
      /\ \A label \in Locking : \A l :
            Goto(p, label, l) /\ l.user = local[p].user
               /\ (pc[p] = "delete_token" => label = "delete_sessions") => Goal
  <2>1. Refuse(p) => pc'[p] = "idle" /\ ousted' = ousted
    BY Lands DEF history
  <2>2. GiveUp(p) => pc'[p] = "idle" /\ ousted' = ousted
    BY Lands DEF GiveUp
  <2>3. \A l : Answer(p, l) => pc'[p] = "idle"
    BY Lands
  <2>4. \A label, l : Goto(p, label, l) => pc'[p] = label /\ local'[p] = l
    BY Lands
  <2> QED BY <2>1, <2>2, <2>3, <2>4
<1> HIDE DEF Goal
<1> SUFFICES Goal
  BY DEF Goal
<1>4. CASE ReadBan(p) \/ LiftBanAndIssue(p)
  BY <1>3, <1>4 DEF ReadBan, LiftBanAndIssue, LiftBan, Locking
<1>5. CASE StatementFails(p)
  BY <1>3, <1>5 DEF StatementFails
<1>6. CASE CredentialStep(p)
  <2>1. CASE CheckEmail(p) \/ SignUp(p) \/ CheckUnverified(p) \/ SignIn(p) \/ StoreToken(p) \/ AddPassword(p)
            \/ FindPasswordRow(p) \/ WriteNewPassword(p) \/ CheckPassword(p)
    <3>1. pc[p] \in {"check_email", "sign_up", "check_unverified", "store_token", "add_credential",
                     "find_credential", "write_password", "check_password"} \/ call[p].op \in SignIns
      BY <2>1 DEF CheckEmail, SignUp, CheckUnverified, SignIn, StoreToken, AddPassword,
                  FindPasswordRow, WriteNewPassword, CheckPassword, SignIns
    <3> QED BY <1>1, <3>1 DEF SignIns, Locking
  <2>2. CASE DeleteToken(p)
    BY <1>3, <2>2 DEF DeleteToken, Continue, Locking
  <2>3. CASE RevokeSessions(p)
    BY <1>3, <2>3 DEF RevokeSessions, DeleteSessions, Continue, Locking
  <2>4. CASE Reissue(p)
    <3>1. pc[p] = "create_session"
      BY <2>4 DEF Reissue
    <3>2. [local[p] EXCEPT !.got = @ \cup {fresh}].user = local[p].user
      BY <1>1 DEF Local
    <3> QED BY <1>3, <2>4, <3>1, <3>2 DEF Reissue, StoreSession, Continue, Locking
  <2>5. CASE Reread(p)
    BY <1>3, <2>5 DEF Reread
  <2> QED BY <1>6, <2>1, <2>2, <2>3, <2>4, <2>5 DEF CredentialStep
<1> QED BY <1>2, <1>4, <1>5, <1>6

-----------------------------------------------------------------------------
(* Nobody stays in on a session that an answer has said is gone.           *)

\* No two accounts have the same password, and a session was given for a password of
\* its own user.
OwnPasswords ==
    /\ \A a, b \in db.accounts : a.password = b.password /\ a.password # None => a = b
    /\ \A s \in db.sessions : \A a \in db.accounts : <<s.id, a.password>> \in via => s.user = a.user

\* Requests have met at the password or at the user.
Seen(i, user) == {i, user} \cap contested # {}

\* Who is locked out: a banned user without sessions, a password nobody has any more.
UserOut(i) ==
    /\ IsA(i, "user") /\ AdminPlugin
    /\ \A u \in UserOf(db, i) : InForce(u) \/ i \in contested
    /\ \A s \in db.sessions : s.user = i => i \in contested
Replaced(i) == IsA(i, "password") /\ \A a \in db.accounts : a.password # i
PasswordOut(i) == Replaced(i) /\ \A s \in db.sessions : <<s.id, i>> \in via => Seen(i, s.user)
OutKept == \A i \in ousted : UserOut(i) \/ PasswordOut(i)

\* Who is let in, and on what.
LetIn(p) ==
    pc[p] \in Admits =>
        /\ IsA(local[p].user, "user")
        /\ local[p].user \in ousted => local[p].user \in contested
Losing(i) == i \in ousted \/ \E p \in Requests : i \in local[p].out
Presents(p) ==
    call[p].op \in SignIns /\ pc[p] \in {"issue", "lift_ban", "create_session"} =>
        /\ IsA(call[p].secret, "password")
        /\ \A a \in db.accounts : a.password = call[p].secret => a.user = local[p].user
        /\ Losing(call[p].secret) => Seen(call[p].secret, local[p].user)

\* Who writes over which password, and locks out whom.
Overwrites(p) ==
    call[p].op \in CredentialOps /\ pc[p] = "write_password" =>
        /\ local[p].row \in 1 .. Len(kind)
        /\ \A a \in AccountOf(db, local[p].row) : a.user = local[p].user
Bans(p) ==
    /\ call[p].op = "ban" /\ pc[p] = "delete_sessions" /\ AdminPlugin
    /\ local[p].out = {local[p].user} /\ IsA(local[p].user, "user")
Replaces(p) ==
    /\ Revokes(call[p]) /\ pc[p] \in Locking
    /\ \A i \in local[p].out :
          /\ Replaced(i)
          /\ \A s \in db.sessions :
                <<s.id, i>> \in via =>
                   \/ Seen(i, s.user)
                   \/ s.user = local[p].user /\ pc[p] \in {"delete_token", "delete_sessions"}
LocksOut(p) == local[p].out = {} \/ Bans(p) \/ Replaces(p)

Held(p) == LetIn(p) /\ Presents(p) /\ Overwrites(p) /\ LocksOut(p)
LockedOut ==
    /\ Typed /\ Overlap /\ KindsKnown /\ OwnPasswords /\ OutKept
    /\ \A p \in Requests : Held(p)

\* One statement of a request, for what follows.
Acts(p) == /\ pc[p] # "idle" /\ Step(p) /\ Stepped(p) /\ LockedOut
           /\ Typed' /\ Overlap' /\ contested \subseteq contested'

LEMMA Acting ==
    ASSUME NEW p \in Requests, Acts(p)
    PROVE  /\ pc[p] # "idle" /\ Step(p) /\ Sends(p) /\ Left /\ Typed /\ Overlap /\ KindsKnown
           /\ OwnPasswords /\ OutKept /\ \A q \in Requests : Held(q)
           /\ \A q \in Requests \ {p} : /\ pc'[q] = pc[q] /\ call'[q] = call[q]
                                        /\ local'[q] = local[q]
           /\ Len(kind) \in Nat /\ Len(kind') \in Nat /\ Len(kind) <= Len(kind')
           /\ fresh = Len(kind) + 1
           /\ \A i, k : k \in {"user", "password"} /\ IsA(i, k) => IsA(i, k)'
           /\ pc'[p] = "idle" => local'[p].out = {}
           /\ pc'[p] # "idle" => call'[p] = call[p]
<1>1. /\ pc[p] # "idle" /\ Step(p) /\ Sends(p) /\ Left /\ Typed /\ Overlap /\ KindsKnown
      /\ OwnPasswords /\ OutKept /\ \A q \in Requests : Held(q)
      /\ \A q \in Requests \ {p} : /\ pc'[q] = pc[q] /\ call'[q] = call[q]
                                   /\ local'[q] = local[q]
  BY DEF Acts, LockedOut, Stepped, Settled
<1>2. /\ Len(kind) \in Nat /\ Len(kind') \in Nat /\ Len(kind) <= Len(kind')
      /\ fresh = Len(kind) + 1
      /\ \A i, k : k \in {"user", "password"} /\ IsA(i, k) => IsA(i, k)'
  BY <1>1, KindsStay
<1>3. pc'[p] = "idle" => local'[p].out = {}
  BY DEF Acts, Stepped, Settled, RequestOK, Blank
<1>4. pc'[p] # "idle" => call'[p] = call[p]
  BY <1>1, EveryOnward DEF Onward
<1> QED BY <1>1, <1>2, <1>3, <1>4

\* A session given for a password that was drawn before is an old one, or is given now
\* to whoever has shown that password.
LEMMA GivenFor ==
    ASSUME NEW p \in Requests, Acts(p), NEW s \in db'.sessions, NEW i \in 1 .. Len(kind),
           <<s.id, i>> \in via'
    PROVE  \/ s \in db.sessions /\ <<s.id, i>> \in via
           \/ /\ pc[p] = "create_session" /\ call[p].op \in SignIns /\ call[p].secret = i
              /\ s.user = local[p].user
<1>0. /\ Typed /\ Sends(p) /\ pc[p] # "idle" /\ KindsKnown /\ Len(kind) \in Nat /\ fresh = Len(kind) + 1
      /\ \A r \in db.sessions : r.id \in Nat /\ r.id <= Len(kind)
  <2>1. \A r \in db.sessions : r.id \in Nat /\ r.id <= Len(kind)
    BY Acting, Now DEF Good, Drawn, Database, Session, Id
  <2> QED BY <2>1, Acting
<1>1. \/ s \in db.sessions
      \/ SendsSession(p) /\ s.id = fresh /\ s.user = local[p].user
      \/ SendsSignUp(p) /\ s.id = fresh + 3 /\ s.user = fresh
  BY <1>0, MoreSessions
<1>2. CASE <<s.id, i>> \in via
  <2>1. s.id \in 1 .. Len(kind)
    BY <1>0, <1>2 DEF KindsKnown
  <2> QED BY <1>0, <1>1, <1>2, <2>1
<1>3. CASE <<s.id, i>> \notin via
  <2>1. \/ /\ SendsSession(p) /\ pc[p] = "create_session" /\ call[p].op \in SignIns
           /\ <<s.id, i>> = <<fresh, call[p].secret>>
        \/ SendsSignUp(p) /\ <<s.id, i>> = <<fresh + 3, fresh + 2>>
    BY <1>0, <1>3, MorePairs
  <2>2. CASE SendsSignUp(p) /\ <<s.id, i>> = <<fresh + 3, fresh + 2>>
    BY <1>0, <2>2
  <2>3. CASE /\ SendsSession(p) /\ pc[p] = "create_session" /\ call[p].op \in SignIns
             /\ <<s.id, i>> = <<fresh, call[p].secret>>
    <3>1. s.id = fresh /\ i = call[p].secret
      BY <2>3
    <3>2. s \notin db.sessions
      BY <1>0, <3>1
    <3>3. ~ SendsSignUp(p)
      BY <2>3 DEF SendsSignUp
    <3> QED BY <1>1, <2>3, <3>1, <3>2, <3>3
  <2> QED BY <2>1, <2>2, <2>3
<1> QED BY <1>2, <1>3

\* The account of a password that was drawn before is an old one, not written over.
LEMMA PasswordOf ==
    ASSUME NEW p \in Requests, Acts(p), NEW a \in db'.accounts, a.password \in 1 .. Len(kind)
    PROVE  /\ \E b \in db.accounts : b.id = a.id /\ b.user = a.user /\ b.password = a.password
           /\ ~ (SendsPassword(p) /\ a.id = local[p].row)
<1>1. Typed /\ Sends(p) /\ pc[p] # "idle" /\ Len(kind) \in Nat /\ fresh = Len(kind) + 1 /\ None = 0
  BY Acting, Now
<1>2. a.password \notin {fresh, fresh + 1, fresh + 2, None}
  BY <1>1
<1> QED BY <1>1, <1>2, MoreAccounts

\* What nobody has any more nobody gets again.
LEMMA ReplacedStays ==
    ASSUME NEW p \in Requests, Acts(p), NEW i, Replaced(i)
    PROVE  Replaced(i)'
<1>1. IsA(i, "password")' /\ i \in 1 .. Len(kind)
  BY Acting DEF Replaced, IsA
<1>2. ASSUME NEW a \in db'.accounts, a.password = i
      PROVE  FALSE
  BY <1>1, <1>2, PasswordOf DEF Replaced
<1> QED BY <1>1, <1>2 DEF Replaced

\* Whoever updates its target does that, or fails.
LEMMA AtUpdate ==
    ASSUME Typed, NEW p \in Requests, pc[p] = "update_user", Step(p)
    PROVE  UpdateTarget(p) \/ db' = db
<1>1. CASE SharedStep(p)
  BY <1>1 DEF SharedStep, ReadBan, LiftBanAndIssue, ListAccounts, DeleteOneAccount,
              DeleteUserKeys, StatementFails
<1>2. ~ CredentialStep(p)
  BY DEF CredentialStep, CheckEmail, SignUp, CheckPassword, CheckUnverified, SignIn,
         StoreToken, FindPasswordRow, WriteNewPassword, AddPassword, DeleteToken,
         RevokeSessions, Reissue, Reread
<1>3. CASE AdminStep(p)
  BY <1>3 DEF AdminStep, AdminCreateUser, CheckOwnName, FindTarget, LiftBanFirst, Impersonate,
              FindAdmin, FindOwnSession, EndImpersonation, RevokeSession, RevokeTargetSessions,
              RemoveUser, DeleteUserRow
<1>4. ~ ProfileStep(p)
  BY DEF ProfileStep, CheckAddress, UpdateAddress, MailLink, FindByEmail, SessionForLink,
         ChangeAddress, MarkVerified, CheckDeletionPassword, StoreDeleteToken, FindDeleteToken,
         DeleteOwnSessions, DeleteOneself, DeleteUserRow, DropDeleteToken, CreateKey
<1>5. ~ PasskeyStep(p)
  BY DEF PasskeyStep, ListPasskeys, StoreChallenge, FindRegistration, StorePasskey,
         FindPasskey, WritePasskey, FindPasskeyUser, DropChallenge, SignInWithPasskey,
         CheckOwner, RemovePasskey
<1>6. ~ SocialStep(p)
  BY DEF SocialStep, StoreState, FindLinkUser, FindLinked, DropState, FindAccount,
         WriteTokens, FindAccountUser, MarkReported, OverrideUser, FindByReport,
         CreateSocialUser, CreateSocialAccount, SocialSession, FindInfo, FindTokens,
         Exchange, AnswerFromCookie, ListToUnlink, HasPassword, Unlink
<1> QED BY <1>1, <1>2, <1>3, <1>4, <1>5, <1>6 DEF Step

\* A user who is locked out stays so, for as long as the answers stand.
LEMMA UserOutStays ==
    ASSUME NEW p \in Requests, Acts(p), NEW i \in ousted', i \in ousted, UserOut(i)
    PROVE  UserOut(i)'
<1>0. /\ Typed /\ Sends(p) /\ pc[p] # "idle" /\ Step(p) /\ LetIn(p) /\ Len(kind) \in Nat
      /\ fresh = Len(kind) + 1 /\ contested \subseteq contested'
      /\ \A u, w \in db'.users : u.id = w.id => u = w
      /\ UserOut(i) /\ i \in 1 .. Len(kind)
  <2>1. \A u, w \in db'.users : u.id = w.id => u = w
    BY DEF Acts, Typed, Clients, Good, Sound
  <2>2. contested \subseteq contested'
    BY DEF Acts
  <2> QED BY <2>1, <2>2, Acting DEF Held, UserOut, IsA
<1>1. IsA(i, "user")' /\ AdminPlugin
  BY Acting DEF UserOut
<1>2. ASSUME pc[p] \in Admits, local[p].user = i
      PROVE  i \in contested
  BY <1>0, <1>2 DEF LetIn
<1>3. ASSUME NEW w \in UserOf(db', i), i \notin contested
      PROVE  InForce(w)
  <2>1. w \in db'.users /\ w.id = i
    BY <1>3 DEF UserOf
  <2>2. PICK u \in db.users : u.id = i
    BY <1>0, <2>1, MoreUsers
  <2>3. InForce(u)
    BY <1>0, <1>3, <2>2 DEF UserOut, UserOf
  <2>4. \A v \in UserOf(db', u.id) : v = w
    BY <1>0, <2>1, <2>2 DEF UserOf
  <2>5. CASE pc[p] = "update_user" /\ call[p].op \in {"unban", "update_user"}
    <3>1. CASE \E l : Answer(p, l)
      BY <1>3, <3>1 DEF Answer, StillOut
    <3>2. CASE db' = db
      BY <1>0, <2>1, <2>2, <2>3, <3>2
    <3>3. CASE UpdateTarget(p)
      <4>1. db' = db \/ Answer(p, local[p])
        BY <2>5, <3>3 DEF UpdateTarget
      <4> QED BY <3>1, <3>2, <4>1
    <3> QED BY <1>0, <2>5, <3>2, <3>3, AtUpdate
  <2>6. CASE ~ (pc[p] = "update_user" /\ call[p].op \in {"unban", "update_user"})
    <3>1. ~ (pc[p] \in {"lift_ban", "lift_first"} /\ local[p].user = u.id)
      BY <1>2, <1>3, <2>2 DEF Admits
    <3>2. UserOf(db', u.id) # {}
      BY <1>3, <2>2
    <3>3. \E v \in UserOf(db', u.id) : InForce(v)
      BY <1>0, <2>2, <2>3, <2>6, <3>1, <3>2, UserRows
    <3> QED BY <2>4, <3>3
  <2> QED BY <2>5, <2>6
<1>4. ASSUME NEW s \in db'.sessions, s.user = i
      PROVE  i \in contested
  <2>1. CASE s \in db.sessions
    BY <1>0, <1>4, <2>1 DEF UserOut
  <2>2. CASE SendsSession(p) /\ s.user = local[p].user
    <3>1. pc[p] \in Admits
      BY <2>2 DEF SendsSession, Admits
    <3> QED BY <1>2, <1>4, <2>2, <3>1
  <2>3. s.user # fresh
    BY <1>0, <1>4
  <2> QED BY <1>0, <2>1, <2>2, <2>3, MoreSessions
<1>5. \A w \in UserOf(db', i) : InForce(w) \/ i \in contested'
  BY <1>0, <1>3
<1>6. \A s \in db'.sessions : s.user = i => i \in contested'
  BY <1>0, <1>4
<1> QED BY <1>1, <1>5, <1>6 DEF UserOut

LEMMA PasswordOutStays ==
    ASSUME NEW p \in Requests, Acts(p), NEW i \in ousted, PasswordOut(i)
    PROVE  PasswordOut(i)'
<1>0. /\ Presents(p) /\ contested \subseteq contested' /\ Replaced(i)
      /\ \A s \in db.sessions : <<s.id, i>> \in via => Seen(i, s.user)
  BY Acting DEF Acts, Held, PasswordOut
<1>1. Replaced(i)' /\ i \in 1 .. Len(kind)
  BY <1>0, ReplacedStays DEF Replaced, IsA
<1>2. ASSUME NEW s \in db'.sessions, <<s.id, i>> \in via'
      PROVE  Seen(i, s.user)
  <2>1. CASE s \in db.sessions /\ <<s.id, i>> \in via
    BY <1>0, <2>1
  <2>2. CASE /\ pc[p] = "create_session" /\ call[p].op \in SignIns /\ call[p].secret = i
             /\ s.user = local[p].user
    <3>1. Losing(i)
      BY DEF Losing
    <3> QED BY <1>0, <2>2, <3>1 DEF Presents
  <2> QED BY <1>1, <1>2, <2>1, <2>2, GivenFor
<1>3. \A s \in db'.sessions : <<s.id, i>> \in via' => Seen(i, s.user)'
  BY <1>0, <1>2 DEF Seen
<1> QED BY <1>1, <1>3 DEF PasswordOut

\* Whoever an answer locks out is out.
LEMMA PutsOut ==
    ASSUME NEW p \in Requests, Acts(p), NEW i \in ousted', i \notin ousted
    PROVE  UserOut(i)' \/ PasswordOut(i)'
<1>0. /\ Typed /\ pc[p] # "idle" /\ Step(p) /\ Sends(p) /\ LocksOut(p)
      /\ contested \subseteq contested'
  BY Acting DEF Acts, Held
<1>1. ousted' # ousted
  OBVIOUS
<1>2. Ousts(p)
  BY <1>0, <1>1, OutGrows DEF Minds, Forgets, Remembers, Replacing, Banning
<1>3. i \in local[p].out /\ \A u \in UserOf(db', i) : InForce(u)
  BY <1>2 DEF Ousts, StillOut
<1>4. ~ StatementFails(p)
  BY <1>1 DEF StatementFails, GiveUp
<1>5. CASE Bans(p)
  <2>1. SendsRevoke(p) /\ i = local[p].user /\ AdminPlugin /\ IsA(i, "user")
    BY <1>0, <1>3, <1>4, <1>5, Revoking DEF Bans
  <2>2. IsA(i, "user")'
    BY <2>1, Acting
  <2>3. \A s \in db'.sessions : s.user # i
    BY <1>0, <2>1, MoreSessions
  <2> QED BY <1>3, <2>1, <2>2, <2>3 DEF UserOut
<1>6. CASE Replaces(p)
  <2>1. Replaced(i)' /\ i \in 1 .. Len(kind)
    BY <1>3, <1>6, ReplacedStays DEF Replaces, Replaced, IsA
  <2>2. call[p].op \notin SignIns
    BY <1>6 DEF Replaces, Revokes, SignIns
  <2>3. ASSUME NEW s \in db'.sessions, <<s.id, i>> \in via'
        PROVE  Seen(i, s.user)
    <3>1. s \in db.sessions /\ <<s.id, i>> \in via
      BY <2>1, <2>2, <2>3, GivenFor
    <3>2. CASE pc[p] = "delete_token"
      <4>1. pc'[p] = "delete_sessions"
        BY <1>0, <1>1, <1>6, <3>2, RevokesOn DEF Replaces
      <4> QED BY <1>2, <4>1 DEF Ousts
    <3>3. CASE pc[p] = "delete_sessions"
      <4>1. s.user # local[p].user
        BY <1>0, <1>4, <3>3, Revoking, MoreSessions
      <4> QED BY <1>3, <1>6, <3>1, <4>1 DEF Replaces
    <3> QED BY <1>3, <1>6, <3>1, <3>2, <3>3 DEF Replaces
  <2>4. \A s \in db'.sessions : <<s.id, i>> \in via' => Seen(i, s.user)'
    BY <1>0, <2>3 DEF Seen
  <2> QED BY <2>1, <2>4 DEF PasswordOut
<1> QED BY <1>0, <1>3, <1>5, <1>6 DEF LocksOut

LEMMA OutStays ==
    ASSUME NEW p \in Requests, Acts(p)
    PROVE  OutKept'
<1>1. ASSUME NEW i \in ousted'
      PROVE  UserOut(i)' \/ PasswordOut(i)'
  <2>1. CASE i \in ousted
    <3>1. UserOut(i) \/ PasswordOut(i)
      BY <2>1, Acting DEF OutKept
    <3> QED BY <2>1, <3>1, UserOutStays, PasswordOutStays
  <2> QED BY <2>1, PutsOut
<1> QED BY <1>1 DEF OutKept

\* Rows keep being of the ids they were drawn for,
LEMMA KindsStayKnown ==
    ASSUME NEW p \in Requests, Acts(p)
    PROVE  KindsKnown'
<1>0. /\ Typed /\ pc[p] # "idle" /\ Sends(p) /\ KindsKnown /\ Presents(p) /\ Len(kind) \in Nat
      /\ Len(kind') \in Nat /\ Len(kind) <= Len(kind') /\ fresh = Len(kind) + 1
      /\ \A i, k : k \in {"user", "password"} /\ IsA(i, k) => IsA(i, k)'
  BY Acting DEF Held
<1>1. \A i, k : Becomes(i, k) => IsA(i, k)'
  BY DEF Becomes, IsA
<1>2. ASSUME NEW u \in db'.users
      PROVE  IsA(u.id, "user")'
  <2>1. CASE \E w \in db.users : w.id = u.id
    <3>1. \E i : i = u.id /\ IsA(i, "user")
      BY <1>0, <2>1 DEF KindsKnown
    <3> QED BY <1>0, <3>1
  <2> QED BY <1>0, <1>1, <2>1, MoreUsers
<1>3. ASSUME NEW a \in db'.accounts, a.password # None
      PROVE  IsA(a.password, "password")'
  <2>1. CASE \E b \in db.accounts : b.password = a.password
    <3>1. \E i : i = a.password /\ IsA(i, "password")
      BY <1>0, <1>3, <2>1 DEF KindsKnown
    <3> QED BY <1>0, <3>1
  <2>2. CASE \E i : a.password = i /\ Becomes(i, "password")
    BY <1>1, <2>2
  <2> QED BY <1>0, <1>3, <2>1, <2>2, MoreAccounts
<1>4. ASSUME NEW x \in via'
      PROVE  x[1] \in 1 .. Len(kind') /\ IsA(x[2], "password")'
  <2>1. CASE x \in via
    <3>1. x[1] \in 1 .. Len(kind) /\ \E i : i = x[2] /\ IsA(i, "password")
      BY <1>0, <2>1 DEF KindsKnown
    <3> QED BY <1>0, <3>1
  <2>2. CASE x \notin via
    <3>1. CASE /\ pc[p] = "create_session" /\ call[p].op \in SignIns
               /\ x = <<fresh, call[p].secret>> /\ fresh \in 1 .. Len(kind')
      <4>1. \E i : i = call[p].secret /\ IsA(i, "password")
        BY <1>0, <3>1 DEF Presents
      <4>2. x[1] = fresh /\ x[2] = call[p].secret
        BY <3>1
      <4> QED BY <1>0, <3>1, <4>1, <4>2
    <3>2. CASE /\ x = <<fresh + 3, fresh + 2>>
               /\ fresh + 3 \in 1 .. Len(kind') /\ Becomes(fresh + 2, "password")
      <4>1. x[1] = fresh + 3 /\ x[2] = fresh + 2
        BY <3>2
      <4> QED BY <1>1, <3>2, <4>1
    <3> QED BY <1>0, <2>2, <3>1, <3>2, MorePairs
  <2> QED BY <2>1, <2>2
<1> QED BY <1>2, <1>3, <1>4 DEF KindsKnown

\* nobody gets a password somebody else has, nor a session for one,
LEMMA OwnPasswordsStay ==
    ASSUME NEW p \in Requests, Acts(p)
    PROVE  OwnPasswords'
<1>0. /\ Typed /\ pc[p] # "idle" /\ Sends(p) /\ KindsKnown /\ Presents(p) /\ Len(kind) \in Nat
      /\ fresh = Len(kind) + 1 /\ None = 0
      /\ \A a, b \in db.accounts : a.password = b.password /\ a.password # None => a = b
      /\ \A s \in db.sessions : \A a \in db.accounts : <<s.id, a.password>> \in via => s.user = a.user
  BY Acting, Now DEF Held, OwnPasswords
<1>1. \A a, b \in db'.accounts : a.id = b.id => a = b
  BY DEF Acts, Typed, Clients, Good, Sound
<1>2. ASSUME NEW a \in db'.accounts, a.password # None, a.password \notin 1 .. Len(kind)
      PROVE  \/ SendsPassword(p) /\ a.id = local[p].row
             \/ SendsSignUp(p) /\ a.id = fresh + 1 /\ a.user = fresh
             \/ SendsCredential(p) /\ a.id = fresh /\ a.password = fresh + 1
  <2>1. ~ \E b \in db.accounts : b.password = a.password
    BY <1>0, <1>2 DEF KindsKnown, IsA
  <2> QED BY <1>0, <1>2, <2>1, MoreAccounts
<1>3. /\ ~ (SendsPassword(p) /\ SendsSignUp(p)) /\ ~ (SendsPassword(p) /\ SendsCredential(p))
      /\ ~ (SendsCredential(p) /\ SendsSignUp(p))
  BY DEF SendsPassword, SendsSignUp, SendsCredential
<1>4. ASSUME NEW a \in db'.accounts, NEW b \in db'.accounts, a.password = b.password,
             a.password # None
      PROVE  a = b
  <2>1. CASE a.password \in 1 .. Len(kind)
    <3>1. PICK c \in db.accounts : c.id = a.id /\ c.password = a.password
      BY <2>1, PasswordOf
    <3>2. PICK d \in db.accounts : d.id = b.id /\ d.password = b.password
      BY <1>4, <2>1, PasswordOf
    <3>3. c = d
      BY <1>0, <1>4, <3>1, <3>2
    <3> QED BY <1>1, <3>1, <3>2, <3>3
  <2>2. CASE a.password \notin 1 .. Len(kind)
    <3>1. a.id = b.id
      BY <1>2, <1>3, <1>4, <2>2
    <3> QED BY <1>1, <3>1
  <2> QED BY <2>1, <2>2
<1>5. ASSUME NEW s \in db'.sessions, NEW a \in db'.accounts, <<s.id, a.password>> \in via'
      PROVE  s.user = a.user
  <2>1. CASE a.password \in 1 .. Len(kind)
    <3>1. PICK b \in db.accounts : b.user = a.user /\ b.password = a.password
      BY <2>1, PasswordOf
    <3>2. \/ s \in db.sessions /\ <<s.id, a.password>> \in via
          \/ /\ pc[p] = "create_session" /\ call[p].op \in SignIns /\ call[p].secret = a.password
             /\ s.user = local[p].user
      BY <1>5, <2>1, GivenFor
    <3>3. CASE s \in db.sessions /\ <<s.id, a.password>> \in via
      BY <1>0, <3>1, <3>3
    <3>4. CASE /\ pc[p] = "create_session" /\ call[p].op \in SignIns
               /\ call[p].secret = a.password /\ s.user = local[p].user
      BY <1>0, <3>1, <3>4 DEF Presents
    <3> QED BY <3>2, <3>3, <3>4
  <2>2. CASE a.password \notin 1 .. Len(kind)
    <3>1. <<s.id, a.password>> \notin via
      BY <1>0, <2>2 DEF KindsKnown, IsA
    <3>2. \/ /\ pc[p] = "create_session" /\ call[p].op \in SignIns
             /\ <<s.id, a.password>> = <<fresh, call[p].secret>>
          \/ SendsSignUp(p) /\ <<s.id, a.password>> = <<fresh + 3, fresh + 2>>
      BY <1>0, <1>5, <3>1, MorePairs
    <3>3. ~ (/\ pc[p] = "create_session" /\ call[p].op \in SignIns
             /\ <<s.id, a.password>> = <<fresh, call[p].secret>>)
      BY <1>0, <2>2 DEF Presents, IsA
    <3>4. SendsSignUp(p) /\ s.id = fresh + 3 /\ a.password = fresh + 2
      BY <3>2, <3>3
    <3>5. a.user = fresh
      BY <1>0, <1>2, <1>3, <2>2, <3>4
    <3>6. s \notin db.sessions /\ s.id # fresh
      <4>1. \A r \in db.sessions : r.id <= Len(kind)
        BY <1>0, Now DEF Good, Drawn
      <4> QED BY <1>0, <3>4, <4>1
    <3> QED BY <1>0, <3>5, <3>6, MoreSessions
  <2> QED BY <2>1, <2>2
<1> QED BY <1>4, <1>5 DEF OwnPasswords

\* and whoever is let in is no locked out user, or has met the request that locked
\* them out.
LEMMA LetInStays ==
    ASSUME NEW p \in Requests, Acts(p), NEW q \in Requests
    PROVE  LetIn(q)'
<1>0. /\ Typed /\ Overlap /\ pc[p] # "idle" /\ Step(p) /\ Sends(p) /\ KindsKnown /\ OutKept
      /\ LetIn(q) /\ LocksOut(p) /\ contested \subseteq contested'
      /\ \A i : IsA(i, "user") => IsA(i, "user")'
      /\ \A i : IsA(i, "user") => i \in Nat \ {None}
      /\ \A i : ~ (IsA(i, "user") /\ IsA(i, "password"))
  BY Acting, Now DEF Acts, Held, IsA
<1>1. CASE q = p
  <2> SUFFICES ASSUME pc'[p] \in Admits
               PROVE  LetIn(p)'
    BY <1>1 DEF LetIn
  <2>1. /\ local'[p] = local[p] /\ ousted' = ousted
        /\ \/ pc[p] \in {"lift_ban", "lift_first"}
           \/ \E u \in UserOf(db, local[p].user) : ~ AdminPlugin \/ ~ InForce(u)
    BY <1>0, LetsIn
  <2>2. PICK i : i = local[p].user
    OBVIOUS
  <2>3. IsA(i, "user") /\ (i \in ousted => i \in contested)
    <3>1. CASE pc[p] \in {"lift_ban", "lift_first"}
      BY <1>0, <1>1, <2>2, <3>1 DEF LetIn, Admits
    <3>2. ASSUME NEW u \in UserOf(db, i), ~ AdminPlugin \/ ~ InForce(u)
          PROVE  IsA(i, "user") /\ (i \in ousted => i \in contested)
      <4>1. IsA(i, "user")
        BY <1>0 DEF KindsKnown, UserOf
      <4>2. UserOut(i) => i \in contested
        BY <3>2 DEF UserOut
      <4>3. ~ PasswordOut(i)
        BY <1>0, <4>1 DEF PasswordOut, Replaced
      <4> QED BY <1>0, <4>1, <4>2, <4>3 DEF OutKept
    <3> QED BY <2>1, <2>2, <3>1, <3>2
  <2>4. IsA(i, "user")' /\ (i \in ousted' => i \in contested')
    BY <1>0, <2>1, <2>3
  <2>5. i = local'[p].user
    BY <2>1, <2>2
  <2> QED BY <2>4, <2>5 DEF LetIn, IsA
<1>2. CASE q # p
  <2>0. pc'[q] = pc[q] /\ local'[q] = local[q]
    BY <1>2, Acting
  <2> SUFFICES ASSUME pc[q] \in Admits
               PROVE  LetIn(q)'
    BY <2>0 DEF LetIn
  <2>1. PICK i : i = local[q].user
    OBVIOUS
  <2>2. IsA(i, "user") /\ (i \in ousted => i \in contested)
    BY <1>0, <2>1 DEF LetIn
  <2>3. ASSUME i \in ousted', i \notin ousted
        PROVE  i \in contested
    <3>1. ousted' # ousted
      BY <2>3
    <3>2. i \in local[p].out
      BY <1>0, <2>3, <3>1, OutGrows DEF Minds, Forgets, Ousts, Remembers, Replacing, Banning, StillOut
    <3>3. ~ Replaces(p)
      BY <1>0, <2>2, <3>2 DEF Replaces, Replaced
    <3>4. local[p].user = i
      BY <1>0, <3>2, <3>3 DEF LocksOut, Bans
    <3>5. i \in Touched(p) \cap Touched(q)
      BY <1>0, <2>1, <2>2, <3>4 DEF Touched, Admits
    <3> QED BY <1>0, <1>2, <3>5, Met
  <2>4. IsA(i, "user")' /\ (i \in ousted' => i \in contested')
    BY <1>0, <2>2, <2>3
  <2>5. i = local'[q].user
    BY <2>0, <2>1
  <2> QED BY <2>4, <2>5 DEF LetIn, IsA
<1> QED BY <1>1, <1>2

\* Whoever shows a password shows their own, or has met whoever replaces it.
LEMMA PresentsStays ==
    ASSUME NEW p \in Requests, Acts(p), NEW q \in Requests
    PROVE  Presents(q)'
<1>0. /\ Typed /\ Overlap /\ pc[p] # "idle" /\ Step(p) /\ Sends(p) /\ KindsKnown /\ OutKept
      /\ OwnPasswords /\ (\A r \in Requests : LocksOut(r) /\ Presents(r) /\ Overwrites(r))
      /\ contested \subseteq contested'
      /\ \A r \in Requests \ {p} : /\ pc'[r] = pc[r] /\ call'[r] = call[r] /\ local'[r] = local[r]
      /\ \A i : IsA(i, "password") => IsA(i, "password")'
      /\ \A i : ~ (IsA(i, "user") /\ IsA(i, "password"))
  BY Acting DEF Acts, Held, IsA
<1>1. CASE q = p
  <2> SUFFICES ASSUME call'[p].op \in SignIns, pc'[p] \in {"issue", "lift_ban", "create_session"}
               PROVE  Presents(p)'
    BY <1>1 DEF Presents
  <2>1. call'[p] = call[p]
    BY Acting
  <2>2. /\ local'[p] = local[p] /\ ousted' = ousted /\ db'.accounts = db.accounts
        /\ pc[p] \in {"issue", "lift_ban"} \/ PasswordIs(db, local[p].user, call[p].secret)
    BY <1>0, <2>1, ShowsPassword
  <2>3. PICK i, u : i = call[p].secret /\ u = local[p].user
    OBVIOUS
  <2>4. /\ IsA(i, "password")
        /\ \A a \in db.accounts : a.password = i => a.user = u
        /\ Losing(i) => Seen(i, u)
    <3>1. CASE pc[p] \in {"issue", "lift_ban"}
      BY <1>0, <2>1, <2>3, <3>1 DEF Presents
    <3>2. CASE PasswordIs(db, u, i)
      <4>1. PICK a \in db.accounts : a.user = u /\ a.password = i /\ i # None
        BY <3>2 DEF PasswordIs, CredentialOf, AccountsOf
      <4>2. IsA(i, "password")
        BY <1>0, <4>1 DEF KindsKnown
      <4>3. ~ UserOut(i) /\ ~ Replaced(i)
        BY <1>0, <4>1, <4>2 DEF UserOut, Replaced
      <4>4. ~ Losing(i)
        <5>1. i \notin ousted
          BY <1>0, <4>3 DEF OutKept, PasswordOut
        <5>2. ASSUME NEW r \in Requests, i \in local[r].out
              PROVE  FALSE
          BY <1>0, <4>2, <4>3, <5>2 DEF LocksOut, Bans, Replaces
        <5> QED BY <5>1, <5>2 DEF Losing
      <4> QED BY <1>0, <4>1, <4>2, <4>4 DEF OwnPasswords
    <3> QED BY <2>2, <2>3, <3>1, <3>2
  <2>5. Losing(i)' => Losing(i)
    BY <1>0, <2>2 DEF Losing
  <2>6. /\ i = call'[p].secret /\ u = local'[p].user /\ IsA(i, "password")'
        /\ \A a \in db'.accounts : a.password = i => a.user = u
        /\ Losing(i)' => Seen(i, u)'
    BY <1>0, <2>1, <2>2, <2>3, <2>4, <2>5 DEF Seen
  <2> QED BY <2>6 DEF Presents, Losing, IsA, Seen
<1>2. CASE q # p
  <2>0. pc'[q] = pc[q] /\ local'[q] = local[q] /\ call'[q] = call[q]
    BY <1>0, <1>2
  <2> SUFFICES ASSUME call[q].op \in SignIns, pc[q] \in {"issue", "lift_ban", "create_session"}
               PROVE  Presents(q)'
    BY <2>0 DEF Presents
  <2>1. PICK i, u : i = call[q].secret /\ u = local[q].user
    OBVIOUS
  <2>2. /\ IsA(i, "password")
        /\ \A a \in db.accounts : a.password = i => a.user = u
        /\ Losing(i) => Seen(i, u)
    BY <1>0, <2>1 DEF Presents
  <2>3. \A a \in db'.accounts : a.password = i => a.user = u
    <3> SUFFICES ASSUME NEW a \in db'.accounts, a.password = i PROVE a.user = u
      OBVIOUS
    <3>1. PICK b \in db.accounts : b.user = a.user /\ b.password = a.password
      BY <2>2, PasswordOf DEF IsA
    <3> QED BY <2>2, <3>1
  <2>4. Losing(i)' => Seen(i, u)
    <3>1. CASE Minds(p)
      <4>1. ousted' \subseteq ousted \cup local[p].out /\ local'[p].out \subseteq local[p].out
        BY <3>1, Acting DEF Minds, Forgets, Ousts, Remembers, StillOut
      <4>2. Losing(i)' => Losing(i)
        BY <1>0, <4>1 DEF Losing
      <4> QED BY <2>2, <4>2
    <3>2. CASE Replacing(p)
      <4>1. PICK a \in AccountOf(db, local[p].row) : local'[p].out = {a.password} \ {None}
        BY <3>2 DEF Replacing
      <4>2. ousted' = ousted
        BY <3>2 DEF Replacing
      <4>3. Losing(i)' => Losing(i) \/ a.password = i
        BY <1>0, <4>1, <4>2 DEF Losing
      <4>4. ASSUME a.password = i
            PROVE  Seen(i, u)
        <5>1. a \in db.accounts /\ a.user = u
          BY <2>2, <4>4 DEF AccountOf
        <5>2. a.user = local[p].user
          BY <1>0, <3>2 DEF Replacing, Overwrites, Revokes, CredentialOps
        <5>3. u \in Nat \ {None}
          BY <1>0, <5>1, Now DEF Database, Account, Id
        <5>4. u \in Touched(p) \cap Touched(q)
          BY <1>0, <2>1, <5>1, <5>2, <5>3 DEF Touched
        <5> QED BY <1>0, <1>2, <5>4, Met DEF Seen
      <4> QED BY <2>2, <4>3, <4>4
    <3>3. CASE Banning(p)
      <4>1. \E w \in db.users : w.id = call[p].target
        BY <3>3 DEF Banning, UserOf
      <4>2. i # call[p].target
        BY <1>0, <2>2, <4>1 DEF KindsKnown
      <4>3. Losing(i)' => Losing(i)
        BY <1>0, <3>3, <4>2 DEF Losing, Banning
      <4> QED BY <2>2, <4>3
    <3> QED BY <1>0, <3>1, <3>2, <3>3, OutGrows
  <2>5. /\ i = call'[q].secret /\ u = local'[q].user /\ IsA(i, "password")'
        /\ \A a \in db'.accounts : a.password = i => a.user = u
        /\ Losing(i)' => Seen(i, u)'
    BY <1>0, <2>0, <2>1, <2>2, <2>3, <2>4 DEF Seen
  <2> QED BY <2>5 DEF Presents, Losing, IsA, Seen
<1> QED BY <1>1, <1>2

\* Whoever writes over a password writes over its user's.
LEMMA OverwritesStays ==
    ASSUME NEW p \in Requests, Acts(p), NEW q \in Requests
    PROVE  Overwrites(q)'
<1>0. /\ Typed /\ pc[p] # "idle" /\ Step(p) /\ Sends(p) /\ Overwrites(q) /\ Len(kind) \in Nat
      /\ Len(kind') \in Nat /\ Len(kind) <= Len(kind') /\ fresh = Len(kind) + 1 /\ db \in Database
      /\ \A r \in Requests \ {p} : /\ pc'[r] = pc[r] /\ call'[r] = call[r] /\ local'[r] = local[r]
  BY Acting, Now DEF Held
<1>1. CASE q = p
  <2> SUFFICES ASSUME call'[p].op \in CredentialOps, pc'[p] = "write_password"
               PROVE  Overwrites(p)'
    BY <1>1 DEF Overwrites
  <2>1. call'[p] = call[p]
    BY Acting
  <2>2. /\ db' = db /\ local'[p].user = local[p].user
        /\ \E a \in CredentialOf(db, local[p].user) : local'[p].row = a.id
    BY <1>0, <2>1, FindsRow
  <2>3. PICK a \in db.accounts : a.user = local[p].user /\ local'[p].row = a.id
    BY <2>2 DEF CredentialOf, AccountsOf
  <2>4. a.id \in 1 .. Len(kind) /\ \A b \in db.accounts : b.id = a.id => b = a
    BY <1>0, Now DEF Good, Drawn, Sound, Database, Account, Id
  <2>5. /\ local'[p].row \in 1 .. Len(kind')
        /\ \A b \in db'.accounts : b.id = local'[p].row => b.user = local'[p].user
    BY <1>0, <2>2, <2>3, <2>4
  <2> QED BY <2>5 DEF Overwrites, AccountOf
<1>2. CASE q # p
  <2>0. pc'[q] = pc[q] /\ local'[q] = local[q] /\ call'[q] = call[q]
    BY <1>0, <1>2
  <2> SUFFICES ASSUME call[q].op \in CredentialOps, pc[q] = "write_password"
               PROVE  Overwrites(q)'
    BY <2>0 DEF Overwrites
  <2>1. /\ local[q].row \in 1 .. Len(kind)
        /\ \A b \in db.accounts : b.id = local[q].row => b.user = local[q].user
    BY <1>0 DEF Overwrites, AccountOf
  <2>2. ASSUME NEW a \in db'.accounts, a.id = local[q].row
        PROVE  a.user = local[q].user
    <3>1. a.id # fresh /\ a.id # fresh + 1
      BY <1>0, <2>1, <2>2
    <3>2. PICK b \in db.accounts : b.id = a.id /\ b.user = a.user
      BY <1>0, <3>1, MoreAccounts
    <3> QED BY <2>1, <2>2, <3>2
  <2>3. /\ local'[q].row \in 1 .. Len(kind')
        /\ \A a \in db'.accounts : a.id = local'[q].row => a.user = local'[q].user
    BY <1>0, <2>0, <2>1, <2>2
  <2> QED BY <2>3 DEF Overwrites, AccountOf
<1> QED BY <1>1, <1>2

\* Whoever is about to lock somebody out has what it takes.
LEMMA LocksOutStays ==
    ASSUME NEW p \in Requests, Acts(p), NEW q \in Requests
    PROVE  LocksOut(q)'
<1>0. /\ Typed /\ Overlap /\ pc[p] # "idle" /\ Step(p) /\ Sends(p) /\ KindsKnown /\ OwnPasswords
      /\ LocksOut(q) /\ Presents(p) /\ Overwrites(p) /\ contested \subseteq contested'
      /\ \A r \in Requests \ {p} : /\ pc'[r] = pc[r] /\ call'[r] = call[r] /\ local'[r] = local[r]
      /\ \A i : IsA(i, "user") => IsA(i, "user")'
      /\ \A i : IsA(i, "password") => IsA(i, "password")'
  BY Acting DEF Acts, Held
<1>1. ASSUME NEW i, IsA(i, "password"), NEW s \in db'.sessions, <<s.id, i>> \in via',
             s \in db.sessions => ~ (<<s.id, i>> \in via)
      PROVE  /\ pc[p] = "create_session" /\ call[p].op \in SignIns /\ call[p].secret = i
             /\ s.user = local[p].user
  BY <1>1, GivenFor DEF IsA
<1>2. CASE q = p /\ pc'[p] = "idle"
  BY <1>2, Acting DEF LocksOut
<1>3. CASE q = p /\ pc'[p] # "idle" /\ Minds(p)
  <2>1. call'[p] = call[p] /\ local'[p].out = local[p].out
    BY <1>3 DEF Minds, Forgets, Ousts, Remembers
  <2>2. CASE local[p].out = {}
    BY <1>3, <2>1, <2>2 DEF LocksOut
  <2>3. CASE Bans(p)
    BY <1>0, <1>3, <2>3, Revoking, Lands DEF Bans, StatementFails
  <2>4. CASE Replaces(p)
    <3>1. /\ pc'[p] \in Locking /\ local'[p].user = local[p].user
          /\ pc[p] = "delete_token" => pc'[p] = "delete_sessions"
      BY <1>0, <1>3, <2>4, RevokesOn DEF Replaces
    <3>2. call[p].op \notin SignIns
      BY <2>4 DEF Replaces, Revokes, SignIns
    <3>3. ASSUME NEW i \in local[p].out
          PROVE  /\ Replaced(i)'
                 /\ \A s \in db'.sessions :
                       <<s.id, i>> \in via' =>
                          \/ Seen(i, s.user)
                          \/ s.user = local[p].user /\ pc'[p] \in {"delete_token", "delete_sessions"}
      <4>1. Replaced(i) /\ Replaced(i)' /\ IsA(i, "password")
        BY <2>4, ReplacedStays DEF Replaces, Replaced
      <4>2. ASSUME NEW s \in db'.sessions, <<s.id, i>> \in via'
            PROVE  \/ Seen(i, s.user)
                   \/ s.user = local[p].user /\ pc'[p] \in {"delete_token", "delete_sessions"}
        <5>1. s \in db.sessions /\ <<s.id, i>> \in via
          BY <1>1, <3>2, <4>1, <4>2
        <5>2. CASE pc[p] = "delete_sessions"
          <6>1. ~ StatementFails(p)
            BY <1>0, <1>3, Lands DEF StatementFails
          <6>2. s.user # local[p].user
            BY <1>0, <5>2, <6>1, Revoking, MoreSessions
          <6> QED BY <2>4, <5>1, <6>2 DEF Replaces
        <5> QED BY <2>4, <3>1, <5>1, <5>2 DEF Replaces
      <4> QED BY <4>1, <4>2
    <3>4. \A i, u : Seen(i, u) => Seen(i, u)'
      BY <1>0 DEF Seen
    <3>5. Revokes(call[p])'
      BY <2>1, <2>4 DEF Replaces, Revokes
    <3>6. Replaces(p)'
      BY <2>1, <3>1, <3>3, <3>4, <3>5 DEF Replaces, Seen
    <3> QED BY <1>3, <3>6 DEF LocksOut
  <2> QED BY <1>0, <1>3, <2>2, <2>3, <2>4 DEF LocksOut
<1>4. CASE q = p /\ Replacing(p)
  <2>1. PICK a \in db.accounts : a.id = local[p].row /\ local'[p].out = {a.password} \ {None}
    BY <1>4 DEF Replacing, AccountOf
  <2>2. /\ call'[p] = call[p] /\ local'[p].user = local[p].user /\ SendsPassword(p)
        /\ Revokes(call[p]) /\ pc'[p] \in {"delete_token", "delete_sessions"}
        /\ pc[p] = "write_password"
    BY <1>4 DEF Replacing
  <2>3. a.user = local[p].user
    BY <1>0, <2>1, <2>2 DEF Overwrites, Revokes, CredentialOps, AccountOf
  <2>4. ASSUME NEW i \in local'[p].out
        PROVE  /\ Replaced(i)'
               /\ \A s \in db'.sessions : <<s.id, i>> \in via' => s.user = local[p].user
    <3>1. i = a.password /\ IsA(i, "password")
      BY <1>0, <2>1, <2>4 DEF KindsKnown
    <3>2. ASSUME NEW b \in db'.accounts, b.password = i
          PROVE  FALSE
      <4>1. PICK c \in db.accounts : c.id = b.id /\ c.password = b.password
        BY <3>1, <3>2, PasswordOf DEF IsA
      <4>2. c = a
        BY <1>0, <2>1, <2>4, <3>1, <3>2, <4>1 DEF OwnPasswords
      <4> QED BY <2>1, <2>2, <3>1, <3>2, <4>1, <4>2, PasswordOf DEF IsA
    <3>3. ASSUME NEW s \in db'.sessions, <<s.id, i>> \in via'
          PROVE  s.user = local[p].user
      <4>1. s \in db.sessions /\ <<s.id, i>> \in via
        BY <1>1, <2>2, <3>1, <3>3
      <4> QED BY <1>0, <2>3, <3>1, <4>1 DEF OwnPasswords
    <3>4. IsA(i, "password")'
      BY <1>0, <3>1
    <3> QED BY <3>2, <3>3, <3>4 DEF Replaced
  <2>5. Revokes(call[p])'
    BY <2>2 DEF Revokes
  <2>6. Replaces(p)'
    BY <2>2, <2>4, <2>5 DEF Replaces, Locking
  <2> QED BY <1>4, <2>6 DEF LocksOut
<1>5. CASE q = p /\ Banning(p)
  <2>1. /\ call'[p] = call[p] /\ local'[p].user = local[p].user /\ pc'[p] = "delete_sessions"
        /\ local'[p].out = {call[p].target} /\ call[p].op = "ban" /\ pc[p] = "update_user"
    BY <1>5 DEF Banning
  <2>2. local[p].user = call[p].target /\ call[p].op \in Ops
    BY <1>0, <2>1, StillThere DEF At, Asked
  <2>3. AdminPlugin
    BY <2>1, <2>2, IdentityAssumption DEF AdminOps
  <2>4. PICK i : i = call[p].target
    OBVIOUS
  <2>5. IsA(i, "user")
    BY <1>0, <1>5, <2>4 DEF Banning, KindsKnown, UserOf
  <2>6. IsA(i, "user")'
    BY <1>0, <2>5
  <2>7. /\ call'[p].op = "ban" /\ pc'[p] = "delete_sessions" /\ AdminPlugin
        /\ local'[p].out = {local'[p].user} /\ i = local'[p].user
    BY <2>1, <2>2, <2>3, <2>4
  <2>8. Bans(p)'
    BY <2>6, <2>7 DEF Bans, IsA
  <2> QED BY <1>5, <2>8 DEF LocksOut
<1>6. CASE q # p
  <2>0. pc'[q] = pc[q] /\ local'[q] = local[q] /\ call'[q] = call[q]
    BY <1>0, <1>6
  <2>1. CASE local[q].out = {}
    BY <2>0, <2>1 DEF LocksOut
  <2>2. CASE Bans(q)
    <3>1. PICK i : i = local[q].user
      OBVIOUS
    <3>2. IsA(i, "user")'
      BY <1>0, <2>2, <3>1 DEF Bans
    <3>3. /\ call'[q].op = "ban" /\ pc'[q] = "delete_sessions" /\ AdminPlugin
          /\ local'[q].out = {local'[q].user} /\ i = local'[q].user
      BY <2>0, <2>2, <3>1 DEF Bans
    <3>4. Bans(q)'
      BY <3>2, <3>3 DEF Bans, IsA
    <3> QED BY <3>4 DEF LocksOut
  <2>3. CASE Replaces(q)
    <3>1. ASSUME NEW i \in local[q].out
          PROVE  /\ Replaced(i)'
                 /\ \A s \in db'.sessions :
                       <<s.id, i>> \in via' =>
                          \/ Seen(i, s.user)
                          \/ s.user = local[q].user /\ pc[q] \in {"delete_token", "delete_sessions"}
      <4>1. Replaced(i) /\ Replaced(i)' /\ IsA(i, "password")
        BY <2>3, ReplacedStays DEF Replaces, Replaced
      <4>2. ASSUME NEW s \in db'.sessions, <<s.id, i>> \in via'
            PROVE  \/ Seen(i, s.user)
                   \/ s.user = local[q].user /\ pc[q] \in {"delete_token", "delete_sessions"}
        <5>1. CASE s \in db.sessions /\ <<s.id, i>> \in via
          BY <2>3, <5>1 DEF Replaces
        <5>2. CASE ~ (s \in db.sessions /\ <<s.id, i>> \in via)
          <6>1. /\ pc[p] = "create_session" /\ call[p].op \in SignIns /\ call[p].secret = i
                /\ s.user = local[p].user
            BY <1>1, <4>1, <4>2, <5>2
          <6>2. Losing(i)
            BY DEF Losing
          <6> QED BY <1>0, <6>1, <6>2 DEF Presents
        <5> QED BY <5>1, <5>2
      <4> QED BY <4>1, <4>2
    <3>2. \A i, u : Seen(i, u) => Seen(i, u)'
      BY <1>0 DEF Seen
    <3>3. Revokes(call[q])'
      BY <2>0, <2>3 DEF Replaces, Revokes
    <3>4. Replaces(q)'
      BY <2>0, <2>3, <3>1, <3>2, <3>3 DEF Replaces, Seen
    <3> QED BY <3>4 DEF LocksOut
  <2> QED BY <1>0, <2>1, <2>2, <2>3 DEF LocksOut
<1> QED BY <1>0, <1>2, <1>3, <1>4, <1>5, <1>6, OutGrows

LEMMA LockedOutStays ==
    ASSUME LockedOut, [Next]_vars
    PROVE  LockedOut'
<1>0. /\ Typed /\ Overlap /\ KindsKnown /\ OwnPasswords /\ OutKept
      /\ \A p \in Requests : Held(p)
  BY DEF LockedOut
<1>1. Typed' /\ Overlap' /\ contested \subseteq contested'
  BY <1>0, TypedStays, OverlapStays
<1>2. CASE UNCHANGED vars
  <2>1. KindsKnown' /\ OwnPasswords'
    BY <1>0, <1>2 DEF vars, KindsKnown, OwnPasswords, IsA
  <2>2. OutKept'
    BY <1>0, <1>2 DEF vars, watched, history, OutKept, UserOut, PasswordOut, Replaced, Seen, IsA,
                      UserOf
  <2>3. ASSUME NEW p \in Requests
        PROVE  Held(p)'
    <3>1. Held(p)
      BY <1>0
    <3>2. LetIn(p)' /\ Presents(p)' /\ Overwrites(p)'
      BY <1>2, <3>1 DEF vars, watched, history, Held, LetIn, Presents, Overwrites, Losing, Seen,
                        IsA, AccountOf
    <3>3. LocksOut(p)'
      BY <1>2, <3>1 DEF vars, watched, history, Held, LocksOut, Bans, Replaces, Replaced, Seen, IsA,
                        Revokes
    <3> QED BY <3>2, <3>3 DEF Held
  <2> QED BY <1>1, <2>1, <2>2, <2>3 DEF LockedOut
<1>3. CASE BansEnd
  <2>1. /\ OnlyUsers(db, db') /\ pc' = pc /\ call' = call /\ local' = local /\ kind' = kind
        /\ via' = via /\ ousted' = StillOut(db', ousted)
        /\ \A w \in db'.users : \E u \in UserOf(db, w.id) : InForce(w) => InForce(u)
    BY <1>0, <1>3, BanRows
  <2>2. /\ db'.accounts = db.accounts /\ db'.sessions = db.sessions /\ ousted' \subseteq ousted
        /\ \A i \in ousted' : \A w \in UserOf(db', i) : InForce(w)
    BY <2>1 DEF OnlyUsers, StillOut
  <2>3. KindsKnown' /\ OwnPasswords'
    BY <1>0, <2>1, <2>2 DEF KindsKnown, OwnPasswords, IsA, UserOf
  <2>4. OutKept'
    <3> SUFFICES ASSUME NEW i \in ousted'
                 PROVE  UserOut(i)' \/ PasswordOut(i)'
      BY DEF OutKept
    <3>1. CASE UserOut(i)
      BY <1>1, <2>1, <2>2, <3>1 DEF UserOut, IsA
    <3>2. CASE PasswordOut(i)
      BY <1>1, <2>1, <2>2, <3>2 DEF PasswordOut, Replaced, Seen, IsA
    <3> QED BY <1>0, <2>2, <3>1, <3>2 DEF OutKept
  <2>5. ASSUME NEW p \in Requests
        PROVE  Held(p)'
    <3>1. Held(p)
      BY <1>0
    <3>2. LetIn(p)'
      BY <1>1, <2>1, <2>2, <3>1 DEF Held, LetIn, IsA
    <3>3. Presents(p)'
      BY <1>1, <2>1, <2>2, <3>1 DEF Held, Presents, Losing, Seen, IsA
    <3>4. Overwrites(p)'
      BY <2>1, <2>2, <3>1 DEF Held, Overwrites, AccountOf
    <3>5. LocksOut(p)'
      BY <1>1, <2>1, <2>2, <3>1 DEF Held, LocksOut, Bans, Replaces, Replaced, Seen, IsA, Revokes
    <3> QED BY <3>2, <3>3, <3>4, <3>5 DEF Held
  <2> QED BY <1>1, <2>3, <2>4, <2>5 DEF LockedOut
<1>4. ASSUME NEW p \in Requests, pc[p] = "idle", Arrived(p), NEW op \in Ops,
             NEW c \in Possible(op), Arrives(p, c)
      PROVE  LockedOut'
  <2>1. /\ db' = db /\ kind' = kind /\ via' = via /\ ousted' = ousted /\ local'[p].out = {}
        /\ \A q \in Requests \ {p} : pc'[q] = pc[q] /\ local'[q] = local[q] /\ call'[q] = call[q]
    BY <1>0, <1>4, ArrivesMindless DEF Arrived, SendsRead, KeepIds, Settled
  <2>2. pc'[p] \notin (Spoilable \ {"create_key"}) \cup {"issue"}
    BY <1>0, <1>4, Begins
  <2>3. KindsKnown' /\ OwnPasswords'
    BY <1>0, <2>1 DEF KindsKnown, OwnPasswords, IsA
  <2>4. OutKept'
    BY <1>0, <1>1, <2>1 DEF OutKept, UserOut, PasswordOut, Replaced, Seen, IsA, UserOf
  <2>5. Held(p)'
    BY <2>1, <2>2 DEF Held, LetIn, Presents, Overwrites, LocksOut, Admits, Spoilable
  <2>6. ASSUME NEW q \in Requests \ {p}
        PROVE  Held(q)'
    <3>1. Held(q) /\ pc'[q] = pc[q] /\ local'[q] = local[q] /\ call'[q] = call[q]
      BY <1>0, <2>1
    <3>2. LetIn(q)'
      BY <1>1, <2>1, <3>1 DEF Held, LetIn, IsA
    <3>3. \A i : Losing(i)' => Losing(i)
      BY <2>1 DEF Losing
    <3>4. Presents(q)'
      BY <1>1, <2>1, <3>1, <3>3 DEF Held, Presents, Losing, Seen, IsA
    <3>5. Overwrites(q)'
      BY <2>1, <3>1 DEF Held, Overwrites, AccountOf
    <3>6. LocksOut(q)'
      BY <1>1, <2>1, <3>1 DEF Held, LocksOut, Bans, Replaces, Replaced, Seen, IsA, Revokes
    <3> QED BY <3>2, <3>4, <3>5, <3>6 DEF Held
  <2> QED BY <1>1, <2>3, <2>4, <2>5, <2>6 DEF LockedOut
<1>5. ASSUME NEW p \in Requests, pc[p] # "idle", Step(p), Stepped(p)
      PROVE  LockedOut'
  <2>1. Acts(p)
    BY <1>1, <1>5 DEF Acts
  <2>2. \A q \in Requests : Held(q)'
    BY <2>1, LetInStays, PresentsStays, OverwritesStays, LocksOutStays DEF Held
  <2> QED BY <1>1, <2>1, <2>2, KindsStayKnown, OwnPasswordsStay, OutStays DEF LockedOut
<1>6. CASE Next
  BY <1>0, <1>3, <1>4, <1>5, <1>6, Moves
<1> QED BY <1>2, <1>6

LEMMA InitLockedOut ==
    ASSUME Init
    PROVE  LockedOut
<1>1. Typed /\ Overlap
  BY InitTyped, InitOverlap
<1>2. /\ ousted = {} /\ via = {<<4, 3>>, <<8, 7>>} /\ \A p \in Requests : pc[p] = "idle" /\ local[p].out = {}
  BY DEF Init, Blank
<1>3. \E e, f : /\ db.users = {NewUser(1, e, NoText, TRUE, TRUE), NewUser(5, f, NoText, FALSE, FALSE)}
               /\ db.accounts = {NewCredential(2, 1, 3), NewCredential(6, 5, 7)}
               /\ db.sessions = {[id |-> 4, user |-> 1, by |-> None],
                                 [id |-> 8, user |-> 5, by |-> None]}
  BY DEF Init
<1>4. /\ Len(kind) = 11 /\ kind[1] = "user" /\ kind[3] = "password" /\ kind[5] = "user"
      /\ kind[7] = "password"
  BY DEF Init
<1>5. KindsKnown
  <2>1. \A u \in db.users : u.id \in {1, 5}
    BY <1>3 DEF NewUser
  <2>2. \A a \in db.accounts : a.password \in {3, 7}
    BY <1>3 DEF NewCredential
  <2>3. \A x \in via : x[1] \in {4, 8} /\ x[2] \in {3, 7}
    BY <1>2
  <2> QED BY <1>4, <2>1, <2>2, <2>3 DEF KindsKnown, IsA
<1>6. OwnPasswords
  <2>1. \A a \in db.accounts : \/ a = NewCredential(2, 1, 3) /\ a.user = 1 /\ a.password = 3
                               \/ a = NewCredential(6, 5, 7) /\ a.user = 5 /\ a.password = 7
    BY <1>3 DEF NewCredential
  <2>2. ASSUME NEW s \in db.sessions
        PROVE  (s.id = 4 /\ s.user = 1) \/ (s.id = 8 /\ s.user = 5)
    <3>1. \/ s = [id |-> 4, user |-> 1, by |-> None]
          \/ s = [id |-> 8, user |-> 5, by |-> None]
      BY <1>3
    <3> QED BY <3>1
  <2>3. ASSUME NEW i, NEW j, <<i, j>> \in via
        PROVE  (i = 4 /\ j = 3) \/ (i = 8 /\ j = 7)
    <3>1. <<i, j>> = <<4, 3>> \/ <<i, j>> = <<8, 7>>
      BY <1>2, <2>3
    <3> QED BY <3>1
  <2> QED BY <2>1, <2>2, <2>3 DEF OwnPasswords
<1>7. OutKept /\ \A p \in Requests : Held(p)
  BY <1>2 DEF OutKept, Held, LetIn, Presents, Overwrites, LocksOut, Admits
<1> QED BY <1>1, <1>5, <1>6, <1>7 DEF LockedOut

\* Once an answer has said so, a banned user has no session while the ban is in force,
\* and no session given for a replaced password is left, whatever was under way when the
\* answer came, unless it met the ban, or the password's user or that password itself.
THEOREM TheOustedStayOut == Spec => []OustedStayOut
<1>1. Init => LockedOut
  BY InitLockedOut
<1>2. LockedOut /\ [Next]_vars => LockedOut'
  BY LockedOutStays
<1>3. ASSUME LockedOut
      PROVE  OustedStayOut
  <2>0. /\ KindsKnown /\ OutKept
        /\ \A s \in db.sessions : UserOf(db, s.user) # {}
    BY <1>3, Now DEF LockedOut, Good, Sound
  <2>1. ASSUME NEW s \in db.sessions, s.user \in ousted
        PROVE  s.user \in contested
    <3>1. \E u \in db.users : u.id = s.user
      BY <2>0 DEF UserOf
    <3>2. ~ PasswordOut(s.user)
      BY <2>0, <3>1 DEF PasswordOut, Replaced, KindsKnown, IsA
    <3> QED BY <2>0, <2>1, <3>2 DEF OutKept, UserOut
  <2>2. ASSUME NEW s \in db.sessions, NEW i \in ousted, <<s.id, i>> \in via
        PROVE  {i, s.user} \cap contested # {}
    <3>1. IsA(i, "password")
      BY <2>0, <2>2 DEF KindsKnown
    <3>2. ~ UserOut(i)
      BY <3>1 DEF UserOut, IsA
    <3> QED BY <2>0, <2>2, <3>2 DEF OutKept, PasswordOut, Seen
  <2> QED BY <2>1, <2>2 DEF OustedStayOut
<1>4. LockedOut => OustedStayOut
  BY <1>3
<1> QED BY <1>1, <1>2, <1>4, PTL DEF Spec

-----------------------------------------------------------------------------
(* The tokens kept of an account are live.                                 *)

\* What a request of the social endpoints may do.
LEMMA SocialOnly ==
    ASSUME Typed, NEW p \in Requests, pc[p] # "idle", Step(p), call[p].op \in SocialOps
    PROVE  ReadBan(p) \/ LiftBanAndIssue(p) \/ StatementFails(p) \/ SocialStep(p)
<1>0. At(pc[p], call[p], local[p])
  BY StillThere
<1> DEFINE op == call[p].op
<1>1. op \notin SignIns \cup Deleting \cup CredentialOps \cup AdminOps \cup ProfileOps \cup PasskeyOps
  BY DEF SocialOps, SignIns, Deleting, CredentialOps, AdminOps, ProfileOps, PasskeyOps
<1>2. ASSUME ListAccounts(p) \/ DeleteOneAccount(p) \/ DeleteUserKeys(p) PROVE FALSE
  BY <1>0, <1>1, <1>2 DEF At, ListAccounts, DeleteOneAccount, DeleteUserKeys
<1>3. ASSUME CredentialStep(p) PROVE FALSE
  <2>1. op # "change_password" /\ ~ SignIn(p) /\ ~ Reissue(p)
    BY <1>1 DEF SignIn, Reissue, CredentialOps
  <2>2. pc[p] \in {"check_email", "sign_up", "check_password", "check_unverified", "store_token",
                   "find_credential", "write_password", "add_credential", "delete_token",
                   "delete_sessions", "reread"}
    BY <1>3, <2>1 DEF CredentialStep, CheckEmail, SignUp, CheckPassword, CheckUnverified,
              StoreToken, FindPasswordRow, WriteNewPassword, AddPassword, DeleteToken,
              RevokeSessions, Reread
  <2>3. op \in SignIns \cup Deleting \cup {"sign_up", "create_user", "request_reset", "reset",
                   "change_password", "verify_password", "set_password", "ban", "revoke_sessions"}
    BY <1>0, <2>2 DEF At, SignIns, Deleting
  <2> QED BY <1>1, <2>3 DEF CredentialOps, AdminOps
<1>4. ASSUME AdminStep(p) PROVE FALSE
  <2>1. pc[p] \in {"create_user", "check_name", "update_user", "find_target", "lift_first",
                   "impersonate", "find_admin", "find_own_session", "end_impersonation",
                   "delete_session", "delete_user"}
    BY <1>1, <1>4 DEF AdminStep, AdminCreateUser, CheckOwnName, UpdateTarget, FindTarget,
                      LiftBanFirst, Impersonate, FindAdmin, FindOwnSession, EndImpersonation,
                      RevokeSession, RevokeTargetSessions, RemoveUser, DeleteUserRow, AdminOps
  <2> QED BY <1>0, <1>1, <2>1 DEF At, AdminOps
<1>5. ASSUME ProfileStep(p) PROVE FALSE
  <2>1. pc[p] \in {"check_address", "update_address", "mail_link", "find_by_email",
                   "change_address", "mark_verified", "store_delete_token",
                   "find_delete_token", "drop_delete_token", "create_key"}
    BY <1>1, <1>5 DEF ProfileStep, CheckAddress, UpdateAddress, MailLink, FindByEmail,
              SessionForLink, ChangeAddress, MarkVerified, CheckDeletionPassword,
              StoreDeleteToken, FindDeleteToken, DeleteOwnSessions, DeleteOneself,
              DropDeleteToken, CreateKey, ProfileOps
  <2> QED BY <1>0, <1>1, <2>1 DEF At, ProfileOps
<1>6. ASSUME PasskeyStep(p) PROVE FALSE
  <2>1. pc[p] \in {"list_passkeys", "store_challenge", "find_challenge", "create_passkey",
                   "find_passkey", "update_passkey", "find_passkey_user", "drop_challenge",
                   "check_owner", "delete_passkey"}
    BY <1>1, <1>6 DEF PasskeyStep, ListPasskeys, StoreChallenge, FindRegistration, StorePasskey,
              FindPasskey, WritePasskey, FindPasskeyUser, DropChallenge, SignInWithPasskey,
              CheckOwner, RemovePasskey, PasskeyOps
  <2> QED BY <1>0, <1>1, <2>1 DEF At, PasskeyOps
<1> QED BY <1>2, <1>3, <1>4, <1>5, <1>6 DEF Step, SharedStep

\* The statements on which a request has no tokens yet, those on which it has tokens to
\* store that no account has, and those of a sign-in once they are stored.
Unfetched == {"drop_state", "find_linked", "find_link_user"}
Fetched == {"find_account", "find_by_report", "create_social_user", "create_account",
            "update_account"}
Signing == {"find_account_user", "mark_reported", "override_verified", "override_unverified",
            "issue", "lift_ban", "create_session"}
Single(ids) == \A i, j \in ids : i = j

\* How a request comes by the tokens it has in hand, at each of these statements.
Brings(p) ==
    /\ pc'[p] \in Unfetched => pc[p] \in Unfetched /\ local'[p].row = local[p].row
    /\ pc'[p] \in Fetched =>
          \/ /\ pc[p] = "drop_state" /\ pc'[p] = "find_account"
             /\ Draw(<<"grant">>) /\ local'[p].row = fresh
          \/ /\ pc[p] = "find_link_user" /\ pc'[p] = "create_account"
             /\ local'[p].row = local[p].row
          \/ /\ pc[p] \in {"find_account", "find_by_report", "create_social_user"}
             /\ local'[p].row = local[p].row
             /\ pc'[p] = "update_account" => call[p].op \in Social /\ Single(local'[p].todo)
          \/ /\ SendsExchange(p) /\ pc'[p] = "update_account"
             /\ local'[p].row = fresh /\ local'[p].todo = local[p].todo
    /\ pc'[p] = "exchange" =>
          /\ pc[p] \in {"find_info", "find_tokens"} /\ Single(local'[p].todo)
          /\ \/ /\ call[p].op \in Tokens /\ call[p].change # Nothing
                /\ local'[p].row = call[p].change.grant
                /\ local'[p].todo = {call[p].change.account}
             \/ \E a \in db.accounts : local'[p].row = a.grant /\ local'[p].todo = {a.id}
    /\ pc'[p] \in Signing /\ call[p].op \in Social =>
          /\ local'[p].row = local[p].row
          /\ \/ pc[p] \in Signing \cup {"update_account"} /\ local'[p].todo = local[p].todo
             \/ pc[p] = "find_account" /\ Single(local'[p].todo)
             \/ pc[p] = "create_account" /\ local'[p].todo = {fresh}

LEMMA LinkBrings ==
    ASSUME Typed, NEW p \in Requests, pc[p] # "idle",
           \/ StoreState(p) \/ FindLinkUser(p) \/ FindLinked(p) \/ DropState(p)
    PROVE  Brings(p)
<1>0. local[p] \in Local
  BY StillThere
<1>1. CASE StoreState(p)
  <2>1. pc'[p] = "idle"
    BY <1>1, Lands DEF StoreState
  <2> QED BY <2>1 DEF Brings, Unfetched, Fetched, Signing
<1>2. CASE FindLinkUser(p)
  <2>1. \/ pc'[p] = "idle"
        \/ \E u : Goto(p, "store_state", [local[p] EXCEPT !.link.email = u.email])
        \/ Goto(p, "create_account", local[p])
    BY <1>2, Lands DEF FindLinkUser
  <2>2. \/ pc'[p] \in {"idle", "store_state"}
        \/ pc'[p] = "create_account" /\ local'[p] = local[p]
    BY <2>1, Lands
  <2> QED BY <1>2, <2>2 DEF Brings, Unfetched, Fetched, Signing, FindLinkUser
<1>3. CASE FindLinked(p)
  <2>1. pc[p] = "find_linked" /\ (Answer(p, local[p]) \/ Goto(p, "find_link_user", local[p]))
    BY <1>3 DEF FindLinked
  <2>2. pc'[p] = "idle" \/ (pc'[p] = "find_link_user" /\ local'[p] = local[p])
    BY <2>1, Lands
  <2> QED BY <2>1, <2>2 DEF Brings, Unfetched, Fetched, Signing
<1>4. CASE DropState(p)
  <2> DEFINE l == [local[p] EXCEPT !.row = fresh]
  <2>1. pc[p] = "drop_state" /\ (Refuse(p) \/ (Draw(<<"grant">>) /\ Goto(p, "find_account", l)))
    BY <1>4 DEF DropState
  <2>2. l.row = fresh
    BY <1>0 DEF Local
  <2> HIDE DEF l
  <2>3. \/ pc'[p] = "idle"
        \/ Draw(<<"grant">>) /\ pc'[p] = "find_account" /\ local'[p].row = fresh
    BY <2>1, <2>2, Lands
  <2> QED BY <2>1, <2>3 DEF Brings, Unfetched, Fetched, Signing
<1> QED BY <1>1, <1>2, <1>3, <1>4

LEMMA AccountBrings ==
    ASSUME Typed, NEW p \in Requests, pc[p] # "idle",
           FindAccount(p) \/ FindByReport(p) \/ CreateSocialUser(p)
    PROVE  Brings(p)
<1>0. local[p] \in Local /\ At(pc[p], call[p], local[p])
  BY StillThere
<1>1. CASE FindAccount(p)
  <2>1. pc[p] = "find_account" /\ call[p].op \in Social
    BY <1>0, <1>1 DEF FindAccount, At
  <2>2. ASSUME NEW a, NEW label \in {"update_account", "find_account_user"},
               Goto(p, label, [local[p] EXCEPT !.user = a.user, !.todo = {a.id}])
        PROVE  Brings(p)
    <3> DEFINE l == [local[p] EXCEPT !.user = a.user, !.todo = {a.id}]
    <3>1. l.row = local[p].row /\ Single(l.todo)
      BY <1>0 DEF Local, Single
    <3> HIDE DEF l
    <3>2. pc'[p] = label /\ local'[p] = l
      BY <2>2, Lands, Zenon DEF l
    <3>3. pc'[p] = label /\ local'[p].row = local[p].row /\ Single(local'[p].todo)
      BY <3>1, <3>2
    <3> QED BY <2>1, <3>3 DEF Brings, Unfetched, Fetched, Signing
  <2>3. ASSUME NEW label \in {"create_account", "find_by_report"}, Goto(p, label, local[p])
        PROVE  Brings(p)
    <3>1. pc'[p] = label /\ local'[p] = local[p]
      BY <2>3, Lands
    <3> QED BY <2>1, <3>1 DEF Brings, Unfetched, Fetched, Signing
  <2>4. ASSUME Refuse(p) PROVE Brings(p)
    BY <2>4, Lands DEF Brings, Unfetched, Fetched, Signing
  <2> QED BY <1>1, <2>2, <2>3, <2>4 DEF FindAccount
<1>2. CASE FindByReport(p)
  <2>1. pc[p] = "find_by_report"
    BY <1>2 DEF FindByReport
  <2>2. ASSUME NEW label \in {"create_account", "create_social_user"}, NEW l, Goto(p, label, l),
               l.row = local[p].row
        PROVE  Brings(p)
    <3>1. pc'[p] = label /\ local'[p].row = local[p].row
      BY <2>2, Lands
    <3> QED BY <2>1, <3>1 DEF Brings, Unfetched, Fetched, Signing
  <2>3. ASSUME Refuse(p) PROVE Brings(p)
    BY <2>3, Lands DEF Brings, Unfetched, Fetched, Signing
  <2>4. \A u, then : /\ [local[p] EXCEPT !.then = then].row = local[p].row
                     /\ [local[p] EXCEPT !.user = u, !.then = then].row = local[p].row
    BY <1>0 DEF Local
  <2> QED BY <1>2, <2>2, <2>3, <2>4 DEF FindByReport
<1>3. CASE CreateSocialUser(p)
  <2> DEFINE l == [local[p] EXCEPT !.user = fresh, !.got = {fresh}]
  <2>1. pc[p] = "create_social_user" /\ (Refuse(p) \/ Goto(p, "create_account", l))
    BY <1>3 DEF CreateSocialUser
  <2>2. l.row = local[p].row
    BY <1>0 DEF Local
  <2> HIDE DEF l
  <2>3. pc'[p] = "idle" \/ (pc'[p] = "create_account" /\ local'[p].row = local[p].row)
    BY <2>1, <2>2, Lands
  <2> QED BY <2>1, <2>3 DEF Brings, Unfetched, Fetched, Signing
<1> QED BY <1>1, <1>2, <1>3

\* Elsewhere a request goes on with what it has in hand, or is over.
LEMMA CarriedOn ==
    ASSUME Typed, NEW p \in Requests, pc[p] \in Signing \cup {"update_account"},
           \/ pc'[p] = "idle"
           \/ /\ pc'[p] \in Signing
              /\ local'[p].row = local[p].row /\ local'[p].todo = local[p].todo
    PROVE  Brings(p)
  BY DEF Brings, Unfetched, Fetched, Signing

LEMMA SignInBrings ==
    ASSUME Typed, NEW p \in Requests, pc[p] # "idle", call[p].op \in SocialOps,
           \/ WriteTokens(p) \/ FindAccountUser(p) \/ MarkReported(p) \/ OverrideUser(p)
           \/ ReadBan(p) \/ LiftBanAndIssue(p) \/ SocialSession(p)
    PROVE  Brings(p)
<1>0. local[p] \in Local
  BY StillThere
<1>1. ASSUME NEW label \in Signing, Goto(p, label, local[p])
      PROVE  /\ pc'[p] \in Signing
             /\ local'[p].row = local[p].row /\ local'[p].todo = local[p].todo
  BY <1>1, Lands
<1>2. Refuse(p) \/ Answer(p, local[p]) => pc'[p] = "idle"
  BY Lands
<1>3. CASE WriteTokens(p)
  <2>1. pc[p] = "update_account"
    BY <1>3 DEF WriteTokens
  <2>2. Refuse(p) \/ Answer(p, local[p]) \/ Goto(p, "find_account_user", local[p])
    BY <1>3 DEF WriteTokens, Continue
  <2> QED BY <1>1, <1>2, <2>1, <2>2, CarriedOn DEF Signing
<1>4. CASE FindAccountUser(p)
  <2>1. pc[p] = "find_account_user"
    BY <1>4 DEF FindAccountUser
  <2>2. \A u : ThenFor(call[p], u) \in Signing
    BY DEF ThenFor, Overrides, Signing
  <2>3. Refuse(p) \/ \E label \in Signing : Goto(p, label, local[p])
    BY <1>4, <2>2 DEF FindAccountUser
  <2> QED BY <1>1, <1>2, <2>1, <2>3, CarriedOn DEF Signing
<1>5. CASE MarkReported(p) \/ OverrideUser(p)
  <2>1. pc[p] \in {"mark_reported", "override_verified", "override_unverified"}
    BY <1>5 DEF MarkReported, OverrideUser
  <2>2. \A u : Overrides(call[p], u, TRUE) \in Signing
    BY DEF Overrides, Signing
  <2>3. Refuse(p) \/ \E label \in Signing : Goto(p, label, local[p])
    BY <1>5, <2>2 DEF MarkReported, OverrideUser, WriteUser, Continue, Signing
  <2> QED BY <1>1, <1>2, <2>1, <2>3, CarriedOn DEF Signing
<1>6. CASE ReadBan(p)
  <2>1. pc[p] = "issue"
    BY <1>6 DEF ReadBan
  <2>2. Refuse(p) \/ \E label \in Signing : Goto(p, label, local[p])
    BY <1>6 DEF ReadBan, Signing
  <2> QED BY <1>1, <1>2, <2>1, <2>2, CarriedOn DEF Signing
<1>7. CASE LiftBanAndIssue(p)
  <2>1. pc[p] = "lift_ban"
    BY <1>7 DEF LiftBanAndIssue
  <2>2. Refuse(p) \/ \E label \in Signing : Goto(p, label, local[p])
    BY <1>7 DEF LiftBanAndIssue, LiftBan, Signing
  <2> QED BY <1>1, <1>2, <2>1, <2>2, CarriedOn DEF Signing
<1>8. CASE SocialSession(p)
  <2>1. pc[p] = "create_session"
    BY <1>8 DEF SocialSession
  <2>2. Refuse(p) \/ \E l : Answer(p, l)
    BY <1>8 DEF SocialSession, StoreSession, Continue
  <2>3. pc'[p] = "idle"
    BY <2>2, Lands
  <2> QED BY <2>1, <2>3, CarriedOn DEF Signing
<1> QED BY <1>3, <1>4, <1>5, <1>6, <1>7, <1>8

LEMMA NewAccountBrings ==
    ASSUME Typed, NEW p \in Requests, pc[p] # "idle", CreateSocialAccount(p)
    PROVE  Brings(p)
<1>0. local[p] \in Local /\ At(pc[p], call[p], local[p])
  BY StillThere
<1> DEFINE l == [local[p] EXCEPT !.got = @ \cup {fresh}, !.todo = {fresh}]
<1>1. pc[p] = "create_account" /\ (GiveUp(p) \/ Continue(p, local[p].then, l))
  BY DEF CreateSocialAccount
<1>2. l.row = local[p].row /\ l.todo = {fresh}
  BY <1>0 DEF Local
<1> HIDE DEF l
<1>3. local[p].then \in {"answer", "issue", "mark_reported", "override_verified",
                         "override_unverified"}
  BY <1>0, <1>1 DEF At
<1>4. pc'[p] = "idle" \/ Goto(p, local[p].then, l)
  BY <1>1, Lands DEF Continue
<1>5. \/ pc'[p] = "idle"
      \/ /\ pc'[p] = local[p].then
         /\ local'[p].row = local[p].row /\ local'[p].todo = {fresh}
  BY <1>2, <1>4, Lands
<1> QED BY <1>1, <1>3, <1>5 DEF Brings, Unfetched, Fetched, Signing

LEMMA TokenBrings ==
    ASSUME Typed, NEW p \in Requests, pc[p] # "idle",
           \/ FindInfo(p) \/ FindTokens(p) \/ Exchange(p) \/ AnswerFromCookie(p)
           \/ ListToUnlink(p) \/ HasPassword(p) \/ Unlink(p)
    PROVE  Brings(p)
<1>0. local[p] \in Local /\ At(pc[p], call[p], local[p])
  BY StillThere
<1>1. ASSUME pc'[p] \in {"idle", "answer", "find_tokens", "has_password", "unlink"}
      PROVE  Brings(p)
  BY <1>1 DEF Brings, Unfetched, Fetched, Signing
<1>2. CASE FindInfo(p)
  <2>1. pc[p] = "find_info" /\ call[p].op \in Tokens
    BY <1>0, <1>2 DEF FindInfo, At, Tokens
  <2>2. CASE call[p].change # Nothing /\ Continue(p, Copied(call[p]), CopyOf(call[p], local[p]))
    <3>1. \A l : Answer(p, l) => pc'[p] = "idle"
      BY Lands
    <3>2. CASE ~ call[p].flag
      BY <1>1, <2>2, <3>1, <3>2 DEF Continue, Copied
    <3>3. CASE call[p].flag
      <4> DEFINE l == CopyOf(call[p], local[p])
      <4>1. l.row = call[p].change.grant /\ l.todo = {call[p].change.account}
        BY <1>0, <3>3 DEF CopyOf, Local
      <4>2. Goto(p, "exchange", l)
        BY <2>2, <3>3 DEF Continue, Copied
      <4> HIDE DEF l
      <4>3. pc'[p] = "exchange" /\ local'[p] = l
        BY <4>2, Lands
      <4> QED BY <2>1, <2>2, <4>1, <4>3 DEF Brings, Unfetched, Fetched, Signing, Single
    <3> QED BY <3>2, <3>3
  <2>3. Refuse(p) \/ (\E l : Goto(p, "find_tokens", l)) => pc'[p] \in {"idle", "find_tokens"}
    BY Lands
  <2> QED BY <1>1, <1>2, <2>2, <2>3 DEF FindInfo
<1>3. CASE FindTokens(p)
  <2>1. pc[p] = "find_tokens"
    BY <1>3 DEF FindTokens
  <2>2. ASSUME NEW a \in AccountsOf(db, local[p].user),
               Goto(p, "exchange", [local[p] EXCEPT !.row = a.grant, !.todo = {a.id}])
        PROVE  Brings(p)
    <3> DEFINE l == [local[p] EXCEPT !.row = a.grant, !.todo = {a.id}]
    <3>1. l.row = a.grant /\ l.todo = {a.id} /\ a \in db.accounts
      BY <1>0 DEF Local, AccountsOf
    <3> HIDE DEF l
    <3>2. pc'[p] = "exchange" /\ local'[p] = l
      BY <2>2, Lands DEF l
    <3> QED BY <2>1, <3>1, <3>2 DEF Brings, Unfetched, Fetched, Signing, Single
  <2>3. Refuse(p) \/ Answer(p, local[p]) => pc'[p] = "idle"
    BY Lands
  <2> QED BY <1>1, <1>3, <2>2, <2>3 DEF FindTokens
<1>4. CASE Exchange(p)
  <2> DEFINE l == [local[p] EXCEPT !.row = fresh]
  <2>1. Refuse(p) \/ (SendsExchange(p) /\ Goto(p, "update_account", l))
    BY <1>4 DEF Exchange, SendsExchange
  <2>2. l.row = fresh /\ l.todo = local[p].todo
    BY <1>0 DEF Local
  <2> HIDE DEF l
  <2>3. \/ pc'[p] = "idle"
        \/ /\ SendsExchange(p) /\ pc'[p] = "update_account"
           /\ local'[p].row = fresh /\ local'[p].todo = local[p].todo
    BY <2>1, <2>2, Lands
  <2>4. call[p].op \notin Social
    BY <1>0, <1>4 DEF Exchange, At, Tokens, Social
  <2> QED BY <1>1, <2>3, <2>4 DEF Brings, Unfetched, Fetched, Signing
<1>5. CASE AnswerFromCookie(p)
  BY <1>1, <1>5, Lands DEF AnswerFromCookie
<1>6. CASE ListToUnlink(p)
  <2>1. Refuse(p) \/ \E l : Goto(p, "has_password", l)
    BY <1>6 DEF ListToUnlink
  <2> QED BY <1>1, <2>1, Lands
<1>7. CASE HasPassword(p)
  <2>1. Refuse(p) \/ Goto(p, "unlink", local[p])
    BY <1>7 DEF HasPassword
  <2> QED BY <1>1, <2>1, Lands
<1>8. CASE Unlink(p)
  <2>1. Refuse(p) \/ Answer(p, local[p])
    BY <1>8 DEF Unlink
  <2> QED BY <1>1, <2>1, Lands
<1> QED BY <1>2, <1>3, <1>4, <1>5, <1>6, <1>7, <1>8

\* What every statement brings its request; those of other endpoints lead elsewhere.
LEMMA EveryBrings ==
    ASSUME Typed, NEW p \in Requests, pc[p] # "idle", Step(p), Stepped(p)
    PROVE  Brings(p)
<1>1. CASE call[p].op \in SocialOps
  <2>1. ASSUME StatementFails(p) PROVE Brings(p)
    BY <2>1, Lands DEF StatementFails, Brings, Unfetched, Fetched, Signing
  <2> QED BY <1>1, <2>1, SocialOnly, LinkBrings, AccountBrings, SignInBrings, NewAccountBrings,
             TokenBrings DEF SocialStep
<1>2. CASE call[p].op \notin SocialOps
  <2>1. CASE pc'[p] = "idle"
    BY <2>1 DEF Brings, Unfetched, Fetched, Signing
  <2>2. CASE pc'[p] # "idle"
    <3>1. call'[p] = call[p]
      BY <2>2, EveryOnward DEF Onward
    <3>2. At(pc'[p], call[p], local'[p])
      BY <2>2, <3>1 DEF Stepped, Settled, RequestOK
    <3>3. call[p].op \notin Social \cup Tokens \cup {"link_social", "link_id_token"}
      BY <1>2 DEF SocialOps, Social, Tokens
    <3>4. pc'[p] \notin Unfetched \cup Fetched \cup {"exchange"}
      BY <3>2, <3>3 DEF At, Unfetched, Fetched, Social
    <3> QED BY <3>3, <3>4 DEF Brings
  <2> QED BY <2>1, <2>2
<1> QED BY <1>1, <1>2

\* An account has the tokens it had, those its request has in hand, or none.
LEMMA GrantRows ==
    ASSUME Typed, NEW p \in Requests, pc[p] # "idle", Sends(p), NEW a \in db'.accounts
    PROVE  \/ /\ \E b \in db.accounts : b.id = a.id /\ b.user = a.user /\ b.grant = a.grant
              /\ ~ (/\ SendsGrant(p) /\ local[p].row # None /\ Single(local[p].todo)
                    /\ a.id \in local[p].todo)
           \/ /\ SendsGrant(p) /\ a.id \in local[p].todo
              /\ a.grant = local[p].row /\ local[p].row # None
              /\ \E b \in db.accounts : b.id = a.id /\ b.user = a.user
           \/ SendsAccount(p) /\ a.id = fresh /\ a.grant = local[p].row
           \/ a.grant = None
<1>0. db \in Database /\ db.accounts \subseteq Account /\ Len(kind) \in Nat /\ fresh = Len(kind) + 1
  BY Now DEF Database
<1> DEFINE Had == \E b \in db.accounts : b.id = a.id /\ b.user = a.user /\ b.grant = a.grant
<1>1. ASSUME db'.accounts \subseteq db.accounts
      PROVE  Had
  BY <1>1
<1>2. CASE SendsGrant(p)
  <2>0. PICK i \in local[p].todo :
           \E b \in AccountOf(db, i) : db' = GrantStored(b.id, local[p].row)
    BY <1>2 DEF SendsGrant
  <2>1. PICK c \in db.accounts : c.id = i /\ db' = GrantStored(i, local[p].row)
    BY <2>0 DEF AccountOf
  <2>2. CASE local[p].row = None
    BY <2>1, <2>2 DEF GrantStored
  <2>3. CASE local[p].row # None
    <3> DEFINE new == [grant |-> local[p].row]
               New(b) == IF b.id = i
                         THEN [f \in DOMAIN b |-> IF f \in DOMAIN new THEN new[f] ELSE b[f]]
                         ELSE b
    <3>1. \A b \in db.accounts : /\ New(b).id = b.id /\ New(b).user = b.user
                                 /\ IF b.id = i THEN New(b).grant = local[p].row
                                    ELSE New(b).grant = b.grant
      BY <1>0 DEF Account
    <3>2. db'.accounts = {New(b) : b \in db.accounts}
      BY <1>0, <2>1, <2>3 DEF GrantStored, UpdateAccount, Database
    <3> HIDE DEF New, new
    <3>3. PICK b \in db.accounts : a = New(b)
      BY <3>2
    <3>4. CASE b.id = i
      BY <1>2, <2>3, <3>1, <3>3, <3>4
    <3>5. CASE b.id # i
      <4>1. a.id = b.id /\ a.user = b.user /\ a.grant = b.grant
        BY <3>1, <3>3, <3>5
      <4>2. Single(local[p].todo) => a.id \notin local[p].todo
        BY <3>5, <4>1 DEF Single
      <4> QED BY <4>1, <4>2
    <3> QED BY <3>4, <3>5
  <2> QED BY <2>2, <2>3
<1>3. CASE /\ ~ SendsGrant(p)
           /\ \/ SendsSessions(p) \/ SendsOther(p) \/ SendsRead \/ SendsDelete(p) \/ SendsLift(p)
              \/ SendsUpdate(p) \/ SendsProfile(p) \/ SendsNewUser(p)
  <2>1. db'.accounts \subseteq db.accounts
    <3>1. CASE SendsDelete(p)
      BY <3>1, DeletionRows DEF OnlyKeys
    <3> QED BY <1>3, <3>1, Tables
            DEF SendsOther, OnlySessions, OnlyUsers, OnlySecrets, OnlyPasskeys, OnlyKeys
  <2> QED BY <1>1, <1>3, <2>1
<1>4. CASE SendsUnlink(p)
  <2>1. db'.accounts \subseteq db.accounts /\ ~ SendsGrant(p)
    BY <1>0, <1>4 DEF SendsUnlink, SendsGrant, DeleteAccount, Database
  <2> QED BY <1>1, <2>1
<1>5. CASE SendsPassword(p)
  <2>1. PICK i : db' = UpdateAccount(db, i, [password |-> fresh])
    BY <1>5 DEF SendsPassword
  <2> DEFINE new == [password |-> fresh]
             New(b) == IF b.id = i
                       THEN [f \in DOMAIN b |-> IF f \in DOMAIN new THEN new[f] ELSE b[f]]
                       ELSE b
  <2>2. \A b \in db.accounts : New(b).id = b.id /\ New(b).user = b.user /\ New(b).grant = b.grant
    BY <1>0 DEF Account
  <2>3. db'.accounts = {New(b) : b \in db.accounts}
    BY <1>0, <2>1 DEF UpdateAccount, Database
  <2> HIDE DEF New, new
  <2> QED BY <1>5, <2>2, <2>3 DEF SendsPassword, SendsGrant
<1>6. ASSUME NEW new, new.grant = None, db'.accounts = db.accounts \cup {new}, ~ SendsGrant(p)
      PROVE  (Had /\ ~ SendsGrant(p)) \/ a.grant = None
  BY <1>6
<1>7. CASE SendsCredential(p)
  <2> DEFINE new == NewCredential(fresh, local[p].user, fresh + 1)
  <2>1. new.grant = None
    BY DEF NewCredential
  <2>2. db' = CreateAccount(db, new)
    BY <1>7 DEF SendsCredential
  <2> HIDE DEF new
  <2>3. db'.accounts = db.accounts \cup {new}
    BY <1>0, <2>2 DEF CreateAccount, Database
  <2>4. ~ SendsGrant(p)
    BY <1>7 DEF SendsCredential, SendsGrant
  <2> QED BY <1>6, <2>1, <2>3, <2>4
<1>8. CASE SendsSignUp(p)
  <2> DEFINE new == NewCredential(fresh + 1, fresh, fresh + 2)
  <2>1. new.grant = None
    BY DEF NewCredential
  <2>2. db'.accounts = db.accounts \cup {new}
    BY <1>8, SignUpRows
  <2>3. ~ SendsGrant(p)
    BY <1>8 DEF SendsSignUp, SendsGrant
  <2> HIDE DEF new
  <2> QED BY <1>6, <2>1, <2>2, <2>3
<1>9. CASE SendsAccount(p)
  <2> DEFINE new == [id |-> fresh, user |-> local[p].user, provider |-> "social",
                     subject |-> call[p].target, password |-> None, grant |-> local[p].row]
  <2>1. new.id = fresh /\ new.grant = local[p].row
    OBVIOUS
  <2>2. db' = CreateAccount(db, new)
    BY <1>9 DEF SendsAccount
  <2> HIDE DEF new
  <2>3. db'.accounts = db.accounts \cup {new}
    BY <1>0, <2>2 DEF CreateAccount, Database
  <2>4. ~ SendsGrant(p)
    BY <1>9 DEF SendsAccount, SendsGrant
  <2> QED BY <1>9, <2>1, <2>3, <2>4
<1> QED BY <1>2, <1>3, <1>4, <1>5, <1>7, <1>8, <1>9 DEF Sends, SendsUser, SendsAccounts

\* Whoever gets a copy of tokens gets it from the request that has them in hand.
LEMMA CookiesMore ==
    ASSUME Typed, NEW p \in Requests, pc[p] # "idle", Sends(p)
    PROVE  /\ CookiesOut \subseteq CookiesOut'
           /\ \A k \in CookiesOut' :
                 \/ k \in CookiesOut
                 \/ /\ k.grant = local[p].row /\ k.account \in local[p].todo
                    /\ \/ SendsGrant(p) /\ call[p].op \in Tokens
                       \/ /\ SendsSession(p) /\ local[p].row # None
                          /\ pc[p] = "create_session" /\ call[p].op \in Social
<1> DEFINE Copy == {k \in signed' : DOMAIN k = {"account", "user", "grant"}}
           Given(k) == k.grant = local[p].row /\ k.account \in local[p].todo
<1>0. CookiesOut' = Copy
  BY DEF CookiesOut
<1>1. CASE signed' = signed
  BY <1>1 DEF CookiesOut
<1>2. ASSUME NEW k, signed' = signed \cup {k}, DOMAIN k # {"account", "user", "grant"}
      PROVE  CookiesOut' = CookiesOut
  BY <1>2 DEF CookiesOut
<1>3. CASE SendsLink(p)
  <2>1. local[p].link \in Link
    BY <1>3, StillThere DEF SendsLink, At, LinkOK
  <2>2. DOMAIN local[p].link # {"account", "user", "grant"}
    BY <2>1, Records
  <2> QED BY <1>2, <1>3, <2>2 DEF SendsLink
<1>4. CASE SendsSecret(p)
  <2>1. PICK v \in Verification : signed' = signed \/ signed' = signed \cup {v}
    BY <1>4 DEF SendsSecret
  <2>2. DOMAIN v # {"account", "user", "grant"}
    BY Records
  <2> QED BY <1>1, <1>2, <2>1, <2>2
<1>5. CASE SendsGrant(p)
  <2>1. PICK i \in local[p].todo :
           \E a \in AccountOf(db, i) :
              signed' \in {signed, signed \cup CookieAnew(call[p], a, local[p].row)}
    BY <1>5 DEF SendsGrant
  <2>2. PICK a \in AccountOf(db, i) :
           signed' \in {signed, signed \cup CookieAnew(call[p], a, local[p].row)}
    BY <2>1
  <2>3. a.id = i
    BY DEF AccountOf
  <2>4. \A k \in CookieAnew(call[p], a, local[p].row) : Given(k) /\ call[p].op \in Tokens
    BY <2>3 DEF CookieAnew, AccountCookie, Refreshes, Tokens
  <2>5. signed \subseteq signed'
    BY <2>2
  <2> QED BY <1>5, <2>2, <2>4, <2>5 DEF CookiesOut
<1>6. CASE SendsSession(p)
  <2>1. CASE signed' = signed \cup {AdminCookie(call[p].cookie)}
    BY <1>2, <2>1, Records
  <2>2. CASE /\ pc[p] = "create_session" /\ call[p].op \in Social /\ local[p].row # None
             /\ signed' = signed \cup {AccountCookie(i, local[p].user, local[p].row) :
                                            i \in local[p].todo}
    <3>1. \A i \in local[p].todo : Given(AccountCookie(i, local[p].user, local[p].row))
      BY DEF AccountCookie
    <3> QED BY <1>6, <2>2, <3>1 DEF CookiesOut
  <2> QED BY <1>1, <1>6, <2>1, <2>2 DEF SendsSession
<1>7. SendsUser(p) => signed' = signed
  BY DEF SendsUser, SendsLift, SendsSignUp, SendsNewUser, SendsUpdate, SendsProfile, SendsDelete,
         Unsigned
<1>8. SendsAccounts(p) => signed' = signed \/ SendsGrant(p)
  BY DEF SendsAccounts, SendsUnlink, SendsPassword, SendsCredential, SendsAccount, Unsigned
<1>9. SendsOther(p) => signed' = signed \/ SendsLink(p) \/ SendsSecret(p)
  BY DEF SendsOther, SendsSpend, SendsState, SendsKey, SendsPasskey, SendsExchange, Unsigned
<1>10. SendsRead \/ SendsRevoke(p) \/ SendsEnd(p) => signed' = signed
  BY DEF SendsRead, SendsRevoke, SendsEnd, Unsigned
<1> QED BY <1>1, <1>3, <1>4, <1>5, <1>6, <1>7, <1>8, <1>9, <1>10 DEF Sends, SendsSessions

\* Nobody forgets what a failed request was at work on.
LEMMA BrokenGrows ==
    ASSUME Typed, NEW p \in Requests, pc[p] # "idle", Step(p)
    PROVE  broken \subseteq broken'
<1>1. /\ Refuse(p) => broken' = broken
      /\ \A l : Answer(p, l) => broken' = broken
      /\ \A label, l : Goto(p, label, l) => broken' = broken
      /\ \A label, l : Continue(p, label, l) => broken' = broken
  BY DEF Refuse, Continue, Goto, Answer, history
<1>2. CASE WriteNewPassword(p)
  BY <1>1, <1>2 DEF WriteNewPassword, WritePassword
<1>3. CASE UpdateTarget(p)
  <2>1. \/ Refuse(p)
        \/ \E l : Answer(p, l)
        \/ \E label, l : Goto(p, label, l)
        \/ \E label, l : Continue(p, label, l)
    BY <1>3 DEF UpdateTarget
  <2> QED BY <1>1, <2>1
<1> QED BY <1>2, <1>3, EveryMinds DEF Minds

LEMMA AtTokens ==
    ASSUME Typed, NEW p \in Requests, pc[p] \in {"exchange", "update_account"}, Step(p)
    PROVE  StatementFails(p) \/ Exchange(p) \/ WriteTokens(p)
<1>1. call[p].op \in Social \cup Tokens
  BY StillThere DEF At
<1>2. call[p].op \in SocialOps
  BY <1>1 DEF SocialOps, Social, Tokens
<1>3. ~ ReadBan(p) /\ ~ LiftBanAndIssue(p)
  BY DEF ReadBan, LiftBanAndIssue
<1>4. SocialStep(p) => Exchange(p) \/ WriteTokens(p)
  BY DEF SocialStep, StoreState, FindLinkUser, FindLinked, DropState, FindAccount,
         FindAccountUser, MarkReported, OverrideUser, FindByReport, CreateSocialUser,
         CreateSocialAccount, SocialSession, FindInfo, FindTokens, AnswerFromCookie,
         ListToUnlink, HasPassword, Unlink
<1> QED BY <1>2, <1>3, <1>4, SocialOnly

\* Tokens that replace others are on their way to the account,
LEMMA Exchanged ==
    ASSUME Typed, NEW p \in Requests, pc[p] # "idle", Step(p), SendsExchange(p)
    PROVE  /\ pc'[p] = "update_account" /\ local'[p].todo = local[p].todo
           /\ call'[p] = call[p] /\ call[p].op \in Tokens
           /\ Becomes(fresh, "grant")
<1>0. local[p] \in Local /\ At(pc[p], call[p], local[p]) /\ pc[p] = "exchange"
      /\ Len(kind) \in Nat /\ kind \in Seq(Kinds) /\ fresh = Len(kind) + 1
  BY StillThere, Now DEF SendsExchange
<1> DEFINE new == [kind EXCEPT ![local[p].row] = "replaced"]
<1>1. new \in Seq(Kinds) /\ Len(new) = Len(kind)
  <2>1. kind \in [1 .. Len(kind) -> Kinds]
    BY <1>0
  <2>2. new \in [1 .. Len(kind) -> Kinds]
    BY <2>1 DEF Kinds
  <2> QED BY <1>0, <2>2
<1>2. kind' = Append(new, "grant") /\ "grant" \in Kinds
  BY DEF SendsExchange, Kinds
<1> HIDE DEF new
<1>3. Len(kind') = Len(kind) + 1 /\ kind'[Len(kind) + 1] = "grant"
  BY <1>0, <1>1, <1>2, AppendProperties
<1>4. Becomes(fresh, "grant")
  BY <1>0, <1>3 DEF Becomes
<1>5. ~ KeepIds
  BY <1>0, <1>3 DEF KeepIds
<1>6. Goto(p, "update_account", [local[p] EXCEPT !.row = fresh])
  BY <1>0, <1>5, AtTokens DEF StatementFails, WriteTokens, Exchange
<1>7. [local[p] EXCEPT !.row = fresh].todo = local[p].todo
  BY <1>0 DEF Local
<1>8. call[p].op \in Tokens
  BY <1>0 DEF At
<1>9. /\ pc'[p] = "update_account" /\ local'[p] = [local[p] EXCEPT !.row = fresh]
      /\ call'[p] = call[p]
  BY <1>6, Lands, Zenon
<1> QED BY <1>4, <1>7, <1>8, <1>9, Zenon

\* and then they are stored, or the account is known to be broken.
LEMMA TokensLand ==
    ASSUME Typed, NEW p \in Requests, pc[p] = "update_account", Step(p),
           NEW a \in db.accounts, a.id \in local[p].todo
    PROVE  SendsGrant(p) \/ a.id \in broken'
<1>0. a.id # None
  BY Now DEF Database, Account, None, Id
<1>1. CASE StatementFails(p)
  <2>1. a.id \in Touched(p)
    BY <1>0 DEF Touched
  <2> QED BY <1>1, <2>1 DEF StatementFails, GiveUp
<1>2. CASE WriteTokens(p)
  <2>1. a \in AccountOf(db, a.id)
    BY DEF AccountOf
  <2>2. a \in UNION {AccountOf(db, i) : i \in local[p].todo}
    BY <2>1
  <2>3. PICK b \in UNION {AccountOf(db, i) : i \in local[p].todo} :
           /\ db' = GrantStored(b.id, local[p].row)
           /\ \/ signed' = signed \cup CookieAnew(call[p], b, local[p].row)
              \/ UNCHANGED signed
    BY <1>2, <2>2 DEF WriteTokens
  <2>4. PICK i \in local[p].todo : b \in AccountOf(db, i)
    OBVIOUS
  <2> QED BY <1>2, <2>3, <2>4 DEF WriteTokens, SendsGrant
<1> QED BY <1>1, <1>2, AtTokens DEF Exchange

\* The copy of tokens that a request presents is one that was given out.
LEMMA CookiesAsked ==
    ASSUME NEW op \in Tokens, NEW c \in SocialRequests(op)
    PROVE  c.op = op /\ c.change \in CookiesOut \cup {Nothing}
<1>1. CASE op \in {"refresh_token", "get_access_token"}
  <2>1. c \in Calls([Only(op) EXCEPT !.cookie = Known("session"),
                                     !.change = CookiesOut \cup {Nothing},
                                     !.flag = IF op = "refresh_token" THEN {TRUE} ELSE BOOLEAN])
    BY <1>1 DEF SocialRequests
  <2> QED BY <2>1 DEF Calls, Only
<1>2. CASE op = "account_info"
  <2>1. c \in Calls([Only(op) EXCEPT !.cookie = Known("session"),
                                     !.target = {r.who : r \in Reports} \cup {None},
                                     !.change = CookiesOut \cup {Nothing}, !.flag = BOOLEAN])
    BY <1>2 DEF SocialRequests
  <2> QED BY <2>1 DEF Calls, Only
<1> QED BY <1>1, <1>2 DEF Tokens

\* A request arrives without tokens, or with the copy it presents.
LEMMA GrantArrives ==
    ASSUME Typed, NEW p \in Requests, pc[p] = "idle", Arrived(p), NEW op \in Ops,
           NEW c \in Possible(op), Arrives(p, c)
    PROVE  /\ call'[p].op = op /\ broken' = broken
           /\ op \in Tokens => call'[p].change \in CookiesOut \cup {Nothing}
           /\ pc'[p] # "update_account"
           /\ pc'[p] \in Unfetched \cup Fetched => local'[p].row = None
           /\ op \in Social => pc'[p] \notin Signing
           /\ pc'[p] = "exchange" => /\ op \in Tokens /\ call'[p].change # Nothing
                                     /\ local'[p].row = call'[p].change.grant
                                     /\ local'[p].todo = {call'[p].change.account}
<1>0. op \in AllOps /\ c.op = op
  BY PossibleAsked, IdentityAssumption DEF Typed
<1>1. ASSUME NEW label, NEW l, Arrive(p, c, label, l)
      PROVE  pc'[p] = label /\ call'[p] = c /\ local'[p] = l /\ broken' = broken
  BY <1>1 DEF Arrive, Typed
<1>2. call'[p] = c /\ broken' = broken
  BY <1>1, Begin
<1>3. ASSUME op \in Tokens
      PROVE  c.change \in CookiesOut \cup {Nothing}
  <2>1. op \in SocialOps /\ op \notin CredentialOps \cup AdminOps \cup ProfileOps \cup PasskeyOps
    BY <1>3 DEF Tokens, CredentialOps, AdminOps, ProfileOps, PasskeyOps, SocialOps
  <2>2. c \in SocialRequests(op)
    BY <2>1 DEF Possible
  <2> QED BY <1>3, <2>2, CookiesAsked
<1>4. CASE op \notin SocialOps
  <2>1. op \notin Social \cup Tokens \cup {"link_social", "link_id_token"}
    BY <1>4 DEF SocialOps, Social, Tokens
  <2>2. pc'[p] = "idle" \/ At(pc'[p], call'[p], local'[p])
    BY <1>2 DEF Arrived, Settled, RequestOK
  <2>3. pc'[p] = "idle" => pc'[p] \notin Unfetched \cup Fetched \cup {"exchange"}
    BY DEF Unfetched, Fetched
  <2>4. pc'[p] \notin Unfetched \cup Fetched \cup {"exchange"}
    BY <1>0, <1>2, <2>1, <2>2, <2>3 DEF At, Unfetched, Fetched, Social
  <2> QED BY <1>0, <1>2, <1>3, <2>1, <2>4 DEF Fetched
<1>5. CASE op \in SocialOps
  <2>0. SocialArrives(p, c)
    BY <1>0, <1>5 DEF Arrives, CredentialOps, AdminOps, ProfileOps, PasskeyOps, SocialOps
  <2>1. ASSUME NEW label, NEW l, Arrive(p, c, label, l), l.row = None,
               label \in Unfetched \cup {"store_state", "find_account", "find_tokens", "find_info",
                                         "list_unlink", "answer"}
        PROVE  /\ pc'[p] # "update_account" /\ pc'[p] # "exchange"
               /\ local'[p].row = None /\ pc'[p] \notin Signing
    <3>1. pc'[p] = label /\ local'[p] = l
      BY <1>1, <2>1
    <3> QED BY <2>1, <3>1 DEF Unfetched, Signing
  <2>2. /\ Blank.row = None
        /\ \A i : [Blank EXCEPT !.user = i].row = None
        /\ \A i, x, y : [Blank EXCEPT !.user = i, !.link.email = x, !.spent = y].row = None
    BY DEF Blank
  <2>3. CASE \/ StartArrives(p, c) \/ LinkArrives(p, c) \/ CallbackArrives(p, c)
             \/ IdTokenArrives(p, c) \/ UnlinkArrives(p, c)
    <3>1. \E label, l : /\ Arrive(p, c, label, l) /\ l.row = None
                        /\ label \in Unfetched \cup {"store_state", "find_account", "list_unlink"}
      <4>1. CASE StartArrives(p, c) \/ IdTokenArrives(p, c)
        BY <2>2, <4>1 DEF StartArrives, IdTokenArrives
      <4>2. CASE LinkArrives(p, c) \/ UnlinkArrives(p, c)
        BY <2>2, <4>2 DEF LinkArrives, UnlinkArrives, Unfetched
      <4>3. CASE CallbackArrives(p, c)
        <5>1. PICK v \in StateOf(db, c.secret) :
                 Arrive(p, c, "drop_state",
                        [Blank EXCEPT !.user = v.about, !.link.email = v.email, !.spent = {v.id}])
          BY <4>3 DEF CallbackArrives
        <5> DEFINE l == [Blank EXCEPT !.user = v.about, !.link.email = v.email, !.spent = {v.id}]
        <5>2. l.row = None
          BY <2>2
        <5> HIDE DEF l
        <5>3. Arrive(p, c, "drop_state", l)
          BY <5>1 DEF l
        <5> QED BY <5>2, <5>3 DEF Unfetched
      <4> QED BY <2>3, <4>1, <4>2, <4>3
    <3> QED BY <1>0, <1>2, <1>3, <2>1, <3>1
  <2>4. CASE RefreshArrives(p, c) \/ InfoArrives(p, c)
    <3>1. op \in Tokens /\ op \notin Social
      BY <1>0, <2>4 DEF RefreshArrives, InfoArrives, Tokens, Social
    <3>2. PICK s \in Caller(db, c) :
             \/ \E label \in {"find_tokens", "find_info"} :
                   Arrive(p, c, label, [Blank EXCEPT !.user = s.user])
             \/ /\ c.change # Nothing
                /\ Arrive(p, c, Copied(c), CopyOf(c, [Blank EXCEPT !.user = s.user]))
      BY <2>4 DEF RefreshArrives, InfoArrives
    <3> DEFINE l == [Blank EXCEPT !.user = s.user]
               m == CopyOf(c, l)
    <3>3. /\ c.flag => m.row = c.change.grant /\ m.todo = {c.change.account}
          /\ ~ c.flag => m = l
      BY DEF CopyOf, Blank
    <3>4. l.row = None
      BY <2>2
    <3> HIDE DEF l, m
    <3>5. CASE \E label \in {"find_tokens", "find_info"} : Arrive(p, c, label, l)
      BY <1>0, <1>2, <1>3, <2>1, <3>4, <3>5
    <3>6. CASE c.change # Nothing /\ c.flag /\ Arrive(p, c, Copied(c), m)
      <4>1. pc'[p] = "exchange" /\ local'[p] = m
        BY <1>1, <3>6 DEF Copied
      <4> QED BY <1>0, <1>2, <1>3, <3>1, <3>3, <3>6, <4>1 DEF Unfetched, Fetched
    <3>7. CASE ~ c.flag /\ Arrive(p, c, Copied(c), m)
      <4>1. Arrive(p, c, "answer", l)
        BY <3>3, <3>7 DEF Copied
      <4> QED BY <1>0, <1>2, <1>3, <2>1, <3>4, <4>1
    <3> QED BY <3>2, <3>5, <3>6, <3>7 DEF l, m
  <2> QED BY <2>0, <2>3, <2>4 DEF SocialArrives
<1> QED BY <1>4, <1>5

\* Tokens that the provider has just given, and that nobody else has.
Unheard(i) ==
    /\ IsA(i, "grant")
    /\ \A a \in db.accounts : a.grant # i
    /\ \A k \in CookiesOut : k.grant # i

\* A request that has tokens of an account in hand, to use them or to give out a copy.
Keeps(p) == pc[p] = "exchange" \/ (pc[p] \in Signing /\ call[p].op \in Social)

TokensOf(p) ==
    LET i == local[p].row IN
    /\ pc[p] \in Unfetched => i = None
    /\ pc[p] \in Fetched \/ Keeps(p) => i \in 0 .. Len(kind)
    /\ pc[p] \in Fetched /\ i # None => Unheard(i) \/ i \in contested
    /\ Keeps(p) /\ i # None =>
          \A a \in db.accounts : a.grant = i => a.id \in local[p].todo \/ i \in contested
    /\ pc[p] = "update_account" \/ Keeps(p) => Single(local[p].todo)
    /\ pc[p] = "update_account" /\ call[p].op \in Tokens => i # None
    /\ call[p].op \in Tokens => call[p].change \in CookiesOut \cup {Nothing}

GrantsKnown ==
    /\ \A a \in db.accounts : a.grant \in 0 .. Len(kind)
    /\ \A k \in CookiesOut : k.grant \in 0 .. Len(kind)

\* No two accounts have the same tokens, and a copy of an account's is that account's.
GrantsOwn ==
    \A a \in db.accounts :
        a.grant # None =>
           /\ \A b \in db.accounts : a.grant = b.grant => a.id = b.id \/ a.grant \in contested
           /\ \A k \in CookiesOut : a.grant = k.grant => a.id = k.account \/ a.grant \in contested

\* Tokens that were replaced have others on their way to the account.
GrantsLive ==
    \A a \in db.accounts :
        \/ a.grant = None
        \/ kind[a.grant] = "grant"
        \/ {a.id, a.user} \cap broken # {}
        \/ {a.id, a.user, a.grant} \cap contested # {}
        \/ \E p \in Requests : /\ pc[p] = "update_account" /\ call[p].op \in Tokens
                               /\ a.id \in local[p].todo

TokensKept ==
    /\ Typed /\ Overlap
    /\ GrantsKnown /\ GrantsOwn /\ GrantsLive
    /\ \A p \in Requests : TokensOf(p)

Hands(p) ==
    /\ TokensKept /\ contested \subseteq contested'
    /\ pc[p] # "idle" /\ Step(p) /\ Stepped(p)

\* What a step does to the tokens that accounts have and clients have copies of.
LEMMA Handing ==
    ASSUME NEW p \in Requests, Hands(p)
    PROVE  /\ Typed /\ Overlap /\ pc[p] # "idle" /\ TokensOf(p) /\ contested \subseteq contested'
           /\ \A q \in Requests \ {p} : /\ pc'[q] = pc[q] /\ call'[q] = call[q]
                                        /\ local'[q] = local[q]
           /\ Len(kind) \in Nat /\ Len(kind') \in Nat /\ Len(kind) <= Len(kind')
           /\ fresh = Len(kind) + 1
           /\ \A i, k : IsA(i, k) => IsA(i, k)' \/ /\ SendsExchange(p) /\ pc[p] = "exchange"
                                                   /\ i = local[p].row
           /\ \A a \in db'.accounts :
                 \/ /\ \E b \in db.accounts : b.id = a.id /\ b.user = a.user /\ b.grant = a.grant
                    /\ ~ (/\ SendsGrant(p) /\ local[p].row # None /\ Single(local[p].todo)
                          /\ a.id \in local[p].todo)
                 \/ /\ pc[p] = "update_account" /\ a.id \in local[p].todo
                    /\ a.grant = local[p].row
                 \/ pc[p] = "create_account" /\ a.id = fresh /\ a.grant = local[p].row
                 \/ a.grant = None
           /\ CookiesOut \subseteq CookiesOut'
           /\ \A k \in CookiesOut' :
                 \/ k \in CookiesOut
                 \/ /\ k.grant = local[p].row /\ k.account \in local[p].todo
                    /\ \/ pc[p] = "update_account"
                       \/ pc[p] = "create_session" /\ Keeps(p)
<1>0. /\ Typed /\ Overlap /\ pc[p] # "idle" /\ TokensOf(p) /\ contested \subseteq contested'
      /\ Sends(p) /\ Left /\ Settled(p)
  BY DEF Hands, TokensKept, Stepped
<1>1. \A q \in Requests \ {p} : pc'[q] = pc[q] /\ call'[q] = call[q] /\ local'[q] = local[q]
  BY <1>0 DEF Settled
<1>2. SendsExchange(p) => pc[p] = "exchange"
  BY DEF SendsExchange
<1>3. (SendsGrant(p) => pc[p] = "update_account") /\ (SendsAccount(p) => pc[p] = "create_account")
  BY DEF SendsGrant, SendsAccount
<1>4. pc[p] = "create_session" /\ call[p].op \in Social => Keeps(p)
  BY DEF Keeps, Signing
<1>5. ASSUME NEW a \in db'.accounts
      PROVE  \/ /\ \E b \in db.accounts : b.id = a.id /\ b.user = a.user /\ b.grant = a.grant
                /\ ~ (/\ SendsGrant(p) /\ local[p].row # None /\ Single(local[p].todo)
                      /\ a.id \in local[p].todo)
             \/ /\ pc[p] = "update_account" /\ a.id \in local[p].todo
                /\ a.grant = local[p].row
             \/ pc[p] = "create_account" /\ a.id = fresh /\ a.grant = local[p].row
             \/ a.grant = None
  BY <1>0, <1>3, GrantRows
<1>6. /\ CookiesOut \subseteq CookiesOut'
      /\ \A k \in CookiesOut' :
            \/ k \in CookiesOut
            \/ /\ k.grant = local[p].row /\ k.account \in local[p].todo
               /\ \/ pc[p] = "update_account"
                  \/ pc[p] = "create_session" /\ Keeps(p)
  BY <1>0, <1>3, <1>4, CookiesMore
<1>7. /\ Len(kind) \in Nat /\ Len(kind') \in Nat /\ Len(kind) <= Len(kind') /\ fresh = Len(kind) + 1
      /\ \A i, k : IsA(i, k) => IsA(i, k)' \/ (SendsExchange(p) /\ i = local[p].row)
  BY <1>0, KindsStay
<1> QED BY <1>0, <1>1, <1>2, <1>5, <1>6, <1>7

LEMMA GrantsStayKnown ==
    ASSUME NEW p \in Requests, Hands(p)
    PROVE  GrantsKnown'
<1>1. pc[p] \in {"update_account", "create_account"} \/ Keeps(p) => local[p].row \in 0 .. Len(kind)
  BY Handing DEF TokensOf, Fetched
<1>2. ASSUME NEW a \in db'.accounts
      PROVE  a.grant \in 0 .. Len(kind')
  <2>1. \/ \E b \in db.accounts : b.grant = a.grant
        \/ pc[p] \in {"update_account", "create_account"} /\ a.grant = local[p].row
        \/ a.grant = None
    BY <1>2, Handing
  <2> QED BY <1>1, <2>1, Handing DEF Hands, TokensKept, GrantsKnown, None
<1>3. ASSUME NEW k \in CookiesOut'
      PROVE  k.grant \in 0 .. Len(kind')
  <2>1. k \in CookiesOut \/ (k.grant = local[p].row /\ (pc[p] = "update_account" \/ Keeps(p)))
    BY <1>3, Handing
  <2> QED BY <1>1, <2>1, Handing DEF Hands, TokensKept, GrantsKnown
<1> QED BY <1>2, <1>3 DEF GrantsKnown

LEMMA GrantsStayOwn ==
    ASSUME NEW p \in Requests, Hands(p)
    PROVE  GrantsOwn'
<1>0. GrantsOwn /\ GrantsKnown /\ TokensOf(p) /\ contested \subseteq contested'
  BY DEF Hands, TokensKept
<1> SUFFICES ASSUME NEW a \in db'.accounts, a.grant # None, a.grant \notin contested'
             PROVE  /\ \A b \in db'.accounts : a.grant = b.grant => a.id = b.id
                    /\ \A k \in CookiesOut' : a.grant = k.grant => a.id = k.account
  BY DEF GrantsOwn
<1> DEFINE i == a.grant
           Had(b) == \E x \in db.accounts : x.id = b.id /\ x.grant = b.grant
<1>1. \A b \in db'.accounts :
         b.grant = i => \/ Had(b)
                        \/ pc[p] = "update_account" /\ b.id \in local[p].todo /\ i = local[p].row
                        \/ pc[p] = "create_account" /\ b.id = fresh /\ i = local[p].row
  BY Handing
<1>2. i = local[p].row /\ pc[p] \in {"update_account", "create_account"} => Unheard(i)
  BY <1>0 DEF TokensOf, Fetched
<1>3. pc[p] = "update_account" \/ Keeps(p) => Single(local[p].todo)
  BY <1>0 DEF TokensOf
<1>4. \A b \in db'.accounts : b.grant = i /\ Had(b) => ~ Unheard(i)
  BY DEF Unheard
<1>5. ASSUME NEW b \in db'.accounts, b.grant = i
      PROVE  a.id = b.id
  <2>1. CASE Had(a) /\ Had(b)
    BY <1>0, <1>5, <2>1 DEF GrantsOwn
  <2>2. CASE ~ (Had(a) /\ Had(b))
    BY <1>1, <1>2, <1>3, <1>4, <1>5, <2>2 DEF Single
  <2> QED BY <2>1, <2>2
<1>6. ASSUME NEW k \in CookiesOut', k.grant = i
      PROVE  a.id = k.account
  <2>1. \/ k \in CookiesOut
        \/ /\ i = local[p].row /\ k.account \in local[p].todo
           /\ pc[p] = "update_account" \/ (pc[p] = "create_session" /\ Keeps(p))
    BY <1>6, Handing
  <2>2. CASE Had(a) /\ k \in CookiesOut
    BY <1>0, <1>6, <2>2 DEF GrantsOwn
  <2>3. CASE ~ Had(a) /\ k \in CookiesOut
    BY <1>1, <1>2, <1>6, <2>3 DEF Unheard
  <2>4. CASE k \notin CookiesOut /\ pc[p] = "update_account"
    BY <1>1, <1>2, <1>3, <1>4, <2>1, <2>4 DEF Single
  <2>5. CASE k \notin CookiesOut /\ pc[p] = "create_session" /\ Keeps(p)
    <3>1. Had(a) /\ i = local[p].row
      BY <1>1, <2>1, <2>5
    <3>2. a.id \in local[p].todo
      BY <1>0, <2>5, <3>1 DEF TokensOf
    <3> QED BY <1>3, <2>1, <2>5, <3>2 DEF Single
  <2> QED BY <2>1, <2>2, <2>3, <2>4, <2>5
<1> QED BY <1>5, <1>6

LEMMA GrantsStayLive ==
    ASSUME NEW p \in Requests, Hands(p)
    PROVE  GrantsLive'
<1>0. /\ Typed /\ GrantsLive /\ GrantsKnown /\ TokensOf(p) /\ contested \subseteq contested'
      /\ pc[p] # "idle" /\ Step(p) /\ Sends(p)
  BY DEF Hands, TokensKept, Stepped
<1>1. broken \subseteq broken'
  BY <1>0, BrokenGrows
<1> SUFFICES ASSUME NEW a \in db'.accounts, a.grant # None,
                    {a.id, a.user} \cap broken' = {}, {a.id, a.user, a.grant} \cap contested' = {}
             PROVE  \/ kind'[a.grant] = "grant"
                    \/ \E q \in Requests : /\ pc'[q] = "update_account" /\ call'[q].op \in Tokens
                                           /\ a.id \in local'[q].todo
  BY DEF GrantsLive
<1>2. CASE /\ \E b \in db.accounts : b.id = a.id /\ b.user = a.user /\ b.grant = a.grant
           /\ ~ (/\ SendsGrant(p) /\ local[p].row # None /\ Single(local[p].todo)
                 /\ a.id \in local[p].todo)
  <2>1. PICK b \in db.accounts : b.id = a.id /\ b.user = a.user /\ b.grant = a.grant
    BY <1>2
  <2>2. CASE kind[b.grant] = "grant"
    <3>1. IsA(b.grant, "grant")
      BY <1>0, <2>1, <2>2, Handing DEF GrantsKnown, IsA, None
    <3>2. CASE SendsExchange(p) /\ pc[p] = "exchange" /\ b.grant = local[p].row
      <4>1. a.id \in local[p].todo
        BY <1>0, <2>1, <3>2 DEF TokensOf, Keeps
      <4> QED BY <1>0, <3>2, <4>1, Exchanged
    <3>3. PICK i : i = b.grant
      OBVIOUS
    <3>4. IsA(i, "grant")' \/ (SendsExchange(p) /\ pc[p] = "exchange" /\ i = local[p].row)
      BY <3>1, <3>3, Handing
    <3>5. CASE IsA(i, "grant")'
      BY <2>1, <3>3, <3>5 DEF IsA
    <3> QED BY <3>2, <3>3, <3>4, <3>5
  <2>3. CASE \E q \in Requests : /\ pc[q] = "update_account" /\ call[q].op \in Tokens
                                 /\ b.id \in local[q].todo
    <3>1. PICK q \in Requests : /\ pc[q] = "update_account" /\ call[q].op \in Tokens
                                /\ b.id \in local[q].todo
      BY <2>3
    <3>2. CASE q = p
      <4>1. SendsGrant(p)
        BY <1>0, <2>1, <3>1, <3>2, TokensLand
      <4> QED BY <1>0, <1>2, <2>1, <3>1, <3>2, <4>1 DEF TokensOf
    <3>3. CASE q # p
      <4>1. pc'[q] = pc[q] /\ call'[q] = call[q] /\ local'[q] = local[q]
        BY <3>3, Handing
      <4> QED BY <2>1, <3>1, <4>1
    <3> QED BY <3>2, <3>3
  <2> QED BY <1>0, <1>1, <2>1, <2>2, <2>3 DEF GrantsLive
<1>3. CASE pc[p] \in {"update_account", "create_account"} /\ a.grant = local[p].row
  <2>1. PICK i : i = a.grant
    OBVIOUS
  <2>2. IsA(i, "grant")
    BY <1>0, <1>3, <2>1 DEF TokensOf, Fetched, Unheard
  <2>3. IsA(i, "grant")'
    BY <1>3, <2>2, Handing
  <2> QED BY <2>1, <2>3 DEF IsA
<1> QED BY <1>2, <1>3, Handing

\* What the request whose step it is has in hand then.
LEMMA TokensOfStay ==
    ASSUME NEW p \in Requests, Hands(p)
    PROVE  TokensOf(p)'
<1>0. /\ Typed /\ GrantsOwn /\ GrantsKnown /\ TokensOf(p) /\ contested \subseteq contested'
      /\ pc[p] # "idle" /\ Step(p) /\ Stepped(p)
  BY DEF Hands, TokensKept
<1>1. Brings(p)
  BY <1>0, EveryBrings
<1>2. pc'[p] = "idle" \/ call'[p] = call[p]
  BY <1>0, EveryOnward DEF Onward
<1>3. pc'[p] = "idle" => call'[p].op \notin Tokens
  BY <1>0 DEF Stepped, Settled, RequestOK, NoCall, Tokens
<1> DEFINE i == local[p].row
           j == local'[p].row
           Had(a) == \E b \in db.accounts : b.id = a.id /\ b.grant = a.grant
<1>4. /\ \A a \in db'.accounts :
            \/ Had(a)
            \/ pc[p] = "update_account" /\ a.id \in local[p].todo /\ a.grant = i
            \/ pc[p] = "create_account" /\ a.id = fresh /\ a.grant = i
            \/ a.grant = None
      /\ \A k \in CookiesOut' :
            \/ k \in CookiesOut
            \/ pc[p] = "update_account" \/ (pc[p] = "create_session" /\ Keeps(p))
  BY Handing
<1>5. ASSUME pc[p] \in {"drop_state", "exchange"}, Becomes(fresh, "grant")
      PROVE  /\ \A x : x = fresh => Unheard(x)'
             /\ fresh # None /\ fresh \in 0 .. Len(kind')
  <2>1. PICK x : x = fresh
    OBVIOUS
  <2>2. x = Len(kind) + 1 /\ Len(kind) \in Nat /\ x \in 1 .. Len(kind') /\ kind'[x] = "grant"
    BY <1>5, <2>1, Handing DEF Becomes
  <2>3. \A a \in db'.accounts : a.grant # x
    BY <1>0, <1>4, <1>5, <2>2 DEF GrantsKnown, None
  <2>4. \A k \in CookiesOut' : k.grant # x
    BY <1>0, <1>4, <1>5, <2>2 DEF GrantsKnown
  <2>5. Unheard(x)'
    BY <2>2, <2>3, <2>4 DEF Unheard, IsA
  <2> QED BY <2>1, <2>2, <2>5 DEF None
<1>6. SendsExchange(p) => pc[p] = "exchange" /\ Becomes(fresh, "grant") /\ call[p].op \in Tokens
  BY <1>0, Exchanged DEF SendsExchange
<1>7. Draw(<<"grant">>) => Becomes(fresh, "grant")
  BY <1>0, OneDrawn DEF Draw, Kinds
<1>8. pc'[p] \in Unfetched => j = None
  BY <1>0, <1>1 DEF Brings, TokensOf
<1>9. ASSUME pc'[p] \in Fetched
      PROVE  /\ j \in 0 .. Len(kind')
             /\ j # None => \A x : x = j => Unheard(x)' \/ x \in contested'
             /\ pc'[p] = "update_account" =>
                   /\ Single(local'[p].todo)
                   /\ call'[p].op \in Tokens => j # None
  <2>1. CASE pc[p] = "drop_state" /\ pc'[p] = "find_account" /\ Draw(<<"grant">>) /\ j = fresh
    BY <1>5, <1>7, <2>1
  <2>2. CASE pc[p] = "find_link_user" /\ pc'[p] = "create_account" /\ j = i
    BY <1>0, <2>2, Handing DEF TokensOf, Unfetched, None
  <2>3. CASE /\ pc[p] \in {"find_account", "find_by_report", "create_social_user"} /\ j = i
             /\ pc'[p] = "update_account" => call[p].op \in Social /\ Single(local'[p].todo)
    <3>1. i \in 0 .. Len(kind) /\ (i # None => Unheard(i) \/ i \in contested)
      BY <1>0, <2>3 DEF TokensOf, Fetched
    <3>2. ASSUME i # None, Unheard(i)
          PROVE  \A x : x = j => Unheard(x)'
      <4>1. SUFFICES ASSUME NEW x, x = i
                     PROVE  Unheard(x)'
        BY <2>3
      <4>2. IsA(x, "grant")'
        BY <2>3, <3>2, <4>1, Handing DEF Unheard
      <4>3. (\A a \in db'.accounts : a.grant # x) /\ (\A k \in CookiesOut' : k.grant # x)
        BY <1>4, <2>3, <3>2, <4>1 DEF Unheard
      <4> QED BY <4>2, <4>3 DEF Unheard
    <3>3. pc'[p] = "update_account" => call'[p].op \notin Tokens
      BY <1>2, <2>3 DEF Social, Tokens
    <3> QED BY <1>0, <2>3, <3>1, <3>2, <3>3, Handing
  <2>4. CASE /\ SendsExchange(p) /\ pc'[p] = "update_account"
             /\ j = fresh /\ local'[p].todo = local[p].todo
    <3>1. Single(local[p].todo)
      BY <1>0, <1>6, <2>4 DEF TokensOf, Keeps
    <3> QED BY <1>5, <1>6, <2>4, <3>1
  <2> QED BY <1>1, <1>9, <2>1, <2>2, <2>3, <2>4 DEF Brings
<1>10. ASSUME pc'[p] = "exchange"
       PROVE  /\ j \in 0 .. Len(kind')
              /\ j # None => \A a \in db'.accounts :
                                a.grant = j => a.id \in local'[p].todo \/ j \in contested'
              /\ Single(local'[p].todo)
  <2>1. pc[p] \in {"find_info", "find_tokens"} /\ Single(local'[p].todo)
    BY <1>1, <1>10 DEF Brings
  <2>2. \A a \in db'.accounts : Had(a) \/ a.grant = None
    BY <1>4, <2>1
  <2>3. CASE /\ call[p].op \in Tokens /\ call[p].change # Nothing
             /\ j = call[p].change.grant /\ local'[p].todo = {call[p].change.account}
    <3>1. call[p].change \in CookiesOut
      BY <1>0, <2>3 DEF TokensOf
    <3>2. j \in 0 .. Len(kind)
      BY <1>0, <2>3, <3>1 DEF GrantsKnown
    <3>3. ASSUME j # None, NEW a \in db'.accounts, a.grant = j
          PROVE  a.id \in local'[p].todo \/ j \in contested'
      BY <1>0, <2>2, <2>3, <3>1, <3>3 DEF GrantsOwn
    <3> QED BY <2>1, <3>2, <3>3, Handing
  <2>4. CASE \E a \in db.accounts : j = a.grant /\ local'[p].todo = {a.id}
    <3>1. PICK b \in db.accounts : j = b.grant /\ local'[p].todo = {b.id}
      BY <2>4
    <3>2. j \in 0 .. Len(kind)
      BY <1>0, <3>1 DEF GrantsKnown
    <3>3. ASSUME j # None, NEW a \in db'.accounts, a.grant = j
          PROVE  a.id \in local'[p].todo \/ j \in contested'
      BY <1>0, <2>2, <3>1, <3>3 DEF GrantsOwn
    <3> QED BY <2>1, <3>2, <3>3, Handing
  <2> QED BY <1>1, <1>10, <2>3, <2>4 DEF Brings
<1>11. ASSUME pc'[p] \in Signing, call'[p].op \in Social
       PROVE  /\ j \in 0 .. Len(kind')
              /\ j # None => \A a \in db'.accounts :
                                a.grant = j => a.id \in local'[p].todo \/ j \in contested'
              /\ Single(local'[p].todo)
  <2>1. call[p].op \in Social
    BY <1>2, <1>11, StillThere DEF Signing
  <2>2. /\ j = i
        /\ \/ pc[p] \in Signing \cup {"update_account"} /\ local'[p].todo = local[p].todo
           \/ pc[p] = "find_account" /\ Single(local'[p].todo)
           \/ pc[p] = "create_account" /\ local'[p].todo = {fresh}
    BY <1>1, <1>11, <2>1 DEF Brings
  <2>3. CASE pc[p] \in Signing
    <3>1. Keeps(p) /\ local'[p].todo = local[p].todo
      BY <2>1, <2>2, <2>3 DEF Keeps, Signing
    <3>2. /\ i \in 0 .. Len(kind) /\ Single(local[p].todo)
          /\ i # None => \A a \in db.accounts : a.grant = i => a.id \in local[p].todo \/ i \in contested
      BY <1>0, <3>1 DEF TokensOf
    <3>3. \A a \in db'.accounts : Had(a) \/ a.grant = None
      BY <1>4, <2>3 DEF Signing
    <3> QED BY <1>0, <2>2, <3>1, <3>2, <3>3, Handing
  <2>4. CASE pc[p] \in Fetched
    <3>1. i \in 0 .. Len(kind) /\ (i # None => Unheard(i) \/ i \in contested)
      BY <1>0, <2>4 DEF TokensOf
    <3>2. Single(local'[p].todo)
      BY <1>0, <2>2, <2>4 DEF TokensOf, Single, Signing, Fetched
    <3>3. ASSUME i # None, Unheard(i), NEW a \in db'.accounts, a.grant = i
          PROVE  a.id \in local'[p].todo
      <4>1. ~ Had(a)
        BY <3>3 DEF Unheard
      <4> QED BY <1>4, <2>2, <3>3, <4>1 DEF Signing
    <3> QED BY <1>0, <2>2, <3>1, <3>2, <3>3, Handing
  <2> QED BY <2>2, <2>3, <2>4 DEF Fetched
<1>12. call'[p].op \in Tokens => call'[p].change \in CookiesOut' \cup {Nothing}
  BY <1>0, <1>2, <1>3, Handing DEF TokensOf
<1>13. pc'[p] = "update_account" => pc'[p] \in Fetched
  BY DEF Fetched
<1>14. PICK x : x = j
  OBVIOUS
<1>15. ASSUME pc'[p] \in Fetched, j # None
       PROVE  \/ /\ IsA(x, "grant")'
                /\ \A a \in db'.accounts : a.grant # x
                /\ \A k \in CookiesOut' : k.grant # x
             \/ x \in contested'
  BY <1>9, <1>14, <1>15 DEF Unheard
<1>16. CASE pc'[p] \in Fetched
  <2>1. ~ Keeps(p)'
    BY <1>16 DEF Keeps, Signing, Fetched
  <2>2. pc'[p] \notin Unfetched
    BY <1>16 DEF Unfetched, Fetched
  <2> QED BY <1>9, <1>12, <1>14, <1>15, <1>16, <2>1, <2>2 DEF TokensOf, Unheard, IsA
<1>17. CASE pc'[p] \notin Fetched
  BY <1>8, <1>10, <1>11, <1>12, <1>13, <1>17 DEF TokensOf, Keeps
<1> QED BY <1>16, <1>17

\* Another request keeps what it has, unless the two met.
LEMMA OthersTokensStay ==
    ASSUME NEW p \in Requests, Hands(p), NEW q \in Requests \ {p}
    PROVE  TokensOf(q)'
<1>0. /\ Typed /\ Overlap /\ TokensOf(q) /\ contested \subseteq contested' /\ pc[p] # "idle"
      /\ pc'[q] = pc[q] /\ call'[q] = call[q] /\ local'[q] = local[q]
  BY Handing DEF Hands, TokensKept
<1> DEFINE i == local[q].row
<1>1. pc[q] # "idle" /\ i # None /\ local[p].row = i => i \in contested
  BY <1>0, Met DEF Touched
<1>2. pc[q] \in Fetched \/ Keeps(q) => pc[q] # "idle"
  BY DEF Fetched, Keeps, Signing
<1>3. ASSUME pc[q] \in Fetched, i # None, i \notin contested
      PROVE  \A x : x = i => Unheard(x)'
  <2>1. SUFFICES ASSUME NEW x, x = i
                 PROVE  Unheard(x)'
    OBVIOUS
  <2>2. Unheard(x) /\ local[p].row # x /\ x # None
    BY <1>0, <1>1, <1>2, <1>3, <2>1 DEF TokensOf
  <2>3. IsA(x, "grant")'
    BY <2>2, Handing DEF Unheard
  <2>4. \A a \in db'.accounts : a.grant # x
    BY <2>2, Handing DEF Unheard
  <2>5. \A k \in CookiesOut' : k.grant # x
    BY <2>2, Handing DEF Unheard
  <2> QED BY <2>3, <2>4, <2>5 DEF Unheard
<1>4. ASSUME Keeps(q), i # None, i \notin contested, NEW a \in db'.accounts, a.grant = i
      PROVE  a.id \in local[q].todo
  <2>1. \E b \in db.accounts : b.id = a.id /\ b.grant = a.grant
    BY <1>1, <1>2, <1>4, Handing
  <2> QED BY <1>0, <1>4, <2>1 DEF TokensOf
<1>5. CookiesOut \subseteq CookiesOut' /\ Len(kind) \in Nat /\ Len(kind') \in Nat /\ Len(kind) <= Len(kind')
  BY Handing
<1>6. Keeps(q)' <=> Keeps(q)
  BY <1>0 DEF Keeps
<1>7. /\ pc[q] \in Unfetched => i = None
      /\ pc[q] \in Fetched \/ Keeps(q) => i \in 0 .. Len(kind')
      /\ pc[q] = "update_account" \/ Keeps(q) => Single(local[q].todo)
      /\ pc[q] = "update_account" /\ call[q].op \in Tokens => i # None
      /\ call[q].op \in Tokens => call[q].change \in CookiesOut' \cup {Nothing}
  BY <1>0, <1>5 DEF TokensOf
<1>8. PICK x : x = i /\ x = local'[q].row
  BY <1>0
<1>9. ASSUME pc[q] \in Fetched, x # None
      PROVE  \/ /\ IsA(x, "grant")'
                /\ \A a \in db'.accounts : a.grant # x
                /\ \A k \in CookiesOut' : k.grant # x
             \/ x \in contested'
  BY <1>0, <1>3, <1>8, <1>9 DEF Unheard
<1>10. Keeps(q) /\ x # None =>
          \A a \in db'.accounts : a.grant = x => a.id \in local[q].todo \/ x \in contested'
  BY <1>0, <1>4, <1>8
<1> QED BY <1>0, <1>6, <1>7, <1>8, <1>9, <1>10 DEF TokensOf, Unheard, IsA

\* What no step touches stays as it is.
LEMMA TokensUntouched ==
    ASSUME TokensKept, contested \subseteq contested', NEW q \in Requests,
           db'.accounts = db.accounts, signed' = signed, kind' = kind,
           pc'[q] = pc[q] /\ call'[q] = call[q] /\ local'[q] = local[q]
    PROVE  TokensOf(q)'
<1>1. TokensOf(q) /\ CookiesOut' = CookiesOut
  BY DEF TokensKept, CookiesOut
<1>2. Keeps(q)' <=> Keeps(q)
  BY DEF Keeps
<1>3. PICK x : x = local[q].row /\ x = local'[q].row
  OBVIOUS
<1>4. Unheard(x) => Unheard(x)'
  BY <1>1 DEF Unheard, IsA
<1>5. pc[q] \in Fetched /\ x # None => Unheard(x)' \/ x \in contested'
  BY <1>1, <1>3, <1>4 DEF TokensOf
<1>6. /\ pc[q] \in Unfetched => x = None
      /\ pc[q] \in Fetched \/ Keeps(q) => x \in 0 .. Len(kind)
      /\ Keeps(q) /\ x # None =>
            \A a \in db.accounts : a.grant = x => a.id \in local[q].todo \/ x \in contested'
      /\ pc[q] = "update_account" \/ Keeps(q) => Single(local[q].todo)
      /\ pc[q] = "update_account" /\ call[q].op \in Tokens => x # None
      /\ call[q].op \in Tokens => call[q].change \in CookiesOut \cup {Nothing}
  BY <1>1, <1>3 DEF TokensOf
<1> QED BY <1>1, <1>2, <1>3, <1>5, <1>6 DEF TokensOf, Unheard, IsA

LEMMA TokensStayKept ==
    ASSUME TokensKept, [Next]_vars
    PROVE  TokensKept'
<1>0. /\ Typed /\ Overlap /\ GrantsKnown /\ GrantsOwn /\ GrantsLive
      /\ \A p \in Requests : TokensOf(p)
  BY DEF TokensKept
<1>1. Typed' /\ Overlap' /\ contested \subseteq contested'
  BY <1>0, TypedStays, OverlapStays
<1>2. ASSUME db'.accounts = db.accounts, signed' = signed, kind' = kind, broken' = broken,
             \A q \in Requests : \/ pc[q] = "idle" /\ TokensOf(q)'
                                 \/ /\ pc'[q] = pc[q] /\ call'[q] = call[q]
                                    /\ local'[q] = local[q]
      PROVE  TokensKept'
  <2>1. CookiesOut' = CookiesOut
    BY <1>2 DEF CookiesOut
  <2>2. GrantsKnown' /\ GrantsOwn'
    BY <1>0, <1>1, <1>2, <2>1 DEF GrantsKnown, GrantsOwn
  <2>3. \A q \in Requests : pc[q] = "update_account" =>
           pc'[q] = pc[q] /\ call'[q] = call[q] /\ local'[q] = local[q]
    BY <1>2
  <2>4. GrantsLive'
    <3> SUFFICES ASSUME NEW a \in db'.accounts, a.grant # None, kind'[a.grant] # "grant",
                        {a.id, a.user} \cap broken' = {},
                        {a.id, a.user, a.grant} \cap contested' = {}
                 PROVE  \E q \in Requests : /\ pc'[q] = "update_account" /\ call'[q].op \in Tokens
                                            /\ a.id \in local'[q].todo
      BY DEF GrantsLive
    <3>1. PICK q \in Requests : /\ pc[q] = "update_account" /\ call[q].op \in Tokens
                                /\ a.id \in local[q].todo
      BY <1>0, <1>1, <1>2 DEF GrantsLive
    <3> QED BY <2>3, <3>1
  <2>5. \A q \in Requests : TokensOf(q)'
    BY <1>1, <1>2, TokensUntouched
  <2> QED BY <1>1, <2>2, <2>4, <2>5 DEF TokensKept
<1>3. CASE UNCHANGED vars
  BY <1>2, <1>3 DEF vars, history
<1>4. CASE BansEnd
  BY <1>0, <1>2, <1>4, BanRows DEF OnlyUsers
<1>5. ASSUME NEW p \in Requests, pc[p] = "idle", Arrived(p), NEW op \in Ops,
             NEW c \in Possible(op), Arrives(p, c)
      PROVE  TokensKept'
  <2>0. /\ db' = db /\ signed' = signed /\ kind' = kind /\ CookiesOut' = CookiesOut
        /\ \A q \in Requests \ {p} : pc'[q] = pc[q] /\ local'[q] = local[q] /\ call'[q] = call[q]
    BY <1>5 DEF Arrived, SendsRead, KeepIds, Settled, CookiesOut
  <2>1. /\ call'[p].op = op /\ broken' = broken
        /\ op \in Tokens => call'[p].change \in CookiesOut \cup {Nothing}
        /\ pc'[p] # "update_account"
        /\ pc'[p] \in Unfetched \cup Fetched => local'[p].row = None
        /\ op \in Social => pc'[p] \notin Signing
        /\ pc'[p] = "exchange" => /\ op \in Tokens /\ call'[p].change # Nothing
                                  /\ local'[p].row = call'[p].change.grant
                                  /\ local'[p].todo = {call'[p].change.account}
    BY <1>0, <1>5, GrantArrives
  <2>2. Keeps(p)' => pc'[p] = "exchange"
    BY <2>1 DEF Keeps
  <2>3. ASSUME pc'[p] = "exchange"
        PROVE  /\ local'[p].row \in 0 .. Len(kind) /\ Single(local'[p].todo)
               /\ \A a \in db.accounts :
                     a.grant # None /\ a.grant = local'[p].row =>
                        a.id \in local'[p].todo \/ a.grant \in contested'
    <3>1. PICK k \in CookiesOut : k.grant = local'[p].row /\ local'[p].todo = {k.account}
      BY <2>1, <2>3
    <3> QED BY <1>0, <1>1, <3>1 DEF GrantsKnown, GrantsOwn, Single
  <2>4. pc'[p] = "exchange" => pc'[p] \notin Unfetched \cup Fetched
    BY DEF Unfetched, Fetched
  <2>5. None \in 0 .. Len(kind)
    BY <1>0, Now
  <2>6. TokensOf(p)'
    BY <2>0, <2>1, <2>2, <2>3, <2>4, <2>5 DEF TokensOf
  <2> QED BY <1>2, <1>5, <2>0, <2>1, <2>6
<1>6. ASSUME NEW p \in Requests, pc[p] # "idle", Step(p), Stepped(p)
      PROVE  TokensKept'
  <2>1. Hands(p)
    BY <1>1, <1>6 DEF Hands
  <2>2. \A q \in Requests : TokensOf(q)'
    BY <2>1, TokensOfStay, OthersTokensStay
  <2> QED BY <1>1, <2>1, <2>2, GrantsStayKnown, GrantsStayOwn, GrantsStayLive DEF TokensKept
<1>7. CASE Next
  BY <1>0, <1>4, <1>5, <1>6, <1>7, Moves
<1> QED BY <1>3, <1>7

LEMMA InitTokensKept ==
    ASSUME Init
    PROVE  TokensKept
<1>1. Typed /\ Overlap
  BY InitTyped, InitOverlap
<1>2. \A a \in db.accounts : a.grant = None
  <2>1. db.accounts = {NewCredential(2, 1, 3), NewCredential(6, 5, 7)}
    BY DEF Init
  <2> QED BY <2>1 DEF NewCredential
<1>3. CookiesOut = {} /\ Len(kind) \in Nat
  BY DEF Init, CookiesOut
<1>4. \A p \in Requests : pc[p] = "idle" /\ call[p].op \notin Tokens
  BY DEF Init, NoCall, Tokens
<1>5. \A p \in Requests : TokensOf(p)
  BY <1>4 DEF TokensOf, Keeps, Unfetched, Fetched, Signing
<1> QED BY <1>1, <1>2, <1>3, <1>5 DEF TokensKept, GrantsKnown, GrantsOwn, GrantsLive, None

\* The tokens kept of an account are ones the provider still accepts, whoever has used
\* them or a copy of them, unless the request that was to store their successors failed,
\* is about to store them, or met another at work on the account.
THEOREM StoredGrantsLive == Spec => []StoredGrantLive
<1>1. Init => TokensKept
  BY InitTokensKept
<1>2. TokensKept /\ [Next]_vars => TokensKept'
  BY TokensStayKept
<1>3. TokensKept => StoredGrantLive
  BY DEF TokensKept, GrantsLive, StoredGrantLive
<1> QED BY <1>1, <1>2, <1>3, PTL DEF Spec

-----------------------------------------------------------------------------
(* Nobody is left without a way to sign in.                                *)

Same(a, b) == a.id = b.id /\ a.user = b.user /\ a.provider = b.provider

\* An account stays its user's until it is taken away, with its user or by a request that
\* has it in hand; one that is new is the user's of its request.
LEMMA AccountsStay ==
    ASSUME Typed, NEW p \in Requests, pc[p] # "idle", Sends(p)
    PROVE  /\ \A a \in db'.accounts :
                 \/ \E b \in db.accounts : Same(a, b)
                 \/ pc[p] \in {"sign_up", "add_credential"}
                 \/ /\ pc[p] = "create_account" /\ a.id = fresh
                    /\ a.user = local[p].user /\ a.provider = "social"
           /\ \A a \in db.accounts :
                 \/ \E b \in db'.accounts : Same(b, a)
                 \/ SendsUnlink(p) /\ a.id \in local[p].todo
                 \/ pc[p] = "delete_user" /\ a.user = local[p].user /\ UserOf(db', a.user) = {}
<1> DEFINE Came == \A a \in db'.accounts : \E b \in db.accounts : Same(a, b)
           Stayed == \A a \in db.accounts : \E b \in db'.accounts : Same(b, a)
           Goal == /\ \A a \in db'.accounts :
                         \/ \E b \in db.accounts : Same(a, b)
                         \/ pc[p] \in {"sign_up", "add_credential"}
                         \/ /\ pc[p] = "create_account" /\ a.id = fresh
                            /\ a.user = local[p].user /\ a.provider = "social"
                   /\ \A a \in db.accounts :
                         \/ \E b \in db'.accounts : Same(b, a)
                         \/ SendsUnlink(p) /\ a.id \in local[p].todo
                         \/ /\ pc[p] = "delete_user" /\ a.user = local[p].user
                            /\ UserOf(db', a.user) = {}
<1> SUFFICES Goal
  OBVIOUS
<1>0. db \in Database /\ db.accounts \subseteq Account
  BY Now DEF Database
<1>1. ASSUME db'.accounts \subseteq db.accounts
      PROVE  Came
  BY <1>1 DEF Same
<1>2. ASSUME db.accounts \subseteq db'.accounts
      PROVE  Stayed
  BY <1>2 DEF Same
<1>3. ASSUME NEW i, NEW change, db' = UpdateAccount(db, i, change),
             DOMAIN change \subseteq {"grant", "password"}
      PROVE  Came /\ Stayed
  <2> DEFINE New(b) == IF b.id = i
                       THEN [f \in DOMAIN b |-> IF f \in DOMAIN change THEN change[f] ELSE b[f]]
                       ELSE b
  <2>1. \A b \in db.accounts : Same(New(b), b)
    BY <1>0, <1>3 DEF Account, Same
  <2>2. db'.accounts = {New(b) : b \in db.accounts}
    BY <1>0, <1>3 DEF UpdateAccount, Database
  <2> HIDE DEF New
  <2> QED BY <2>1, <2>2
<1>4. CASE SendsPassword(p)
  <2>1. PICK i : db' = UpdateAccount(db, i, [password |-> fresh])
    BY <1>4 DEF SendsPassword
  <2>2. DOMAIN [password |-> fresh] \subseteq {"grant", "password"}
    OBVIOUS
  <2> QED BY <1>3, <2>1, <2>2
<1>5. CASE SendsGrant(p)
  <2>1. PICK i, x : db' = GrantStored(i, x)
    BY <1>5 DEF SendsGrant
  <2>2. DOMAIN [grant |-> x] \subseteq {"grant", "password"}
    OBVIOUS
  <2> QED BY <1>1, <1>2, <1>3, <2>1, <2>2 DEF GrantStored
<1>6. CASE SendsUnlink(p)
  <2>1. PICK i \in local[p].todo : db' = DeleteAccount(db, i)
    BY <1>6 DEF SendsUnlink
  <2>2. db'.accounts = {a \in db.accounts : a.id # i}
    BY <1>0, <2>1 DEF DeleteAccount, Database
  <2> QED BY <1>1, <1>6, <2>2 DEF Same
<1>7. CASE SendsDelete(p)
  <2>1. CASE db'.accounts = db.accounts
    BY <1>1, <1>2, <2>1
  <2>2. CASE /\ pc[p] = "delete_user"
             /\ db'.users = {u \in db.users : u.id # local[p].user}
             /\ db'.accounts = {a \in db.accounts : a.user # local[p].user}
    BY <1>1, <2>2 DEF Same, UserOf
  <2> QED BY <1>7, <2>1, <2>2, DeletionRows DEF OnlyKeys
<1>8. CASE SendsCredential(p)
  <2>1. db'.accounts = db.accounts \cup {NewCredential(fresh, local[p].user, fresh + 1)}
    BY <1>0, <1>8 DEF SendsCredential, CreateAccount, Database
  <2>2. pc[p] = "add_credential"
    BY <1>8 DEF SendsCredential
  <2> QED BY <1>2, <2>1, <2>2
<1>9. CASE SendsSignUp(p)
  <2>1. db.accounts \subseteq db'.accounts /\ pc[p] = "sign_up"
    BY <1>9, SignUpRows DEF SendsSignUp
  <2> QED BY <1>2, <2>1
<1>10. CASE SendsAccount(p)
  <2> DEFINE new == [id |-> fresh, user |-> local[p].user, provider |-> "social",
                     subject |-> call[p].target, password |-> None, grant |-> local[p].row]
  <2>1. new.id = fresh /\ new.user = local[p].user /\ new.provider = "social"
    OBVIOUS
  <2>2. db' = CreateAccount(db, new) /\ pc[p] = "create_account"
    BY <1>10 DEF SendsAccount
  <2> HIDE DEF new
  <2>3. db'.accounts = db.accounts \cup {new}
    BY <1>0, <2>2 DEF CreateAccount, Database
  <2>4. \A a \in db.accounts : Same(a, a)
    BY DEF Same
  <2> QED BY <2>1, <2>2, <2>3, <2>4
<1>11. CASE \/ SendsSessions(p) \/ SendsOther(p) \/ SendsRead \/ SendsLift(p)
            \/ SendsUpdate(p) \/ SendsProfile(p) \/ SendsNewUser(p)
  <2>1. db'.accounts = db.accounts
    BY <1>11, Tables DEF SendsOther, OnlySessions, OnlyUsers, OnlySecrets, OnlyPasskeys, OnlyKeys
  <2> QED BY <1>1, <1>2, <2>1
<1> QED BY <1>4, <1>5, <1>6, <1>7, <1>8, <1>9, <1>10, <1>11 DEF Sends, SendsUser, SendsAccounts

\* Nobody but the founders has a password, and an account is only taken from a user who
\* keeps one or has a password.
ProviderOnly == ~ UnlinkAll /\ Ops \cap {"sign_up", "create_user", "reset"} = {}

\* The statements of a request that is about to give its user an account or to delete its
\* user: it gets there, or the user is known to be broken.
Ending == {"create_account", "delete_account", "delete_keys", "delete_user"}

HasAccount(i) == \E a \in db.accounts : a.user = i
KeptIn(i) ==
    \/ HasAccount(i)
    \/ i \in Founders \cup broken \cup contested
    \/ \E p \in Requests : pc[p] \in Ending /\ local[p].user = i

\* The accounts a request is going to delete are its user's,
TakesOwn(p) ==
    pc[p] \in {"has_password", "unlink", "delete_account"} =>
        /\ local[p].todo \subseteq 1 .. Len(kind)
        /\ \A a \in db.accounts : a.id \in local[p].todo => a.user = local[p].user
\* one that is unlinked is not the last of a user who has no password,
LeavesOne(p) ==
    pc[p] = "unlink" \/ (pc[p] = "has_password" /\ local[p].then # "refuse") =>
        \/ local[p].user \in Founders \cup contested
        \/ \E a \in db.accounts : a.user = local[p].user /\ a.id \notin local[p].todo
\* and those of a user who is deleted are all still there.
FindsAll(p) ==
    pc[p] = "delete_account" =>
        \A i \in local[p].todo : AccountOf(db, i) # {} \/ local[p].user \in contested
\* A password is written over that of a founder.
WritesOver(p) ==
    pc[p] = "write_password" =>
        /\ local[p].row \in 1 .. Len(kind)
        /\ \A a \in db.accounts : a.id = local[p].row => a.user \in Founders

FoundersOnly ==
    \A a \in db.accounts : a.provider = "credential" \/ a.password # None => a.user \in Founders
EveryoneKept == \A u \in db.users : KeptIn(u.id)
Asking(p) == pc[p] # "idle" => call[p].op \in Ops
Careful(p) == Asking(p) /\ TakesOwn(p) /\ LeavesOne(p) /\ FindsAll(p) /\ WritesOver(p)

Kept ==
    /\ Typed /\ Overlap
    /\ EveryoneKept /\ FoundersOnly
    /\ \A p \in Requests : Careful(p)

Minded(p) ==
    /\ Kept /\ ProviderOnly /\ contested \subseteq contested'
    /\ pc[p] # "idle" /\ Step(p) /\ Stepped(p)

\* What a request does there.
LEMMA AtEnding ==
    ASSUME Typed, NEW p \in Requests, Step(p),
           pc[p] \in Ending \cup {"unlink", "create_social_user"}
    PROVE  \/ StatementFails(p)
           \/ pc[p] = "delete_account" /\ DeleteOneAccount(p)
           \/ pc[p] = "delete_keys" /\ DeleteUserKeys(p)
           \/ pc[p] = "delete_user" /\ (RemoveUser(p) \/ DeleteOneself(p))
           \/ pc[p] = "create_account" /\ CreateSocialAccount(p)
           \/ pc[p] = "unlink" /\ Unlink(p)
           \/ pc[p] = "create_social_user" /\ CreateSocialUser(p)
<1>1. SharedStep(p) => StatementFails(p) \/ DeleteOneAccount(p) \/ DeleteUserKeys(p)
  BY DEF Ending, SharedStep, ReadBan, LiftBanAndIssue, ListAccounts
<1>2. ~ CredentialStep(p)
  BY DEF Ending, CredentialStep, CheckEmail, SignUp, CheckPassword, CheckUnverified, SignIn,
         StoreToken, FindPasswordRow, WriteNewPassword, AddPassword, DeleteToken,
         RevokeSessions, Reissue, Reread
<1>3. AdminStep(p) => RemoveUser(p)
  BY DEF Ending, AdminStep, AdminCreateUser, CheckOwnName, UpdateTarget, FindTarget,
         LiftBanFirst, Impersonate, FindAdmin, FindOwnSession, EndImpersonation,
         RevokeSession, RevokeTargetSessions
<1>4. ProfileStep(p) => DeleteOneself(p)
  BY DEF Ending, ProfileStep, CheckAddress, UpdateAddress, MailLink, FindByEmail,
         SessionForLink, ChangeAddress, MarkVerified, CheckDeletionPassword,
         StoreDeleteToken, FindDeleteToken, DeleteOwnSessions, DropDeleteToken, CreateKey
<1>5. ~ PasskeyStep(p)
  BY DEF Ending, PasskeyStep, ListPasskeys, StoreChallenge, FindRegistration, StorePasskey,
         FindPasskey, WritePasskey, FindPasskeyUser, DropChallenge, SignInWithPasskey,
         CheckOwner, RemovePasskey
<1>6. SocialStep(p) => CreateSocialAccount(p) \/ Unlink(p) \/ CreateSocialUser(p)
  BY DEF Ending, SocialStep, StoreState, FindLinkUser, FindLinked, DropState, FindAccount,
         WriteTokens, FindAccountUser, MarkReported, OverrideUser, FindByReport,
         SocialSession, FindInfo, FindTokens, Exchange, AnswerFromCookie,
         ListToUnlink, HasPassword
<1> QED BY <1>1, <1>2, <1>3, <1>4, <1>5, <1>6
        DEF Step, DeleteOneAccount, DeleteUserKeys, RemoveUser, DeleteOneself, DeleteUserRow,
            CreateSocialAccount, Unlink, CreateSocialUser

\* What a step does to the accounts of a server that everyone signs in to with a provider.
LEMMA Accounting ==
    ASSUME NEW p \in Requests, Minded(p)
    PROVE  /\ Typed /\ Overlap /\ FoundersOnly /\ EveryoneKept /\ pc[p] # "idle" /\ Careful(p)
           /\ Sends(p) /\ Step(p) /\ contested \subseteq contested' /\ broken \subseteq broken'
           /\ \A q \in Requests \ {p} : /\ pc'[q] = pc[q] /\ call'[q] = call[q]
                                        /\ local'[q] = local[q]
           /\ Len(kind) \in Nat /\ Len(kind') \in Nat /\ Len(kind) <= Len(kind')
           /\ fresh = Len(kind) + 1
           /\ pc[p] \notin {"sign_up", "create_user", "add_credential"}
           /\ \A a \in db'.accounts :
                 \/ \E b \in db.accounts : Same(a, b)
                 \/ /\ pc[p] = "create_account" /\ a.id = fresh
                    /\ a.user = local[p].user /\ a.provider = "social"
           /\ \A a \in db.accounts :
                 \/ \E b \in db'.accounts : Same(b, a)
                 \/ /\ pc[p] \in {"delete_account", "unlink"} /\ a.id \in local[p].todo
                    /\ a.user = local[p].user
                 \/ pc[p] = "delete_user" /\ a.user = local[p].user /\ UserOf(db', a.user) = {}
<1>0. /\ Typed /\ Overlap /\ FoundersOnly /\ EveryoneKept /\ pc[p] # "idle" /\ Careful(p)
      /\ Sends(p) /\ Step(p) /\ Left /\ Settled(p) /\ contested \subseteq contested'
  BY DEF Minded, Kept, Stepped
<1>1. \A q \in Requests \ {p} : pc'[q] = pc[q] /\ call'[q] = call[q] /\ local'[q] = local[q]
  BY <1>0 DEF Settled
<1>2. broken \subseteq broken'
  BY <1>0, BrokenGrows
<1>3. Len(kind) \in Nat /\ Len(kind') \in Nat /\ Len(kind) <= Len(kind') /\ fresh = Len(kind) + 1
  BY <1>0, Now DEF Left
<1>4. pc[p] \notin {"sign_up", "create_user", "add_credential"}
  <2>1. At(pc[p], call[p], local[p])
    BY <1>0, StillThere
  <2>2. call[p].op \notin {"sign_up", "create_user", "reset"}
    BY <1>0 DEF Careful, Asking, Minded, ProviderOnly
  <2> QED BY <2>1, <2>2 DEF At
<1>5. \A a \in db'.accounts :
         \/ \E b \in db.accounts : Same(a, b)
         \/ /\ pc[p] = "create_account" /\ a.id = fresh
            /\ a.user = local[p].user /\ a.provider = "social"
  BY <1>0, <1>4, AccountsStay
<1>6. ASSUME NEW a \in db.accounts
      PROVE  \/ \E b \in db'.accounts : Same(b, a)
             \/ /\ pc[p] \in {"delete_account", "unlink"} /\ a.id \in local[p].todo
                /\ a.user = local[p].user
             \/ pc[p] = "delete_user" /\ a.user = local[p].user /\ UserOf(db', a.user) = {}
  <2>1. CASE SendsUnlink(p) /\ a.id \in local[p].todo
    BY <1>0, <2>1 DEF SendsUnlink, Careful, TakesOwn
  <2> QED BY <1>0, <2>1, AccountsStay
<1> QED BY <1>0, <1>1, <1>2, <1>3, <1>4, <1>5, <1>6

LEMMA FoundersStay ==
    ASSUME NEW p \in Requests, Minded(p)
    PROVE  FoundersOnly'
<1>0. /\ Typed /\ FoundersOnly /\ pc[p] # "idle" /\ Sends(p) /\ Careful(p)
      /\ pc[p] \notin {"sign_up", "add_credential"}
      /\ \A a \in db'.accounts : \/ \E b \in db.accounts : Same(a, b)
                                 \/ a.user = local[p].user /\ a.provider = "social"
  BY Accounting
<1>1. ASSUME NEW a \in db'.accounts, a.provider = "credential"
      PROVE  a.user \in Founders
  BY <1>0, <1>1 DEF Same, FoundersOnly
<1>2. ASSUME NEW a \in db'.accounts, a.password # None
      PROVE  a.user \in Founders
  <2>1. CASE \E b \in db.accounts : b.id = a.id /\ b.user = a.user /\ b.password = a.password
    BY <1>0, <1>2, <2>1 DEF FoundersOnly
  <2>2. CASE /\ SendsPassword(p) /\ a.id = local[p].row
             /\ \E b \in db.accounts : b.id = a.id /\ b.user = a.user
    BY <1>0, <2>2 DEF SendsPassword, Careful, WritesOver
  <2>3. ~ SendsSignUp(p) /\ ~ SendsCredential(p)
    BY <1>0 DEF SendsSignUp, SendsCredential
  <2> QED BY <1>0, <1>2, <2>1, <2>2, <2>3, MoreAccounts
<1> QED BY <1>1, <1>2 DEF FoundersOnly

\* The other requests have the accounts in hand they had, unless two were at work on the user.
LEMMA OthersCareful ==
    ASSUME NEW p \in Requests, Minded(p), NEW q \in Requests \ {p}
    PROVE  Careful(q)'
<1>0. /\ Typed /\ Overlap /\ pc[p] # "idle" /\ contested \subseteq contested'
      /\ pc'[q] = pc[q] /\ call'[q] = call[q] /\ local'[q] = local[q]
      /\ Len(kind) \in Nat /\ Len(kind') \in Nat /\ Len(kind) <= Len(kind') /\ fresh = Len(kind) + 1
  BY Accounting
<1>1. Careful(q)
  BY DEF Minded, Kept
<1>2. \A i : i \in 1 .. Len(kind) => i \in 1 .. Len(kind') /\ i # fresh
  BY <1>0
<1>3. \A a \in db'.accounts : a.id = fresh \/ \E b \in db.accounts : Same(a, b)
  BY Accounting
<1>4. ASSUME pc[q] # "idle", NEW a \in db.accounts, a.user = local[q].user
      PROVE  (\E b \in db'.accounts : Same(b, a)) \/ local[q].user \in contested'
  <2>1. CASE \E b \in db'.accounts : Same(b, a)
    BY <2>1
  <2>2. CASE a.user = local[p].user
    <3>1. a.user # None
      BY <1>0, Now DEF Database, Account, None, Id
    <3>2. a.user \in Touched(p) \cap Touched(q)
      BY <1>0, <1>4, <2>2, <3>1 DEF Touched
    <3> QED BY <1>0, <1>4, <3>2, Met
  <2> QED BY <2>1, <2>2, Accounting
<1>5. TakesOwn(q)'
  <2> SUFFICES ASSUME pc[q] \in {"has_password", "unlink", "delete_account"}
               PROVE  /\ local[q].todo \subseteq 1 .. Len(kind')
                      /\ \A a \in db'.accounts : a.id \in local[q].todo => a.user = local[q].user
    BY <1>0 DEF TakesOwn
  <2>1. /\ local[q].todo \subseteq 1 .. Len(kind)
        /\ \A a \in db.accounts : a.id \in local[q].todo => a.user = local[q].user
    BY <1>1 DEF Careful, TakesOwn
  <2> QED BY <1>2, <1>3, <2>1 DEF Same
<1>6. LeavesOne(q)'
  <2> SUFFICES ASSUME pc[q] = "unlink" \/ (pc[q] = "has_password" /\ local[q].then # "refuse")
               PROVE  \/ local[q].user \in Founders \cup contested'
                      \/ \E a \in db'.accounts : a.user = local[q].user /\ a.id \notin local[q].todo
    BY <1>0 DEF LeavesOne
  <2>1. \/ local[q].user \in Founders \cup contested
        \/ \E a \in db.accounts : a.user = local[q].user /\ a.id \notin local[q].todo
    BY <1>1 DEF Careful, LeavesOne
  <2> QED BY <1>0, <1>4, <2>1 DEF Same
<1>7. FindsAll(q)'
  <2> SUFFICES ASSUME pc[q] = "delete_account", NEW i \in local[q].todo,
                      local[q].user \notin contested'
               PROVE  \E a \in db'.accounts : a.id = i
    BY <1>0 DEF FindsAll, AccountOf
  <2>1. PICK a \in db.accounts : a.id = i
    BY <1>0, <1>1 DEF Careful, FindsAll, AccountOf
  <2>2. a.user = local[q].user
    BY <1>1, <2>1 DEF Careful, TakesOwn
  <2> QED BY <1>4, <2>1, <2>2 DEF Same
<1>8. WritesOver(q)'
  <2> SUFFICES ASSUME pc[q] = "write_password"
               PROVE  /\ local[q].row \in 1 .. Len(kind')
                      /\ \A a \in db'.accounts : a.id = local[q].row => a.user \in Founders
    BY <1>0 DEF WritesOver
  <2>1. /\ local[q].row \in 1 .. Len(kind)
        /\ \A a \in db.accounts : a.id = local[q].row => a.user \in Founders
    BY <1>1 DEF Careful, WritesOver
  <2> QED BY <1>2, <1>3, <2>1 DEF Same
<1>9. Asking(q)'
  BY <1>0, <1>1 DEF Careful, Asking
<1> QED BY <1>5, <1>6, <1>7, <1>8, <1>9 DEF Careful

\* The request itself.
LEMMA StaysCareful ==
    ASSUME NEW p \in Requests, Minded(p)
    PROVE  Careful(p)'
<1>0. /\ Typed /\ FoundersOnly /\ pc[p] # "idle" /\ Careful(p) /\ Step(p)
      /\ contested \subseteq contested' /\ ~ UnlinkAll
      /\ Len(kind) \in Nat /\ Len(kind') \in Nat /\ Len(kind) <= Len(kind')
  BY Accounting DEF Minded, ProviderOnly
<1>1. /\ db \in Database /\ local[p] \in Local
      /\ \A a \in db.accounts : a.id \in 1 .. Len(kind) /\ a.id \in 1 .. Len(kind')
      /\ \A a, b \in db.accounts : a.id = b.id => a = b
  <2>1. /\ db \in Database /\ local[p] \in Local /\ Sound(db) /\ Drawn(db, Len(kind))
    BY <1>0, Now, StillThere DEF Good
  <2>2. \A a \in db.accounts : a.id \in Nat \ {0} /\ a.id <= Len(kind)
    BY <2>1 DEF Database, Account, Id, Drawn
  <2> QED BY <1>0, <2>1, <2>2 DEF Sound
<1>2. Asking(p)'
  BY <1>0, EveryOnward DEF Careful, Asking, Onward
<1>3. ASSUME pc'[p] = "has_password"
      PROVE  TakesOwn(p)' /\ LeavesOne(p)'
  <2> DEFINE own == AccountsOf(db, local[p].user)
             named == NamedBy(call[p], own)
  <2>1. ListToUnlink(p)
    BY <1>0, <1>3, Enters
  <2>2. PICK a \in named :
           Goto(p, "has_password",
                [local[p] EXCEPT !.todo = {a.id}, !.then = IfNoPassword(own \ named)])
    BY <1>0, <1>3, <2>1, Lands DEF ListToUnlink
  <2>3. /\ local'[p].todo = {a.id} /\ local'[p].user = local[p].user
        /\ local'[p].then = IfNoPassword(own \ named)
    <3> DEFINE kept(x, y) == [local[p] EXCEPT !.todo = x, !.then = y]
    <3>1. \A x, y : kept(x, y).todo = x /\ kept(x, y).then = y /\ kept(x, y).user = local[p].user
      BY <1>1 DEF Local
    <3>2. local'[p] = kept({a.id}, IfNoPassword(own \ named))
      BY <1>0, <2>2, Lands
    <3> HIDE DEF kept
    <3> QED BY <3>1, <3>2
  <2>4. a \in db.accounts /\ a.user = local[p].user
    BY DEF NamedBy, AccountsOf
  <2>5. db' = db
    BY <2>1 DEF ListToUnlink
  <2>6. TakesOwn(p)'
    BY <1>1, <2>3, <2>4, <2>5 DEF TakesOwn
  <2>7. ASSUME local'[p].then # "refuse"
        PROVE  \E b \in db.accounts : b.user = local[p].user /\ b.id # a.id
    <3>1. PICK b \in own \ named : TRUE
      BY <1>0, <2>3, <2>7 DEF IfNoPassword
    <3>2. b \in db.accounts /\ b.user = local[p].user
      BY DEF AccountsOf
    <3> QED BY <1>1, <2>4, <3>1, <3>2
  <2>8. LeavesOne(p)'
    BY <1>3, <2>3, <2>5, <2>7 DEF LeavesOne
  <2> QED BY <2>6, <2>8
<1>4. ASSUME pc'[p] = "unlink"
      PROVE  TakesOwn(p)' /\ LeavesOne(p)'
  <2>1. HasPassword(p)
    BY <1>0, <1>4, Enters
  <2>2. /\ local'[p] = local[p] /\ db' = db /\ kind' = kind
        /\ \/ \E a \in CredentialOf(db, local[p].user) : a.password # None
           \/ local[p].then # "refuse"
    BY <1>0, <1>4, <2>1, Lands DEF HasPassword, KeepIds
  <2>3. pc[p] = "has_password"
    BY <2>1 DEF HasPassword
  <2>4. TakesOwn(p)'
    BY <1>0, <2>2, <2>3 DEF Careful, TakesOwn
  <2>5. \A a \in CredentialOf(db, local[p].user) : a.user \in Founders /\ a.user = local[p].user
    BY <1>0 DEF CredentialOf, AccountsOf, FoundersOnly
  <2>6. LeavesOne(p)'
    BY <1>0, <2>2, <2>3, <2>5 DEF Careful, LeavesOne
  <2> QED BY <2>4, <2>6
<1>5. ASSUME pc'[p] = "delete_account"
      PROVE  TakesOwn(p)' /\ FindsAll(p)'
  <2>1. CASE ListAccounts(p)
    <3> DEFINE ids == {a.id : a \in AccountsOf(db, local[p].user)}
    <3>1. local'[p] = [local[p] EXCEPT !.todo = ids] /\ db' = db
      BY <1>0, <2>1, Lands DEF ListAccounts
    <3>2. local'[p].todo = ids /\ local'[p].user = local[p].user
      BY <1>1, <3>1 DEF Local
    <3>3. \A i \in ids : \E a \in db.accounts : a.id = i /\ a.user = local[p].user
      BY DEF AccountsOf
    <3>4. TakesOwn(p)'
      <4>1. ids \subseteq 1 .. Len(kind')
        BY <1>1, <3>3
      <4>2. \A a \in db.accounts : a.id \in ids => a.user = local[p].user
        BY <1>1, <3>3
      <4> QED BY <3>1, <3>2, <4>1, <4>2 DEF TakesOwn
    <3>5. FindsAll(p)'
      BY <3>1, <3>2, <3>3 DEF FindsAll, AccountOf
    <3> QED BY <3>4, <3>5
  <2>2. CASE DeleteOneAccount(p)
    <3>0. pc[p] = "delete_account" /\ kind' = kind
      BY <2>2 DEF DeleteOneAccount, KeepIds
    <3>1. PICK i \in local[p].todo : \E x :
             /\ db' = DeleteAccount(db, i)
             /\ Goto(p, x, [local[p] EXCEPT !.todo = local[p].todo \ {i}])
      BY <1>0, <1>5, <2>2, Lands DEF DeleteOneAccount
    <3>2. local'[p] = [local[p] EXCEPT !.todo = local[p].todo \ {i}]
      BY <1>0, <3>1, Lands
    <3>3. local'[p].todo = local[p].todo \ {i} /\ local'[p].user = local[p].user
      BY <1>1, <3>2 DEF Local
    <3>4. db'.accounts = {a \in db.accounts : a.id # i}
      BY <1>1, <3>1 DEF DeleteAccount, Database
    <3>5. TakesOwn(p)'
      <4>1. /\ local[p].todo \subseteq 1 .. Len(kind)
            /\ \A a \in db.accounts : a.id \in local[p].todo => a.user = local[p].user
        BY <1>0, <3>0 DEF Careful, TakesOwn
      <4> QED BY <3>0, <3>3, <3>4, <4>1 DEF TakesOwn
    <3>6. FindsAll(p)'
      <4>1. \A j \in local[p].todo : AccountOf(db, j) # {} \/ local[p].user \in contested
        BY <1>0, <3>0 DEF Careful, FindsAll
      <4>2. \A j \in local[p].todo \ {i} :
               (\E a \in db'.accounts : a.id = j) \/ local[p].user \in contested'
        BY <1>0, <3>4, <4>1 DEF AccountOf
      <4> QED BY <3>3, <4>2 DEF FindsAll, AccountOf
    <3> QED BY <3>5, <3>6
  <2> QED BY <1>0, <1>5, <2>1, <2>2, Enters
<1>6. ASSUME pc'[p] = "write_password"
      PROVE  WritesOver(p)'
  <2>1. FindPasswordRow(p)
    BY <1>0, <1>6, Enters
  <2>2. db' = db /\ pc[p] = "find_credential"
    BY <2>1 DEF FindPasswordRow, FindCredential
  <2>3. PICK a \in CredentialOf(db, local[p].user) :
           Goto(p, "write_password", [local[p] EXCEPT !.row = a.id])
    BY <1>0, <1>6, <2>1, Lands DEF FindPasswordRow, FindCredential
  <2>4. local'[p].row = a.id
    BY <1>0, <1>1, <2>3, Lands DEF Local
  <2>5. a \in db.accounts /\ a.user \in Founders
    BY <1>0 DEF CredentialOf, AccountsOf, FoundersOnly
  <2> QED BY <1>1, <2>2, <2>4, <2>5 DEF WritesOver
<1>7. (pc'[p] \notin {"has_password", "unlink", "delete_account"} => TakesOwn(p)')
      /\ (pc'[p] \notin {"has_password", "unlink"} => LeavesOne(p)')
      /\ (pc'[p] # "delete_account" => FindsAll(p)')
      /\ (pc'[p] # "write_password" => WritesOver(p)')
  BY DEF TakesOwn, LeavesOne, FindsAll, WritesOver
<1> QED BY <1>2, <1>3, <1>4, <1>5, <1>6, <1>7 DEF Careful

\* A user who is to get an account gets one, and one who is to be deleted is, unless the
\* request fails or another is at work on the user.
LEMMA EndsKept ==
    ASSUME NEW p \in Requests, Minded(p), pc[p] \in Ending, NEW u \in db'.users,
           u.id = local[p].user
    PROVE  KeptIn(u.id)'
<1>0. /\ Typed /\ Careful(p) /\ Step(p) /\ contested \subseteq contested' /\ pc[p] # "idle"
      /\ db \in Database /\ local[p] \in Local
  BY Accounting, StillThere, Now
<1>1. ASSUME GiveUp(p), db' = db
      PROVE  u.id \in broken'
  <2>1. u.id # None
    BY <1>0, <1>1 DEF Database, User, None, Id
  <2>2. u.id \in Touched(p) \cap {r.id : r \in db.users \cup db.accounts}
    BY <1>0, <1>1, <2>1 DEF Touched
  <2> QED BY <1>1, <2>2 DEF GiveUp
<1>2. CASE StatementFails(p)
  BY <1>1, <1>2 DEF StatementFails, KeptIn
<1>3. ASSUME NEW label \in Ending, NEW l, l.user = local[p].user, Goto(p, label, l)
      PROVE  KeptIn(u.id)'
  BY <1>0, <1>3, Lands DEF KeptIn
<1>4. CASE pc[p] = "delete_account" /\ DeleteOneAccount(p)
  <2>1. PICK i \in local[p].todo :
           \/ AccountOf(db, i) = {}
           \/ \E label \in {"delete_keys", "delete_account"} :
                 Goto(p, label, [local[p] EXCEPT !.todo = local[p].todo \ {i}])
    BY <1>4 DEF DeleteOneAccount
  <2>2. [local[p] EXCEPT !.todo = local[p].todo \ {i}].user = local[p].user
    BY <1>0 DEF Local
  <2>3. {"delete_keys", "delete_account"} \subseteq Ending
    BY DEF Ending
  <2>4. CASE AccountOf(db, i) = {}
    BY <1>0, <1>4, <2>4 DEF Careful, FindsAll, KeptIn
  <2> QED BY <1>3, <2>1, <2>2, <2>3, <2>4
<1>5. CASE DeleteUserKeys(p)
  BY <1>3, <1>5 DEF DeleteUserKeys, UserOf, Ending
<1>6. CASE RemoveUser(p) \/ DeleteOneself(p)
  <2>1. db' = DeleteUser(db, local[p].user)
    BY <1>6 DEF RemoveUser, DeleteOneself, DeleteUserRow
  <2>2. db'.users = {w \in db.users : w.id # local[p].user}
    BY <1>0, <2>1 DEF DeleteUser, Database
  <2> QED BY <2>2
<1>7. CASE pc[p] = "create_account" /\ CreateSocialAccount(p)
  <2> DEFINE a == [id |-> fresh, user |-> local[p].user, provider |-> "social",
                   subject |-> call[p].target, password |-> None, grant |-> local[p].row]
  <2>1. a.user = local[p].user
    OBVIOUS
  <2>2. (db' = db /\ GiveUp(p)) \/ db' = CreateAccount(db, a)
    BY <1>7 DEF CreateSocialAccount
  <2> HIDE DEF a
  <2>3. CASE db' = CreateAccount(db, a)
    <3>1. db'.accounts = db.accounts \cup {a}
      BY <1>0, <2>3 DEF CreateAccount, Database
    <3> QED BY <2>1, <3>1 DEF KeptIn, HasAccount
  <2> QED BY <1>1, <2>2, <2>3 DEF KeptIn
<1> QED BY <1>0, <1>2, <1>4, <1>5, <1>6, <1>7, AtEnding DEF Ending

LEMMA EveryoneStaysKept ==
    ASSUME NEW p \in Requests, Minded(p)
    PROVE  EveryoneKept'
<1>0. /\ Typed /\ EveryoneKept /\ Careful(p) /\ Sends(p) /\ Step(p) /\ pc[p] # "idle"
      /\ contested \subseteq contested' /\ broken \subseteq broken'
      /\ pc[p] \notin {"sign_up", "create_user"}
      /\ \A q \in Requests \ {p} : pc'[q] = pc[q] /\ local'[q] = local[q]
  BY Accounting
<1> SUFFICES ASSUME NEW u \in db'.users
             PROVE  KeptIn(u.id)'
  BY DEF EveryoneKept
<1>1. CASE pc[p] \in Ending /\ local[p].user = u.id
  BY <1>1, EndsKept
<1>2. ASSUME NEW a \in db.accounts, a.user = u.id
      PROVE  KeptIn(u.id)'
  <2>1. ASSUME NEW b \in db.accounts, b.user = u.id, \E c \in db'.accounts : Same(c, b)
        PROVE  KeptIn(u.id)'
    BY <2>1 DEF KeptIn, HasAccount, Same
  <2>2. UserOf(db', u.id) # {}
    BY DEF UserOf
  <2>3. CASE pc[p] = "delete_account" /\ a.user = local[p].user
    BY <1>1, <1>2, <2>3 DEF Ending
  <2>4. CASE pc[p] = "unlink" /\ a.user = local[p].user
    <3>1. CASE local[p].user \in Founders \cup contested
      BY <1>0, <1>2, <2>4, <3>1 DEF KeptIn
    <3>2. ASSUME NEW b \in db.accounts, b.user = local[p].user, b.id \notin local[p].todo
          PROVE  KeptIn(u.id)'
      <4>1. \E c \in db'.accounts : Same(c, b)
        BY <2>4, <3>2, Accounting
      <4> QED BY <1>2, <2>1, <2>4, <3>2, <4>1
    <3> QED BY <1>0, <2>4, <3>1, <3>2 DEF Careful, LeavesOne
  <2>5. \/ \E c \in db'.accounts : Same(c, a)
        \/ pc[p] \in {"delete_account", "unlink"} /\ a.user = local[p].user
        \/ UserOf(db', a.user) = {}
    BY <1>2, Accounting, Zenon
  <2> QED BY <1>2, <2>1, <2>2, <2>3, <2>4, <2>5
<1>3. CASE \E w \in db.users : w.id = u.id
  <2>1. KeptIn(u.id)
    BY <1>0, <1>3 DEF EveryoneKept
  <2>2. CASE HasAccount(u.id)
    BY <1>2, <2>2 DEF HasAccount
  <2>3. CASE u.id \in Founders \cup broken \cup contested
    BY <1>0, <2>3 DEF KeptIn
  <2>4. ASSUME NEW q \in Requests \ {p}, pc[q] \in Ending, local[q].user = u.id
        PROVE  KeptIn(u.id)'
    BY <1>0, <2>4 DEF KeptIn
  <2> QED BY <1>1, <2>1, <2>2, <2>3, <2>4 DEF KeptIn
<1>4. CASE u.id = fresh /\ Becomes(fresh, "user") /\ (SendsNewUser(p) \/ SendsSignUp(p))
  <2>1. pc[p] = "create_social_user"
    BY <1>0, <1>4 DEF SendsNewUser, SendsSignUp
  <2>2. Len(kind) \in Nat /\ fresh = Len(kind) + 1
    BY <1>0, Now
  <2>3. ~ KeepIds
    BY <1>4, <2>2 DEF KeepIds, Becomes
  <2>4. CreateSocialUser(p)
    BY <1>0, <2>1, <2>3, AtEnding DEF Ending, StatementFails
  <2>5. Goto(p, "create_account", [local[p] EXCEPT !.user = fresh, !.got = {fresh}])
    BY <2>3, <2>4 DEF CreateSocialUser
  <2>6. local'[p].user = fresh /\ pc'[p] = "create_account"
    <3> DEFINE l == [local[p] EXCEPT !.user = fresh, !.got = {fresh}]
    <3>1. l.user = fresh
      BY <1>0, StillThere DEF Local
    <3>2. Goto(p, "create_account", l)
      BY <2>5
    <3> HIDE DEF l
    <3> QED BY <1>0, <3>1, <3>2, Lands
  <2> QED BY <1>4, <2>6 DEF KeptIn, Ending
<1> QED BY <1>0, <1>3, <1>4, MoreUsers

LEMMA KeptStays ==
    ASSUME ProviderOnly, Kept, [Next]_vars
    PROVE  Kept'
<1>0. /\ Typed /\ Overlap /\ EveryoneKept /\ FoundersOnly
      /\ \A p \in Requests : Careful(p)
  BY DEF Kept
<1>1. Typed' /\ Overlap' /\ contested \subseteq contested'
  BY <1>0, TypedStays, OverlapStays
<1>2. ASSUME db'.accounts = db.accounts, kind' = kind, broken' = broken,
             \A u \in db'.users : \E w \in db.users : w.id = u.id,
             \A q \in Requests : \/ pc[q] = "idle" /\ Careful(q)'
                                 \/ /\ pc'[q] = pc[q] /\ call'[q] = call[q]
                                    /\ local'[q] = local[q]
      PROVE  Kept'
  <2>1. FoundersOnly'
    BY <1>0, <1>2 DEF FoundersOnly
  <2>2. \A q \in Requests : pc[q] \in Ending => pc'[q] = pc[q] /\ local'[q] = local[q]
    BY <1>2 DEF Ending
  <2>3. ASSUME NEW u \in db'.users
        PROVE  KeptIn(u.id)'
    <3>1. KeptIn(u.id)
      BY <1>0, <1>2 DEF EveryoneKept
    <3> QED BY <1>1, <1>2, <2>2, <3>1 DEF KeptIn, HasAccount
  <2>4. ASSUME NEW q \in Requests, pc'[q] = pc[q], call'[q] = call[q], local'[q] = local[q]
        PROVE  Careful(q)'
    <3>1. Careful(q)
      BY <1>0
    <3>2. Asking(q)' /\ TakesOwn(q)' /\ WritesOver(q)'
      BY <1>2, <2>4, <3>1 DEF Careful, Asking, TakesOwn, WritesOver
    <3>3. LeavesOne(q)' /\ FindsAll(q)'
      BY <1>1, <1>2, <2>4, <3>1 DEF Careful, LeavesOne, FindsAll, AccountOf
    <3> QED BY <3>2, <3>3 DEF Careful
  <2>5. \A q \in Requests : Careful(q)'
    BY <1>2, <2>4
  <2> QED BY <1>1, <2>1, <2>3, <2>5 DEF Kept, EveryoneKept
<1>3. CASE UNCHANGED vars
  BY <1>2, <1>3 DEF vars, history
<1>4. CASE BansEnd
  BY <1>0, <1>2, <1>4, BanRows DEF OnlyUsers, UserOf
<1>5. ASSUME NEW p \in Requests, pc[p] = "idle", Arrived(p), NEW op \in Ops,
             NEW c \in Possible(op), Arrives(p, c)
      PROVE  Kept'
  <2>0. /\ db' = db /\ kind' = kind
        /\ \A q \in Requests \ {p} : pc'[q] = pc[q] /\ local'[q] = local[q] /\ call'[q] = call[q]
    BY <1>5 DEF Arrived, SendsRead, KeepIds, Settled
  <2>1. call'[p].op = op /\ broken' = broken
    BY <1>0, <1>5, GrantArrives
  <2>2. pc'[p] \notin {"has_password", "unlink", "delete_account", "write_password"}
    BY <1>0, <1>5, Begins DEF Spoilable
  <2>3. Careful(p)'
    BY <1>5, <2>1, <2>2 DEF Careful, Asking, TakesOwn, LeavesOne, FindsAll, WritesOver
  <2> QED BY <1>2, <1>5, <2>0, <2>1, <2>3
<1>6. ASSUME NEW p \in Requests, pc[p] # "idle", Step(p), Stepped(p)
      PROVE  Kept'
  <2>1. Minded(p)
    BY <1>1, <1>6 DEF Minded
  <2>2. \A q \in Requests : Careful(q)'
    BY <2>1, StaysCareful, OthersCareful
  <2> QED BY <1>1, <2>1, <2>2, FoundersStay, EveryoneStaysKept DEF Kept
<1>7. CASE Next
  BY <1>0, <1>4, <1>5, <1>6, <1>7, Moves
<1> QED BY <1>3, <1>7

LEMMA InitKept ==
    ASSUME Init
    PROVE  Kept
<1>1. Typed /\ Overlap
  BY InitTyped, InitOverlap
<1>2. FoundersOnly
  <2>1. db.accounts = {NewCredential(2, 1, 3), NewCredential(6, 5, 7)}
    BY DEF Init
  <2> QED BY <2>1 DEF NewCredential, FoundersOnly, Founders
<1>3. EveryoneKept
  <2>1. \A u \in db.users : u.id \in {1, 5}
    BY DEF Init, NewUser
  <2> QED BY <2>1 DEF EveryoneKept, KeptIn, Founders
<1>4. \A p \in Requests : pc[p] = "idle"
  BY DEF Init
<1> QED BY <1>1, <1>2, <1>3, <1>4
        DEF Kept, Careful, Asking, TakesOwn, LeavesOne, FindsAll, WritesOver

\* Whoever signs up at the provider keeps an account to sign in with, unless a statement
\* failed or two requests were at work on the user at once, where unlinking all is not
\* allowed and nobody gets a password who did not have one.
THEOREM NobodyIsStranded ==
    ASSUME ProviderOnly
    PROVE  Spec => []NobodyStranded
<1>1. Init => Kept
  BY InitKept
<1>2. Kept /\ [Next]_vars => Kept'
  BY KeptStays
<1>3. Kept => NobodyStranded
  BY DEF Kept, EveryoneKept, KeptIn, HasAccount, NobodyStranded, AccountsOf
<1> QED BY <1>1, <1>2, <1>3, PTL DEF Spec
=============================================================================
