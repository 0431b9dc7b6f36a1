---------------------------- MODULE SocialSignIn ----------------------------
(***************************************************************************)
(* Signing in with a social provider and linking its accounts:             *)
(* crates/api/src/plugins/oauth and account_management.rs, with one        *)
(* provider.  What the provider does is taken from how its answers are     *)
(* used: it gives a set of tokens for a code, vouches for an address or    *)
(* does not, and replaces a refresh token each time that one is used.      *)
(* Redirects, PKCE, scopes and the encryption of stored tokens are left    *)
(* out: they change neither who is signed in nor what is stored.           *)
(***************************************************************************)
EXTENDS Passkeys

CONSTANTS
    Reports,            \* what the provider can report of the accounts people have there
    StateInCookie,      \* account.store_state_strategy is Cookie
    SkipStateCheck,     \* account.skip_state_cookie_check
    AccountCookies,     \* account.store_account_cookie
    UpdateOnSignIn,     \* account.update_account_on_sign_in
    OverrideInfo,       \* provider.override_user_info_on_sign_in
    SocialSignUp,       \* neither disable_sign_up nor disable_implicit_sign_up applies
    Linking,            \* account_linking.enabled
    ImplicitLinking,    \* not account_linking.disable_implicit_linking
    Trusted,            \* the provider is in account_linking.trusted_providers
    LocalVerified,      \* account_linking.require_local_email_verified
    OtherEmails,        \* account_linking.allow_different_emails
    UnlinkAll           \* account_linking.allow_unlinking_all

ASSUME SocialAssumption ==
    /\ Reports \subseteq [who : Id, email : Emails, vouched : BOOLEAN]
    /\ {StateInCookie, SkipStateCheck, AccountCookies, UpdateOnSignIn, OverrideInfo,
        SocialSignUp, Linking, ImplicitLinking, Trusted, LocalVerified, OtherEmails,
        UnlinkAll} \subseteq BOOLEAN

SocialOps == {"social_sign_in", "link_social", "callback", "id_token_sign_in",
              "link_id_token", "refresh_token", "get_access_token", "account_info",
              "unlink"}

\* The cookie that keeps a copy of an account's tokens.
AccountCookie(account, user, grant) == [account |-> account, user |-> user, grant |-> grant]
CookiesOut == {k \in signed : DOMAIN k = {"account", "user", "grant"}}

\* Where the state of a flow is kept: in the database, or in a signed cookie.
States(d) == IF StateInCookie THEN signed \cap Verification ELSE d.verifications
StateOf(d, i) == {v \in States(d) : v.id = i /\ v.purpose = "state"}

\* The provider vouches for the address it reports: its owner can read its mail.
Vouched(c) == "box" \in DOMAIN c.change
Reporting(c, r) ==
    [c EXCEPT !.target = r.who, !.email = r.email,
              !.change = IF r.vouched THEN [box |-> r.email] ELSE Nothing]
Reported(part) == {Reporting(c, r) : c \in Calls(part), r \in Reports}

\* The requests clients can send.  The flag says, of a callback, that the browser
\* has the cookie of its state; of get-access-token and account-info, that the token
\* has expired.
SocialRequests(op) ==
    CASE op = "social_sign_in" -> Calls(Only(op))
      [] op = "link_social" -> Calls([Only(op) EXCEPT !.cookie = Known("session")])
      [] op = "callback" ->
           Reported([Only(op) EXCEPT !.secret = Known("state"), !.flag = BOOLEAN])
             \cup Calls([Only(op) EXCEPT !.secret = Known("state"), !.flag = {TRUE}])
      [] op = "id_token_sign_in" -> Reported(Only(op))
      [] op = "link_id_token" ->
           Reported([Only(op) EXCEPT !.cookie = Known("session")])
      [] op \in {"refresh_token", "get_access_token"} ->
           Calls([Only(op) EXCEPT !.cookie = Known("session"),
                                  !.change = CookiesOut \cup {Nothing},
                                  !.flag = IF op = "refresh_token" THEN {TRUE} ELSE BOOLEAN])
      [] op = "account_info" ->
           Calls([Only(op) EXCEPT !.cookie = Known("session"),
                                  !.target = {r.who : r \in Reports} \cup {None},
                                  !.change = CookiesOut \cup {Nothing}, !.flag = BOOLEAN])
      [] op = "unlink" ->
           Calls([Only(op) EXCEPT !.cookie = Known("session"),
                                  !.target = {a.id : a \in db.accounts}])
             \cup Calls([Only(op) EXCEPT !.cookie = Known("session"),
                                         !.change = [provider : Providers]])

\* complete_link_social and process_oauth_sign_in may link what the provider reports
\* to a user whose address is known to be theirs.
LinkAllowed(c) == Linking /\ (Trusted \/ Vouched(c))
\* A user who asks for a link gets it, if the provider vouches for enough.
LinkMatches(c, email) == LinkAllowed(c) /\ (OtherEmails \/ c.email = email)

\* Seeded fault: whoever reports the address of a user is that user.
AnyLinkable(c, u) == Linking /\ ImplicitLinking
Linkable(c, u) == LinkAllowed(c) /\ ImplicitLinking /\ (LocalVerified => u.verified)

\* What entitles a request, with what it has found out in l, to its answer.  The
\* rows that it created itself are in l.got.
SocialClaim(r, d, c, l) ==
    CASE r = "who" /\ c.op \in {"link_social", "link_id_token", "refresh_token",
                                "get_access_token", "account_info", "unlink"} ->
           \E s \in Caller(d, c) : s.user = l.user
      [] r = "who" /\ c.op \in {"callback", "id_token_sign_in"} ->
           \/ l.link.email # NoText
           \/ l.user \in l.got
           \/ \E a \in AccountAt(d, "social", c.target) : a.user = l.user /\ a.id \notin l.got
           \/ /\ Trusted \/ Vouched(c)
              /\ \E u \in UsersMailed(d, c.email) : u.id = l.user /\ (u.verified \/ ~ LocalVerified)
      [] r = "proof" /\ c.op = "callback" ->
           /\ SkipStateCheck \/ StateInCookie \/ c.flag
           /\ \E v \in StateOf(d, c.secret) : v.about \in {None, l.user}
      [] r = "proof" /\ c.op = "link_id_token" ->
           \/ \E a \in AccountAt(d, "social", c.target) : a.user = l.user /\ a.id \notin l.got
           \/ LinkAllowed(c)
      [] r = "proof" /\ c.op = "account_info" -> c.target = None => c.change.user = l.user
      [] r = "admitted" /\ c.op \in {"callback", "id_token_sign_in"} /\ l.link.email = NoText ->
           AdminPlugin => \E u \in UserOf(d, l.user) : ~ InForce(u)
      [] OTHER -> TRUE

-----------------------------------------------------------------------------
(* Starting a flow: initiate_oauth_flow_core.                              *)

\* The state of a flow says whose account is to be linked, if one is.
StoreState(p) ==
    LET v == [NewVerification(fresh, "state", local[p].user)
                EXCEPT !.email = local[p].link.email]
    IN
    /\ pc[p] = "store_state"
    /\ IF StateInCookie THEN signed' = signed \cup {v} /\ UNCHANGED db
       ELSE db' = CreateVerification(db, v) /\ UNCHANGED signed
    /\ Draw(<<"state">>)
    /\ Answer(p, [local[p] EXCEPT !.got = {fresh}])

StartArrives(p, c) ==
    /\ c.op = "social_sign_in"
    /\ Arrive(p, c, "store_state", Blank)

\* Linking starts from a session, and so does linking with an id token.
LinkArrives(p, c) ==
    /\ c.op \in {"link_social", "link_id_token"}
    /\ \E s \in Caller(db, c) :
          Arrive(p, c, IF c.op = "link_social" THEN "find_link_user" ELSE "find_linked",
                 [Blank EXCEPT !.user = s.user])

\* The user is read for their address: it goes into the state, or must be the one
\* the provider reports.
FindLinkUser(p) ==
    /\ pc[p] = "find_link_user"
    /\ UNCHANGED <<db, signed>> /\ KeepIds
    /\ \/ UserOf(db, local[p].user) = {} /\ Refuse(p)
       \/ \E u \in UserOf(db, local[p].user) :
             IF call[p].op = "link_social"
             THEN Goto(p, "store_state", [local[p] EXCEPT !.link.email = u.email])
             ELSE IF LinkMatches(call[p], u.email)
                  THEN Goto(p, "create_account", local[p]) ELSE Refuse(p)

\* An id token for an account that is the user's already changes nothing.
FindLinked(p) ==
    /\ pc[p] = "find_linked"
    /\ UNCHANGED <<db, signed>> /\ KeepIds
    /\ IF \E a \in AccountAt(db, "social", call[p].target) : a.user = local[p].user
       THEN Answer(p, local[p]) ELSE Goto(p, "find_link_user", local[p])

-----------------------------------------------------------------------------
(* Coming back: handle_callback.                                           *)

\* A POST is answered with a redirect to the GET form and changes nothing: only
\* the GET arrives here.
CallbackArrives(p, c) ==
    /\ c.op = "callback"
    /\ StateInCookie \/ SkipStateCheck \/ c.flag
    /\ \E v \in StateOf(db, c.secret) :
          Arrive(p, c, "drop_state",
                 [Blank EXCEPT !.user = v.about, !.link.email = v.email, !.spent = {v.id}])

IdTokenArrives(p, c) ==
    /\ c.op = "id_token_sign_in"
    /\ Arrive(p, c, "find_account", Blank)

StateGone(i) == IF StateInCookie THEN db ELSE DeleteVerification(db, i)

\* The state is dropped, whatever becomes of the flow; then the provider's error
\* ends it, or its tokens are fetched for the code.
DropState(p) ==
    LET c == call[p] IN
    /\ pc[p] = "drop_state"
    /\ UNCHANGED signed
    /\ db' = StateGone(c.secret)
    /\ IF c.target = None \/ (local[p].user # None /\ ~ LinkMatches(c, local[p].link.email))
       THEN KeepIds /\ Refuse(p)
       ELSE /\ Draw(<<"grant">>)
            /\ Goto(p, "find_account", [local[p] EXCEPT !.row = fresh])

\* get_account: whoever has it signs in, or is the one it was to be linked to.
FindAccount(p) ==
    LET rows == AccountAt(db, "social", call[p].target)
        links == local[p].user # None
    IN  /\ pc[p] = "find_account"
        /\ UNCHANGED <<db, signed>> /\ KeepIds
        /\ \/ rows = {} /\ Goto(p, IF links THEN "create_account" ELSE "find_by_report", local[p])
           \/ \E a \in rows :
                 IF links /\ a.user # local[p].user THEN Refuse(p)
                 ELSE Goto(p, IF links \/ UpdateOnSignIn THEN "update_account"
                              ELSE "find_account_user",
                           [local[p] EXCEPT !.user = a.user, !.todo = {a.id}])

\* Seeded fault: the new tokens are not stored.
GrantLost(i, grant) == db
\* update_account: only the tokens that there are.
GrantStored(i, grant) ==
    IF grant = None THEN db ELSE UpdateAccount(db, i, [grant |-> grant])

Refreshes(c) == c.op \in {"refresh_token", "get_access_token", "account_info"}
SignsIn(p) == ~ Refreshes(call[p]) /\ local[p].link.email = NoText

\* persist_refreshed_cookie_account: the copy of a cookie that was used is made anew.
CookieAnew(c, a, grant) ==
    IF Refreshes(c) /\ c.change # Nothing /\ c.change.account = a.id
    THEN {AccountCookie(a.id, a.user, grant)} ELSE {}

\* The provider may have no answer to account-info by then.
WriteTokens(p) ==
    LET l == local[p]
        c == call[p]
        rows == UNION {AccountOf(db, i) : i \in l.todo}
    IN  /\ pc[p] = "update_account"
        /\ KeepIds
        /\ \/ rows = {} /\ UNCHANGED <<db, signed>> /\ Refuse(p)
           \/ \E a \in rows :
                 /\ db' = GrantStored(a.id, l.row)
                 /\ \/ /\ signed' = signed \cup CookieAnew(c, a, l.row)
                       /\ Continue(p, IF SignsIn(p) THEN "find_account_user" ELSE "answer", l)
                    \/ c.op = "account_info" /\ UNCHANGED signed /\ Refuse(p)

\* What is still to be written of user u, as it was read, before the session is.
Overrides(c, u, verified) ==
    IF ~ OverrideInfo THEN "issue"
    ELSE IF u.email = c.email /\ verified THEN "override_verified"
    ELSE "override_unverified"
ThenFor(c, u) ==
    IF Vouched(c) /\ ~ u.verified /\ u.email = c.email THEN "mark_reported"
    ELSE Overrides(c, u, u.verified \/ Vouched(c))

FindAccountUser(p) ==
    /\ pc[p] = "find_account_user"
    /\ UNCHANGED <<db, signed>> /\ KeepIds
    /\ \/ UserOf(db, local[p].user) = {} /\ Refuse(p)
       \/ \E u \in UserOf(db, local[p].user) : Goto(p, ThenFor(call[p], u), local[p])

\* The address of the row as written decides what comes next.
MarkReported(p) ==
    LET u == CHOOSE w \in UserOf(db, local[p].user) : TRUE IN
    /\ pc[p] = "mark_reported"
    /\ WriteUser(p, [verified |-> TRUE],
          IF UserOf(db, local[p].user) = {} THEN "issue" ELSE Overrides(call[p], u, TRUE))

OverrideUser(p) ==
    /\ pc[p] \in {"override_verified", "override_unverified"}
    /\ WriteUser(p, [email |-> call[p].email, verified |-> pc[p] = "override_verified"],
                 "issue")

\* Nobody has the account: a user of the address gets it, or a new user does.
FindByReport(p) ==
    LET c == call[p]
        rows == UsersMailed(db, c.email)
    IN  /\ pc[p] = "find_by_report"
        /\ UNCHANGED <<db, signed>> /\ KeepIds
        /\ \/ /\ rows = {}
              /\ IF SocialSignUp
                 THEN Goto(p, "create_social_user", [local[p] EXCEPT !.then = "issue"])
                 ELSE Refuse(p)
           \/ \E u \in rows :
                 IF Linkable(c, u)
                 THEN Goto(p, "create_account",
                           [local[p] EXCEPT !.user = u.id, !.then = ThenFor(c, u)])
                 ELSE Refuse(p)

CreateSocialUser(p) ==
    LET c == call[p] IN
    /\ pc[p] = "create_social_user"
    /\ UNCHANGED signed
    /\ \/ ~ CanCreateUser(db, c.email, NoText) /\ UNCHANGED db /\ KeepIds /\ Refuse(p)
       \/ /\ CanCreateUser(db, c.email, NoText)
          /\ db' = CreateUser(db, NewUser(fresh, c.email, NoText, Vouched(c), FALSE))
          /\ Draw(<<"user">>)
          /\ Goto(p, "create_account", [local[p] EXCEPT !.user = fresh, !.got = {fresh}])

\* The account is a statement of its own, after the user's.
CreateSocialAccount(p) ==
    LET l == local[p]
        a == [id |-> fresh, user |-> l.user, provider |-> "social",
              subject |-> call[p].target, password |-> None, grant |-> l.row]
    IN  /\ pc[p] = "create_account"
        /\ UNCHANGED signed
        /\ \/ ~ CanCreateAccount(db, a) /\ UNCHANGED db /\ KeepIds /\ GiveUp(p)
           \/ /\ CanCreateAccount(db, a)
              /\ db' = CreateAccount(db, a)
              /\ Draw(<<"account">>)
              /\ Continue(p, l.then, [l EXCEPT !.got = @ \cup {fresh}, !.todo = {fresh}])

\* The session comes with a copy of the account's tokens, if it is to.
SocialSession(p) ==
    LET l == local[p]
        cookies == IF AccountCookies /\ l.row # None /\ CanCreateSession(db, l.user)
                   THEN {AccountCookie(i, l.user, l.row) : i \in l.todo} ELSE {}
    IN  /\ pc[p] = "create_session" /\ call[p].op \in {"callback", "id_token_sign_in"}
        /\ signed' = signed \cup cookies
        /\ StoreSession(p, None, None, "answer")

-----------------------------------------------------------------------------
(* The provider's tokens: get_access_token_core, which account_info_core    *)
(* calls, and refresh_token_core.                                          *)

\* The cookie's copy is the answer, or is exchanged if it has expired.
Copied(c) == IF c.flag THEN "exchange" ELSE "answer"
CopyOf(c, l) ==
    IF c.flag THEN [l EXCEPT !.row = c.change.grant, !.todo = {c.change.account}] ELSE l

\* They are taken from the cookie's copy, whoever it was signed for, or from an
\* account of the caller's.
RefreshArrives(p, c) ==
    /\ c.op \in {"refresh_token", "get_access_token"}
    /\ \E s \in Caller(db, c) :
          LET l == [Blank EXCEPT !.user = s.user] IN
          IF c.change = Nothing THEN Arrive(p, c, "find_tokens", l)
          ELSE Arrive(p, c, Copied(c), CopyOf(c, l))

\* Account-info is about an account of the caller's that it names, or about that of
\* the caller's own cookie.
InfoArrives(p, c) ==
    /\ c.op = "account_info"
    /\ \E s \in Caller(db, c) :
          LET l == [Blank EXCEPT !.user = s.user] IN
          IF c.target # None THEN Arrive(p, c, "find_info", l)
          ELSE /\ c.change # Nothing
               /\ c.change.user = s.user
               /\ Arrive(p, c, Copied(c), CopyOf(c, l))

FindInfo(p) ==
    LET c == call[p]
        rows == {a \in AccountsOf(db, local[p].user) : a.subject = c.target}
    IN  /\ pc[p] = "find_info"
        /\ UNCHANGED <<db, signed>> /\ KeepIds
        /\ \/ rows = {} /\ Refuse(p)
           \/ \E a \in rows :
                 IF c.change # Nothing /\ c.change.account = a.id
                 THEN Continue(p, Copied(c), CopyOf(c, local[p]))
                 ELSE Goto(p, "find_tokens", [local[p] EXCEPT !.todo = {a.id}])

\* Without tokens, only get-access-token has an answer.
FindTokens(p) ==
    LET c == call[p]
        rows == {a \in AccountsOf(db, local[p].user) :
                    a.provider = "social" /\ local[p].todo \subseteq {a.id}}
    IN  /\ pc[p] = "find_tokens"
        /\ UNCHANGED <<db, signed>> /\ KeepIds
        /\ \/ rows = {} /\ Refuse(p)
           \/ \E a \in rows :
                 IF a.grant = None
                 THEN IF c.op = "get_access_token" THEN Answer(p, local[p]) ELSE Refuse(p)
                 ELSE IF ~ c.flag THEN Answer(p, local[p])
                 ELSE Goto(p, "exchange", [local[p] EXCEPT !.row = a.grant, !.todo = {a.id}])

\* refresh_tokens_via_provider: a token the provider has replaced is refused.
Exchange(p) ==
    /\ pc[p] = "exchange"
    /\ UNCHANGED <<db, signed>>
    /\ \/ kind[local[p].row] # "grant" /\ KeepIds /\ Refuse(p)
       \/ /\ kind[local[p].row] = "grant" /\ Room(1)
          /\ kind' = Append([kind EXCEPT ![local[p].row] = "replaced"], "grant")
          /\ UNCHANGED via
          /\ Goto(p, "update_account", [local[p] EXCEPT !.row = fresh])

\* A cookie's access token that has not expired is the answer.
AnswerFromCookie(p) ==
    /\ pc[p] = "answer"
    /\ UNCHANGED <<db, signed>> /\ KeepIds
    /\ Answer(p, local[p])

-----------------------------------------------------------------------------
(* Unlinking: unlink_account_core.                                         *)

UnlinkArrives(p, c) ==
    /\ c.op = "unlink"
    /\ \E s \in Caller(db, c) : Arrive(p, c, "list_unlink", [Blank EXCEPT !.user = s.user])

\* The accounts a request names: one, or all of the provider's.
NamedBy(c, accounts) ==
    {a \in accounts : IF c.target # None THEN a.id = c.target ELSE a.provider = c.change.provider}

\* Seeded fault: nobody is kept from unlinking.
MayEmpty(rest) == "unlink"
\* A user without a password must keep an account.
IfNoPassword(rest) == IF rest = {} /\ ~ UnlinkAll THEN "refuse" ELSE "unlink"

ListToUnlink(p) ==
    LET own == AccountsOf(db, local[p].user)
        named == NamedBy(call[p], own)
    IN  /\ pc[p] = "list_unlink"
        /\ UNCHANGED <<db, signed>> /\ KeepIds
        /\ \/ named = {} /\ Refuse(p)
           \/ \E a \in named :
                 Goto(p, "has_password",
                      [local[p] EXCEPT !.todo = {a.id}, !.then = IfNoPassword(own \ named)])

\* user_has_password reads the credential account again, named or not.
HasPassword(p) ==
    /\ pc[p] = "has_password"
    /\ UNCHANGED <<db, signed>> /\ KeepIds
    /\ IF \E a \in CredentialOf(db, local[p].user) : a.password # None
       THEN Goto(p, "unlink", local[p])
       ELSE IF local[p].then = "refuse" THEN Refuse(p) ELSE Goto(p, "unlink", local[p])

Unlink(p) ==
    /\ pc[p] = "unlink"
    /\ UNCHANGED signed /\ KeepIds
    /\ \E i \in local[p].todo :
          \/ AccountOf(db, i) = {} /\ UNCHANGED db /\ Refuse(p)
          \/ /\ AccountOf(db, i) # {}
             /\ db' = DeleteAccount(db, i)
             /\ Answer(p, local[p])

SocialArrives(p, c) ==
    \/ StartArrives(p, c) \/ LinkArrives(p, c) \/ CallbackArrives(p, c)
    \/ IdTokenArrives(p, c) \/ RefreshArrives(p, c) \/ InfoArrives(p, c)
    \/ UnlinkArrives(p, c)

SocialStep(p) ==
    \/ StoreState(p) \/ FindLinkUser(p) \/ FindLinked(p)
    \/ DropState(p) \/ FindAccount(p) \/ WriteTokens(p) \/ FindAccountUser(p)
    \/ MarkReported(p) \/ OverrideUser(p) \/ FindByReport(p)
    \/ CreateSocialUser(p) \/ CreateSocialAccount(p) \/ SocialSession(p)
    \/ FindInfo(p) \/ FindTokens(p) \/ Exchange(p) \/ AnswerFromCookie(p)
    \/ ListToUnlink(p) \/ HasPassword(p) \/ Unlink(p)
=============================================================================
