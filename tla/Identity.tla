------------------------------ MODULE Identity ------------------------------
(***************************************************************************)
(* Everything that creates, changes or removes a user, their ways of       *)
(* signing in and their sessions, on one database: the composition of the  *)
(* identity plugins, and what must hold of them together.                  *)
(***************************************************************************)
EXTENDS SocialSignIn

AllOps == CredentialOps \cup AdminOps \cup ProfileOps \cup PasskeyOps \cup SocialOps

ASSUME IdentityAssumption ==
    /\ Ops \subseteq AllOps
    /\ Ops \cap AdminOps # {} => AdminPlugin
    /\ \E e, f \in Emails : e # f
    /\ MaxIds >= 11

Possible(op) ==
    CASE op \in CredentialOps -> CredentialRequests(op)
      [] op \in AdminOps -> AdminRequests(op)
      [] op \in ProfileOps -> ProfileRequests(op)
      [] op \in PasskeyOps -> PasskeyRequests(op)
      [] op \in SocialOps -> SocialRequests(op)

\* What a database entitles a request to, with what it has found out in l.
Holds(d, c, l) ==
    {r \in Claims :
        CASE c.op \in CredentialOps -> CredentialClaim(r, d, c, l.user)
          [] c.op \in AdminOps -> AdminClaim(r, d, c)
          [] c.op \in ProfileOps -> ProfileClaim(r, d, c, l.user)
          [] c.op \in PasskeyOps -> PasskeyClaim(r, d, c, l.user)
          [] c.op \in SocialOps -> SocialClaim(r, d, c, l)}

Pairs == {pq \in Requests \X Requests : pq[1] # pq[2]}

\* The ids two requests are at work on.
Shared == UNION {Touched(pq[1]) \cap Touched(pq[2]) : pq \in Pairs}

\* What an onlooker keeps of every step.
Watch ==
    /\ earned' = [p \in Requests |->
          IF pc'[p] = "idle" THEN {} ELSE earned[p] \cup Holds(db', call'[p], local'[p])]
    /\ contested' = contested \cup Shared'

-----------------------------------------------------------------------------
\* One administrator and one other user, each with a password and a session; the
\* other has a passkey too, and two accounts at the provider are still to be used.
Founders == {1, 5}
AdminEmail == CHOOSE x \in Emails : TRUE
FirstVerified == {AdminEmail}

Init ==
    /\ LET e == AdminEmail
            f == CHOOSE x \in Emails \ {e} : TRUE
       IN  db = [users |-> {NewUser(1, e, NoText, TRUE, TRUE),
                              NewUser(5, f, NoText, FALSE, FALSE)},
                   accounts |-> {NewCredential(2, 1, 3), NewCredential(6, 5, 7)},
                   sessions |-> {[id |-> 4, user |-> 1, by |-> None],
                                 [id |-> 8, user |-> 5, by |-> None]},
                   verifications |-> {},
                   passkeys |-> {[id |-> 9, user |-> 5, counter |-> 0]}, keys |-> {}]
    /\ signed = {}
    /\ kind = <<"user", "account", "password", "session", "user", "account", "password",
                 "session", "register", "identity", "identity">>
    /\ pc = [p \in Requests |-> "idle"]
    /\ call = [p \in Requests |-> NoCall]
    /\ local = [p \in Requests |-> Blank]
    /\ calls = 0
    /\ handed = {4, 8}
    /\ honoured = {}
    /\ twice = {}
    /\ via = {<<4, 3>>, <<8, 7>>}
    /\ ousted = {}
    /\ proven = {}
    /\ earned = [p \in Requests |-> {}]
    /\ undue = {}
    /\ broken = {}
    /\ contested = {}

\* A helper of helpers.rs runs on behalf of a handler.
SharedStep(p) ==
    /\ \/ ReadBan(p) \/ LiftBanAndIssue(p)
       \/ ListAccounts(p) \/ DeleteOneAccount(p) \/ DeleteUserKeys(p)
       \/ StatementFails(p)

Arrives(p, c) ==
    CASE c.op \in CredentialOps -> CredentialArrives(p, c)
      [] c.op \in AdminOps -> AdminArrives(p, c)
      [] c.op \in ProfileOps -> ProfileArrives(p, c)
      [] c.op \in PasskeyOps -> PasskeyArrives(p, c)
      [] c.op \in SocialOps -> SocialArrives(p, c)

Step(p) ==
    /\ \/ SharedStep(p)
       \/ CredentialStep(p)
       \/ AdminStep(p)
       \/ ProfileStep(p)
       \/ PasskeyStep(p)
       \/ SocialStep(p)
    /\ UNCHANGED calls

Next ==
    /\ \/ \E p \in Requests :
             \/ /\ calls < MaxCalls /\ pc[p] = "idle"
                /\ \E op \in Ops : \E c \in Possible(op) : Arrives(p, c)
             \/ Step(p)
       \/ BansEnd
    /\ Watch

Spec == Init /\ [][Next]_vars

-----------------------------------------------------------------------------
\* The types, and what the tables' constraints guarantee.
TypeOK ==
    /\ db \in Database /\ Sound(db)
    /\ kind \in Seq(Kinds) /\ Len(kind) <= MaxIds
    /\ local \in [Requests -> Local]
    /\ calls \in 0 .. MaxCalls
    /\ handed \subseteq Id
    /\ twice \subseteq honoured /\ honoured \subseteq Id
    /\ via \subseteq Id \X Id
    /\ ousted \subseteq Id
    /\ proven \subseteq Emails
    /\ earned \in [Requests -> SUBSET Claims]
    /\ undue \subseteq Ops
    /\ broken \subseteq Id
    /\ contested \subseteq Id

\* Whoever is answered was entitled to it at some moment of the request: the
\* password was theirs, the session live and its user permitted, the token
\* unspent, no ban in force, however the requests interleave.
EveryAnswerEarned == undue = {}

\* A single-use secret is honoured twice only for requests under way at once.
SpentOnce == twice \subseteq contested

\* Nobody stays in on a session that an answer has said is gone: a banned user has
\* none for as long as the ban is in force, and no session given for a password
\* outlives the answer that replaced it and revoked, unless requests overlapped.
OustedStayOut ==
    \A s \in db.sessions :
        /\ s.user \in ousted => s.user \in contested
        /\ \A i \in ousted : <<s.id, i>> \in via => {i, s.user} \cap contested # {}

\* A ban in force ends when an administrator lifts it or its time is over; the
\* sign-ins of the banned user lift none, unless one was under way with the ban.
BanStands ==
    [][\A u \in db.users : InForce(u) =>
          \/ \E w \in UserOf(db', u.id) : InForce(w)
          \/ UserOf(db', u.id) = {}
          \/ \E w \in UserOf(db', u.id) : Over(w)
          \/ u.id \in contested
          \/ \E p \in Requests : pc[p] = "update_user"
                                 /\ call[p].op \in {"unban", "update_user"}]_vars

\* Whoever signs up at the provider keeps an account to sign in with: signing up
\* ends with one, and unlinking leaves one to a user without a password, unless a
\* statement failed or two requests were at work on the user at once.
NobodyStranded ==
    \A u \in db.users :
        \/ AccountsOf(db, u.id) # {}
        \/ u.id \in Founders \cup broken \cup contested
        \/ \E p \in Requests : local[p].user = u.id

\* The tokens kept of an account are ones the provider still accepts: no path that
\* fetches new ones keeps the old, unless it failed or requests overlapped.
StoredGrantLive ==
    \A a \in db.accounts :
        \/ a.grant = None
        \/ kind[a.grant] = "grant"
        \/ {a.id, a.user} \cap broken # {}
        \/ {a.id, a.user, a.grant} \cap contested # {}
        \/ \E p \in Requests : a.id \in local[p].todo

\* A passkey's signature counter never goes back, whichever challenge is answered
\* in which order: an older challenge holds an older copy of the passkey.
CounterForward ==
    [][\A k \in db.passkeys : \A n \in PasskeyOf(db', k.id) :
          n.counter >= k.counter \/ k.id \in contested]_vars

\* An address is marked as verified only if its owner has followed a link sent to
\* it, or the provider vouches for it; old links are honoured for whoever has the
\* address by then.  An administrator's update-user is left out: it writes an address
\* and leaves the mark.
VerifiedIsProven ==
    \A u \in db.users :
        \/ u.verified => u.email \in proven \cup FirstVerified
        \/ u.id \in contested

\* No API key outlives its owner, unless it was created while its owner was deleted.
NoOrphanKey ==
    \A k \in db.keys : UserOf(db, k.user) # {} \/ k.user \in contested

\* What the comment at account_management.rs:120 says: unlinking never takes the
\* last account of a user.
AlwaysAWayIn ==
    \A u \in db.users :
        \/ AccountsOf(db, u.id) # {}
        \/ u.id \in broken \cup contested
        \/ \E p \in Requests : local[p].user = u.id
=============================================================================
