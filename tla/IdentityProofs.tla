--------------------------- MODULE IdentityProofs ---------------------------
(***************************************************************************)
(* Theorems about Identity, for every database, every set of requests and  *)
(* every configuration: the types, what each statement does to the tables  *)
(* and which statements lead to which, then the keys, counters, bans and   *)
(* single-use secrets.                                                     *)
(***************************************************************************)
EXTENDS Identity, SequenceTheorems, TLAPS

-----------------------------------------------------------------------------
(* What each statement does to a database: its rows keep their types, its  *)
(* unique indexes and foreign keys hold, and the ids in use are drawn.     *)

OnePasskey(d) == \A j, k \in d.passkeys : j.id = k.id => j = k

\* The account of a password has its user's id.
OwnSubject(a) == a.provider = "credential" => a.subject = a.user

\* The rows' own ids are among the first n, and a password's account has its user's.
Drawn(d, n) ==
    /\ \A r \in d.users : r.id <= n
    /\ \A r \in d.accounts : r.id <= n /\ OwnSubject(r)
    /\ \A r \in d.sessions : r.id <= n
    /\ \A r \in d.verifications : r.id <= n
    /\ \A r \in d.passkeys : r.id <= n

Good(d, n) == d \in Database /\ Sound(d) /\ OnePasskey(d) /\ Drawn(d, n)

LEMMA DrawnMore ==
    ASSUME NEW d, NEW n \in Nat, Good(d, n), NEW m \in Nat, n <= m
    PROVE  Good(d, m)
  BY DEF Good, Drawn, Database, User, Account, Session, Verification, Passkey, Id

\* Statements that leave users, accounts and passkeys as they are.
LEMMA ReadsGood ==
    ASSUME NEW d, NEW n \in Nat, Good(d, n), NEW e \in Database,
           e.users = d.users, e.accounts = d.accounts, e.passkeys = d.passkeys,
           \A s \in e.sessions : s.id <= n /\ UserOf(d, s.user) # {},
           \A v \in e.verifications : v.id <= n
    PROVE  Good(e, n)
  BY DEF Good, Drawn, Sound, OnePasskey, UserOf

LEMMA SessionStatements ==
    ASSUME NEW d, NEW n \in Nat, Good(d, n)
    PROVE  /\ \A i : Good(DeleteSession(d, i), n) /\ Good(DeleteUserSessions(d, i), n)
           /\ \A i \in Id, user, by \in IdOrNone :
                 i <= n /\ CanCreateSession(d, user) => Good(CreateSession(d, i, user, by), n)
<1>0. d \in Database /\ \A r \in d.sessions : r.id <= n /\ UserOf(d, r.user) # {}
  BY DEF Good, Drawn, Sound
<1>1. ASSUME NEW i PROVE Good(DeleteSession(d, i), n) /\ Good(DeleteUserSessions(d, i), n)
  <2>1. /\ DeleteSession(d, i) \in Database
        /\ DeleteUserSessions(d, i) \in Database
    BY <1>0 DEF DeleteSession, DeleteUserSessions, Database
  <2>2. Good(DeleteSession(d, i), n)
    BY <1>0, <2>1, ReadsGood DEF DeleteSession, Database, Good, Drawn
  <2>3. Good(DeleteUserSessions(d, i), n)
    BY <1>0, <2>1, ReadsGood DEF DeleteUserSessions, Database, Good, Drawn
  <2> QED BY <2>2, <2>3
<1>2. ASSUME NEW i \in Id, NEW user \in IdOrNone, NEW by \in IdOrNone, i <= n,
             CanCreateSession(d, user)
      PROVE  Good(CreateSession(d, i, user, by), n)
  <2>1. user \in Id
    BY <1>0, <1>2 DEF CanCreateSession, UserOf, Database, User
  <2> DEFINE s == [id |-> i, user |-> user, by |-> by]
             e == CreateSession(d, i, user, by)
  <2>2. s \in Session /\ s.id = i /\ s.user = user
    BY <2>1 DEF Session
  <2> HIDE DEF s
  <2>3. /\ e \in Database
        /\ e.users = d.users /\ e.accounts = d.accounts /\ e.passkeys = d.passkeys
        /\ e.sessions = d.sessions \cup {s} /\ e.verifications = d.verifications
    BY <1>0, <2>2 DEF CreateSession, Database, s
  <2> HIDE DEF e
  <2>4. \A v \in e.verifications : v.id <= n
    BY <2>3 DEF Good, Drawn
  <2>5. \A r \in e.sessions : r.id <= n /\ UserOf(d, r.user) # {}
    BY <1>0, <1>2, <2>2, <2>3 DEF CanCreateSession
  <2>6. Good(e, n)
    BY <2>3, <2>4, <2>5, ReadsGood
  <2> QED BY <2>6 DEF e
<1> QED BY <1>1, <1>2

LEMMA VerificationStatements ==
    ASSUME NEW d, NEW n \in Nat, Good(d, n)
    PROVE  /\ \A i : Good(DeleteVerification(d, i), n)
           /\ \A v \in Verification : v.id <= n => Good(CreateVerification(d, v), n)
<1>0. d \in Database /\ \A v \in d.verifications : v.id <= n
  BY DEF Good, Drawn
<1>s. \A s \in d.sessions : s.id <= n /\ UserOf(d, s.user) # {}
  BY DEF Good, Drawn, Sound
<1>1. ASSUME NEW i PROVE Good(DeleteVerification(d, i), n)
  <2>1. DeleteVerification(d, i) \in Database
    BY <1>0 DEF DeleteVerification, Database
  <2> QED BY <1>0, <1>s, <2>1, ReadsGood DEF DeleteVerification, Database
<1>2. ASSUME NEW v \in Verification, v.id <= n PROVE Good(CreateVerification(d, v), n)
  <2>1. CreateVerification(d, v) \in Database
    BY <1>0 DEF CreateVerification, Database
  <2> QED BY <1>0, <1>s, <1>2, <2>1, ReadsGood DEF CreateVerification, Database
<1> QED BY <1>1, <1>2

LEMMA KeyStatements ==
    ASSUME NEW d, NEW n \in Nat, Good(d, n)
    PROVE  /\ \A i : Good(DeleteKeys(d, i), n)
           /\ \A i, user \in Id : Good(CreateApiKey(d, i, user), n)
<1>0. d \in Database /\ \A v \in d.verifications : v.id <= n
  BY DEF Good, Drawn
<1>s. \A s \in d.sessions : s.id <= n /\ UserOf(d, s.user) # {}
  BY DEF Good, Drawn, Sound
<1>1. ASSUME NEW i PROVE Good(DeleteKeys(d, i), n)
  <2>1. DeleteKeys(d, i) \in Database
    BY <1>0 DEF DeleteKeys, Database
  <2> QED BY <1>0, <1>s, <2>1, ReadsGood DEF DeleteKeys, Database
<1>2. ASSUME NEW i \in Id, NEW user \in Id PROVE Good(CreateApiKey(d, i, user), n)
  <2>1. CreateApiKey(d, i, user) \in Database
    BY <1>0 DEF CreateApiKey, Database, ApiKey
  <2> QED BY <1>0, <1>s, <2>1, ReadsGood DEF CreateApiKey, Database
<1> QED BY <1>1, <1>2

LEMMA PasskeyStatements ==
    ASSUME NEW d, NEW n \in Nat, Good(d, n)
    PROVE  /\ \A i : Good(DeletePasskey(d, i), n)
           /\ \A i \in Id, c \in 0 .. MaxCount : Good(UpdatePasskey(d, i, c), n)
           /\ \A i \in Id, user \in IdOrNone, c \in 0 .. MaxCount :
                 i <= n /\ CanCreatePasskey(d, i, user) => Good(CreatePasskey(d, i, user, c), n)
<1>0. /\ d \in Database /\ Sound(d) /\ OnePasskey(d) /\ Drawn(d, n)
      /\ \A k \in d.passkeys : k \in Passkey /\ k.id <= n /\ UserOf(d, k.user) # {}
  BY DEF Good, Drawn, Sound, Database
<1> DEFINE Rest(e) == /\ e.users = d.users /\ e.accounts = d.accounts
                      /\ e.sessions = d.sessions /\ e.verifications = d.verifications
<1>1. ASSUME NEW e \in Database, Rest(e), OnePasskey(e),
             \A k \in e.passkeys : k.id <= n /\ UserOf(d, k.user) # {}
      PROVE  Good(e, n)
  BY <1>0, <1>1 DEF Good, Drawn, Sound, UserOf
<1>2. ASSUME NEW i PROVE Good(DeletePasskey(d, i), n)
  <2>1. /\ DeletePasskey(d, i) \in Database /\ Rest(DeletePasskey(d, i))
        /\ DeletePasskey(d, i).passkeys = {k \in d.passkeys : k.id # i}
    BY <1>0 DEF DeletePasskey, Database
  <2> QED BY <1>0, <1>1, <2>1 DEF OnePasskey
<1>3. ASSUME NEW i \in Id, NEW c \in 0 .. MaxCount PROVE Good(UpdatePasskey(d, i, c), n)
  <2> DEFINE e == UpdatePasskey(d, i, c)
             New(k) == IF k.id = i THEN [k EXCEPT !.counter = c] ELSE k
  <2>1. \A k \in Passkey : New(k) \in Passkey /\ New(k).id = k.id /\ New(k).user = k.user
    BY DEF Passkey
  <2>2. e.passkeys = {New(k) : k \in d.passkeys} /\ Rest(e)
    BY <1>0 DEF UpdatePasskey, Database
  <2>3. e.passkeys \subseteq Passkey
    BY <1>0, <2>1, <2>2
  <2>4. e \in Database
    BY <1>0, <2>3 DEF UpdatePasskey, Database
  <2> HIDE DEF New
  <2>5. \A k \in e.passkeys : k.id <= n /\ UserOf(d, k.user) # {}
    BY <1>0, <2>1, <2>2
  <2>6. OnePasskey(e)
    BY <1>0, <2>1, <2>2 DEF OnePasskey
  <2> HIDE DEF e
  <2>7. Good(e, n)
    BY <1>1, <2>2, <2>4, <2>5, <2>6
  <2> QED BY <2>7 DEF e
<1>4. ASSUME NEW i \in Id, NEW user \in IdOrNone, NEW c \in 0 .. MaxCount, i <= n,
             CanCreatePasskey(d, i, user)
      PROVE  Good(CreatePasskey(d, i, user, c), n)
  <2> DEFINE x == [id |-> i, user |-> user, counter |-> c]
             e == CreatePasskey(d, i, user, c)
  <2>1. user \in Id
    BY <1>0, <1>4 DEF CanCreatePasskey, UserOf, Database, User
  <2>2. x \in Passkey /\ x.id = i /\ x.user = user
    BY <2>1 DEF Passkey
  <2> HIDE DEF x
  <2>3. e \in Database /\ Rest(e) /\ e.passkeys = d.passkeys \cup {x}
    BY <1>0, <2>2 DEF CreatePasskey, Database, x
  <2> HIDE DEF e
  <2>4. \A k \in d.passkeys : k.id # i
    BY <1>4 DEF CanCreatePasskey, PasskeyOf
  <2>5. OnePasskey(e)
    BY <1>0, <2>2, <2>3, <2>4 DEF OnePasskey
  <2>6. \A k \in e.passkeys : k.id <= n /\ UserOf(d, k.user) # {}
    BY <1>0, <1>4, <2>2, <2>3 DEF CanCreatePasskey
  <2>7. Good(e, n)
    BY <1>1, <2>3, <2>5, <2>6
  <2> QED BY <2>7 DEF e
<1> QED BY <1>2, <1>3, <1>4

\* Users.  A change of a user's row sets no other fields than these.
UserFields == {"id", "email", "name", "verified", "admin", "banned", "ends"}
UserChange(change) ==
    /\ DOMAIN change \subseteq UserFields \ {"id"}
    /\ "email" \in DOMAIN change => change.email \in Emails
    /\ "name" \in DOMAIN change => change.name \in Names \cup {NoText}
    /\ "verified" \in DOMAIN change => change.verified \in BOOLEAN
    /\ "admin" \in DOMAIN change => change.admin \in BOOLEAN
    /\ "banned" \in DOMAIN change => change.banned \in BOOLEAN
    /\ "ends" \in DOMAIN change => change.ends \in Ends

LEMMA UpdatedUser ==
    ASSUME NEW u \in User, NEW change, UserChange(change)
    PROVE  /\ Updated(u, change) \in User /\ Updated(u, change).id = u.id
           /\ "banned" \notin DOMAIN change =>
                 /\ Updated(u, change).banned = u.banned
                 /\ "ends" \notin DOMAIN change => Updated(u, change).ends = u.ends
<1> DEFINE set == [f \in UserFields |-> IF f \in DOMAIN change THEN change[f] ELSE u[f]]
<1>0. DOMAIN u = UserFields
  BY DEF User, UserFields
<1>1. set = [id |-> set.id, email |-> set.email, name |-> set.name,
             verified |-> set.verified, admin |-> set.admin, banned |-> set.banned,
             ends |-> set.ends]
  BY DEF UserFields
<1>2. set.id = u.id /\ u.id \in Id
  BY DEF UserFields, UserChange, User
<1>3. set.email \in Emails
  BY DEF UserFields, UserChange, User
<1>4. set.name \in Names \cup {NoText}
  BY DEF UserFields, UserChange, User
<1>5. set.verified \in BOOLEAN
  BY DEF UserFields, UserChange, User
<1>6. set.admin \in BOOLEAN
  BY DEF UserFields, UserChange, User
<1>7. set.banned \in BOOLEAN
  BY DEF UserFields, UserChange, User
<1>8. set.ends \in Ends
  BY DEF UserFields, UserChange, User
<1>9. "banned" \notin DOMAIN change =>
         set.banned = u.banned /\ ("ends" \notin DOMAIN change => set.ends = u.ends)
  BY DEF UserFields
<1>10. Updated(u, change) = IF "banned" \in DOMAIN change /\ ~ change.banned
                            THEN [set EXCEPT !.ends = "never"] ELSE set
  BY <1>0 DEF Updated
<1> HIDE DEF set
<1>11. set \in User /\ set.id = u.id
  BY <1>1, <1>2, <1>3, <1>4, <1>5, <1>6, <1>7, <1>8 DEF User
<1>12. [set EXCEPT !.ends = "never"] \in User /\ [set EXCEPT !.ends = "never"].id = u.id
  BY <1>11 DEF User, Ends
<1> QED BY <1>9, <1>10, <1>11, <1>12

\* Nobody's session, account or passkey loses its user while the ids of users stay.
LEMMA UsersGood ==
    ASSUME NEW d, NEW n \in Nat, Good(d, n), NEW m \in Nat, n <= m, NEW e \in Database,
           e.accounts = d.accounts, e.sessions = d.sessions,
           e.verifications = d.verifications, e.passkeys = d.passkeys,
           \A u \in d.users : \E w \in e.users : w.id = u.id,
           \A u \in e.users : u.id <= m,
           \A u, w \in e.users :
              u = w \/ (/\ u.id # w.id
                        /\ u.email # w.email
                        /\ (u.name # w.name \/ u.name = NoText))
    PROVE  Good(e, m)
<1>0. /\ d \in Database /\ Sound(d) /\ OnePasskey(d) /\ Drawn(d, m)
  BY DrawnMore DEF Good
<1>1. \A i : UserOf(d, i) # {} => UserOf(e, i) # {}
  BY DEF UserOf
<1>2. Sound(e)
  BY <1>0, <1>1 DEF Sound
<1>3. OnePasskey(e) /\ Drawn(e, m)
  BY <1>0 DEF OnePasskey, Drawn
<1> QED BY <1>2, <1>3 DEF Good

LEMMA CreateUserGood ==
    ASSUME NEW d, NEW n \in Nat, Good(d, n), NEW u \in User, n < u.id,
           NEW m \in Nat, u.id <= m, FreeFor(d.users, u.email, u.name)
    PROVE  Good(CreateUser(d, u), m)
<1> DEFINE e == CreateUser(d, u)
<1>0. d \in Database /\ d.users \subseteq User /\ \A w \in d.users : w.id <= n
  BY DEF Good, Drawn, Database
<1>1. /\ e \in Database /\ e.users = d.users \cup {u}
      /\ e.accounts = d.accounts /\ e.sessions = d.sessions
      /\ e.verifications = d.verifications /\ e.passkeys = d.passkeys
  BY <1>0 DEF CreateUser, Database
<1> HIDE DEF e
<1>2. u.id \in Int /\ \A w \in d.users : w.id \in Int
  BY <1>0 DEF User, Id
<1>3. n <= m /\ \A w \in e.users : w.id <= m
  BY <1>0, <1>1, <1>2
<1>4. \A w \in d.users : w.id # u.id
  BY <1>0, <1>2
<1>5. \A w, v \in d.users :
        w = v \/ (w.id # v.id /\ w.email # v.email /\ (w.name # v.name \/ w.name = NoText))
  BY DEF Good, Sound
<1>6. \A w \in d.users : w.email # u.email /\ (w.name # u.name \/ u.name = NoText)
  BY DEF FreeFor
<1>7. \A w, v \in e.users :
        w = v \/ (w.id # v.id /\ w.email # v.email /\ (w.name # v.name \/ w.name = NoText))
  BY <1>1, <1>4, <1>5, <1>6
<1>8. \A w \in d.users : \E v \in e.users : v.id = w.id
  BY <1>1
<1>9. Good(e, m)
  BY <1>1, <1>3, <1>7, <1>8, UsersGood
<1> QED BY <1>9 DEF e

LEMMA UpdateUserGood ==
    ASSUME NEW d, NEW n \in Nat, Good(d, n), NEW i, NEW change, UserChange(change),
           CanUpdateUser(d, i, change)
    PROVE  Good(UpdateUser(d, i, change), n)
<1> DEFINE e == UpdateUser(d, i, change)
           New(u) == IF u.id = i THEN Updated(u, change) ELSE u
<1>0. /\ d \in Database /\ d.users \subseteq User
      /\ \A u \in d.users : u.id <= n
      /\ \A w, v \in d.users :
            w = v \/ (w.id # v.id /\ w.email # v.email /\ (w.name # v.name \/ w.name = NoText))
  BY DEF Good, Drawn, Database, Sound
<1>1. \A u \in d.users : New(u) \in User /\ New(u).id = u.id
  BY <1>0, UpdatedUser
<1>2. /\ e.users = {New(u) : u \in d.users}
      /\ e.accounts = d.accounts /\ e.sessions = d.sessions
      /\ e.verifications = d.verifications /\ e.passkeys = d.passkeys
  BY <1>0 DEF UpdateUser, Database
<1>3. e.users \subseteq User
  BY <1>1, <1>2
<1>4. e \in Database
  BY <1>0, <1>3 DEF UpdateUser, Database
<1>5. PICK t \in d.users :
         /\ t.id = i
         /\ FreeFor(d.users \ {t}, Updated(t, change).email, Updated(t, change).name)
  BY DEF CanUpdateUser, UserOf
<1>6. \A u \in d.users : u = t \/ New(u) = u
  BY <1>0, <1>5
<1>7. \A u \in d.users : u = t \/ (/\ New(u).email # New(t).email
                                   /\ New(t).name = NoText \/ New(u).name # New(t).name)
  BY <1>5, <1>6 DEF FreeFor
<1> HIDE DEF e, New
<1>8. \A u \in e.users : u.id <= n
  BY <1>0, <1>1, <1>2
<1>9. \A u \in d.users : \E w \in e.users : w.id = u.id
  BY <1>1, <1>2
<1>10. \A u, w \in d.users :
        u = w \/ (/\ New(u).id # New(w).id /\ New(u).email # New(w).email
                 /\ (New(u).name # New(w).name \/ New(u).name = NoText))
  BY <1>0, <1>1, <1>6, <1>7
<1>11. \A w, v \in e.users :
        w = v \/ (w.id # v.id /\ w.email # v.email /\ (w.name # v.name \/ w.name = NoText))
  BY <1>2, <1>10
<1>12. Good(e, n)
  <2>1. n <= n
    OBVIOUS
  <2> QED BY ONLY Good(d, n), n \in Nat, <2>1, <1>2, <1>4, <1>8, <1>9, <1>11, UsersGood
<1> QED BY <1>12 DEF e

LEMMA DeleteUserGood ==
    ASSUME NEW d, NEW n \in Nat, Good(d, n), NEW i
    PROVE  Good(DeleteUser(d, i), n)
<1> DEFINE e == DeleteUser(d, i)
<1>0. /\ d \in Database /\ Sound(d) /\ OnePasskey(d) /\ Drawn(d, n)
  BY DEF Good
<1>1. /\ e \in Database
      /\ e.users = {u \in d.users : u.id # i}
      /\ e.accounts = {a \in d.accounts : a.user # i}
      /\ e.sessions = {s \in d.sessions : s.user # i}
      /\ e.passkeys = {k \in d.passkeys : k.user # i}
      /\ e.verifications = d.verifications
  BY <1>0 DEF DeleteUser, Database
<1> HIDE DEF e
<1>2. \A r : r \in e.accounts \cup e.sessions \cup e.passkeys =>
              r \in d.accounts \cup d.sessions \cup d.passkeys /\ r.user # i
  BY <1>1
<1>3. \A r \in e.accounts \cup e.sessions \cup e.passkeys : UserOf(e, r.user) # {}
  BY <1>0, <1>1, <1>2 DEF Sound, UserOf
<1>4. Sound(e)
  BY <1>0, <1>1, <1>3 DEF Sound
<1>5. OnePasskey(e) /\ Drawn(e, n)
  BY <1>0, <1>1 DEF OnePasskey, Drawn
<1>6. Good(e, n)
  BY <1>1, <1>4, <1>5 DEF Good
<1> QED BY <1>6 DEF e

\* Time passes the end of a ban.
LEMMA BansEndGood ==
    ASSUME NEW d, NEW n \in Nat, Good(d, n)
    PROVE  Good([d EXCEPT !.users = {IF u.ends = "ahead" THEN [u EXCEPT !.ends = "over"]
                                     ELSE u : u \in @}], n)
<1> DEFINE New(u) == IF u.ends = "ahead" THEN [u EXCEPT !.ends = "over"] ELSE u
           e == [d EXCEPT !.users = {IF u.ends = "ahead" THEN [u EXCEPT !.ends = "over"]
                                     ELSE u : u \in @}]
<1>0. /\ d \in Database /\ d.users \subseteq User
      /\ \A u \in d.users : u.id <= n
      /\ \A w, v \in d.users :
            w = v \/ (w.id # v.id /\ w.email # v.email /\ (w.name # v.name \/ w.name = NoText))
  BY DEF Good, Drawn, Database, Sound
<1>1. \A u \in User : /\ New(u) \in User /\ New(u).id = u.id
                      /\ New(u).email = u.email /\ New(u).name = u.name
  BY DEF User, Ends
<1>2. /\ e.users = {New(u) : u \in d.users}
      /\ e.accounts = d.accounts /\ e.sessions = d.sessions
      /\ e.verifications = d.verifications /\ e.passkeys = d.passkeys
  BY <1>0 DEF Database
<1>3. e.users \subseteq User
  BY <1>0, <1>1, <1>2
<1>4. e \in Database
  BY <1>0, <1>3 DEF Database
<1> HIDE DEF New
<1>5. \A u \in e.users : u.id <= n
  BY <1>0, <1>1, <1>2
<1>6. \A u \in d.users : \E w \in e.users : w.id = u.id
  BY <1>0, <1>1, <1>2
<1>7. \A w, v \in e.users :
        w = v \/ (w.id # v.id /\ w.email # v.email /\ (w.name # v.name \/ w.name = NoText))
  BY <1>0, <1>1, <1>2
<1> HIDE DEF e
<1>8. Good(e, n)
  BY <1>2, <1>4, <1>5, <1>6, <1>7, UsersGood
<1> QED BY <1>8 DEF e

\* Accounts: the ids of the new one and of its user are drawn, its place is free.
LEMMA AccountsGood ==
    ASSUME NEW d, NEW n \in Nat, Good(d, n), NEW m \in Nat, n <= m, NEW e \in Database,
           e.users = d.users, e.sessions = d.sessions,
           e.verifications = d.verifications, e.passkeys = d.passkeys,
           \A a \in e.accounts : a.id <= m /\ OwnSubject(a) /\ UserOf(d, a.user) # {},
           \A a, b \in e.accounts :
              a = b \/ (a.id # b.id /\ <<a.provider, a.subject>> # <<b.provider, b.subject>>)
    PROVE  Good(e, m)
<1>0. /\ d \in Database /\ Sound(d) /\ OnePasskey(d) /\ Drawn(d, m)
  BY DrawnMore DEF Good
<1>1. Sound(e)
  BY <1>0 DEF Sound, UserOf
<1>2. OnePasskey(e) /\ Drawn(e, m)
  BY <1>0 DEF OnePasskey, Drawn
<1> QED BY <1>1, <1>2 DEF Good

LEMMA CreateAccountGood ==
    ASSUME NEW d, NEW n \in Nat, Good(d, n), NEW a \in Account, OwnSubject(a), n < a.id,
           NEW m \in Nat, a.id <= m, CanCreateAccount(d, a)
    PROVE  Good(CreateAccount(d, a), m)
<1> DEFINE e == CreateAccount(d, a)
<1>0. /\ d \in Database /\ \A b \in d.accounts : b \in Account /\ b.id <= n /\ OwnSubject(b)
      /\ \A b \in d.accounts : UserOf(d, b.user) # {}
  BY DEF Good, Drawn, Database, Sound
<1>1. /\ e \in Database /\ e.accounts = d.accounts \cup {a}
      /\ e.users = d.users /\ e.sessions = d.sessions
      /\ e.verifications = d.verifications /\ e.passkeys = d.passkeys
  BY <1>0 DEF CreateAccount, Database
<1> HIDE DEF e
<1>2. a.id \in Int /\ \A b \in d.accounts : b.id \in Int
  BY <1>0 DEF Account, Id
<1>3. n <= m /\ \A b \in e.accounts : b.id <= m /\ OwnSubject(b)
  BY <1>0, <1>1, <1>2
<1>4. \A b \in d.accounts : b.id # a.id
  BY <1>0, <1>2
<1>5. \A b \in d.accounts : b.provider # a.provider \/ b.subject # a.subject
  BY DEF CanCreateAccount, AccountAt
<1>6. \A b, c \in d.accounts :
         b = c \/ (b.id # c.id /\ <<b.provider, b.subject>> # <<c.provider, c.subject>>)
  BY DEF Good, Sound
<1>7. \A b, c \in e.accounts :
         b = c \/ (b.id # c.id /\ <<b.provider, b.subject>> # <<c.provider, c.subject>>)
  BY <1>1, <1>4, <1>5, <1>6
<1>8. \A b \in e.accounts : UserOf(d, b.user) # {}
  BY <1>0, <1>1 DEF CanCreateAccount
<1>9. Good(e, m)
  BY <1>1, <1>3, <1>7, <1>8, AccountsGood
<1> QED BY <1>9 DEF e

\* A password or a set of tokens is written over.
LEMMA UpdateAccountGood ==
    ASSUME NEW d, NEW n \in Nat, Good(d, n), NEW i, NEW x \in Id
    PROVE  /\ Good(UpdateAccount(d, i, [password |-> x]), n)
           /\ Good(UpdateAccount(d, i, [grant |-> x]), n)
<1>0. /\ d \in Database /\ \A b \in d.accounts : b \in Account /\ b.id <= n /\ OwnSubject(b)
      /\ \A b \in d.accounts : UserOf(d, b.user) # {}
      /\ \A b, c \in d.accounts :
            b = c \/ (b.id # c.id /\ <<b.provider, b.subject>> # <<c.provider, c.subject>>)
  BY DEF Good, Drawn, Database, Sound
<1>1. ASSUME NEW change, DOMAIN change \in {{"password"}, {"grant"}},
             \A f \in DOMAIN change : change[f] = x
      PROVE  Good(UpdateAccount(d, i, change), n)
  <2> DEFINE e == UpdateAccount(d, i, change)
             New(a) == IF a.id = i
                       THEN [f \in DOMAIN a |-> IF f \in DOMAIN change THEN change[f] ELSE a[f]]
                       ELSE a
  <2>1. ASSUME NEW a \in Account
        PROVE  /\ New(a) \in Account /\ New(a).id = a.id /\ New(a).user = a.user
               /\ New(a).provider = a.provider /\ New(a).subject = a.subject
    <3> DEFINE set == [f \in {"id", "user", "provider", "subject", "password", "grant"} |->
                         IF f \in DOMAIN change THEN change[f] ELSE a[f]]
    <3>1. DOMAIN a = {"id", "user", "provider", "subject", "password", "grant"}
      BY DEF Account
    <3>2. set = [id |-> set.id, user |-> set.user, provider |-> set.provider,
                 subject |-> set.subject, password |-> set.password, grant |-> set.grant]
      OBVIOUS
    <3>3. /\ set.id = a.id /\ set.user = a.user /\ set.provider = a.provider
          /\ set.subject = a.subject
      BY <1>1
    <3>4. a.id \in Id /\ a.user \in Id /\ a.provider \in Providers /\ a.subject \in Nat
      BY DEF Account
    <3>5. set.password \in IdOrNone /\ set.grant \in IdOrNone
      BY <1>1 DEF Account, IdOrNone
    <3>6. New(a) = IF a.id = i THEN set ELSE a
      BY <3>1
    <3> HIDE DEF set
    <3>7. set \in Account
      BY <3>2, <3>3, <3>4, <3>5 DEF Account
    <3> HIDE DEF New
    <3> QED BY <3>3, <3>6, <3>7
  <2>2. /\ e.accounts = {New(a) : a \in d.accounts}
        /\ e.users = d.users /\ e.sessions = d.sessions
        /\ e.verifications = d.verifications /\ e.passkeys = d.passkeys
    BY <1>0 DEF UpdateAccount, Database
  <2>3. e.accounts \subseteq Account
    BY <1>0, <2>1, <2>2
  <2>4. e \in Database
    BY <1>0, <2>3 DEF UpdateAccount, Database
  <2> HIDE DEF New
  <2>5. \A a \in e.accounts : a.id <= n /\ OwnSubject(a) /\ UserOf(d, a.user) # {}
    BY <1>0, <2>1, <2>2 DEF OwnSubject
  <2>6. \A b, c \in e.accounts :
           b = c \/ (b.id # c.id /\ <<b.provider, b.subject>> # <<c.provider, c.subject>>)
    BY <1>0, <2>1, <2>2
  <2> HIDE DEF e
  <2>7. Good(e, n)
    BY <2>2, <2>4, <2>5, <2>6, AccountsGood
  <2> QED BY <2>7 DEF e
<1> QED BY <1>1

LEMMA DeleteAccountGood ==
    ASSUME NEW d, NEW n \in Nat, Good(d, n), NEW i
    PROVE  Good(DeleteAccount(d, i), n)
<1> DEFINE e == DeleteAccount(d, i)
<1>0. d \in Database
  BY DEF Good
<1>1. /\ e \in Database /\ e.accounts = {a \in d.accounts : a.id # i}
      /\ e.users = d.users /\ e.sessions = d.sessions
      /\ e.verifications = d.verifications /\ e.passkeys = d.passkeys
  BY <1>0 DEF DeleteAccount, Database
<1> HIDE DEF e
<1>2. \A a \in e.accounts : a.id <= n /\ OwnSubject(a) /\ UserOf(d, a.user) # {}
  BY <1>1 DEF Good, Drawn, Sound
<1>3. \A b, c \in e.accounts :
         b = c \/ (b.id # c.id /\ <<b.provider, b.subject>> # <<c.provider, c.subject>>)
  BY <1>1 DEF Good, Sound
<1>4. Good(e, n)
  BY <1>1, <1>2, <1>3, AccountsGood
<1> QED BY <1>4 DEF e

-----------------------------------------------------------------------------
(* What requests ask for, and what they carry.                             *)

Deleting == {"remove_user", "delete_user", "delete_callback"}
Social == {"callback", "id_token_sign_in"}
Tokens == {"refresh_token", "get_access_token", "account_info"}
Issuing == SignIns \cup {"change_password", "verify_email", "authenticate"} \cup Social

\* A link other than a first one names the address it changes to.
LinkOK(k) == k \in Link /\ (k.type # "verify" => k.to \in Emails)

\* A call as Possible makes it.
Asked(c) ==
    /\ c.op \in Ops
    /\ c.cookie \in 0 .. Len(kind) /\ c.secret \in 0 .. Len(kind) /\ c.target \in IdOrNone
    /\ c.email \in Emails \cup {NoText} /\ c.name \in Names \cup {NoText}
    /\ c.op \in {"sign_up", "create_user", "change_email", "id_token_sign_in"} => c.email \in Emails
    /\ c.op = "callback" /\ c.target # None => c.email \in Emails
    /\ c.op \in {"update_user", "set_role"} => UserChange(c.change)
    /\ c.op = "set_role" => DOMAIN c.change = {"admin"}
    /\ c.op = "verify_email" => LinkOK(c.change)
    /\ c.op = "authenticate" => c.change.counter \in 0 .. MaxCount
    /\ c.op \in {"register", "authenticate"} => c.secret # None
    /\ c.op = "delete_callback" => c.secret = None /\ c.target # None
    /\ c.op \in Tokens /\ c.change # Nothing =>
          c.change.account \in Id /\ c.change.user \in Id /\ c.change.grant \in IdOrNone
    /\ "box" \in DOMAIN c.change => c.change.box \in Emails
    /\ c.op \in Social /\ Vouched(c) => c.change.box = c.email

\* What the server has signed.
SignedOK ==
    /\ \A k \in signed : k \in Link => LinkOK(k)
    /\ \A k \in CookiesOut : k.account \in Id /\ k.user \in Id /\ k.grant \in IdOrNone
    /\ \A i \in Id : AdminCookie(i) \in signed => i <= Len(kind)

LEMMA Records ==
    /\ \A k \in Link : DOMAIN k = {"type", "email", "to", "box"}
    /\ \A v \in Verification : DOMAIN v = {"id", "purpose", "about", "email", "keys"}
    /\ \A i : DOMAIN AdminCookie(i) = {"session"} /\ AdminCookie(i).session = i
    /\ \A a, u, g : DOMAIN AccountCookie(a, u, g) = {"account", "user", "grant"}
    /\ \A r \in Reports : r.who \in Id /\ r.email \in Emails /\ r.vouched \in BOOLEAN
    /\ DOMAIN Nothing = {}
<1>1. \A k \in Link : DOMAIN k = {"type", "email", "to", "box"}
  BY DEF Link
<1>2. \A v \in Verification : DOMAIN v = {"id", "purpose", "about", "email", "keys"}
  BY DEF Verification
<1>3. \A i : DOMAIN AdminCookie(i) = {"session"} /\ AdminCookie(i).session = i
  BY DEF AdminCookie
<1>4. \A a, u, g : DOMAIN AccountCookie(a, u, g) = {"account", "user", "grant"}
  BY DEF AccountCookie
<1>5. \A r \in Reports : r.who \in Id /\ r.email \in Emails /\ r.vouched \in BOOLEAN
  BY SocialAssumption
<1>6. DOMAIN Nothing = {}
  BY DEF Nothing
<1> QED BY <1>1, <1>2, <1>3, <1>4, <1>5, <1>6

\* What the database, the ids and the signatures are at any time.
Clients ==
    /\ kind \in Seq(Kinds) /\ Len(kind) <= MaxIds
    /\ handed \subseteq 1 .. Len(kind)
    /\ Good(db, Len(kind))
    /\ SignedOK

LEMMA CanName ==
    ASSUME Clients
    PROVE  /\ \A k, i : i \in Known(k) => i \in 1 .. Len(kind) /\ i \in Id
           /\ \A i \in Passwords : i \in 1 .. Len(kind) /\ i \in Id
           /\ None = 0 /\ None \in 0 .. Len(kind) /\ None \in IdOrNone /\ DOMAIN Nothing = {}
           /\ Len(kind) \in Nat
           /\ \A k \in Mailed : LinkOK(k) /\ k.box \in Emails
           /\ \A k \in CookiesOut : /\ "box" \notin DOMAIN k
                                     /\ k.account \in Id /\ k.user \in Id /\ k.grant \in IdOrNone
           /\ {t.session : t \in AdminCookies} \subseteq IdOrNone
           /\ {r.id : r \in db.users} \subseteq IdOrNone
           /\ {r.id : r \in db.accounts} \subseteq IdOrNone
           /\ {r.id : r \in db.passkeys} \subseteq IdOrNone
<1>0. Len(kind) \in Nat /\ DOMAIN kind = 1 .. Len(kind) /\ MaxIds \in Nat
  BY StoreAssumption DEF Clients
<1>1. \A k, i : i \in Known(k) => i \in 1 .. Len(kind) /\ i \in Id
  BY <1>0 DEF Known, Id, Clients
<1>2. \A i \in Passwords : i \in 1 .. Len(kind) /\ i \in Id
  BY <1>0 DEF Passwords, Id, Clients
<1>3. None = 0 /\ None \in 0 .. Len(kind) /\ None \in IdOrNone /\ DOMAIN Nothing = {}
  BY <1>0, Records DEF None, IdOrNone
<1>4. \A k \in Mailed : LinkOK(k) /\ k.box \in Emails
  BY DEF Clients, SignedOK, Mailed, LinkOK, Link
<1>5. \A k \in CookiesOut : /\ "box" \notin DOMAIN k
                          /\ k.account \in Id /\ k.user \in Id /\ k.grant \in IdOrNone
  BY DEF Clients, SignedOK, CookiesOut
<1>6. {t.session : t \in AdminCookies} \subseteq IdOrNone
  BY Records DEF AdminCookies, IdOrNone
<1>7. /\ {r.id : r \in db.users} \subseteq IdOrNone
      /\ {r.id : r \in db.accounts} \subseteq IdOrNone
      /\ {r.id : r \in db.passkeys} \subseteq IdOrNone
  BY DEF Clients, Good, Database, User, Account, Passkey, IdOrNone
<1> QED BY <1>0, <1>1, <1>2, <1>3, <1>4, <1>5, <1>6, <1>7

LEMMA CredentialAsked ==
    ASSUME Clients, NEW op \in Ops \cap CredentialOps, NEW c \in CredentialRequests(op)
    PROVE  Asked(c) /\ c.op = op
<1>0. /\ \A k, i : i \in Known(k) => i \in 1 .. Len(kind) /\ i \in Id
      /\ \A i \in Passwords : i \in 1 .. Len(kind) /\ i \in Id
      /\ None = 0 /\ None \in 0 .. Len(kind) /\ None \in IdOrNone /\ DOMAIN Nothing = {}
      /\ Len(kind) \in Nat /\ \A i \in Id : i \in IdOrNone
      /\ \A k \in Mailed : LinkOK(k) /\ k.box \in Emails
      /\ {k.id : k \in db.passkeys} \subseteq IdOrNone
  BY CanName DEF IdOrNone
<1>1. CASE op = "sign_up"
  <2>1. c \in Calls([Only("sign_up") EXCEPT !.email = Emails, !.name = Names \cup {NoText}])
    BY <1>1 DEF CredentialRequests
  <2>2. /\ c.op = "sign_up" /\ c.cookie = None /\ c.email \in Emails /\ c.name \in Names \cup {NoText}
        /\ c.secret = None /\ c.target = None /\ c.change = Nothing
    BY <2>1 DEF Calls, Only
  <2> QED BY <1>0, <1>1, <2>2 DEF Asked, Tokens, Social, Vouched
<1>2. CASE op = "sign_in"
  <2>1. c \in Calls([Only("sign_in") EXCEPT !.email = Emails, !.secret = Passwords])
    BY <1>2 DEF CredentialRequests
  <2>2. /\ c.op = "sign_in" /\ c.cookie = None /\ c.email \in Emails /\ c.name = NoText
        /\ c.secret \in Passwords /\ c.target = None /\ c.change = Nothing
    BY <2>1 DEF Calls, Only
  <2> QED BY <1>0, <1>2, <2>2 DEF Asked, Tokens, Social, Vouched
<1>3. CASE op = "sign_in_username"
  <2>1. c \in Calls([Only("sign_in_username") EXCEPT !.name = Names, !.secret = Passwords])
    BY <1>3 DEF CredentialRequests
  <2>2. /\ c.op = "sign_in_username" /\ c.cookie = None /\ c.email = NoText /\ c.name \in Names
        /\ c.secret \in Passwords /\ c.target = None /\ c.change = Nothing
    BY <2>1 DEF Calls, Only
  <2> QED BY <1>0, <1>3, <2>2 DEF Asked, Tokens, Social, Vouched
<1>4. CASE op = "request_reset"
  <2>1. c \in Calls([Only("request_reset") EXCEPT !.email = Emails])
    BY <1>4 DEF CredentialRequests
  <2>2. /\ c.op = "request_reset" /\ c.cookie = None /\ c.email \in Emails /\ c.name = NoText
        /\ c.secret = None /\ c.target = None /\ c.change = Nothing
    BY <2>1 DEF Calls, Only
  <2> QED BY <1>0, <1>4, <2>2 DEF Asked, Tokens, Social, Vouched
<1>5. CASE op = "reset"
  <2>1. c \in Calls([Only("reset") EXCEPT !.secret = Known("reset")])
    BY <1>5 DEF CredentialRequests
  <2>2. /\ c.op = "reset" /\ c.cookie = None /\ c.email = NoText /\ c.name = NoText
        /\ c.secret \in Known("reset") /\ c.target = None /\ c.change = Nothing
    BY <2>1 DEF Calls, Only
  <2> QED BY <1>0, <1>5, <2>2 DEF Asked, Tokens, Social, Vouched
<1>6. CASE op = "change_password"
  <2>1. c \in Calls([Only("change_password") EXCEPT !.cookie = Known("session"), !.secret = Passwords, !.flag = BOOLEAN])
    BY <1>6 DEF CredentialRequests
  <2>2. /\ c.op = "change_password" /\ c.cookie \in Known("session") /\ c.email = NoText /\ c.name = NoText
        /\ c.secret \in Passwords /\ c.target = None /\ c.change = Nothing
    BY <2>1 DEF Calls, Only
  <2> QED BY <1>0, <1>6, <2>2 DEF Asked, Tokens, Social, Vouched
<1>7. CASE op = "verify_password"
  <2>1. c \in Calls([Only("verify_password") EXCEPT !.cookie = Known("session"), !.secret = Passwords])
    BY <1>7 DEF CredentialRequests
  <2>2. /\ c.op = "verify_password" /\ c.cookie \in Known("session") /\ c.email = NoText /\ c.name = NoText
        /\ c.secret \in Passwords /\ c.target = None /\ c.change = Nothing
    BY <2>1 DEF Calls, Only
  <2> QED BY <1>0, <1>7, <2>2 DEF Asked, Tokens, Social, Vouched
<1> QED BY <1>1, <1>2, <1>3, <1>4, <1>5, <1>6, <1>7 DEF CredentialOps

LEMMA ProfileAsked ==
    ASSUME Clients, NEW op \in Ops \cap ProfileOps, NEW c \in ProfileRequests(op)
    PROVE  Asked(c) /\ c.op = op
<1>0. /\ \A k, i : i \in Known(k) => i \in 1 .. Len(kind) /\ i \in Id
      /\ \A i \in Passwords : i \in 1 .. Len(kind) /\ i \in Id
      /\ None = 0 /\ None \in 0 .. Len(kind) /\ None \in IdOrNone /\ DOMAIN Nothing = {}
      /\ Len(kind) \in Nat /\ \A i \in Id : i \in IdOrNone
      /\ \A k \in Mailed : LinkOK(k) /\ k.box \in Emails
      /\ {k.id : k \in db.passkeys} \subseteq IdOrNone
  BY CanName DEF IdOrNone
<1>1. CASE op = "send_verification"
  <2>1. c \in Calls([Only("send_verification") EXCEPT !.cookie = Known("session") \cup {None}, !.email = Emails])
    BY <1>1 DEF ProfileRequests
  <2>2. /\ c.op = "send_verification" /\ c.cookie \in Known("session") \cup {None} /\ c.email \in Emails /\ c.name = NoText
        /\ c.secret = None /\ c.target = None /\ c.change = Nothing
    BY <2>1 DEF Calls, Only
  <2> QED BY <1>0, <1>1, <2>2 DEF Asked, Tokens, Social, Vouched
<1>2. CASE op = "verify_email"
  <2>1. c \in Calls([Only("verify_email") EXCEPT !.cookie = Known("session") \cup {None}, !.change = Mailed])
    BY <1>2 DEF ProfileRequests
  <2>2. /\ c.op = "verify_email" /\ c.cookie \in Known("session") \cup {None} /\ c.email = NoText /\ c.name = NoText
        /\ c.secret = None /\ c.target = None /\ c.change \in Mailed
    BY <2>1 DEF Calls, Only
  <2> QED BY <1>0, <1>2, <2>2 DEF Asked, Tokens, Social, Vouched
<1>3. CASE op = "change_email"
  <2>1. c \in Calls([Only("change_email") EXCEPT !.cookie = Known("session"), !.email = Emails])
    BY <1>3 DEF ProfileRequests
  <2>2. /\ c.op = "change_email" /\ c.cookie \in Known("session") /\ c.email \in Emails /\ c.name = NoText
        /\ c.secret = None /\ c.target = None /\ c.change = Nothing
    BY <2>1 DEF Calls, Only
  <2> QED BY <1>0, <1>3, <2>2 DEF Asked, Tokens, Social, Vouched
<1>4. CASE op = "delete_user"
  <2>1. c \in Calls([Only("delete_user") EXCEPT !.cookie = Known("session"), !.secret = Passwords \cup {None}, !.target = Known("delete") \cup {None}])
    BY <1>4 DEF ProfileRequests
  <2>2. /\ c.op = "delete_user" /\ c.cookie \in Known("session") /\ c.email = NoText /\ c.name = NoText
        /\ c.secret \in Passwords \cup {None} /\ c.target \in Known("delete") \cup {None} /\ c.change = Nothing
    BY <2>1 DEF Calls, Only
  <2> QED BY <1>0, <1>4, <2>2 DEF Asked, Tokens, Social, Vouched
<1>5. CASE op = "delete_callback"
  <2>1. c \in Calls([Only("delete_callback") EXCEPT !.cookie = Known("session"), !.target = Known("delete")])
    BY <1>5 DEF ProfileRequests
  <2>2. /\ c.op = "delete_callback" /\ c.cookie \in Known("session") /\ c.email = NoText /\ c.name = NoText
        /\ c.secret = None /\ c.target \in Known("delete") /\ c.change = Nothing
    BY <2>1 DEF Calls, Only
  <2> QED BY <1>0, <1>5, <2>2 DEF Asked, Tokens, Social, Vouched
<1>6. CASE op = "create_key"
  <2>1. c \in Calls([Only("create_key") EXCEPT !.cookie = Known("session")])
    BY <1>6 DEF ProfileRequests
  <2>2. /\ c.op = "create_key" /\ c.cookie \in Known("session") /\ c.email = NoText /\ c.name = NoText
        /\ c.secret = None /\ c.target = None /\ c.change = Nothing
    BY <2>1 DEF Calls, Only
  <2> QED BY <1>0, <1>6, <2>2 DEF Asked, Tokens, Social, Vouched
<1> QED BY <1>1, <1>2, <1>3, <1>4, <1>5, <1>6 DEF ProfileOps

LEMMA PasskeyAsked ==
    ASSUME Clients, NEW op \in Ops \cap PasskeyOps, NEW c \in PasskeyRequests(op)
    PROVE  Asked(c) /\ c.op = op
<1>0. /\ \A k, i : i \in Known(k) => i \in 1 .. Len(kind) /\ i \in Id
      /\ \A i \in Passwords : i \in 1 .. Len(kind) /\ i \in Id
      /\ None = 0 /\ None \in 0 .. Len(kind) /\ None \in IdOrNone /\ DOMAIN Nothing = {}
      /\ Len(kind) \in Nat /\ \A i \in Id : i \in IdOrNone
      /\ \A k \in Mailed : LinkOK(k) /\ k.box \in Emails
      /\ {k.id : k \in db.passkeys} \subseteq IdOrNone
  BY CanName DEF IdOrNone
<1>1. CASE op = "register_options"
  <2>1. c \in Calls([Only("register_options") EXCEPT !.cookie = Known("session")])
    BY <1>1 DEF PasskeyRequests
  <2>2. /\ c.op = "register_options" /\ c.cookie \in Known("session") /\ c.email = NoText /\ c.name = NoText
        /\ c.secret = None /\ c.target = None /\ c.change = Nothing
    BY <2>1 DEF Calls, Only
  <2> QED BY <1>0, <1>1, <2>2 DEF Asked, Tokens, Social, Vouched
<1>2. CASE op = "register"
  <2>1. c \in Calls([Only("register") EXCEPT !.cookie = Known("session"), !.secret = Known("register")])
    BY <1>2 DEF PasskeyRequests
  <2>2. /\ c.op = "register" /\ c.cookie \in Known("session") /\ c.email = NoText /\ c.name = NoText
        /\ c.secret \in Known("register") /\ c.target = None /\ c.change = Nothing
    BY <2>1 DEF Calls, Only
  <2> QED BY <1>0, <1>2, <2>2 DEF Asked, Tokens, Social, Vouched
<1>3. CASE op = "authenticate_options"
  <2>1. c \in Calls([Only("authenticate_options") EXCEPT !.cookie = Known("session") \cup {None}])
    BY <1>3 DEF PasskeyRequests
  <2>2. /\ c.op = "authenticate_options" /\ c.cookie \in Known("session") \cup {None} /\ c.email = NoText /\ c.name = NoText
        /\ c.secret = None /\ c.target = None /\ c.change = Nothing
    BY <2>1 DEF Calls, Only
  <2> QED BY <1>0, <1>3, <2>2 DEF Asked, Tokens, Social, Vouched
<1>4. CASE op = "authenticate"
  <2>1. c \in Calls([Only("authenticate") EXCEPT !.secret = Known("login"), !.target = {k.id : k \in db.passkeys}, !.change = [counter : 0 .. MaxCount]])
    BY <1>4 DEF PasskeyRequests
  <2>2. /\ c.op = "authenticate" /\ c.cookie = None /\ c.email = NoText /\ c.name = NoText
        /\ c.secret \in Known("login") /\ c.target \in {k.id : k \in db.passkeys} /\ c.change \in [counter : 0 .. MaxCount]
    BY <2>1 DEF Calls, Only
  <2> QED BY <1>0, <1>4, <2>2 DEF Asked, Tokens, Social, Vouched
<1>5. CASE op = "delete_passkey"
  <2>1. c \in Calls([Only("delete_passkey") EXCEPT !.cookie = Known("session"), !.target = {k.id : k \in db.passkeys}])
    BY <1>5 DEF PasskeyRequests
  <2>2. /\ c.op = "delete_passkey" /\ c.cookie \in Known("session") /\ c.email = NoText /\ c.name = NoText
        /\ c.secret = None /\ c.target \in {k.id : k \in db.passkeys} /\ c.change = Nothing
    BY <2>1 DEF Calls, Only
  <2> QED BY <1>0, <1>5, <2>2 DEF Asked, Tokens, Social, Vouched
<1> QED BY <1>1, <1>2, <1>3, <1>4, <1>5 DEF PasskeyOps

LEMMA AdminAsked ==
    ASSUME Clients, NEW op \in Ops \cap AdminOps, NEW c \in AdminRequests(op)
    PROVE  Asked(c) /\ c.op = op
<1>0. /\ \A k, i : i \in Known(k) => i \in 1 .. Len(kind) /\ i \in Id
      /\ None = 0 /\ None \in 0 .. Len(kind) /\ None \in IdOrNone /\ DOMAIN Nothing = {}
      /\ Len(kind) \in Nat /\ \A i \in Id : i \in IdOrNone
      /\ {t.session : t \in AdminCookies} \subseteq IdOrNone
      /\ {u.id : u \in db.users} \subseteq IdOrNone
  BY CanName DEF IdOrNone
<1>1. /\ c.op = op /\ c.cookie \in Known("session") /\ c.name = NoText /\ c.secret = None
      /\ c.email \in IF op = "create_user" THEN Emails ELSE {NoText}
      /\ c.target \in CASE op = "create_user" -> {None}
                        [] op = "stop_impersonating" -> {t.session : t \in AdminCookies}
                        [] op = "revoke_session" -> Known("session")
                        [] OTHER -> {u.id : u \in db.users}
      /\ c.change \in AdminChanges(op)
  BY DEF AdminRequests, Calls, Only
<1>2. c.target \in IdOrNone
  BY <1>0, <1>1
<1>3. ASSUME op \in {"update_user", "set_role"}
      PROVE  UserChange(c.change) /\ "box" \notin DOMAIN c.change
  <2>1. \/ \E e \in Emails : c.change = [email |-> e]
        \/ \E n \in Names : c.change = [name |-> n]
        \/ \E b \in BOOLEAN : c.change = [banned |-> b]
        \/ \E b \in BOOLEAN : c.change = [admin |-> b]
    BY <1>1, <1>3 DEF AdminChanges
  <2>2. ASSUME NEW e \in Emails, c.change = [email |-> e]
        PROVE  UserChange(c.change) /\ "box" \notin DOMAIN c.change
    BY <2>2 DEF UserChange, UserFields
  <2>3. ASSUME NEW n \in Names, c.change = [name |-> n]
        PROVE  UserChange(c.change) /\ "box" \notin DOMAIN c.change
    BY <2>3 DEF UserChange, UserFields
  <2>4. ASSUME NEW b \in BOOLEAN, c.change = [banned |-> b]
        PROVE  UserChange(c.change) /\ "box" \notin DOMAIN c.change
    BY <2>4 DEF UserChange, UserFields
  <2>5. ASSUME NEW b \in BOOLEAN, c.change = [admin |-> b]
        PROVE  UserChange(c.change) /\ "box" \notin DOMAIN c.change
    BY <2>5 DEF UserChange, UserFields
  <2> QED BY <2>1, <2>2, <2>3, <2>4, <2>5
<1>4. ASSUME op \notin {"update_user", "set_role"} PROVE c.change = Nothing
  BY <1>1, <1>4 DEF AdminChanges
<1>5. c.email \in Emails \cup {NoText} /\ (op = "create_user" => c.email \in Emails)
  BY <1>1
<1>6. ASSUME op = "set_role" PROVE DOMAIN c.change = {"admin"}
  <2>1. \E b \in BOOLEAN : c.change = [admin |-> b]
    BY <1>1, <1>6 DEF AdminChanges
  <2> QED BY <2>1
<1> QED BY <1>0, <1>1, <1>2, <1>3, <1>4, <1>5, <1>6 DEF Asked, Tokens, Social, Vouched, AdminOps

LEMMA ReportedCalls ==
    ASSUME NEW part, NEW c \in Reported(part)
    PROVE  /\ c.op \in part.op /\ c.cookie \in part.cookie /\ c.name \in part.name
           /\ c.secret \in part.secret
           /\ c.target \in Id /\ c.email \in Emails
           /\ \/ c.change = Nothing
              \/ c.change = [box |-> c.email]
<1>1. PICK d \in Calls(part), r \in Reports : c = Reporting(d, r)
  BY DEF Reported
<1>2. /\ DOMAIN d = {"op", "cookie", "email", "name", "secret", "target", "change", "flag"}
      /\ d.op \in part.op /\ d.cookie \in part.cookie /\ d.name \in part.name
      /\ d.secret \in part.secret
  BY DEF Calls
<1>3. r.who \in Id /\ r.email \in Emails
  BY Records
<1> QED BY <1>1, <1>2, <1>3 DEF Reporting

LEMMA SocialAsked ==
    ASSUME Clients, NEW op \in Ops \cap SocialOps, NEW c \in SocialRequests(op)
    PROVE  Asked(c) /\ c.op = op
<1>0. /\ \A k, i : i \in Known(k) => i \in 1 .. Len(kind) /\ i \in Id
      /\ None = 0 /\ None \in 0 .. Len(kind) /\ None \in IdOrNone /\ DOMAIN Nothing = {}
      /\ Len(kind) \in Nat /\ \A i \in Id : i \in IdOrNone
      /\ {a.id : a \in db.accounts} \subseteq IdOrNone
      /\ {r.who : r \in Reports} \subseteq IdOrNone
      /\ \A k \in CookiesOut : /\ "box" \notin DOMAIN k
                               /\ k.account \in Id /\ k.user \in Id /\ k.grant \in IdOrNone
  BY CanName, Records DEF IdOrNone
<1>1. CASE op = "social_sign_in"
  <2>1. c \in Calls(Only("social_sign_in"))
    BY <1>1 DEF SocialRequests
  <2>2. /\ c.op = "social_sign_in" /\ c.cookie = None /\ c.email = NoText /\ c.name = NoText
        /\ c.secret = None /\ c.target = None /\ c.change = Nothing
    BY <2>1 DEF Calls, Only
  <2> QED BY <1>0, <1>1, <2>2 DEF Asked, Tokens, Social, Vouched
<1>2. CASE op = "link_social"
  <2>1. c \in Calls([Only("link_social") EXCEPT !.cookie = Known("session")])
    BY <1>2 DEF SocialRequests
  <2>2. /\ c.op = "link_social" /\ c.cookie \in Known("session") /\ c.email = NoText /\ c.name = NoText
        /\ c.secret = None /\ c.target = None /\ c.change = Nothing
    BY <2>1 DEF Calls, Only
  <2> QED BY <1>0, <1>2, <2>2 DEF Asked, Tokens, Social, Vouched
<1>3. CASE op = "callback"
  <2>1. \/ c \in Reported([Only("callback") EXCEPT !.secret = Known("state"), !.flag = BOOLEAN])
        \/ c \in Calls([Only("callback") EXCEPT !.secret = Known("state"), !.flag = {TRUE}])
    BY <1>3 DEF SocialRequests
  <2>2. CASE c \in Reported([Only("callback") EXCEPT !.secret = Known("state"), !.flag = BOOLEAN])
    <3> DEFINE part == [Only("callback") EXCEPT !.secret = Known("state"), !.flag = BOOLEAN]
    <3>0. /\ part.op = {"callback"} /\ part.cookie = {None} /\ part.name = {NoText}
          /\ part.secret = Known("state")
      BY DEF Only
    <3> HIDE DEF part
    <3>1. /\ c.op = "callback" /\ c.cookie = None /\ c.name = NoText /\ c.secret \in Known("state")
          /\ c.target \in Id /\ c.email \in Emails
          /\ \/ c.change = Nothing
             \/ c.change = [box |-> c.email]
      <4>1. c \in Reported(part)
        BY <2>2 DEF part
      <4> QED BY <3>0, <4>1, ReportedCalls
    <3> QED BY <1>0, <1>3, <3>1 DEF Asked, Tokens, Social, Vouched
  <2>3. CASE c \in Calls([Only("callback") EXCEPT !.secret = Known("state"), !.flag = {TRUE}])
    <3>1. /\ c.op = "callback" /\ c.cookie = None /\ c.name = NoText /\ c.secret \in Known("state")
          /\ c.target = None /\ c.email = NoText /\ c.change = Nothing
      BY <2>3 DEF Calls, Only
    <3> QED BY <1>0, <1>3, <3>1 DEF Asked, Tokens, Social, Vouched
  <2> QED BY <2>1, <2>2, <2>3
<1>4. CASE op = "id_token_sign_in"
  <2>1. c \in Reported(Only("id_token_sign_in"))
    BY <1>4 DEF SocialRequests
  <2>2. /\ c.op = "id_token_sign_in" /\ c.cookie = None /\ c.name = NoText /\ c.secret = None
        /\ c.target \in Id /\ c.email \in Emails
        /\ \/ c.change = Nothing
           \/ c.change = [box |-> c.email]
    BY <2>1, ReportedCalls DEF Only
  <2> QED BY <1>0, <1>4, <2>2 DEF Asked, Tokens, Social, Vouched
<1>5. CASE op = "link_id_token"
  <2>1. c \in Reported([Only("link_id_token") EXCEPT !.cookie = Known("session")])
    BY <1>5 DEF SocialRequests
  <2>2. /\ c.op = "link_id_token" /\ c.cookie \in Known("session") /\ c.name = NoText /\ c.secret = None
        /\ c.target \in Id /\ c.email \in Emails
        /\ \/ c.change = Nothing
           \/ c.change = [box |-> c.email]
    BY <2>1, ReportedCalls DEF Only
  <2> QED BY <1>0, <1>5, <2>2 DEF Asked, Tokens, Social, Vouched
<1>6. CASE op \in {"refresh_token", "get_access_token"}
  <2>1. c \in Calls([Only(op) EXCEPT !.cookie = Known("session"),
                                     !.change = CookiesOut \cup {Nothing},
                                     !.flag = IF op = "refresh_token" THEN {TRUE} ELSE BOOLEAN])
    BY <1>6 DEF SocialRequests
  <2>2. /\ c.op = op /\ c.cookie \in Known("session") /\ c.email = NoText /\ c.name = NoText
        /\ c.secret = None /\ c.target = None /\ c.change \in CookiesOut \cup {Nothing}
    BY <2>1 DEF Calls, Only
  <2> QED BY <1>0, <1>6, <2>2 DEF Asked, Tokens, Social, Vouched
<1>7. CASE op = "account_info"
  <2>1. c \in Calls([Only("account_info") EXCEPT
                        !.cookie = Known("session"),
                        !.target = {r.who : r \in Reports} \cup {None},
                        !.change = CookiesOut \cup {Nothing}, !.flag = BOOLEAN])
    BY <1>7 DEF SocialRequests
  <2>2. /\ c.op = op /\ c.cookie \in Known("session") /\ c.email = NoText /\ c.name = NoText
        /\ c.secret = None /\ c.target \in {r.who : r \in Reports} \cup {None}
        /\ c.change \in CookiesOut \cup {Nothing}
    BY <1>7, <2>1 DEF Calls, Only
  <2> QED BY <1>0, <1>7, <2>2 DEF Asked, Tokens, Social, Vouched
<1>8. CASE op = "unlink"
  <2>1. \/ c \in Calls([Only("unlink") EXCEPT !.cookie = Known("session"),
                                              !.target = {a.id : a \in db.accounts}])
        \/ c \in Calls([Only("unlink") EXCEPT !.cookie = Known("session"),
                                              !.change = [provider : Providers]])
    BY <1>8 DEF SocialRequests
  <2>2. /\ c.op = "unlink" /\ c.cookie \in Known("session") /\ c.email = NoText /\ c.name = NoText
        /\ c.secret = None /\ c.target \in {a.id : a \in db.accounts} \cup {None}
        /\ c.change \in [provider : Providers] \cup {Nothing}
    BY <2>1 DEF Calls, Only
  <2> QED BY <1>0, <1>8, <2>2 DEF Asked, Tokens, Social, Vouched
<1> QED BY <1>1, <1>2, <1>3, <1>4, <1>5, <1>6, <1>7, <1>8 DEF SocialOps

\* Every call a client makes is well formed.
LEMMA PossibleAsked ==
    ASSUME Clients, NEW op \in Ops, NEW c \in Possible(op)
    PROVE  Asked(c) /\ c.op = op
<1>0. op \in AllOps
  BY IdentityAssumption
<1>1. CASE op \in CredentialOps
  <2>1. op \notin AdminOps \cup ProfileOps \cup PasskeyOps \cup SocialOps
    BY <1>1 DEF CredentialOps, AdminOps, ProfileOps, PasskeyOps, SocialOps
  <2> QED BY <1>1, <2>1, CredentialAsked DEF Possible
<1>2. CASE op \in AdminOps
  <2>1. op \notin CredentialOps \cup ProfileOps \cup PasskeyOps \cup SocialOps
    BY <1>2 DEF CredentialOps, AdminOps, ProfileOps, PasskeyOps, SocialOps
  <2> QED BY <1>2, <2>1, AdminAsked DEF Possible
<1>3. CASE op \in ProfileOps
  <2>1. op \notin CredentialOps \cup AdminOps \cup PasskeyOps \cup SocialOps
    BY <1>3 DEF CredentialOps, AdminOps, ProfileOps, PasskeyOps, SocialOps
  <2> QED BY <1>3, <2>1, ProfileAsked DEF Possible
<1>4. CASE op \in PasskeyOps
  <2>1. op \notin CredentialOps \cup AdminOps \cup ProfileOps \cup SocialOps
    BY <1>4 DEF CredentialOps, AdminOps, ProfileOps, PasskeyOps, SocialOps
  <2> QED BY <1>4, <2>1, PasskeyAsked DEF Possible
<1>5. CASE op \in SocialOps
  <2>1. op \notin CredentialOps \cup AdminOps \cup ProfileOps \cup PasskeyOps
    BY <1>5 DEF CredentialOps, AdminOps, ProfileOps, PasskeyOps, SocialOps
  <2> QED BY <1>5, <2>1, SocialAsked DEF Possible
<1> QED BY <1>0, <1>1, <1>2, <1>3, <1>4, <1>5 DEF AllOps

-----------------------------------------------------------------------------
(* The statements a request sends are those of its endpoint, and what it   *)
(* has found out is what they need.                                        *)

\* With request c at statement x and l found out.
At(x, c, l) ==
    \* What the helpers do, for whom.
    /\ x \in {"issue", "lift_ban", "create_session"} =>
          c.op \in Issuing /\ (c.op \in Social => l.link.email = NoText)
    /\ x \in {"list_accounts", "delete_account", "delete_keys", "delete_user"} => c.op \in Deleting
    /\ x = "delete_sessions" =>
          c.op \in Deleting \cup {"reset", "change_password", "ban", "revoke_sessions"}
    \* Credentials.
    /\ x = "check_email" => c.op \in {"sign_up", "create_user"}
    /\ x = "sign_up" => c.op = "sign_up"
    /\ x = "check_password" =>
          c.op \in SignIns \cup {"change_password", "verify_password", "delete_user"}
    /\ x = "check_unverified" => c.op \in SignIns
    /\ x = "store_token" => c.op = "request_reset"
    /\ x \in {"find_credential", "write_password"} =>
          c.op \in {"reset", "change_password", "set_password"}
    /\ x = "add_credential" => c.op \in {"reset", "create_user"}
    /\ x = "delete_token" => c.op = "reset"
    /\ x = "reread" => c.op = "change_password"
    \* Administration.
    /\ x = "create_user" => c.op = "create_user"
    /\ x = "check_name" => c.op = "update_user"
    /\ x = "update_user" => c.op \in {"update_user", "set_role", "ban", "unban"}
    /\ x = "find_target" => c.op \in {"set_role", "ban", "unban", "impersonate", "remove_user"}
    /\ x = "delete_session" => c.op = "revoke_session"
    /\ x \in {"lift_first", "impersonate"} => c.op = "impersonate"
    /\ x \in {"find_target", "check_name", "update_user"} => l.user = c.target
    /\ x \in {"find_admin", "find_own_session", "end_impersonation"} => c.op = "stop_impersonating"
    \* Profile.
    /\ x = "mail_link" =>
          c.op \in {"send_verification", "verify_email", "change_email"} /\ LinkOK(l.link)
    /\ x = "check_address" => c.op = "change_email" /\ (l.link = NoLink \/ LinkOK(l.link))
    /\ x = "update_address" => c.op = "change_email"
    /\ x \in {"find_by_email", "mark_verified"} => c.op = "verify_email"
    /\ x = "change_address" => c.op = "verify_email" /\ c.change.type = "change"
    /\ x \in {"find_delete_token", "drop_delete_token"} => c.op \in {"delete_user", "delete_callback"}
    /\ x = "store_delete_token" => c.op = "delete_user"
    /\ x = "create_key" => c.op = "create_key" /\ l.user # None
    \* Passkeys.
    /\ x \in {"list_passkeys", "store_challenge"} =>
          c.op \in {"register_options", "authenticate_options"}
    /\ x \in {"find_challenge", "create_passkey"} => c.op = "register"
    /\ x = "drop_challenge" => c.op \in {"register", "authenticate"}
    /\ x \in {"find_passkey", "update_passkey", "find_passkey_user"} => c.op = "authenticate"
    /\ x \in {"check_owner", "delete_passkey"} => c.op = "delete_passkey"
    \* Social sign-in.
    /\ x = "store_state" => c.op \in {"social_sign_in", "link_social"}
                            /\ (l.user = None <=> l.link.email = NoText)
    /\ x = "find_link_user" => c.op \in {"link_social", "link_id_token"} /\ l.user # None
    /\ x = "find_linked" => c.op = "link_id_token" /\ l.user # None
    /\ x = "drop_state" => c.op = "callback"
    /\ x = "find_account" => c.op \in Social
    /\ x \in {"drop_state", "find_account"} => (l.user = None <=> l.link.email = NoText)
    /\ x \in {"find_account_user", "find_by_report", "mark_reported", "override_verified",
              "override_unverified", "create_social_user"} =>
          c.op \in Social /\ l.link.email = NoText
    /\ x = "update_account" => c.op \in Social \cup Tokens
    /\ x = "create_account" =>
          /\ c.op \in Social \cup {"link_id_token"}
          /\ IF c.op \in Social /\ l.link.email = NoText
             THEN l.then \in {"issue", "mark_reported", "override_verified", "override_unverified"}
             ELSE l.then = "answer"
    /\ x \in {"find_link_user", "find_linked", "drop_state", "find_account"} => l.then = "answer"
    /\ x = "create_social_user" => l.then = "issue"
    /\ c.op = "callback" /\ x # "drop_state" => c.target # None
    /\ x = "find_info" => c.op = "account_info"
    /\ x \in {"find_tokens", "exchange", "answer"} => c.op \in Tokens
    /\ x \in {"list_unlink", "has_password", "unlink"} => c.op = "unlink"

RequestOK(p) ==
    IF pc[p] = "idle" THEN call[p] = NoCall /\ local[p] = Blank
    ELSE /\ Asked(call[p])
         /\ local[p] \in Local /\ local[p].got \subseteq 1 .. Len(kind)
         /\ At(pc[p], call[p], local[p])

\* The state of a flow has the address of whoever it is to link an account to.
StatesOK ==
    \A v \in db.verifications \cup (signed \cap Verification) :
        v.purpose = "state" => (v.about = None <=> v.email = NoText)

\* An inductive strengthening of TypeOK.
Typed ==
    /\ Clients /\ StatesOK
    /\ pc = [p \in Requests |-> pc[p]] /\ call = [p \in Requests |-> call[p]]
    /\ local = [p \in Requests |-> local[p]]
    /\ \A p \in Requests : RequestOK(p)
    /\ calls \in 0 .. MaxCalls
    /\ twice \subseteq honoured /\ honoured \subseteq Id
    /\ via \subseteq Id \X Id
    /\ ousted \subseteq Id
    /\ proven \subseteq Emails
    /\ earned \in [Requests -> SUBSET Claims]
    /\ undue \subseteq Ops
    /\ broken \subseteq Id
    /\ contested \subseteq Id

-----------------------------------------------------------------------------
(* What each statement does, apart from where its request goes on.         *)

Unsigned == UNCHANGED signed /\ KeepIds

SendsRead == UNCHANGED <<db, signed>> /\ KeepIds
SendsLift(p) ==
    /\ pc[p] \in {"lift_ban", "lift_first"} /\ Unsigned
    /\ CanUpdateUser(db, local[p].user, [banned |-> FALSE])
    /\ db' = UpdateUser(db, local[p].user, [banned |-> FALSE])
SendsSession(p) ==
    LET first == pc[p] = "impersonate"
        by == IF first THEN local[p].row ELSE None
        password == IF ~ first /\ call[p].op \in SignIns THEN call[p].secret ELSE None
    IN  /\ pc[p] \in {"create_session", "impersonate"}
        /\ CanCreateSession(db, local[p].user)
        /\ db' = CreateSession(db, fresh, local[p].user, by)
        /\ DrawFor(<<"session">>, password)
        /\ \/ signed' = signed
           \/ signed' = signed \cup {AdminCookie(call[p].cookie)}
           \/ /\ pc[p] = "create_session" /\ call[p].op \in Social /\ local[p].row # None
              /\ signed' = signed \cup {AccountCookie(i, local[p].user, local[p].row) :
                                            i \in local[p].todo}
SendsRevoke(p) ==
    /\ pc[p] = "delete_sessions" /\ Unsigned
    /\ db' = DeleteUserSessions(db, local[p].user)
SendsEnd(p) ==
    /\ Unsigned
    /\ \/ pc[p] = "end_impersonation" /\ db' = DeleteSession(db, call[p].cookie)
       \/ pc[p] = "delete_session" /\ db' = DeleteSession(db, call[p].target)
SendsUnlink(p) ==
    /\ pc[p] \in {"delete_account", "unlink"} /\ Unsigned
    /\ \E i \in local[p].todo : db' = DeleteAccount(db, i)
SendsDelete(p) ==
    /\ Unsigned
    /\ \/ pc[p] = "delete_keys" /\ db' = DeleteKeys(db, local[p].user)
       \/ pc[p] = "delete_user" /\ db' = DeleteUser(db, local[p].user)
SendsPassword(p) ==
    /\ pc[p] = "write_password" /\ UNCHANGED signed
    /\ \E a \in AccountOf(db, local[p].row) : db' = UpdateAccount(db, a.id, [password |-> fresh])
    /\ Draw(<<"password">>)
SendsCredential(p) ==
    LET a == NewCredential(fresh, local[p].user, fresh + 1) IN
    /\ pc[p] = "add_credential" /\ UNCHANGED signed
    /\ CanCreateAccount(db, a) /\ db' = CreateAccount(db, a)
    /\ Draw(<<"account", "password">>)
SendsSignUp(p) ==
    LET c == call[p]
        new == CreateAccount(CreateUser(db, NewUser(fresh, c.email, c.name, FALSE, FALSE)),
                             NewCredential(fresh + 1, fresh, fresh + 2))
    IN  /\ pc[p] = "sign_up" /\ UNCHANGED signed
        /\ CanCreateUser(db, c.email, c.name)
        /\ \/ /\ db' = CreateSession(new, fresh + 3, fresh, None)
              /\ DrawFor(<<"user", "account", "password", "session">>, fresh + 2)
           \/ db' = new /\ Draw(<<"user", "account", "password">>)
SendsNewUser(p) ==
    /\ pc[p] \in {"create_user", "create_social_user"} /\ UNCHANGED signed
    /\ CanCreateUser(db, call[p].email, NoText)
    /\ \E verified \in BOOLEAN :
          /\ verified => pc[p] = "create_social_user" /\ Vouched(call[p])
          /\ db' = CreateUser(db, NewUser(fresh, call[p].email, NoText, verified, FALSE))
    /\ Draw(<<"user">>)
SendsUpdate(p) ==
    /\ pc[p] = "update_user" /\ Unsigned
    /\ CanUpdateUser(db, call[p].target, Change(call[p]))
    /\ db' = UpdateUser(db, call[p].target, Change(call[p]))
\* What a request writes to its user's address or the mark on it.
ChangeOf(x, c) ==
    IF x = "update_address" THEN [email |-> c.email]
    ELSE IF x = "change_address" THEN [email |-> c.change.to, verified |-> TRUE]
    ELSE IF x \in {"mark_verified", "mark_reported"} THEN [verified |-> TRUE]
    ELSE [email |-> c.email, verified |-> x = "override_verified"]
SendsProfile(p) ==
    /\ pc[p] \in {"update_address", "change_address", "mark_verified", "mark_reported",
                  "override_verified", "override_unverified"}
    /\ Unsigned
    /\ \E change : /\ UserChange(change) /\ DOMAIN change \subseteq {"email", "verified"}
                   /\ change = ChangeOf(pc[p], call[p])
                   /\ CanUpdateUser(db, local[p].user, change)
                   /\ db' = UpdateUser(db, local[p].user, change)
SendsLink(p) ==
    /\ pc[p] = "mail_link" /\ UNCHANGED db /\ KeepIds
    /\ signed' = signed \cup {local[p].link}
SendsSecret(p) ==
    \E v \in Verification :
        /\ v.id = fresh
        /\ \/ /\ \/ pc[p] = "store_token" /\ v.purpose = "reset" /\ v.about = local[p].user
                 \/ pc[p] = "store_delete_token" /\ v.purpose = "delete" /\ v.about = local[p].user
                 \/ /\ pc[p] = "store_challenge" /\ call[p].op = "register_options"
                    /\ v.purpose = "register" /\ v.about = local[p].user /\ v.keys = {}
                 \/ pc[p] = "store_challenge" /\ v.purpose = "login" /\ v.keys = local[p].keys
                 \/ /\ pc[p] = "store_state" /\ v.purpose = "state" /\ v.keys = {}
                    /\ v.about = local[p].user /\ v.email = local[p].link.email
              /\ db' = CreateVerification(db, v) /\ UNCHANGED signed
           \/ /\ pc[p] = "store_state" /\ StateInCookie /\ v.purpose = "state" /\ v.keys = {}
              /\ v.about = local[p].user /\ v.email = local[p].link.email
              /\ signed' = signed \cup {v} /\ UNCHANGED db
        /\ Draw(<<v.purpose>>)
SendsSpend(p) ==
    /\ Unsigned
    /\ \/ pc[p] = "delete_token" /\ db' = DeleteVerification(db, call[p].secret)
       \/ /\ pc[p] \in {"drop_delete_token", "drop_challenge"}
          /\ db' = DeleteVerification(db, local[p].row)
SendsState(p) ==
    /\ pc[p] = "drop_state" /\ UNCHANGED signed
    /\ db' = StateGone(call[p].secret)
    /\ KeepIds \/ Draw(<<"grant">>)
SendsKey(p) ==
    /\ pc[p] = "create_key" /\ UNCHANGED signed
    /\ db' = CreateApiKey(db, fresh, local[p].user) /\ Draw(<<"key">>)
SendsPasskey(p) ==
    /\ Unsigned
    /\ \/ /\ pc[p] = "create_passkey" /\ CanCreatePasskey(db, call[p].secret, local[p].user)
          /\ db' = CreatePasskey(db, call[p].secret, local[p].user, 0)
       \/ /\ pc[p] = "update_passkey"
          /\ \E k \in local[p].keys : db' = UpdatePasskey(db, k.id, k.counter)
       \/ pc[p] = "delete_passkey" /\ db' = DeletePasskey(db, call[p].target)
SendsGrant(p) ==
    /\ pc[p] = "update_account" /\ KeepIds
    /\ \E i \in local[p].todo :
          \E a \in AccountOf(db, i) :
              /\ db' = GrantStored(a.id, local[p].row)
              /\ signed' \in {signed, signed \cup CookieAnew(call[p], a, local[p].row)}
SendsAccount(p) ==
    LET a == [id |-> fresh, user |-> local[p].user, provider |-> "social",
              subject |-> call[p].target, password |-> None, grant |-> local[p].row]
    IN  /\ pc[p] = "create_account" /\ UNCHANGED signed
        /\ CanCreateAccount(db, a) /\ db' = CreateAccount(db, a)
        /\ Draw(<<"account">>)
SendsExchange(p) ==
    /\ pc[p] = "exchange" /\ kind[local[p].row] = "grant"
    /\ UNCHANGED <<db, signed, via>> /\ Room(1)
    /\ kind' = Append([kind EXCEPT ![local[p].row] = "replaced"], "grant")

SendsUser(p) ==
    SendsLift(p) \/ SendsSignUp(p) \/ SendsNewUser(p) \/ SendsUpdate(p) \/ SendsProfile(p)
      \/ SendsDelete(p)
SendsSessions(p) == SendsSession(p) \/ SendsRevoke(p) \/ SendsEnd(p)
SendsAccounts(p) ==
    SendsUnlink(p) \/ SendsPassword(p) \/ SendsCredential(p) \/ SendsGrant(p) \/ SendsAccount(p)
SendsOther(p) ==
    SendsLink(p) \/ SendsSecret(p) \/ SendsSpend(p) \/ SendsState(p) \/ SendsKey(p)
      \/ SendsPasskey(p) \/ SendsExchange(p)
Sends(p) == SendsRead \/ SendsUser(p) \/ SendsSessions(p) \/ SendsAccounts(p) \/ SendsOther(p)

-----------------------------------------------------------------------------
(* What a statement leaves.                                                *)

Left ==
    /\ kind' \in Seq(Kinds) /\ Len(kind) <= Len(kind') /\ Len(kind') <= MaxIds
    /\ Good(db', Len(kind'))
    /\ SignedOK' /\ StatesOK'
    /\ via' \subseteq Id \X Id

LEMMA DrawnIds ==
    ASSUME Typed, NEW kinds, NEW n \in Nat, Len(kinds) = n, NEW password, DrawFor(kinds, password)
    PROVE  \A i \in 0 .. n - 1 : fresh + i \in Id
<1>1. fresh + n - 1 <= MaxIds
  BY DEF DrawFor, Room
<1>2. Len(kind) \in Nat /\ MaxIds \in Nat /\ fresh = Len(kind) + 1
  BY StoreAssumption DEF Typed, Clients, fresh
<1> QED BY <1>1, <1>2 DEF Id

LEMMA Drawing ==
    ASSUME Typed, NEW kinds \in Seq(Kinds), NEW password \in IdOrNone,
           DrawFor(kinds, password)
    PROVE  /\ kind' \in Seq(Kinds) /\ Len(kind') = Len(kind) + Len(kinds) /\ Len(kind') <= MaxIds
           /\ via' \subseteq Id \X Id
           /\ \A i \in Len(kind) + 1 .. Len(kind') : i \in Id
<1>0. /\ kind \in Seq(Kinds) /\ Len(kind) \in Nat /\ Len(kinds) \in Nat /\ via \subseteq Id \X Id
      /\ MaxIds \in Nat /\ None = 0
  BY StoreAssumption DEF Typed, Clients, None
<1>1. kind' = kind \o kinds /\ kind' \in Seq(Kinds) /\ Len(kind') = Len(kind) + Len(kinds)
  BY <1>0, ConcatProperties DEF DrawFor
<1>2. Len(kind') <= MaxIds
  BY <1>0, <1>1 DEF DrawFor, Room, fresh
<1>3. \A i \in Len(kind) + 1 .. Len(kind') : i \in Id
  BY <1>0, <1>1, <1>2 DEF Id
<1>4. ASSUME password # None, NEW i \in 1 .. Len(kinds)
      PROVE  <<fresh + i - 1, password>> \in Id \X Id
  <2>1. fresh + i - 1 \in Len(kind) + 1 .. Len(kind')
    BY <1>0, <1>1 DEF fresh
  <2>2. password \in Id
    BY <1>4 DEF IdOrNone
  <2> QED BY <1>3, <2>1, <2>2
<1>5. via' \subseteq Id \X Id
  BY <1>0, <1>4 DEF DrawFor
<1> QED BY <1>1, <1>2, <1>3, <1>5

LEMMA NoneDrawn ==
    ASSUME Typed, KeepIds
    PROVE  /\ kind' = kind /\ kind' \in Seq(Kinds) /\ Len(kind) \in Nat /\ Len(kind) <= Len(kind')
           /\ Len(kind') <= MaxIds /\ via' \subseteq Id \X Id
  BY StoreAssumption DEF Typed, Clients, KeepIds

LEMMA Now ==
    ASSUME Typed
    PROVE  /\ db \in Database /\ Good(db, Len(kind)) /\ Len(kind) \in Nat /\ Len(kind) <= Len(kind)
           /\ kind \in Seq(Kinds) /\ Len(kind) <= MaxIds /\ MaxIds \in Nat
           /\ fresh = Len(kind) + 1 /\ None = 0 /\ None \in IdOrNone /\ None \notin Id
           /\ \A i \in Id : i \in IdOrNone
           /\ \A p \in Requests : RequestOK(p)
<1>1. /\ db \in Database /\ Good(db, Len(kind)) /\ kind \in Seq(Kinds) /\ Len(kind) <= MaxIds
      /\ \A p \in Requests : RequestOK(p)
  BY DEF Typed, Clients, Good
<1>2. Len(kind) \in Nat /\ MaxIds \in Nat
  BY <1>1, StoreAssumption
<1> QED BY <1>1, <1>2 DEF fresh, None, IdOrNone, Id

\* Nothing new is signed and no secret stored.
LEMMA NoNewSecrets ==
    ASSUME Typed, signed' = signed, db'.verifications \subseteq db.verifications,
           Len(kind) <= Len(kind'), Len(kind') \in Nat
    PROVE  SignedOK' /\ StatesOK'
<1>1. SignedOK /\ StatesOK /\ Len(kind) \in Nat
  BY Now DEF Typed, Clients
<1>2. SignedOK'
  BY <1>1 DEF SignedOK, CookiesOut, Id
<1>3. StatesOK'
  BY <1>1 DEF StatesOK
<1> QED BY <1>2, <1>3

\* A statement that draws no id.
LEMMA LeftUnsigned ==
    ASSUME Typed, Unsigned, db'.verifications \subseteq db.verifications,
           Good(db', Len(kind))
    PROVE  Left
<1>1. /\ kind' = kind /\ kind' \in Seq(Kinds) /\ Len(kind) \in Nat /\ Len(kind) <= Len(kind')
      /\ Len(kind') <= MaxIds /\ via' \subseteq Id \X Id
  BY NoneDrawn DEF Unsigned
<1>2. SignedOK' /\ StatesOK'
  BY <1>1, NoNewSecrets DEF Unsigned
<1> QED BY <1>1, <1>2 DEF Left

\* A statement that draws ids.
LEMMA LeftDrawn ==
    ASSUME Typed, NEW kinds \in Seq(Kinds), NEW password \in IdOrNone, DrawFor(kinds, password),
           signed' = signed, db'.verifications \subseteq db.verifications,
           Good(db', Len(kind) + Len(kinds))
    PROVE  Left
<1>1. /\ kind' \in Seq(Kinds) /\ Len(kind') = Len(kind) + Len(kinds) /\ Len(kind') <= MaxIds
      /\ via' \subseteq Id \X Id
  BY Drawing
<1>2. Len(kind) \in Nat /\ Len(kinds) \in Nat
  BY Now
<1>3. SignedOK' /\ StatesOK'
  BY <1>1, <1>2, NoNewSecrets
<1> QED BY <1>1, <1>2, <1>3 DEF Left

LEMMA Unverified ==
    ASSUME NEW d \in Database
    PROVE  /\ \A i, change : UpdateUser(d, i, change).verifications = d.verifications
           /\ \A u : CreateUser(d, u).verifications = d.verifications
           /\ \A i : DeleteUser(d, i).verifications = d.verifications
           /\ \A i : DeleteKeys(d, i).verifications = d.verifications
           /\ \A i, by, u : CreateSession(d, i, u, by).verifications = d.verifications
           /\ \A i : DeleteSession(d, i).verifications = d.verifications
           /\ \A i : DeleteUserSessions(d, i).verifications = d.verifications
           /\ \A a : CreateAccount(d, a).verifications = d.verifications
           /\ \A i, change : UpdateAccount(d, i, change).verifications = d.verifications
           /\ \A i : DeleteAccount(d, i).verifications = d.verifications
           /\ \A i, u, c : CreatePasskey(d, i, u, c).verifications = d.verifications
           /\ \A i, c : UpdatePasskey(d, i, c).verifications = d.verifications
           /\ \A i : DeletePasskey(d, i).verifications = d.verifications
           /\ \A i, u : CreateApiKey(d, i, u).verifications = d.verifications
<1>1. \A i, change : UpdateUser(d, i, change).verifications = d.verifications
  BY DEF UpdateUser, Database
<1>2. /\ \A u : CreateUser(d, u).verifications = d.verifications
      /\ \A i : DeleteUser(d, i).verifications = d.verifications
      /\ \A i : DeleteKeys(d, i).verifications = d.verifications
  BY DEF CreateUser, DeleteUser, DeleteKeys, Database
<1>3. /\ \A i, by, u : CreateSession(d, i, u, by).verifications = d.verifications
      /\ \A i : DeleteSession(d, i).verifications = d.verifications
      /\ \A i : DeleteUserSessions(d, i).verifications = d.verifications
  BY DEF CreateSession, DeleteSession, DeleteUserSessions, Database
<1>4. /\ \A a : CreateAccount(d, a).verifications = d.verifications
      /\ \A i, change : UpdateAccount(d, i, change).verifications = d.verifications
      /\ \A i : DeleteAccount(d, i).verifications = d.verifications
  BY DEF CreateAccount, UpdateAccount, DeleteAccount, Database
<1>5. /\ \A i, u, c : CreatePasskey(d, i, u, c).verifications = d.verifications
      /\ \A i, c : UpdatePasskey(d, i, c).verifications = d.verifications
      /\ \A i : DeletePasskey(d, i).verifications = d.verifications
      /\ \A i, u : CreateApiKey(d, i, u).verifications = d.verifications
  BY DEF CreatePasskey, UpdatePasskey, DeletePasskey, CreateApiKey, Database
<1> QED BY <1>1, <1>2, <1>3, <1>4, <1>5

LEMMA UserLeft ==
    ASSUME Typed, NEW p \in Requests, pc[p] # "idle", SendsUser(p)
    PROVE  Left
<1>0. /\ db \in Database /\ Good(db, Len(kind)) /\ Len(kind) \in Nat /\ fresh = Len(kind) + 1
      /\ None \in IdOrNone /\ Asked(call[p]) /\ At(pc[p], call[p], local[p])
      /\ local[p] \in Local
  BY Now DEF RequestOK
<1>1. CASE SendsLift(p)
  <2>1. UserChange([banned |-> FALSE])
    BY DEF UserChange, UserFields
  <2>2. Good(db', Len(kind))
    BY <1>0, <1>1, <2>1, UpdateUserGood DEF SendsLift
  <2> QED BY <1>0, <1>1, <2>2, LeftUnsigned, Unverified DEF SendsLift
<1>2. CASE SendsUpdate(p)
  <2>1. UserChange(Change(call[p]))
    <3>1. call[p].op \in {"update_user", "set_role", "ban", "unban"}
      BY <1>0, <1>2 DEF SendsUpdate, At
    <3>2. call[p].op \in {"update_user", "set_role"} => UserChange(call[p].change)
      BY <1>0 DEF Asked
    <3>3. /\ UserChange([banned |-> FALSE]) /\ UserChange([banned |-> TRUE])
          /\ UserChange([banned |-> TRUE, ends |-> "ahead"])
      BY DEF UserChange, UserFields, Ends
    <3> QED BY <3>1, <3>2, <3>3 DEF Change, BanChange
  <2>2. Good(db', Len(kind))
    BY <1>0, <1>2, <2>1, UpdateUserGood DEF SendsUpdate
  <2> QED BY <1>0, <1>2, <2>2, LeftUnsigned, Unverified DEF SendsUpdate
<1>3. CASE SendsProfile(p)
  <2>1. PICK change : /\ UserChange(change) /\ CanUpdateUser(db, local[p].user, change)
                      /\ db' = UpdateUser(db, local[p].user, change)
    BY <1>3 DEF SendsProfile
  <2>2. Good(db', Len(kind))
    BY <1>0, <2>1, UpdateUserGood
  <2> QED BY <1>0, <1>3, <2>1, <2>2, LeftUnsigned, Unverified DEF SendsProfile
<1>4. CASE SendsDelete(p)
  <2>1. Good(db', Len(kind)) /\ db'.verifications = db.verifications
    BY <1>0, <1>4, DeleteUserGood, KeyStatements, Unverified DEF SendsDelete
  <2> QED BY <1>0, <1>4, <2>1, LeftUnsigned DEF SendsDelete
<1>5. CASE SendsNewUser(p)
  <2>1. PICK verified \in BOOLEAN :
               db' = CreateUser(db, NewUser(fresh, call[p].email, NoText, verified, FALSE))
    BY <1>5 DEF SendsNewUser
  <2> DEFINE u == NewUser(fresh, call[p].email, NoText, verified, FALSE)
             new == <<"user">>
  <2>2. new \in Seq(Kinds) /\ Len(new) = 1 /\ DrawFor(new, None)
    BY <1>5 DEF SendsNewUser, Draw, Kinds
  <2> HIDE DEF new
  <2>3. fresh \in Id
    <3>1. \A i \in 0 .. 1 - 1 : fresh + i \in Id
      BY <2>2, DrawnIds
    <3> QED BY <1>0, <3>1
  <2>4. call[p].email \in Emails
    BY <1>0, <1>5 DEF SendsNewUser, At, Asked, Social
  <2>5. u \in User /\ u.id = fresh /\ u.email = call[p].email /\ u.name = NoText
    BY <2>3, <2>4 DEF NewUser, User, Ends
  <2>6. FreeFor(db.users, u.email, u.name)
    BY <1>5, <2>5 DEF SendsNewUser, CanCreateUser
  <2> HIDE DEF u
  <2>7. Good(CreateUser(db, u), Len(kind) + 1)
    BY <1>0, <2>5, <2>6, CreateUserGood
  <2>8. db' = CreateUser(db, u)
    BY <2>1 DEF u
  <2>9. signed' = signed
    BY <1>5 DEF SendsNewUser
  <2> QED BY <1>0, <2>2, <2>7, <2>8, <2>9, LeftDrawn, Unverified
<1>6. CASE SendsSignUp(p)
  <2> DEFINE c == call[p]
             u == NewUser(fresh, c.email, c.name, FALSE, FALSE)
             a == NewCredential(fresh + 1, fresh, fresh + 2)
             d == CreateUser(db, u)
             new == CreateAccount(d, a)
             two == <<"user", "account", "password">>
             all == <<"user", "account", "password", "session">>
  <2>1. /\ two \in Seq(Kinds) /\ Len(two) = 3 /\ all \in Seq(Kinds) /\ Len(all) = 4
    BY DEF Kinds
  <2>2. \/ DrawFor(two, None) /\ db' = new
        \/ DrawFor(all, fresh + 2) /\ db' = CreateSession(new, fresh + 3, fresh, None)
    BY <1>6 DEF SendsSignUp, Draw
  <2> HIDE DEF two, all
  <2>3. fresh \in Id /\ fresh + 1 \in Id /\ fresh + 2 \in Id
    <3>1. \A i \in 0 .. 3 - 1 : fresh + i \in Id
      <4>1. CASE DrawFor(two, None)
        BY <2>1, <4>1, DrawnIds
      <4>2. CASE DrawFor(all, fresh + 2)
        <5>1. \A i \in 0 .. 4 - 1 : fresh + i \in Id
          BY <2>1, <4>2, DrawnIds
        <5> QED BY <5>1
      <4> QED BY <2>2, <4>1, <4>2
    <3> QED BY <1>0, <3>1
  <2>4. c.email \in Emails /\ c.name \in Names \cup {NoText}
    BY <1>0, <1>6 DEF SendsSignUp, At, Asked
  <2>5. u \in User /\ u.id = fresh /\ u.email = c.email /\ u.name = c.name
    BY <2>3, <2>4 DEF NewUser, User, Ends
  <2>6. FreeFor(db.users, u.email, u.name)
    BY <1>6, <2>5 DEF SendsSignUp, CanCreateUser
  <2>7. a \in Account /\ a.id = fresh + 1 /\ a.user = fresh /\ a.provider = "credential" /\ a.subject = fresh
    BY <2>3 DEF NewCredential, Account, Id, IdOrNone, Providers
  <2> HIDE DEF u, a
  <2>8. Good(d, Len(kind) + 1)
    BY <1>0, <2>5, <2>6, CreateUserGood
  <2>9. d.users = db.users \cup {u} /\ d.accounts = db.accounts /\ d \in Database
    BY <1>0, <2>5 DEF CreateUser, Database
  <2>10. CanCreateAccount(d, a)
    <3>1. u \in UserOf(d, a.user)
      BY <2>5, <2>7, <2>9 DEF UserOf
    <3>2. \A b \in db.accounts : b.provider = "credential" => b.subject # fresh
      <4>1. \A b \in db.accounts : OwnSubject(b) /\ UserOf(db, b.user) # {}
        BY <1>0 DEF Good, Drawn, Sound
      <4>2. \A r \in db.users : r.id <= Len(kind) /\ r.id \in Int
        BY <1>0 DEF Good, Drawn, Database, User, Id
      <4> QED BY <1>0, <4>1, <4>2 DEF OwnSubject, UserOf
    <3> QED BY <2>7, <2>9, <3>1, <3>2 DEF CanCreateAccount, AccountAt
  <2>11. Good(new, Len(kind) + 3)
    BY <1>0, <2>7, <2>8, <2>10, CreateAccountGood DEF OwnSubject
  <2>12. /\ new \in Database /\ new.verifications = db.verifications
         /\ u \in UserOf(new, fresh)
    BY <1>0, <2>5, <2>7, <2>9, Unverified DEF CreateAccount, Database, UserOf
  <2> HIDE DEF new
  <2>13. signed' = signed /\ None \in IdOrNone /\ fresh + 2 \in IdOrNone
    BY <1>6, <2>3, Now DEF SendsSignUp
  <2>14. CASE DrawFor(two, None) /\ db' = new
    BY <1>0, <2>1, <2>11, <2>12, <2>13, <2>14, LeftDrawn
  <2>15. CASE DrawFor(all, fresh + 2) /\ db' = CreateSession(new, fresh + 3, fresh, None)
    <3>1. fresh + 3 \in Id
      <4>1. \A i \in 0 .. 4 - 1 : fresh + i \in Id
        BY <2>1, <2>15, DrawnIds
      <4> QED BY <4>1
    <3>2. Good(new, Len(kind) + 4)
      BY <1>0, <2>11, DrawnMore
    <3>3. Good(db', Len(kind) + 4)
      BY <1>0, <2>3, <2>12, <2>15, <3>1, <3>2, Now, SessionStatements DEF CanCreateSession
    <3>4. db'.verifications = db.verifications
      BY <2>12, <2>15, Unverified
    <3> QED BY <1>0, <2>1, <2>13, <2>15, <3>3, <3>4, LeftDrawn
  <2> QED BY <2>2, <2>14, <2>15
<1> QED BY <1>1, <1>2, <1>3, <1>4, <1>5, <1>6 DEF SendsUser

LEMMA SessionsLeft ==
    ASSUME Typed, NEW p \in Requests, pc[p] # "idle", SendsSessions(p)
    PROVE  Left
<1>0. /\ db \in Database /\ Good(db, Len(kind)) /\ Len(kind) \in Nat /\ fresh = Len(kind) + 1
      /\ None \in IdOrNone /\ Asked(call[p]) /\ At(pc[p], call[p], local[p])
      /\ local[p] \in Local
  BY Now DEF RequestOK
<1>1. CASE SendsRevoke(p)
  <2>1. Good(db', Len(kind)) /\ db'.verifications = db.verifications
    BY <1>0, <1>1, SessionStatements, Unverified DEF SendsRevoke
  <2> QED BY <1>1, <2>1, LeftUnsigned DEF SendsRevoke
<1>2. CASE SendsEnd(p)
  <2>1. Good(db', Len(kind)) /\ db'.verifications = db.verifications
    BY <1>0, <1>2, SessionStatements, Unverified DEF SendsEnd
  <2> QED BY <1>2, <2>1, LeftUnsigned DEF SendsEnd
<1>3. CASE SendsSession(p)
  <2> DEFINE new == <<"session">>
             l == local[p]
  <2>1. PICK by \in IdOrNone, password \in IdOrNone :
              db' = CreateSession(db, fresh, l.user, by) /\ DrawFor(new, password)
    <3>1. local[p].row \in IdOrNone /\ call[p].secret \in IdOrNone
      BY <1>0, Now DEF Local, Asked, IdOrNone, Id
    <3> QED BY <1>0, <1>3, <3>1 DEF SendsSession
  <2>2. new \in Seq(Kinds) /\ Len(new) = 1
    BY DEF Kinds
  <2> HIDE DEF new
  <2>3. fresh \in Id
    <3>1. \A i \in 0 .. 1 - 1 : fresh + i \in Id
      BY <2>1, <2>2, DrawnIds
    <3> QED BY <1>0, <3>1
  <2>4. Good(db', Len(kind) + 1) /\ db'.verifications = db.verifications
    <3>1. Good(db, Len(kind) + 1)
      BY <1>0, DrawnMore
    <3>2. CanCreateSession(db, l.user) /\ l.user \in IdOrNone
      BY <1>0, <1>3 DEF SendsSession, Local
    <3> QED BY <1>0, <2>1, <2>3, <3>1, <3>2, SessionStatements, Unverified
  <2>5. /\ kind' \in Seq(Kinds) /\ Len(kind') = Len(kind) + 1 /\ Len(kind') <= MaxIds
        /\ via' \subseteq Id \X Id
    BY <2>1, <2>2, Drawing
  <2>6. SignedOK /\ StatesOK
    BY DEF Typed, Clients
  <2>7. PICK cookies :
           /\ signed' = signed \cup cookies
           /\ \/ cookies = {}
              \/ cookies = {AdminCookie(call[p].cookie)}
              \/ /\ l.row # None
                 /\ cookies = {AccountCookie(i, l.user, l.row) : i \in l.todo}
    BY <1>3 DEF SendsSession
  <2>8. \A k \in cookies : DOMAIN k \in {{"session"}, {"account", "user", "grant"}}
    BY <2>7, Records
  <2>9. \A k \in cookies : k \notin Link /\ k \notin Verification
    BY <2>8, Records
  <2>10. \A k \in cookies : DOMAIN k = {"account", "user", "grant"} =>
            k.account \in Id /\ k.user \in Id /\ k.grant \in IdOrNone
    <3>1. l.todo \subseteq Id /\ l.row \in IdOrNone
      BY <1>0 DEF Local
    <3>2. l.user \in Id
      BY <1>0, <1>3 DEF SendsSession, CanCreateSession, UserOf, Database, User
    <3>3. DOMAIN AdminCookie(call[p].cookie) = {"session"}
      BY Records
    <3>4. ASSUME NEW i \in l.todo
          PROVE  LET k == AccountCookie(i, l.user, l.row) IN
                 k.account \in Id /\ k.user \in Id /\ k.grant \in IdOrNone
      BY <3>1, <3>2 DEF AccountCookie
    <3> QED BY <2>7, <3>3, <3>4
  <2>11. \A i \in Id : AdminCookie(i) \in cookies => i <= Len(kind)
    <3>1. call[p].cookie \in 0 .. Len(kind)
      BY <1>0 DEF Asked
    <3>2. \A i : AdminCookie(i) = AdminCookie(call[p].cookie) => i = call[p].cookie
      BY Records
    <3>3. \A i, j : AdminCookie(i) # AccountCookie(j, l.user, l.row)
      BY Records
    <3> QED BY <1>0, <2>7, <3>1, <3>2, <3>3
  <2>12. SignedOK'
    <3>1. \A k \in signed' : k \in Link => LinkOK(k)
      BY <2>6, <2>7, <2>9 DEF SignedOK
    <3>2. \A k \in signed' : DOMAIN k = {"account", "user", "grant"} =>
             k.account \in Id /\ k.user \in Id /\ k.grant \in IdOrNone
      BY <2>6, <2>7, <2>10 DEF SignedOK, CookiesOut
    <3>3. \A i \in Id : AdminCookie(i) \in signed' => i <= Len(kind')
      BY <1>0, <2>5, <2>6, <2>7, <2>11 DEF SignedOK, Id
    <3> QED BY <3>1, <3>2, <3>3 DEF SignedOK, CookiesOut
  <2>13. StatesOK'
    BY <2>4, <2>6, <2>7, <2>9 DEF StatesOK
  <2> QED BY <1>0, <2>4, <2>5, <2>12, <2>13 DEF Left
<1> QED BY <1>1, <1>2, <1>3 DEF SendsSessions

LEMMA AccountsLeft ==
    ASSUME Typed, NEW p \in Requests, pc[p] # "idle", SendsAccounts(p)
    PROVE  Left
<1>0. /\ db \in Database /\ Good(db, Len(kind)) /\ Len(kind) \in Nat /\ fresh = Len(kind) + 1
      /\ None \in IdOrNone /\ Asked(call[p]) /\ At(pc[p], call[p], local[p])
      /\ local[p] \in Local
  BY Now DEF RequestOK
<1>1. CASE SendsUnlink(p)
  <2>1. Good(db', Len(kind)) /\ db'.verifications = db.verifications
    BY <1>0, <1>1, DeleteAccountGood, Unverified DEF SendsUnlink
  <2> QED BY <1>1, <2>1, LeftUnsigned DEF SendsUnlink
<1>2. CASE SendsPassword(p)
  <2> DEFINE new == <<"password">>
  <2>1. new \in Seq(Kinds) /\ Len(new) = 1 /\ DrawFor(new, None) /\ signed' = signed
    BY <1>2 DEF SendsPassword, Draw, Kinds
  <2> HIDE DEF new
  <2>2. fresh \in Id
    <3>1. \A i \in 0 .. 1 - 1 : fresh + i \in Id
      BY <2>1, DrawnIds
    <3> QED BY <1>0, <3>1
  <2>3. Good(db', Len(kind)) /\ db'.verifications = db.verifications
    <3>1. PICK a \in AccountOf(db, local[p].row) :
             db' = UpdateAccount(db, a.id, [password |-> fresh])
      BY <1>2 DEF SendsPassword
    <3>2. Good(UpdateAccount(db, a.id, [password |-> fresh]), Len(kind))
      BY <1>0, <2>2, UpdateAccountGood
    <3>3. UpdateAccount(db, a.id, [password |-> fresh]).verifications = db.verifications
      BY <1>0, Unverified
    <3> QED BY <3>1, <3>2, <3>3
  <2>4. Good(db', Len(kind) + 1)
    BY <1>0, <2>3, DrawnMore
  <2> QED BY <1>0, <2>1, <2>3, <2>4, LeftDrawn
<1>3. CASE SendsCredential(p)
  <2> DEFINE new == <<"account", "password">>
             a == NewCredential(fresh, local[p].user, fresh + 1)
  <2>1. new \in Seq(Kinds) /\ Len(new) = 2 /\ DrawFor(new, None) /\ signed' = signed
    BY <1>3 DEF SendsCredential, Draw, Kinds
  <2> HIDE DEF new
  <2>2. fresh \in Id /\ fresh + 1 \in Id
    <3>1. \A i \in 0 .. 2 - 1 : fresh + i \in Id
      BY <2>1, DrawnIds
    <3> QED BY <1>0, <3>1
  <2>3. CanCreateAccount(db, a) /\ db' = CreateAccount(db, a)
    BY <1>3 DEF SendsCredential
  <2>4. a.user = local[p].user
    BY DEF NewCredential
  <2>5. a.user \in Id
    BY <1>0, <2>3 DEF CanCreateAccount, UserOf, Database, User
  <2>6. a \in Account /\ a.id = fresh /\ OwnSubject(a)
    BY <2>2, <2>4, <2>5 DEF NewCredential, Account, Id, IdOrNone, Providers, OwnSubject
  <2> HIDE DEF a
  <2>7. Good(db', Len(kind) + 2) /\ db'.verifications = db.verifications
    BY <1>0, <2>3, <2>6, CreateAccountGood, Unverified
  <2> QED BY <1>0, <2>1, <2>7, LeftDrawn
<1>4. CASE SendsAccount(p)
  <2> DEFINE new == <<"account">>
             a == [id |-> fresh, user |-> local[p].user, provider |-> "social",
                   subject |-> call[p].target, password |-> None, grant |-> local[p].row]
  <2>1. new \in Seq(Kinds) /\ Len(new) = 1 /\ DrawFor(new, None) /\ signed' = signed
    BY <1>4 DEF SendsAccount, Draw, Kinds
  <2> HIDE DEF new
  <2>2. fresh \in Id
    <3>1. \A i \in 0 .. 1 - 1 : fresh + i \in Id
      BY <2>1, DrawnIds
    <3> QED BY <1>0, <3>1
  <2>3. CanCreateAccount(db, a) /\ db' = CreateAccount(db, a)
    BY <1>4 DEF SendsAccount
  <2>4. a.user = local[p].user /\ local[p].row \in IdOrNone /\ call[p].target \in Nat
    BY <1>0, Now DEF Local, Asked, IdOrNone, Id
  <2>5. a.user \in Id
    BY <1>0, <2>3 DEF CanCreateAccount, UserOf, Database, User
  <2>6. a \in Account /\ a.id = fresh /\ OwnSubject(a)
    BY <1>0, <2>2, <2>4, <2>5 DEF Account, Providers, OwnSubject
  <2> HIDE DEF a
  <2>7. Good(db', Len(kind) + 1) /\ db'.verifications = db.verifications
    BY <1>0, <2>3, <2>6, CreateAccountGood, Unverified
  <2> QED BY <1>0, <2>1, <2>7, LeftDrawn
<1>5. CASE SendsGrant(p)
  <2>0. PICK i \in local[p].todo :
           \E a \in AccountOf(db, i) :
              /\ db' = GrantStored(a.id, local[p].row)
              /\ signed' \in {signed, signed \cup CookieAnew(call[p], a, local[p].row)}
    BY <1>5 DEF SendsGrant
  <2>1. PICK a \in AccountOf(db, i) :
           /\ db' = GrantStored(a.id, local[p].row)
           /\ signed' \in {signed, signed \cup CookieAnew(call[p], a, local[p].row)}
    BY <2>0
  <2>2. local[p].row \in IdOrNone
    BY <1>0 DEF Local
  <2>3. Good(db', Len(kind)) /\ db'.verifications = db.verifications
    <3> DEFINE x == local[p].row
    <3>1. db' = IF x = None THEN db ELSE UpdateAccount(db, a.id, [grant |-> x])
      BY <2>1 DEF GrantStored
    <3>2. x \in Id => Good(UpdateAccount(db, a.id, [grant |-> x]), Len(kind))
      BY <1>0, UpdateAccountGood
    <3>3. UpdateAccount(db, a.id, [grant |-> x]).verifications = db.verifications
      BY <1>0, Unverified
    <3> QED BY <1>0, <2>2, <3>1, <3>2, <3>3 DEF IdOrNone
  <2>4. /\ kind' = kind /\ kind' \in Seq(Kinds) /\ Len(kind) <= Len(kind')
        /\ Len(kind') <= MaxIds /\ via' \subseteq Id \X Id
    BY <1>5, NoneDrawn DEF SendsGrant
  <2>5. SignedOK /\ StatesOK
    BY DEF Typed, Clients
  <2>6. a.id \in Id /\ a.user \in Id
    BY <1>0 DEF AccountOf, Database, Account
  <2> DEFINE k == AccountCookie(a.id, a.user, local[p].row)
  <2>7. signed' = signed \/ signed' = signed \cup {k}
    BY <2>1 DEF CookieAnew
  <2>8. /\ DOMAIN k = {"account", "user", "grant"} /\ k \notin Link /\ k \notin Verification
        /\ k.account \in Id /\ k.user \in Id /\ k.grant \in IdOrNone
        /\ \A o : k # AdminCookie(o)
    <3>1. DOMAIN k = {"account", "user", "grant"}
      BY Records
    <3>2. k.account = a.id /\ k.user = a.user /\ k.grant = local[p].row
      BY DEF AccountCookie
    <3> HIDE DEF k
    <3>3. k \notin Link
      BY <3>1, Records
    <3>4. k \notin Verification
      BY <3>1, Records
    <3>5. \A o : k # AdminCookie(o)
      BY <3>1, Records
    <3> QED BY <2>2, <2>6, <3>1, <3>2, <3>3, <3>4, <3>5
  <2> HIDE DEF k
  <2>9. SignedOK'
    <3>1. \A j \in signed' : j \in Link => LinkOK(j)
      BY <2>5, <2>7, <2>8 DEF SignedOK
    <3>2. \A j \in signed' : DOMAIN j = {"account", "user", "grant"} =>
             j.account \in Id /\ j.user \in Id /\ j.grant \in IdOrNone
      <4>1. \A j \in signed : DOMAIN j = {"account", "user", "grant"} =>
               j.account \in Id /\ j.user \in Id /\ j.grant \in IdOrNone
        BY <2>5 DEF SignedOK, CookiesOut
      <4> QED BY <2>7, <2>8, <4>1
    <3>3. \A o \in Id : AdminCookie(o) \in signed' => o <= Len(kind')
      <4>1. \A o \in Id : AdminCookie(o) \in signed => o <= Len(kind')
        BY <2>4, <2>5 DEF SignedOK
      <4> QED BY <2>7, <2>8, <4>1
    <3> QED BY <3>1, <3>2, <3>3 DEF SignedOK, CookiesOut
  <2>10. StatesOK'
    BY <2>3, <2>5, <2>7, <2>8 DEF StatesOK
  <2> QED BY <2>3, <2>4, <2>9, <2>10 DEF Left
<1> QED BY <1>1, <1>2, <1>3, <1>4, <1>5 DEF SendsAccounts

\* One more signature, of a link or of the state of a flow.
LEMMA SignedMore ==
    ASSUME Typed, NEW k, signed' = signed \cup {k}, kind' \in Seq(Kinds), Len(kind) <= Len(kind'),
           \/ k \in Link /\ LinkOK(k)
           \/ k \in Verification /\ (k.purpose = "state" => (k.about = None <=> k.email = NoText)),
           db'.verifications \subseteq db.verifications
    PROVE  SignedOK' /\ StatesOK'
<1>1. SignedOK /\ StatesOK /\ Len(kind) \in Nat /\ Len(kind') \in Nat
  BY Now DEF Typed, Clients
<1>2. DOMAIN k # {"account", "user", "grant"} /\ \A i : k # AdminCookie(i)
  BY Records
<1>3. k \in Link => k \notin Verification /\ LinkOK(k)
  BY Records
<1>4. \A j \in signed' : j \in Link => LinkOK(j)
  <2>1. k \in Link => LinkOK(k)
    BY <1>3
  <2> QED BY <1>1, <2>1 DEF SignedOK
<1>5. \A j \in signed' : DOMAIN j = {"account", "user", "grant"} =>
         j.account \in Id /\ j.user \in Id /\ j.grant \in IdOrNone
  BY <1>1, <1>2 DEF SignedOK, CookiesOut
<1>6. \A i \in Id : AdminCookie(i) \in signed' => i <= Len(kind')
  BY <1>1, <1>2 DEF SignedOK, Id
<1>7. SignedOK'
  BY <1>4, <1>5, <1>6 DEF SignedOK, CookiesOut
<1>8. StatesOK'
  BY <1>1, <1>3 DEF StatesOK
<1> QED BY <1>7, <1>8

LEMMA OtherLeft ==
    ASSUME Typed, NEW p \in Requests, pc[p] # "idle", SendsOther(p)
    PROVE  Left
<1>0. /\ db \in Database /\ Good(db, Len(kind)) /\ Len(kind) \in Nat /\ fresh = Len(kind) + 1
      /\ None \in IdOrNone /\ Asked(call[p]) /\ At(pc[p], call[p], local[p])
      /\ local[p] \in Local /\ kind \in Seq(Kinds) /\ Len(kind) <= MaxIds
  BY Now DEF RequestOK
<1>1. CASE SendsLink(p)
  <2>1. /\ kind' = kind /\ kind' \in Seq(Kinds) /\ Len(kind) <= Len(kind')
        /\ Len(kind') <= MaxIds /\ via' \subseteq Id \X Id
    BY <1>1, NoneDrawn DEF SendsLink
  <2>2. LinkOK(local[p].link) /\ db' = db
    BY <1>0, <1>1 DEF SendsLink, At
  <2>3. SignedOK' /\ StatesOK'
    BY <1>1, <2>1, <2>2, SignedMore DEF SendsLink, LinkOK
  <2> QED BY <1>0, <2>1, <2>2, <2>3 DEF Left
<1>2. CASE SendsSecret(p)
  <2>1. PICK v \in Verification :
           /\ v.id = fresh
           /\ v.purpose = "state" =>
                 pc[p] = "store_state" /\ v.about = local[p].user /\ v.email = local[p].link.email
           /\ \/ db' = CreateVerification(db, v) /\ signed' = signed
              \/ signed' = signed \cup {v} /\ db' = db
           /\ Draw(<<v.purpose>>)
    BY <1>2 DEF SendsSecret
  <2>2. v.purpose = "state" => (v.about = None <=> v.email = NoText)
    BY <1>0, <2>1 DEF At
  <2> DEFINE new == <<v.purpose>>
  <2>3. new \in Seq(Kinds) /\ Len(new) = 1 /\ DrawFor(new, None)
    BY <2>1 DEF Draw, Kinds, Verification
  <2> HIDE DEF new
  <2>4. fresh \in Id
    <3>1. \A i \in 0 .. 1 - 1 : fresh + i \in Id
      BY <2>3, DrawnIds
    <3> QED BY <1>0, <3>1
  <2>5. Good(db, Len(kind) + 1)
    BY <1>0, DrawnMore
  <2>6. /\ kind' \in Seq(Kinds) /\ Len(kind') = Len(kind) + 1 /\ Len(kind') <= MaxIds
        /\ via' \subseteq Id \X Id
    BY <1>0, <2>3, Drawing
  <2>7. CASE db' = CreateVerification(db, v) /\ signed' = signed
    <3>1. Good(db', Len(kind) + 1)
      BY <1>0, <2>1, <2>5, <2>7, VerificationStatements
    <3>2. db'.verifications = db.verifications \cup {v}
      BY <1>0, <2>7 DEF CreateVerification, Database
    <3>3. SignedOK /\ StatesOK
      BY DEF Typed, Clients
    <3>4. SignedOK'
      BY <1>0, <2>6, <2>7, <3>3 DEF SignedOK, CookiesOut, Id
    <3>5. StatesOK'
      BY <2>2, <2>7, <3>2, <3>3 DEF StatesOK
    <3> QED BY <1>0, <2>6, <3>1, <3>4, <3>5 DEF Left
  <2>8. CASE signed' = signed \cup {v} /\ db' = db
    <3>1. SignedOK' /\ StatesOK'
      BY <1>0, <2>2, <2>6, <2>8, SignedMore
    <3> QED BY <1>0, <2>5, <2>6, <2>8, <3>1 DEF Left
  <2> QED BY <2>1, <2>7, <2>8
<1>3. CASE SendsSpend(p)
  <2>1. Good(db', Len(kind)) /\ db'.verifications \subseteq db.verifications
    <3>1. PICK i : db' = DeleteVerification(db, i)
      BY <1>3 DEF SendsSpend
    <3>2. Good(DeleteVerification(db, i), Len(kind))
      BY <1>0, VerificationStatements
    <3>3. DeleteVerification(db, i).verifications \subseteq db.verifications
      BY <1>0 DEF DeleteVerification, Database
    <3> QED BY <3>1, <3>2, <3>3
  <2> QED BY <1>3, <2>1, LeftUnsigned DEF SendsSpend
<1>4. CASE SendsState(p)
  <2>1. Good(db', Len(kind)) /\ db'.verifications \subseteq db.verifications /\ signed' = signed
    <3>1. Good(DeleteVerification(db, call[p].secret), Len(kind))
      BY <1>0, VerificationStatements
    <3>2. DeleteVerification(db, call[p].secret).verifications \subseteq db.verifications
      BY <1>0 DEF DeleteVerification, Database
    <3> QED BY <1>0, <1>4, <3>1, <3>2 DEF SendsState, StateGone
  <2>2. CASE KeepIds
    BY <2>1, <2>2, LeftUnsigned DEF Unsigned
  <2>3. CASE Draw(<<"grant">>)
    <3> DEFINE new == <<"grant">>
    <3>1. new \in Seq(Kinds) /\ Len(new) = 1 /\ DrawFor(new, None)
      BY <2>3 DEF Draw, Kinds
    <3> HIDE DEF new
    <3>2. Good(db', Len(kind) + 1)
      BY <1>0, <2>1, DrawnMore
    <3> QED BY <1>0, <2>1, <3>1, <3>2, LeftDrawn
  <2> QED BY <1>4, <2>2, <2>3 DEF SendsState
<1>5. CASE SendsKey(p)
  <2> DEFINE new == <<"key">>
  <2>1. new \in Seq(Kinds) /\ Len(new) = 1 /\ DrawFor(new, None) /\ signed' = signed
    BY <1>5 DEF SendsKey, Draw, Kinds
  <2> HIDE DEF new
  <2>2. fresh \in Id
    <3>1. \A i \in 0 .. 1 - 1 : fresh + i \in Id
      BY <2>1, DrawnIds
    <3> QED BY <1>0, <3>1
  <2>3. local[p].user \in Id
    BY <1>0, <1>5 DEF SendsKey, At, Local, IdOrNone
  <2>4. Good(db', Len(kind)) /\ db'.verifications = db.verifications
    BY <1>0, <1>5, <2>2, <2>3, KeyStatements, Unverified DEF SendsKey
  <2>5. Good(db', Len(kind) + 1)
    BY <1>0, <2>4, DrawnMore
  <2> QED BY <1>0, <2>1, <2>4, <2>5, LeftDrawn
<1>6. CASE SendsPasskey(p)
  <2>1. /\ pc[p] = "create_passkey" => call[p].secret \in Id /\ call[p].secret <= Len(kind)
        /\ local[p].user \in IdOrNone
        /\ \A k \in local[p].keys : k.id \in Id /\ k.counter \in 0 .. MaxCount
    <3>1. /\ pc[p] = "create_passkey" => call[p].op = "register"
          /\ call[p].secret \in 0 .. Len(kind)
          /\ call[p].op = "register" => call[p].secret # None
      BY <1>0 DEF At, Asked
    <3>2. local[p].user \in IdOrNone /\ local[p].keys \subseteq Passkey
      BY <1>0 DEF Local
    <3> QED BY <1>0, <3>1, <3>2, Now DEF Id, None, Passkey
  <2>2. Good(db', Len(kind)) /\ db'.verifications = db.verifications
    <3>1. CASE pc[p] = "create_passkey"
      <4>1. 0 \in 0 .. MaxCount
        BY StoreAssumption
      <4> QED BY <1>0, <1>6, <2>1, <3>1, <4>1, PasskeyStatements, Unverified DEF SendsPasskey
    <3>2. CASE pc[p] = "update_passkey"
      BY <1>0, <1>6, <2>1, <3>2, PasskeyStatements, Unverified DEF SendsPasskey
    <3>3. CASE pc[p] = "delete_passkey"
      BY <1>0, <1>6, <3>3, PasskeyStatements, Unverified DEF SendsPasskey
    <3> QED BY <1>6, <3>1, <3>2, <3>3 DEF SendsPasskey
  <2> QED BY <1>6, <2>2, LeftUnsigned DEF SendsPasskey
<1>7. CASE SendsExchange(p)
  <2> DEFINE k == [kind EXCEPT ![local[p].row] = "replaced"]
  <2>1. k \in Seq(Kinds) /\ Len(k) = Len(kind)
    <3>1. kind \in [1 .. Len(kind) -> Kinds]
      BY <1>0
    <3>2. k \in [1 .. Len(kind) -> Kinds]
      BY <3>1 DEF Kinds
    <3> QED BY <1>0, <3>2, SeqDef, LenProperties
  <2> HIDE DEF k
  <2>2. kind' = Append(k, "grant") /\ "grant" \in Kinds
    BY <1>7 DEF SendsExchange, k, Kinds
  <2>3. kind' \in Seq(Kinds) /\ Len(kind') = Len(kind) + 1
    BY <1>0, <2>1, <2>2, AppendProperties
  <2>4. Len(kind') <= MaxIds /\ via' \subseteq Id \X Id
    BY <1>0, <1>7, <2>3, Now DEF SendsExchange, Room, Typed
  <2>5. signed' = signed /\ db' = db /\ Good(db', Len(kind'))
    BY <1>0, <1>7, <2>3, DrawnMore DEF SendsExchange
  <2>6. SignedOK' /\ StatesOK'
    BY <1>0, <2>3, <2>5, NoNewSecrets
  <2> QED BY <1>0, <2>3, <2>4, <2>5, <2>6 DEF Left
<1> QED BY <1>1, <1>2, <1>3, <1>4, <1>5, <1>6, <1>7 DEF SendsOther

LEMMA StatementsLeave ==
    ASSUME Typed, NEW p \in Requests, pc[p] # "idle", Sends(p)
    PROVE  Left
<1>1. CASE SendsRead
  <2>1. Good(db', Len(kind)) /\ db'.verifications \subseteq db.verifications
    BY <1>1, Now DEF SendsRead
  <2> QED BY <1>1, <2>1, LeftUnsigned DEF SendsRead, Unsigned
<1> QED BY <1>1, UserLeft, SessionsLeft, AccountsLeft, OtherLeft DEF Sends

-----------------------------------------------------------------------------
(* Where its request goes on.                                              *)

Settled(p) ==
    /\ pc' = [q \in Requests |-> pc'[q]] /\ call' = [q \in Requests |-> call'[q]]
    /\ local' = [q \in Requests |-> local'[q]]
    /\ \A q \in Requests \ {p} : pc'[q] = pc[q] /\ call'[q] = call[q] /\ local'[q] = local[q]
    /\ RequestOK(p)'
    /\ handed' \subseteq 1 .. Len(kind')
    /\ twice' \subseteq honoured' /\ honoured' \subseteq Id
    /\ ousted' \subseteq Id
    /\ proven' \subseteq Emails
    /\ undue' \subseteq Ops
    /\ broken' \subseteq Id

\* One statement of a request, all it does.
Stepped(p) == Sends(p) /\ Left /\ Settled(p)

LEMMA StillThere ==
    ASSUME Typed, NEW p \in Requests, pc[p] # "idle"
    PROVE  /\ pc = [q \in Requests |-> pc[q]] /\ call = [q \in Requests |-> call[q]]
           /\ local = [q \in Requests |-> local[q]]
           /\ Asked(call[p]) /\ local[p] \in Local /\ local[p].got \subseteq 1 .. Len(kind)
           /\ At(pc[p], call[p], local[p])
           /\ handed \subseteq 1 .. Len(kind)
           /\ twice \subseteq honoured /\ honoured \subseteq Id
           /\ ousted \subseteq Id /\ proven \subseteq Emails /\ undue \subseteq Ops
           /\ broken \subseteq Id
  BY DEF Typed, RequestOK, Clients

\* Asked only grows weaker as ids are drawn.
LEMMA AskedStill ==
    ASSUME Typed, Left, NEW p \in Requests, pc[p] # "idle", call'[p] = call[p]
    PROVE  Asked(call[p])' /\ Len(kind) \in Nat /\ Len(kind') \in Nat /\ Len(kind) <= Len(kind')
<1>1. Len(kind) \in Nat /\ Len(kind') \in Nat /\ Len(kind) <= Len(kind')
  BY Now DEF Left
<1>2. Asked(call[p])
  BY StillThere
<1>3. /\ call[p].cookie \in 0 .. Len(kind') /\ call[p].secret \in 0 .. Len(kind')
  BY <1>1, <1>2 DEF Asked
<1> QED BY <1>1, <1>2, <1>3 DEF Asked

LEMMA Goes ==
    ASSUME Typed, NEW p \in Requests, pc[p] # "idle", Sends(p),
           NEW label, label # "idle", NEW l \in Local, l.got \subseteq 1 .. Len(kind'),
           Goto(p, label, l), At(label, call[p], l)
    PROVE  Stepped(p)
<1>1. Left
  BY StatementsLeave
<1>2. /\ pc' = [pc EXCEPT ![p] = label] /\ call' = call /\ local' = [local EXCEPT ![p] = l]
      /\ UNCHANGED history
  BY DEF Goto
<1>3. /\ pc' = [q \in Requests |-> pc'[q]] /\ call' = [q \in Requests |-> call'[q]]
      /\ local' = [q \in Requests |-> local'[q]]
      /\ pc'[p] = label /\ call'[p] = call[p] /\ local'[p] = l
      /\ \A q \in Requests \ {p} : pc'[q] = pc[q] /\ call'[q] = call[q] /\ local'[q] = local[q]
  BY <1>2, StillThere
<1>4. Asked(call[p])' /\ Len(kind) \in Nat /\ Len(kind') \in Nat /\ Len(kind) <= Len(kind')
  BY <1>1, <1>3, AskedStill
<1>5. RequestOK(p)'
  BY <1>3, <1>4 DEF RequestOK
<1>6. /\ handed' \subseteq 1 .. Len(kind') /\ twice' \subseteq honoured' /\ honoured' \subseteq Id
      /\ ousted' \subseteq Id /\ proven' \subseteq Emails /\ undue' \subseteq Ops
      /\ broken' \subseteq Id
  BY <1>2, <1>4, StillThere DEF history
<1> QED BY <1>1, <1>3, <1>5, <1>6 DEF Stepped, Settled

LEMMA Drops ==
    ASSUME Typed, NEW p \in Requests, pc[p] # "idle", Drop(p)
    PROVE  /\ pc' = [q \in Requests |-> pc'[q]] /\ call' = [q \in Requests |-> call'[q]]
           /\ local' = [q \in Requests |-> local'[q]]
           /\ \A q \in Requests \ {p} : pc'[q] = pc[q] /\ call'[q] = call[q] /\ local'[q] = local[q]
           /\ RequestOK(p)'
<1>1. /\ pc' = [pc EXCEPT ![p] = "idle"] /\ call' = [call EXCEPT ![p] = NoCall]
      /\ local' = [local EXCEPT ![p] = Blank]
  BY DEF Drop
<1>2. /\ pc' = [q \in Requests |-> pc'[q]] /\ call' = [q \in Requests |-> call'[q]]
      /\ local' = [q \in Requests |-> local'[q]]
      /\ pc'[p] = "idle" /\ call'[p] = NoCall /\ local'[p] = Blank
      /\ \A q \in Requests \ {p} : pc'[q] = pc[q] /\ call'[q] = call[q] /\ local'[q] = local[q]
  BY <1>1, StillThere
<1> QED BY <1>2 DEF RequestOK

LEMMA Answers ==
    ASSUME Typed, NEW p \in Requests, pc[p] # "idle", Sends(p),
           NEW l \in Local, l.got \subseteq 1 .. Len(kind'), Answer(p, l)
    PROVE  Stepped(p)
<1>1. Left
  BY StatementsLeave
<1>2. Len(kind) \in Nat /\ Len(kind') \in Nat /\ Len(kind) <= Len(kind')
  BY <1>1, Now DEF Left
<1>3. l.spent \subseteq Id /\ l.out \subseteq Id /\ call[p].op \in Ops
  BY StillThere DEF Local, Asked
<1>4. /\ handed' = handed \cup l.got /\ honoured' = honoured \cup l.spent
      /\ twice' = twice \cup (honoured \cap l.spent)
      /\ ousted' \subseteq ousted \cup l.out
      /\ undue' \subseteq undue \cup {call[p].op}
      /\ proven' = proven /\ broken' = broken /\ Drop(p)
  BY DEF Answer, StillOut
<1>5. /\ handed' \subseteq 1 .. Len(kind') /\ twice' \subseteq honoured' /\ honoured' \subseteq Id
      /\ ousted' \subseteq Id /\ proven' \subseteq Emails /\ undue' \subseteq Ops
      /\ broken' \subseteq Id
  BY <1>2, <1>3, <1>4, StillThere
<1> QED BY <1>1, <1>4, <1>5, Drops DEF Stepped, Settled

LEMMA Stops ==
    ASSUME Typed, NEW p \in Requests, pc[p] # "idle", Sends(p), Refuse(p) \/ GiveUp(p)
    PROVE  Stepped(p)
<1>1. Left
  BY StatementsLeave
<1>2. Len(kind) \in Nat /\ Len(kind') \in Nat /\ Len(kind) <= Len(kind')
  BY <1>1, Now DEF Left
<1>3. /\ handed' = handed /\ honoured' = honoured /\ twice' = twice /\ ousted' = ousted
      /\ proven' = proven /\ undue' = undue /\ Drop(p)
  BY DEF Refuse, GiveUp, history
<1>4. broken' \subseteq Id
  <2>1. {r.id : r \in db.users \cup db.accounts} \subseteq Id
    BY Now DEF Database, User, Account
  <2> QED BY <2>1, StillThere DEF Refuse, GiveUp, history
<1>5. /\ handed' \subseteq 1 .. Len(kind') /\ twice' \subseteq honoured' /\ honoured' \subseteq Id
      /\ ousted' \subseteq Id /\ proven' \subseteq Emails /\ undue' \subseteq Ops
  BY <1>2, <1>3, StillThere
<1> QED BY <1>1, <1>3, <1>4, <1>5, Drops DEF Stepped, Settled

LEMMA Continues ==
    ASSUME Typed, NEW p \in Requests, pc[p] # "idle", Sends(p),
           NEW label, label # "idle", NEW l \in Local, l.got \subseteq 1 .. Len(kind'),
           Continue(p, label, l), label # "answer" => At(label, call[p], l)
    PROVE  Stepped(p)
  BY Goes, Answers DEF Continue

\* What a request has been given is drawn, and so is what it is given next.
LEMMA GotStill ==
    ASSUME Typed, NEW p \in Requests, pc[p] # "idle", Sends(p)
    PROVE  /\ local[p] \in Local /\ local[p].got \subseteq 1 .. Len(kind')
           /\ Asked(call[p]) /\ At(pc[p], call[p], local[p])
           /\ Len(kind') \in Nat /\ Len(kind) \in Nat /\ fresh = Len(kind) + 1
<1>1. Left
  BY StatementsLeave
<1>2. Len(kind) \in Nat /\ Len(kind') \in Nat /\ Len(kind) <= Len(kind')
  BY <1>1, Now DEF Left
<1> QED BY <1>2, StillThere, Now

LEMMA FreshDrawn ==
    ASSUME Typed, NEW k \in Kinds, NEW password, DrawFor(<<k>>, password)
    PROVE  Len(kind') = Len(kind) + 1 /\ fresh \in 1 .. Len(kind') /\ fresh \in Id
<1> DEFINE new == <<k>>
<1>1. new \in Seq(Kinds) /\ Len(new) = 1
  OBVIOUS
<1> HIDE DEF new
<1>2. DrawFor(new, password)
  BY DEF new
<1>3. kind' = kind \o new
  BY <1>2 DEF DrawFor
<1>4. Len(kind') = Len(kind) + 1
  BY <1>1, <1>3, Now, ConcatProperties
<1>5. \A i \in 0 .. 1 - 1 : fresh + i \in Id
  BY <1>1, <1>2, DrawnIds
<1> QED BY <1>4, <1>5, Now

-----------------------------------------------------------------------------
(* Every action, in the order of the modules.                              *)

LEMMA Reading ==
    ASSUME NEW p \in Requests, UNCHANGED <<db, signed>>, KeepIds
    PROVE  Sends(p)
  BY DEF Sends, SendsRead

LEMMA SharedSteps ==
    ASSUME Typed, NEW p \in Requests, pc[p] # "idle", SharedStep(p)
    PROVE  Stepped(p)
<1>0. local[p] \in Local /\ Asked(call[p]) /\ At(pc[p], call[p], local[p])
  BY StillThere
<1>1. CASE ReadBan(p)
  <2>1. Sends(p)
    BY <1>1, Reading DEF ReadBan
  <2>2. CASE Refuse(p)
    BY <2>1, <2>2, Stops
  <2>3. ASSUME NEW label \in {"create_session", "lift_ban"}, Goto(p, label, local[p])
        PROVE  Stepped(p)
    <3>1. At(label, call[p], local[p])
      BY <1>0, <1>1 DEF ReadBan, At
    <3> QED BY <1>0, <2>1, <2>3, <3>1, Goes, GotStill
  <2> QED BY <1>1, <2>2, <2>3 DEF ReadBan
<1>2. CASE LiftBanAndIssue(p)
  <2>1. CASE Refuse(p) /\ db' = db
    BY <1>2, <2>1, Reading, Stops DEF LiftBanAndIssue, LiftBan
  <2>2. ASSUME CanUpdateUser(db, local[p].user, [banned |-> FALSE]),
               db' = UpdateUser(db, local[p].user, [banned |-> FALSE]),
               Goto(p, "create_session", local[p])
        PROVE  Stepped(p)
    <3>1. Sends(p)
      BY <1>2, <2>2 DEF LiftBanAndIssue, LiftBan, Sends, SendsUser, SendsLift, Unsigned
    <3>2. At("create_session", call[p], local[p])
      BY <1>0, <1>2 DEF LiftBanAndIssue, At
    <3> QED BY <1>0, <2>2, <3>1, <3>2, Goes, GotStill
  <2> QED BY <1>2, <2>1, <2>2 DEF LiftBanAndIssue, LiftBan
<1>3. CASE ListAccounts(p)
  <2> DEFINE ids == {a.id : a \in AccountsOf(db, local[p].user)}
             l == [local[p] EXCEPT !.todo = ids]
  <2>1. Sends(p)
    BY <1>3, Reading DEF ListAccounts
  <2>2. PICK label \in {"delete_keys", "delete_account"} : Goto(p, label, l)
    BY <1>3 DEF ListAccounts
  <2>3. ids \subseteq Id
    BY Now DEF AccountsOf, Database, Account
  <2>4. l \in Local /\ l.got = local[p].got
    BY <1>0, <2>3 DEF Local
  <2>5. At(label, call[p], l)
    BY <1>0, <1>3 DEF ListAccounts, At
  <2> QED BY <2>1, <2>2, <2>4, <2>5, Goes, GotStill
<1>4. CASE DeleteOneAccount(p)
  <2>1. CASE Refuse(p) /\ db' = db
    BY <1>4, <2>1, Reading, Stops DEF DeleteOneAccount
  <2>2. ASSUME NEW i \in local[p].todo, db' = DeleteAccount(db, i),
               NEW label \in {"delete_keys", "delete_account"},
               Goto(p, label, [local[p] EXCEPT !.todo = local[p].todo \ {i}])
        PROVE  Stepped(p)
    <3> DEFINE l == [local[p] EXCEPT !.todo = local[p].todo \ {i}]
    <3>1. Sends(p)
      BY <1>4, <2>2 DEF DeleteOneAccount, Sends, SendsAccounts, SendsUnlink, Unsigned
    <3>2. l \in Local /\ l.got = local[p].got
      BY <1>0 DEF Local
    <3>3. At(label, call[p], l)
      BY <1>0, <1>4 DEF DeleteOneAccount, At
    <3> QED BY <2>2, <3>1, <3>2, <3>3, Goes, GotStill
  <2> QED BY <1>4, <2>1, <2>2 DEF DeleteOneAccount
<1>5. CASE DeleteUserKeys(p)
  <2>1. CASE Refuse(p) /\ db' = db
    BY <1>5, <2>1, Reading, Stops DEF DeleteUserKeys
  <2>2. CASE db' = DeleteKeys(db, local[p].user) /\ Goto(p, "delete_user", local[p])
    <3>1. Sends(p)
      BY <1>5, <2>2 DEF DeleteUserKeys, Sends, SendsUser, SendsDelete, Unsigned
    <3>2. At("delete_user", call[p], local[p])
      BY <1>0, <1>5 DEF DeleteUserKeys, At
    <3> QED BY <1>0, <2>2, <3>1, <3>2, Goes, GotStill
  <2> QED BY <1>5, <2>1, <2>2 DEF DeleteUserKeys
<1>6. CASE StatementFails(p)
  BY <1>6, Reading, Stops DEF StatementFails
<1> QED BY <1>1, <1>2, <1>3, <1>4, <1>5, <1>6 DEF SharedStep

LEMMA SessionStored ==
    ASSUME Typed, NEW p \in Requests, pc[p] # "idle", NEW label, label # "idle",
           NEW by, NEW password, StoreSession(p, by, password, label),
           \/ /\ pc[p] = "create_session" /\ by = None
              /\ password = IF call[p].op \in SignIns THEN call[p].secret ELSE None
           \/ pc[p] = "impersonate" /\ by = local[p].row /\ password = None,
           ~ CanCreateSession(db, local[p].user) => signed' = signed,
           \/ signed' = signed
           \/ signed' = signed \cup {AdminCookie(call[p].cookie)}
           \/ /\ pc[p] = "create_session" /\ call[p].op \in Social /\ local[p].row # None
              /\ signed' = signed \cup {AccountCookie(i, local[p].user, local[p].row) :
                                            i \in local[p].todo},
           label # "answer" => At(label, call[p], [local[p] EXCEPT !.got = @ \cup {fresh}])
    PROVE  Stepped(p)
<1>1. CASE ~ CanCreateSession(db, local[p].user)
  BY <1>1, Reading, Stops DEF StoreSession
<1>2. CASE CanCreateSession(db, local[p].user)
  <2> DEFINE l == [local[p] EXCEPT !.got = @ \cup {fresh}]
  <2>1. /\ db' = CreateSession(db, fresh, local[p].user, by)
        /\ DrawFor(<<"session">>, password) /\ Continue(p, label, l)
    BY <1>2 DEF StoreSession
  <2>2. Sends(p)
    BY <1>2, <2>1 DEF Sends, SendsSessions, SendsSession
  <2>3. fresh \in Id /\ fresh \in 1 .. Len(kind')
    BY <2>1, FreshDrawn DEF Kinds
  <2>4. l \in Local /\ l.got \subseteq 1 .. Len(kind')
    BY <2>2, <2>3, GotStill DEF Local
  <2> QED BY <2>1, <2>2, <2>4, Continues
<1> QED BY <1>1, <1>2

LEMMA SessionsGoneStep ==
    ASSUME Typed, NEW p \in Requests, pc[p] # "idle", NEW label, label # "idle",
           pc[p] = "delete_sessions", DeleteSessions(p, label),
           label # "answer" => At(label, call[p], local[p])
    PROVE  Stepped(p)
<1>1. Sends(p) /\ Continue(p, label, local[p])
  BY DEF DeleteSessions, SessionsGone, Sends, SendsSessions, SendsRevoke, Unsigned
<1> QED BY <1>1, Continues, GotStill

LEMMA CredentialSteps ==
    ASSUME Typed, NEW p \in Requests, pc[p] # "idle", CredentialStep(p)
    PROVE  Stepped(p)
<1>0. local[p] \in Local /\ Asked(call[p]) /\ At(pc[p], call[p], local[p])
  BY StillThere
<1>1. CASE CheckEmail(p)
  <2>1. Sends(p)
    BY <1>1, Reading DEF CheckEmail
  <2>2. CASE Refuse(p)
    BY <2>1, <2>2, Stops
  <2>3. ASSUME NEW label, label = IF call[p].op = "sign_up" THEN "sign_up" ELSE "create_user",
               Goto(p, label, local[p])
        PROVE  Stepped(p)
    <3>1. At(label, call[p], local[p])
      BY <1>0, <1>1, <2>3 DEF CheckEmail, At
    <3> QED BY <1>0, <2>1, <2>3, <3>1, Goes, GotStill
  <2> QED BY <1>1, <2>2, <2>3 DEF CheckEmail
<1>2. CASE SignUp(p)
  <2>1. CASE ~ CanCreateUser(db, call[p].email, call[p].name)
    BY <1>2, <2>1, Reading, Stops DEF SignUp
  <2>2. CASE CanCreateUser(db, call[p].email, call[p].name)
    <3>1. Sends(p)
      <4>1. SendsSignUp(p)
        BY <1>2, <2>2 DEF SignUp, SendsSignUp
      <4> QED BY <4>1 DEF Sends, SendsUser
    <3>2. CASE Answer(p, local[p])
      BY <1>0, <3>1, <3>2, Answers, GotStill
    <3>3. ASSUME Answer(p, [local[p] EXCEPT !.got = {fresh + 3}]),
                 DrawFor(<<"user", "account", "password", "session">>, fresh + 2)
          PROVE  Stepped(p)
      <4> DEFINE new == <<"user", "account", "password", "session">>
                 l == [local[p] EXCEPT !.got = {fresh + 3}]
      <4>1. new \in Seq(Kinds) /\ Len(new) = 4 /\ DrawFor(new, fresh + 2)
        BY <3>3 DEF Kinds
      <4> HIDE DEF new
      <4>2. \A i \in 0 .. 4 - 1 : fresh + i \in Id
        BY <4>1, DrawnIds
      <4>3. Len(kind') = Len(kind) + 4
        BY <4>1, Now, ConcatProperties DEF DrawFor
      <4>4. fresh + 3 \in Id /\ fresh + 3 \in 1 .. Len(kind')
        BY <4>2, <4>3, Now
      <4>5. l \in Local /\ l.got \subseteq 1 .. Len(kind')
        BY <1>0, <4>4 DEF Local
      <4> QED BY <3>1, <3>3, <4>5, Answers
    <3> QED BY <1>2, <2>2, <3>2, <3>3 DEF SignUp
  <2> QED BY <2>1, <2>2
<1>3. CASE CheckPassword(p)
  <2>1. Sends(p)
    BY <1>3, Reading DEF CheckPassword
  <2>2. CASE Refuse(p)
    BY <2>1, <2>2, Stops
  <2>3. ASSUME NEW label, label = CASE call[p].op = "verify_password" -> "answer"
                                    [] call[p].op = "change_password" -> "find_credential"
                                    [] OTHER -> "issue",
               Continue(p, label, local[p])
        PROVE  Stepped(p)
    <3>1. call[p].op \in SignIns \cup {"change_password", "verify_password"}
      BY <1>0, <1>3 DEF CheckPassword, At, CredentialOps, SignIns
    <3>2. label # "idle" /\ (label # "answer" => At(label, call[p], local[p]))
      BY <2>3, <3>1 DEF At, SignIns, Issuing, Social
    <3> QED BY <1>0, <2>1, <2>3, <3>2, Continues, GotStill
  <2> QED BY <1>3, <2>2, <2>3 DEF CheckPassword
<1>4. CASE CheckUnverified(p)
  BY <1>4, Reading, Stops DEF CheckUnverified
<1>5. CASE SignIn(p)
  BY <1>5, SessionStored DEF SignIn, SignIns
<1>6. CASE StoreToken(p)
  <2> DEFINE v == NewVerification(fresh, "reset", local[p].user)
             l == [local[p] EXCEPT !.got = {fresh}]
  <2>1. /\ db' = CreateVerification(db, v) /\ signed' = signed /\ DrawFor(<<"reset">>, None)
        /\ Answer(p, l) /\ pc[p] = "store_token"
    BY <1>6 DEF StoreToken, Draw
  <2>2. fresh \in Id /\ fresh \in 1 .. Len(kind')
    BY <2>1, FreshDrawn DEF Kinds, Purposes
  <2>3. /\ v \in Verification /\ v.id = fresh /\ v.purpose = "reset"
        /\ v.about = local[p].user
    BY <1>0, <2>2 DEF NewVerification, Verification, Purposes, Local
  <2> HIDE DEF v
  <2>4. Sends(p)
    <3>1. SendsSecret(p)
      BY <2>1, <2>3 DEF SendsSecret, Draw
    <3> QED BY <3>1 DEF Sends, SendsOther
  <2>5. l \in Local /\ l.got \subseteq 1 .. Len(kind')
    BY <1>0, <2>2 DEF Local
  <2> QED BY <2>1, <2>4, <2>5, Answers
<1>7. CASE FindPasswordRow(p)
  <2>1. Sends(p) /\ pc[p] = "find_credential"
    BY <1>7, Reading DEF FindPasswordRow, FindCredential
  <2>2. CASE Refuse(p)
    BY <2>1, <2>2, Stops
  <2>3. CASE Answer(p, local[p])
    BY <1>0, <2>1, <2>3, Answers, GotStill
  <2>4. CASE call[p].op = "reset" /\ Goto(p, "add_credential", local[p])
    <3>1. At("add_credential", call[p], local[p])
      BY <1>0, <2>1, <2>4 DEF At
    <3> QED BY <1>0, <2>1, <2>4, <3>1, Goes, GotStill
  <2>5. ASSUME NEW a \in CredentialOf(db, local[p].user),
               Goto(p, "write_password", [local[p] EXCEPT !.row = a.id])
        PROVE  Stepped(p)
    <3> DEFINE l == [local[p] EXCEPT !.row = a.id]
    <3>1. a.id \in Id
      BY Now DEF CredentialOf, AccountsOf, Database, Account
    <3>2. l \in Local /\ l.got = local[p].got
      BY <1>0, <3>1 DEF Local, IdOrNone
    <3>3. At("write_password", call[p], l)
      BY <1>0, <2>1 DEF At
    <3> QED BY <2>1, <2>5, <3>2, <3>3, Goes, GotStill
  <2> QED BY <1>7, <2>2, <2>3, <2>4, <2>5 DEF FindPasswordRow, FindCredential
<1>8. CASE WriteNewPassword(p)
  <2>1. CASE Refuse(p) /\ SendsRead
    BY <2>1, Reading, Stops DEF SendsRead
  <2>2. ASSUME NEW a \in AccountOf(db, local[p].row),
               db' = UpdateAccount(db, a.id, [password |-> fresh]), Draw(<<"password">>),
               Continue(p, AfterWrite(call[p]),
                        IF Revokes(call[p]) THEN [local[p] EXCEPT !.out = {a.password} \ {None}]
                        ELSE local[p])
        PROVE  Stepped(p)
    <3> DEFINE l == IF Revokes(call[p]) THEN [local[p] EXCEPT !.out = {a.password} \ {None}]
                    ELSE local[p]
    <3>1. Sends(p) /\ pc[p] = "write_password"
      BY <1>8, <2>2 DEF WriteNewPassword, WritePassword, Sends, SendsAccounts, SendsPassword
    <3>2. {a.password} \ {None} \subseteq Id
      BY Now DEF AccountOf, Database, Account, IdOrNone
    <3>3. l \in Local /\ l.got = local[p].got /\ l.link = local[p].link
      BY <1>0, <3>2 DEF Local
    <3> HIDE DEF l
    <3>4. call[p].op \in {"reset", "change_password", "set_password"}
      BY <1>0, <3>1 DEF At
    <3>5. /\ AfterWrite(call[p]) # "idle"
          /\ AfterWrite(call[p]) # "answer" => At(AfterWrite(call[p]), call[p], l)
      BY <3>4 DEF AfterWrite, At
    <3> QED BY <2>2, <3>1, <3>3, <3>5, Continues, GotStill DEF l
  <2> QED BY <1>8, <2>1, <2>2 DEF WriteNewPassword, WritePassword, SendsRead
<1>9. CASE AddPassword(p)
  <2>1. CASE Refuse(p) /\ SendsRead
    BY <2>1, Reading, Stops DEF SendsRead
  <2>2. ASSUME LET a == NewCredential(fresh, local[p].user, fresh + 1) IN
                 CanCreateAccount(db, a) /\ db' = CreateAccount(db, a),
               Draw(<<"account", "password">>), Continue(p, AfterWrite(call[p]), local[p])
        PROVE  Stepped(p)
    <3>1. Sends(p) /\ pc[p] = "add_credential"
      BY <1>9, <2>2 DEF AddPassword, AddCredential, Sends, SendsAccounts, SendsCredential
    <3>2. call[p].op \in {"reset", "create_user"}
      BY <1>0, <3>1 DEF At
    <3>3. /\ AfterWrite(call[p]) # "idle"
          /\ AfterWrite(call[p]) # "answer" => At(AfterWrite(call[p]), call[p], local[p])
      BY <3>2 DEF AfterWrite, At
    <3> QED BY <1>0, <2>2, <3>1, <3>3, Continues, GotStill
  <2> QED BY <1>9, <2>1, <2>2 DEF AddPassword, AddCredential, SendsRead
<1>10. CASE DeleteToken(p)
  <2> DEFINE label == IF Revokes(call[p]) THEN "delete_sessions" ELSE "answer"
  <2>1. Sends(p) /\ pc[p] = "delete_token" /\ Continue(p, label, local[p])
    BY <1>10 DEF DeleteToken, Sends, SendsOther, SendsSpend, Unsigned
  <2>2. label # "idle" /\ (label # "answer" => At(label, call[p], local[p]))
    BY <1>0, <2>1 DEF At
  <2> QED BY <1>0, <2>1, <2>2, Continues, GotStill
<1>11. CASE RevokeSessions(p)
  <2> DEFINE label == IF call[p].op = "change_password" THEN "issue" ELSE "answer"
  <2>1. label # "idle" /\ (label # "answer" => At(label, call[p], local[p]))
    BY DEF At, Issuing, Social
  <2> QED BY <1>11, <2>1, SessionsGoneStep DEF RevokeSessions
<1>12. CASE Reissue(p)
  <2>1. At("reread", call[p], [local[p] EXCEPT !.got = @ \cup {fresh}])
    BY <1>12 DEF Reissue, At
  <2> QED BY <1>12, <2>1, SessionStored DEF Reissue, SignIns
<1>13. CASE Reread(p)
  <2>1. Sends(p)
    BY <1>13, Reading DEF Reread
  <2> QED BY <1>0, <1>13, <2>1, Answers, Stops, GotStill DEF Reread
<1> QED BY <1>1, <1>2, <1>3, <1>4, <1>5, <1>6, <1>7, <1>8, <1>9, <1>10, <1>11, <1>12, <1>13
        DEF CredentialStep

LEMMA UserGoneStep ==
    ASSUME Typed, NEW p \in Requests, pc[p] # "idle", NEW label, label # "idle",
           DeleteUserRow(p, label), label # "answer" => At(label, call[p], local[p])
    PROVE  Stepped(p)
<1>1. Sends(p) /\ Continue(p, label, local[p])
  BY DEF DeleteUserRow, Sends, SendsUser, SendsDelete, Unsigned
<1> QED BY <1>1, Continues, GotStill

LEMMA AdminSteps ==
    ASSUME Typed, NEW p \in Requests, pc[p] # "idle", AdminStep(p)
    PROVE  Stepped(p)
<1>0. local[p] \in Local /\ Asked(call[p]) /\ At(pc[p], call[p], local[p])
  BY StillThere
<1>1. CASE AdminCreateUser(p)
  <2>1. CASE ~ CanCreateUser(db, call[p].email, NoText)
    BY <1>1, <2>1, Reading, Stops DEF AdminCreateUser
  <2>2. CASE CanCreateUser(db, call[p].email, NoText)
    <3> DEFINE l == [local[p] EXCEPT !.user = fresh]
               label == IF call[p].flag THEN "add_credential" ELSE "answer"
    <3>1. /\ pc[p] = "create_user" /\ DrawFor(<<"user">>, None) /\ Continue(p, label, l)
      BY <1>1, <2>2 DEF AdminCreateUser, Draw
    <3>2. SendsNewUser(p)
      BY <1>1, <2>2 DEF AdminCreateUser, SendsNewUser
    <3>3. Sends(p)
      BY <3>2 DEF Sends, SendsUser
    <3>4. fresh \in Id
      BY <3>1, FreshDrawn DEF Kinds
    <3>5. l \in Local /\ l.got = local[p].got
      BY <1>0, <3>4 DEF Local, IdOrNone
    <3>6. label # "idle" /\ (label # "answer" => At(label, call[p], l))
      BY <1>0, <3>1 DEF At
    <3> QED BY <3>1, <3>3, <3>5, <3>6, Continues, GotStill
  <2> QED BY <2>1, <2>2
<1>2. CASE CheckOwnName(p)
  <2>1. Sends(p)
    BY <1>2, Reading DEF CheckOwnName
  <2>2. At("update_user", call[p], local[p])
    BY <1>0, <1>2 DEF CheckOwnName, At
  <2> QED BY <1>0, <1>2, <2>1, <2>2, Goes, Stops, GotStill DEF CheckOwnName
<1>3. CASE UpdateTarget(p)
  <2>1. CASE ~ CanUpdateUser(db, call[p].target, Change(call[p]))
    BY <1>3, <2>1, Reading, Stops DEF UpdateTarget, KeepIds
  <2>2. CASE CanUpdateUser(db, call[p].target, Change(call[p]))
    <3>1. Sends(p) /\ pc[p] = "update_user"
      BY <1>3, <2>2 DEF UpdateTarget, Sends, SendsUser, SendsUpdate, Unsigned
    <3>2. CASE Answer(p, local[p])
      BY <1>0, <3>1, <3>2, Answers, GotStill
    <3>3. ASSUME call[p].op = "ban",
                 Goto(p, "delete_sessions", [local[p] EXCEPT !.out = {call[p].target}])
          PROVE  Stepped(p)
      <4> DEFINE l == [local[p] EXCEPT !.out = {call[p].target}]
      <4>1. call[p].target \in Id
        BY <2>2, Now DEF CanUpdateUser, UserOf, Database, User
      <4>2. l \in Local /\ l.got = local[p].got
        BY <1>0, <4>1 DEF Local
      <4>3. At("delete_sessions", call[p], l)
        BY <3>1, <3>3 DEF At
      <4> QED BY <3>1, <3>3, <4>2, <4>3, Goes, GotStill
    <3> QED BY <1>3, <2>2, <3>2, <3>3 DEF UpdateTarget
  <2> QED BY <2>1, <2>2
<1>4. CASE FindTarget(p)
  <2>1. Sends(p) /\ pc[p] = "find_target"
    BY <1>4, Reading DEF FindTarget
  <2>2. CASE Refuse(p)
    BY <2>1, <2>2, Stops
  <2>3. ASSUME NEW label,
               \/ call[p].op = "remove_user" /\ label = "delete_sessions"
               \/ call[p].op = "impersonate" /\ label \in {"lift_first", "impersonate"}
               \/ call[p].op \notin {"remove_user", "impersonate"} /\ label = "update_user",
               Goto(p, label, local[p])
        PROVE  Stepped(p)
    <3>1. label # "idle" /\ At(label, call[p], local[p])
      BY <1>0, <2>1, <2>3 DEF At, Deleting
    <3> QED BY <1>0, <2>1, <2>3, <3>1, Goes, GotStill
  <2> QED BY <1>4, <2>2, <2>3 DEF FindTarget
<1>5. CASE LiftBanFirst(p)
  <2>1. CASE Refuse(p) /\ db' = db
    BY <1>5, <2>1, Reading, Stops DEF LiftBanFirst, LiftBan
  <2>2. ASSUME CanUpdateUser(db, local[p].user, [banned |-> FALSE]),
               db' = UpdateUser(db, local[p].user, [banned |-> FALSE]),
               Goto(p, "impersonate", local[p])
        PROVE  Stepped(p)
    <3>1. Sends(p)
      BY <1>5, <2>2 DEF LiftBanFirst, LiftBan, Sends, SendsUser, SendsLift, Unsigned
    <3>2. At("impersonate", call[p], local[p])
      BY <1>0, <1>5 DEF LiftBanFirst, At
    <3> QED BY <1>0, <2>2, <3>1, <3>2, Goes, GotStill
  <2> QED BY <1>5, <2>1, <2>2 DEF LiftBanFirst, LiftBan
<1>6. CASE Impersonate(p)
  <2>1. ~ CanCreateSession(db, local[p].user) => kind' = kind
    BY <1>6 DEF Impersonate, StoreSession, KeepIds
  <2>2. fresh' = fresh => signed' = signed
    BY <1>6 DEF Impersonate
  <2>3. ~ CanCreateSession(db, local[p].user) => signed' = signed
    BY <2>1, <2>2 DEF fresh
  <2> QED BY <1>6, <2>3, SessionStored DEF Impersonate
<1>7. CASE FindAdmin(p)
  <2>1. Sends(p)
    BY <1>7, Reading DEF FindAdmin
  <2>2. At("find_own_session", call[p], local[p])
    BY <1>0, <1>7 DEF FindAdmin, At
  <2> QED BY <1>0, <1>7, <2>1, <2>2, Goes, Stops, GotStill DEF FindAdmin
<1>8. CASE FindOwnSession(p)
  <2>1. Sends(p)
    BY <1>8, Reading DEF FindOwnSession
  <2>2. At("end_impersonation", call[p], local[p])
    BY <1>0, <1>8 DEF FindOwnSession, At
  <2> QED BY <1>0, <1>8, <2>1, <2>2, Goes, Stops, GotStill DEF FindOwnSession
<1>9. CASE EndImpersonation(p)
  <2>1. Sends(p)
    BY <1>9 DEF EndImpersonation, Sends, SendsSessions, SendsEnd, Unsigned
  <2> QED BY <1>0, <1>9, <2>1, Answers, GotStill DEF EndImpersonation
<1>10. CASE RevokeSession(p)
  <2>1. Sends(p)
    BY <1>10 DEF RevokeSession, Sends, SendsSessions, SendsEnd, Unsigned
  <2> QED BY <1>0, <1>10, <2>1, Answers, GotStill DEF RevokeSession
<1>11. CASE RevokeTargetSessions(p)
  <2> DEFINE label == IF call[p].op = "remove_user" THEN "list_accounts" ELSE "answer"
  <2>1. label # "idle" /\ (label # "answer" => At(label, call[p], local[p]))
    BY DEF At, Deleting
  <2> QED BY <1>11, <2>1, SessionsGoneStep DEF RevokeTargetSessions
<1>12. CASE RemoveUser(p)
  BY <1>12, UserGoneStep DEF RemoveUser
<1> QED BY <1>1, <1>2, <1>3, <1>4, <1>5, <1>6, <1>7, <1>8, <1>9, <1>10, <1>11, <1>12
        DEF AdminStep

LEMMA WriteUserStep ==
    ASSUME Typed, NEW p \in Requests, pc[p] # "idle",
           pc[p] \in {"update_address", "change_address", "mark_verified", "mark_reported",
                      "override_verified", "override_unverified"},
           NEW change, UserChange(change), DOMAIN change \subseteq {"email", "verified"},
           change = ChangeOf(pc[p], call[p]), NEW label, label # "idle", WriteUser(p, change, label),
           label # "answer" => At(label, call[p], local[p])
    PROVE  Stepped(p)
<1>1. CASE ~ CanUpdateUser(db, local[p].user, change)
  BY <1>1, Reading, Stops DEF WriteUser
<1>2. CASE CanUpdateUser(db, local[p].user, change)
  <2>1. SendsProfile(p)
    BY <1>2 DEF WriteUser, SendsProfile, Unsigned
  <2>2. Sends(p) /\ Continue(p, label, local[p])
    BY <1>2, <2>1 DEF WriteUser, Sends, SendsUser
  <2> QED BY <2>2, Continues, GotStill
<1> QED BY <1>1, <1>2

\* A secret is stored, and the request is answered with it.
LEMMA SecretStored ==
    ASSUME Typed, NEW p \in Requests, pc[p] # "idle", NEW k \in Kinds, DrawFor(<<k>>, None),
           SendsSecret(p) \/ SendsKey(p), Answer(p, [local[p] EXCEPT !.got = {fresh}])
    PROVE  Stepped(p)
<1> DEFINE l == [local[p] EXCEPT !.got = {fresh}]
<1>1. Sends(p)
  BY DEF Sends, SendsOther
<1>2. fresh \in Id /\ fresh \in 1 .. Len(kind')
  BY FreshDrawn
<1>3. l \in Local /\ l.got \subseteq 1 .. Len(kind')
  BY <1>2, StillThere DEF Local
<1> QED BY <1>1, <1>3, Answers

LEMMA ProfileSteps ==
    ASSUME Typed, NEW p \in Requests, pc[p] # "idle", ProfileStep(p)
    PROVE  Stepped(p)
<1>0. local[p] \in Local /\ Asked(call[p]) /\ At(pc[p], call[p], local[p])
  BY StillThere
<1>1. CASE CheckAddress(p)
  <2> DEFINE label == IF local[p].link = NoLink THEN "update_address" ELSE "mail_link"
  <2>1. Sends(p)
    BY <1>1, Reading DEF CheckAddress
  <2>2. label # "idle" /\ At(label, call[p], local[p])
    BY <1>0, <1>1 DEF CheckAddress, At
  <2> QED BY <1>0, <1>1, <2>1, <2>2, Goes, Stops, GotStill DEF CheckAddress
<1>2. CASE UpdateAddress(p)
  <2> DEFINE change == [email |-> call[p].email]
  <2>1. call[p].email \in Emails
    BY <1>0, <1>2 DEF UpdateAddress, At, Asked
  <2>2. UserChange(change) /\ DOMAIN change \subseteq {"email", "verified"}
    BY <2>1 DEF UserChange, UserFields
  <2> QED BY <1>2, <2>2, WriteUserStep DEF UpdateAddress, ChangeOf
<1>3. CASE MailLink(p)
  <2>1. SendsLink(p)
    BY <1>3 DEF MailLink, SendsLink
  <2>2. Sends(p)
    BY <2>1 DEF Sends, SendsOther
  <2> QED BY <1>0, <1>3, <2>2, Answers, GotStill DEF MailLink
<1>4. CASE FindByEmail(p)
  <2>1. Sends(p) /\ call[p].op = "verify_email" /\ LinkOK(call[p].change)
    BY <1>0, <1>4, Reading DEF FindByEmail, At, Asked
  <2>2. CASE Refuse(p)
    BY <2>1, <2>2, Stops
  <2>3. ASSUME NEW u \in db.users
        PROVE  /\ [local[p] EXCEPT !.user = u.id] \in Local
               /\ [local[p] EXCEPT !.user = u.id].got = local[p].got
    BY <1>0, Now DEF Local, IdOrNone, Database, User
  <2>4. ASSUME NEW u \in db.users, Answer(p, [local[p] EXCEPT !.user = u.id])
        PROVE  Stepped(p)
    BY <2>1, <2>3, <2>4, Answers, GotStill
  <2>5. ASSUME NEW u \in db.users, NEW label,
               \/ label \in {"issue", "mark_verified"}
               \/ label = "change_address" /\ call[p].change.type = "change",
               Goto(p, label, [local[p] EXCEPT !.user = u.id])
        PROVE  Stepped(p)
    <3> DEFINE l == [local[p] EXCEPT !.user = u.id]
    <3>1. label # "idle" /\ At(label, call[p], l)
      BY <2>1, <2>5 DEF At, Issuing, Social
    <3> QED BY <2>1, <2>3, <2>5, <3>1, Goes, GotStill
  <2>6. ASSUME NEW u \in db.users, call[p].change.type = "confirm_change",
               Goto(p, "mail_link",
                    [[local[p] EXCEPT !.user = u.id] EXCEPT
                       !.link = [call[p].change EXCEPT !.type = "change",
                                                       !.box = call[p].change.to]])
        PROVE  Stepped(p)
    <3> DEFINE k == [call[p].change EXCEPT !.type = "change", !.box = call[p].change.to]
               m == [local[p] EXCEPT !.user = u.id]
               l == [m EXCEPT !.link = k]
    <3>1. LinkOK(k)
      BY <2>1, <2>6 DEF LinkOK, Link, Links
    <3> HIDE DEF k
    <3>2. m \in Local /\ m.got = local[p].got
      BY <2>3
    <3> HIDE DEF m
    <3>3. l \in Local /\ l.got = m.got /\ l.link = k
      BY <3>1, <3>2 DEF Local, LinkOK, Link
    <3>4. At("mail_link", call[p], l)
      BY <2>1, <3>1, <3>3 DEF At
    <3>5. Goto(p, "mail_link", l)
      BY <2>6 DEF m, k
    <3> HIDE DEF l
    <3> QED BY <2>1, <3>2, <3>3, <3>4, <3>5, Goes, GotStill
  <2>7. NamedByLink(call[p]) \subseteq db.users
    BY DEF NamedByLink, UsersMailed
  <2> QED BY <1>4, <2>2, <2>4, <2>5, <2>6, <2>7 DEF FindByEmail
<1>5. CASE SessionForLink(p)
  <2> DEFINE label == IF call[p].change.type = "change" THEN "change_address" ELSE "answer"
  <2>1. label # "answer" => At(label, call[p], [local[p] EXCEPT !.got = @ \cup {fresh}])
    BY <1>5 DEF SessionForLink, At
  <2> QED BY <1>5, <2>1, SessionStored DEF SessionForLink, SignIns
<1>6. CASE ChangeAddress(p)
  <2> DEFINE change == [email |-> call[p].change.to, verified |-> TRUE]
  <2>1. call[p].change.to \in Emails
    BY <1>0, <1>6 DEF ChangeAddress, At, Asked, LinkOK
  <2>2. UserChange(change) /\ DOMAIN change \subseteq {"email", "verified"}
    BY <2>1 DEF UserChange, UserFields
  <2> QED BY <1>6, <2>2, WriteUserStep DEF ChangeAddress, ChangeOf
<1>7. CASE MarkVerified(p)
  <2> DEFINE change == [verified |-> TRUE]
             label == IF AutoSignInVerified /\ local[p].row = None THEN "issue" ELSE "answer"
  <2>1. UserChange(change) /\ DOMAIN change \subseteq {"email", "verified"}
    BY DEF UserChange, UserFields
  <2>2. label # "idle" /\ (label # "answer" => At(label, call[p], local[p]))
    BY <1>0, <1>7 DEF MarkVerified, At, Issuing, Social
  <2> QED BY <1>7, <2>1, <2>2, WriteUserStep DEF MarkVerified, ChangeOf
<1>8. CASE CheckDeletionPassword(p)
  <2>1. Sends(p)
    BY <1>8, Reading DEF CheckDeletionPassword
  <2>2. /\ AfterPassword(call[p]) # "idle"
        /\ At(AfterPassword(call[p]), call[p], local[p])
    BY <1>8 DEF CheckDeletionPassword, AfterPassword, At, Deleting
  <2> QED BY <1>0, <1>8, <2>1, <2>2, Goes, Stops, GotStill DEF CheckDeletionPassword
<1>9. CASE StoreDeleteToken(p)
  <2> DEFINE v == NewVerification(fresh, "delete", local[p].user)
  <2>1. /\ db' = CreateVerification(db, v) /\ signed' = signed /\ DrawFor(<<"delete">>, None)
        /\ Answer(p, [local[p] EXCEPT !.got = {fresh}]) /\ pc[p] = "store_delete_token"
    BY <1>9 DEF StoreDeleteToken, Draw
  <2>2. fresh \in Id
    BY <2>1, FreshDrawn DEF Kinds, Purposes
  <2>3. /\ v \in Verification /\ v.id = fresh /\ v.purpose = "delete"
        /\ v.about = local[p].user
    BY <1>0, <2>2 DEF NewVerification, Verification, Purposes, Local
  <2> HIDE DEF v
  <2>4. SendsSecret(p)
    BY <2>1, <2>3 DEF SendsSecret, Draw
  <2> QED BY <2>1, <2>4, SecretStored DEF Kinds, Purposes
<1>10. CASE FindDeleteToken(p)
  <2> DEFINE l == [local[p] EXCEPT !.row = call[p].target, !.spent = {call[p].target}]
  <2>1. Sends(p) /\ call[p].op \in {"delete_user", "delete_callback"}
    BY <1>0, <1>10, Reading DEF FindDeleteToken, At
  <2>2. CASE Refuse(p)
    BY <2>1, <2>2, Stops
  <2>3. CASE OwnToken(call[p].target, local[p].user) # {} /\ Goto(p, "delete_sessions", l)
    <3>1. call[p].target \in Id
      BY <2>3, Now DEF OwnToken, VerificationOf, Database, Verification
    <3>2. l \in Local /\ l.got = local[p].got
      BY <1>0, <3>1 DEF Local, IdOrNone
    <3>3. At("delete_sessions", call[p], l)
      BY <2>1 DEF At, Deleting
    <3> QED BY <2>1, <2>3, <3>2, <3>3, Goes, GotStill
  <2> QED BY <1>10, <2>2, <2>3 DEF FindDeleteToken
<1>11. CASE DeleteOwnSessions(p)
  <2>1. At("list_accounts", call[p], local[p])
    BY <1>11 DEF DeleteOwnSessions, At, Deleting
  <2> QED BY <1>11, <2>1, SessionsGoneStep DEF DeleteOwnSessions
<1>12. CASE DeleteOneself(p)
  <2> DEFINE label == IF local[p].row = None THEN "answer" ELSE "drop_delete_token"
  <2>1. label # "idle" /\ (label # "answer" => At(label, call[p], local[p]))
    BY <1>12 DEF DeleteOneself, At
  <2> QED BY <1>12, <2>1, UserGoneStep DEF DeleteOneself
<1>13. CASE DropDeleteToken(p)
  <2>1. Sends(p)
    BY <1>13 DEF DropDeleteToken, Sends, SendsOther, SendsSpend, Unsigned
  <2> QED BY <1>0, <1>13, <2>1, Answers, GotStill DEF DropDeleteToken
<1>14. CASE CreateKey(p)
  <2>1. SendsKey(p) /\ DrawFor(<<"key">>, None) /\ Answer(p, [local[p] EXCEPT !.got = {fresh}])
    BY <1>14 DEF CreateKey, SendsKey, Draw
  <2> QED BY <2>1, SecretStored DEF Kinds
<1> QED BY <1>1, <1>2, <1>3, <1>4, <1>5, <1>6, <1>7, <1>8, <1>9, <1>10, <1>11, <1>12, <1>13,
           <1>14
        DEF ProfileStep

LEMMA PasskeySteps ==
    ASSUME Typed, NEW p \in Requests, pc[p] # "idle", PasskeyStep(p)
    PROVE  Stepped(p)
<1>0. local[p] \in Local /\ Asked(call[p]) /\ At(pc[p], call[p], local[p])
  BY StillThere
<1>1. CASE ListPasskeys(p)
  <2> DEFINE l == [local[p] EXCEPT !.keys = PasskeysOf(db, local[p].user)]
  <2>1. Sends(p)
    BY <1>1, Reading DEF ListPasskeys
  <2>2. PasskeysOf(db, local[p].user) \subseteq Passkey
    BY Now DEF PasskeysOf, Database
  <2>3. l \in Local /\ l.got = local[p].got
    BY <1>0, <2>2 DEF Local
  <2>4. At("store_challenge", call[p], l)
    BY <1>0, <1>1 DEF ListPasskeys, At
  <2> QED BY <1>1, <2>1, <2>3, <2>4, Goes, GotStill DEF ListPasskeys
<1>2. CASE StoreChallenge(p)
  <2>1. CASE call[p].op = "register_options"
    <3> DEFINE v == NewVerification(fresh, "register", local[p].user)
    <3>1. /\ db' = CreateVerification(db, v) /\ signed' = signed /\ DrawFor(<<"register">>, None)
          /\ Answer(p, [local[p] EXCEPT !.got = {fresh}]) /\ pc[p] = "store_challenge"
      BY <1>2, <2>1 DEF StoreChallenge, Draw
    <3>2. fresh \in Id
      BY <3>1, FreshDrawn DEF Kinds, Purposes
    <3>3. /\ v \in Verification /\ v.id = fresh /\ v.purpose = "register"
          /\ v.about = local[p].user /\ v.keys = {}
      BY <1>0, <3>2 DEF NewVerification, Verification, Purposes, Local
    <3> HIDE DEF v
    <3>4. SendsSecret(p)
      BY <2>1, <3>1, <3>3 DEF SendsSecret, Draw
    <3> QED BY <3>1, <3>4, SecretStored DEF Kinds, Purposes
  <2>2. CASE call[p].op # "register_options"
    <3> DEFINE v == [NewVerification(fresh, "login", None) EXCEPT !.keys = local[p].keys]
    <3>1. /\ db' = CreateVerification(db, v) /\ signed' = signed /\ DrawFor(<<"login">>, None)
          /\ Answer(p, [local[p] EXCEPT !.got = {fresh}]) /\ pc[p] = "store_challenge"
      BY <1>2, <2>2 DEF StoreChallenge, Draw
    <3>2. fresh \in Id
      BY <3>1, FreshDrawn DEF Kinds, Purposes
    <3>3. /\ v \in Verification /\ v.id = fresh /\ v.purpose = "login"
          /\ v.keys = local[p].keys
      BY <1>0, <3>2 DEF NewVerification, Verification, Purposes, Local, IdOrNone, None
    <3> HIDE DEF v
    <3>4. SendsSecret(p)
      BY <2>2, <3>1, <3>3 DEF SendsSecret, Draw
    <3> QED BY <3>1, <3>4, SecretStored DEF Kinds, Purposes
  <2> QED BY <2>1, <2>2
<1>3. CASE FindRegistration(p)
  <2>1. Sends(p)
    BY <1>3, Reading DEF FindRegistration
  <2>2. CASE Refuse(p)
    BY <2>1, <2>2, Stops
  <2>3. ASSUME NEW v \in VerificationOf(db, call[p].secret, "register"),
               Goto(p, "create_passkey", [local[p] EXCEPT !.row = v.id, !.spent = {v.id}])
        PROVE  Stepped(p)
    <3> DEFINE l == [local[p] EXCEPT !.row = v.id, !.spent = {v.id}]
    <3>1. v.id \in Id
      BY Now DEF VerificationOf, Database, Verification
    <3>2. l \in Local /\ l.got = local[p].got
      BY <1>0, <3>1 DEF Local, IdOrNone
    <3>3. At("create_passkey", call[p], l)
      BY <1>0, <1>3 DEF FindRegistration, At
    <3> QED BY <2>1, <2>3, <3>2, <3>3, Goes, GotStill
  <2> QED BY <1>3, <2>2, <2>3 DEF FindRegistration
<1>4. CASE StorePasskey(p)
  <2>1. CASE Refuse(p) /\ db' = db
    BY <1>4, <2>1, Reading, Stops DEF StorePasskey
  <2>2. CASE /\ CanCreatePasskey(db, call[p].secret, local[p].user)
             /\ db' = CreatePasskey(db, call[p].secret, local[p].user, 0)
             /\ Goto(p, "drop_challenge", local[p])
    <3>1. Sends(p)
      BY <1>4, <2>2 DEF StorePasskey, Sends, SendsOther, SendsPasskey, Unsigned
    <3>2. At("drop_challenge", call[p], local[p])
      BY <1>0, <1>4 DEF StorePasskey, At
    <3> QED BY <1>0, <2>2, <3>1, <3>2, Goes, GotStill
  <2> QED BY <1>4, <2>1, <2>2 DEF StorePasskey
<1>5. CASE FindPasskey(p)
  <2>1. Sends(p) /\ call[p].op = "authenticate"
    BY <1>0, <1>5, Reading DEF FindPasskey, At
  <2>2. CASE Refuse(p)
    BY <2>1, <2>2, Stops
  <2>3. ASSUME NEW k \in PasskeyOf(db, call[p].target),
               Goto(p, "update_passkey",
                    [local[p] EXCEPT !.keys = {CounterRaised(k, call[p].change.counter)}])
        PROVE  Stepped(p)
    <3> DEFINE m == CounterRaised(k, call[p].change.counter)
               l == [local[p] EXCEPT !.keys = {m}]
    <3>1. k \in Passkey /\ call[p].change.counter \in 0 .. MaxCount
      BY <1>0, <2>1, Now DEF PasskeyOf, Database, Asked
    <3>2. m \in Passkey
      BY <3>1 DEF CounterRaised, Passkey
    <3> HIDE DEF m
    <3>3. l \in Local /\ l.got = local[p].got
      BY <1>0, <3>2 DEF Local
    <3>4. At("update_passkey", call[p], l)
      BY <2>1 DEF At
    <3>5. Goto(p, "update_passkey", l)
      BY <2>3 DEF m
    <3> HIDE DEF l
    <3> QED BY <2>1, <3>3, <3>4, <3>5, Goes, GotStill
  <2> QED BY <1>5, <2>2, <2>3 DEF FindPasskey
<1>6. CASE WritePasskey(p)
  <2>1. CASE Refuse(p) /\ db' = db
    BY <1>6, <2>1, Reading, Stops DEF WritePasskey
  <2>2. ASSUME NEW k \in local[p].keys, db' = UpdatePasskey(db, k.id, k.counter),
               Goto(p, "find_passkey_user", [local[p] EXCEPT !.user = k.user])
        PROVE  Stepped(p)
    <3> DEFINE l == [local[p] EXCEPT !.user = k.user]
    <3>1. SendsPasskey(p)
      BY <1>6, <2>2 DEF WritePasskey, SendsPasskey, Unsigned
    <3>2. Sends(p)
      BY <3>1 DEF Sends, SendsOther
    <3>3. k.user \in Id
      BY <1>0 DEF Local, Passkey
    <3>4. l \in Local /\ l.got = local[p].got
      BY <1>0, <3>3 DEF Local, IdOrNone
    <3>5. At("find_passkey_user", call[p], l)
      BY <1>0, <1>6 DEF WritePasskey, At
    <3> QED BY <2>2, <3>2, <3>4, <3>5, Goes, GotStill
  <2> QED BY <1>6, <2>1, <2>2 DEF WritePasskey
<1>7. CASE FindPasskeyUser(p)
  <2>1. Sends(p)
    BY <1>7, Reading DEF FindPasskeyUser
  <2>2. At("drop_challenge", call[p], local[p])
    BY <1>0, <1>7 DEF FindPasskeyUser, At
  <2> QED BY <1>0, <1>7, <2>1, <2>2, Goes, Stops, GotStill DEF FindPasskeyUser
<1>8. CASE DropChallenge(p)
  <2> DEFINE label == IF call[p].op = "register" THEN "answer" ELSE "issue"
  <2>1. Sends(p)
    BY <1>8 DEF DropChallenge, ChallengeGone, Sends, SendsOther, SendsSpend, Unsigned
  <2>2. label # "idle" /\ (label # "answer" => At(label, call[p], local[p]))
    BY <1>0, <1>8 DEF DropChallenge, At, Issuing, Social
  <2> QED BY <1>0, <1>8, <2>1, <2>2, Continues, GotStill DEF DropChallenge
<1>9. CASE SignInWithPasskey(p)
  BY <1>9, SessionStored DEF SignInWithPasskey, SignIns
<1>10. CASE CheckOwner(p)
  <2>1. Sends(p)
    BY <1>10, Reading DEF CheckOwner
  <2>2. At("delete_passkey", call[p], local[p])
    BY <1>0, <1>10 DEF CheckOwner, At
  <2> QED BY <1>0, <1>10, <2>1, <2>2, Goes, Stops, GotStill DEF CheckOwner
<1>11. CASE RemovePasskey(p)
  <2>1. Sends(p)
    BY <1>11 DEF RemovePasskey, Sends, SendsOther, SendsPasskey, Unsigned
  <2> QED BY <1>0, <1>11, <2>1, Answers, GotStill DEF RemovePasskey
<1> QED BY <1>1, <1>2, <1>3, <1>4, <1>5, <1>6, <1>7, <1>8, <1>9, <1>10, <1>11 DEF PasskeyStep

\* What comes after an account is found or made, of a sign-in.
LEMMA AfterAccount ==
    ASSUME NEW c, NEW u
    PROVE  ThenFor(c, u) \in {"issue", "mark_reported", "override_verified", "override_unverified"}
  BY DEF ThenFor, Overrides

LEMMA StoreStateStep ==
    ASSUME Typed, NEW p \in Requests, pc[p] # "idle", StoreState(p)
    PROVE  Stepped(p)
<1>0. local[p] \in Local
  BY StillThere
<1> DEFINE v == [NewVerification(fresh, "state", local[p].user)
                   EXCEPT !.email = local[p].link.email]
<1>1. /\ IF StateInCookie THEN signed' = signed \cup {v} /\ UNCHANGED db
         ELSE db' = CreateVerification(db, v) /\ UNCHANGED signed
      /\ DrawFor(<<"state">>, None) /\ Answer(p, [local[p] EXCEPT !.got = {fresh}])
      /\ pc[p] = "store_state"
  BY DEF StoreState, Draw
<1>2. fresh \in Id
  BY <1>1, FreshDrawn DEF Kinds, Purposes
<1>3. /\ v \in Verification /\ v.id = fresh /\ v.purpose = "state" /\ v.keys = {}
      /\ v.about = local[p].user /\ v.email = local[p].link.email
  BY <1>0, <1>2 DEF NewVerification, Verification, Purposes, Local
<1> HIDE DEF v
<1>4. SendsSecret(p)
  BY <1>1, <1>3 DEF SendsSecret, Draw
<1> QED BY <1>1, <1>4, SecretStored DEF Kinds, Purposes

LEMMA LinkSteps ==
    ASSUME Typed, NEW p \in Requests, pc[p] # "idle", FindLinkUser(p) \/ FindLinked(p)
    PROVE  Stepped(p)
<1>0. local[p] \in Local /\ Asked(call[p]) /\ At(pc[p], call[p], local[p])
  BY StillThere
<1>1. CASE FindLinkUser(p)
  <2>1. Sends(p) /\ pc[p] = "find_link_user"
    BY <1>1, Reading DEF FindLinkUser
  <2>2. CASE Refuse(p)
    BY <2>1, <2>2, Stops
  <2>3. ASSUME NEW u \in UserOf(db, local[p].user), call[p].op = "link_social",
               Goto(p, "store_state", [local[p] EXCEPT !.link.email = u.email])
        PROVE  Stepped(p)
    <3> DEFINE l == [local[p] EXCEPT !.link.email = u.email]
    <3>1. u.email \in Emails /\ u.email # NoText
      BY Now, StoreAssumption DEF UserOf, Database, User, NoText
    <3>2. l \in Local /\ l.got = local[p].got /\ l.link.email = u.email /\ l.user = local[p].user
      BY <1>0, <3>1 DEF Local
    <3>3. At("store_state", call[p], l)
      BY <1>0, <2>1, <2>3, <3>1, <3>2 DEF At
    <3> QED BY <2>1, <2>3, <3>2, <3>3, Goes, GotStill
  <2>4. CASE call[p].op # "link_social" /\ Goto(p, "create_account", local[p])
    <3>1. At("create_account", call[p], local[p])
      BY <1>0, <2>1, <2>4 DEF At, Social
    <3> QED BY <1>0, <2>1, <2>4, <3>1, Goes, GotStill
  <2> QED BY <1>1, <2>2, <2>3, <2>4 DEF FindLinkUser
<1>2. CASE FindLinked(p)
  <2>1. Sends(p)
    BY <1>2, Reading DEF FindLinked
  <2>2. At("find_link_user", call[p], local[p])
    BY <1>0, <1>2 DEF FindLinked, At
  <2> QED BY <1>0, <1>2, <2>1, <2>2, Goes, Answers, GotStill DEF FindLinked
<1> QED BY <1>1, <1>2

LEMMA CallbackSteps ==
    ASSUME Typed, NEW p \in Requests, pc[p] # "idle",
           \/ DropState(p) \/ FindAccount(p) \/ WriteTokens(p) \/ FindAccountUser(p)
           \/ MarkReported(p) \/ OverrideUser(p) \/ FindByReport(p)
    PROVE  Stepped(p)
<1>0. local[p] \in Local /\ Asked(call[p]) /\ At(pc[p], call[p], local[p])
  BY StillThere
<1>1. CASE DropState(p)
  <2>1. CASE KeepIds /\ Refuse(p)
    <3>1. SendsState(p)
      BY <1>1, <2>1 DEF DropState, SendsState
    <3>2. Sends(p)
      BY <3>1 DEF Sends, SendsOther
    <3> QED BY <2>1, <3>2, Stops
  <2>2. CASE /\ call[p].target # None /\ Draw(<<"grant">>)
             /\ Goto(p, "find_account", [local[p] EXCEPT !.row = fresh])
    <3> DEFINE l == [local[p] EXCEPT !.row = fresh]
    <3>1. SendsState(p) /\ pc[p] = "drop_state"
      BY <1>1, <2>2 DEF DropState, SendsState
    <3>2. Sends(p)
      BY <3>1 DEF Sends, SendsOther
    <3>3. fresh \in Id
      BY <2>2, FreshDrawn DEF Kinds, Draw
    <3>4. l \in Local /\ l.got = local[p].got
      BY <1>0, <3>3 DEF Local, IdOrNone
    <3>5. At("find_account", call[p], l)
      BY <1>0, <2>2, <3>1 DEF At, Social
    <3> QED BY <2>2, <3>2, <3>4, <3>5, Goes, GotStill
  <2> QED BY <1>1, <2>1, <2>2 DEF DropState
<1>2. CASE FindAccount(p)
  <2>1. Sends(p) /\ pc[p] = "find_account"
    BY <1>2, Reading DEF FindAccount
  <2>2. CASE Refuse(p)
    BY <2>1, <2>2, Stops
  <2>3. ASSUME NEW label,
               label = IF local[p].user # None THEN "create_account" ELSE "find_by_report",
               Goto(p, label, local[p])
        PROVE  Stepped(p)
    <3>1. label # "idle" /\ At(label, call[p], local[p])
      BY <1>0, <2>1, <2>3 DEF At, Social
    <3> QED BY <1>0, <2>1, <2>3, <3>1, Goes, GotStill
  <2>4. ASSUME NEW a \in AccountAt(db, "social", call[p].target), NEW label,
               \/ label = "update_account"
               \/ label = "find_account_user" /\ local[p].user = None,
               Goto(p, label, [local[p] EXCEPT !.user = a.user, !.todo = {a.id}])
        PROVE  Stepped(p)
    <3> DEFINE l == [local[p] EXCEPT !.user = a.user, !.todo = {a.id}]
    <3>1. a.id \in Id /\ a.user \in Id
      BY Now DEF AccountAt, Database, Account
    <3>2. l \in Local /\ l.got = local[p].got /\ l.link = local[p].link
      BY <1>0, <3>1 DEF Local, IdOrNone
    <3>3. label # "idle" /\ At(label, call[p], l)
      BY <1>0, <2>1, <2>4, <3>2 DEF At, Social
    <3> QED BY <2>1, <2>4, <3>2, <3>3, Goes, GotStill
  <2> QED BY <1>2, <2>2, <2>3, <2>4 DEF FindAccount
<1>3. CASE WriteTokens(p)
  <2>1. CASE UNCHANGED <<db, signed>> /\ Refuse(p)
    BY <1>3, <2>1, Reading, Stops DEF WriteTokens
  <2>2. ASSUME NEW i \in local[p].todo, NEW a \in AccountOf(db, i),
               db' = GrantStored(a.id, local[p].row),
               \/ /\ signed' = signed \cup CookieAnew(call[p], a, local[p].row)
                  /\ Continue(p, IF SignsIn(p) THEN "find_account_user" ELSE "answer", local[p])
               \/ signed' = signed /\ Refuse(p)
        PROVE  Stepped(p)
    <3> DEFINE label == IF SignsIn(p) THEN "find_account_user" ELSE "answer"
    <3>1. SendsGrant(p) /\ pc[p] = "update_account"
      BY <1>3, <2>2 DEF WriteTokens, SendsGrant
    <3>2. Sends(p)
      BY <3>1 DEF Sends, SendsAccounts
    <3>3. label # "idle" /\ (label # "answer" => At(label, call[p], local[p]))
      BY <1>0, <3>1 DEF At, SignsIn, Refreshes, Tokens, Social
    <3> QED BY <1>0, <2>2, <3>2, <3>3, Continues, Stops, GotStill
  <2> QED BY <1>3, <2>1, <2>2 DEF WriteTokens
<1>4. CASE FindAccountUser(p)
  <2>1. Sends(p) /\ pc[p] = "find_account_user"
    BY <1>4, Reading DEF FindAccountUser
  <2>2. CASE Refuse(p)
    BY <2>1, <2>2, Stops
  <2>3. ASSUME NEW label \in {"issue", "mark_reported", "override_verified", "override_unverified"},
               Goto(p, label, local[p])
        PROVE  Stepped(p)
    <3>1. At(label, call[p], local[p])
      BY <1>0, <2>1 DEF At, Issuing, Social
    <3> QED BY <1>0, <2>1, <2>3, <3>1, Goes, GotStill
  <2> QED BY <1>4, <2>2, <2>3, AfterAccount DEF FindAccountUser
<1>5. CASE MarkReported(p)
  <2> DEFINE u == CHOOSE w \in UserOf(db, local[p].user) : TRUE
             label == IF UserOf(db, local[p].user) = {} THEN "issue" ELSE Overrides(call[p], u, TRUE)
             change == [verified |-> TRUE]
  <2>1. UserChange(change) /\ DOMAIN change \subseteq {"email", "verified"}
    BY DEF UserChange, UserFields
  <2>2. label \in {"issue", "override_verified", "override_unverified"}
    BY DEF Overrides
  <2>3. label # "idle" /\ At(label, call[p], local[p])
    BY <1>0, <1>5, <2>2 DEF MarkReported, At, Issuing, Social
  <2> QED BY <1>5, <2>1, <2>3, WriteUserStep DEF MarkReported, ChangeOf
<1>6. CASE OverrideUser(p)
  <2> DEFINE change == [email |-> call[p].email, verified |-> pc[p] = "override_verified"]
  <2>1. call[p].email \in Emails
    BY <1>0, <1>6 DEF OverrideUser, At, Asked, Social
  <2>2. UserChange(change) /\ DOMAIN change \subseteq {"email", "verified"}
    BY <2>1 DEF UserChange, UserFields
  <2>3. At("issue", call[p], local[p])
    BY <1>0, <1>6 DEF OverrideUser, At, Issuing, Social
  <2> QED BY <1>6, <2>2, <2>3, WriteUserStep DEF OverrideUser, ChangeOf
<1>7. CASE FindByReport(p)
  <2>1. Sends(p) /\ pc[p] = "find_by_report"
    BY <1>7, Reading DEF FindByReport
  <2>2. CASE Refuse(p)
    BY <2>1, <2>2, Stops
  <2>3. CASE Goto(p, "create_social_user", [local[p] EXCEPT !.then = "issue"])
    <3> DEFINE l == [local[p] EXCEPT !.then = "issue"]
    <3>1. l \in Local /\ l.got = local[p].got /\ l.link = local[p].link /\ l.then = "issue"
      BY <1>0 DEF Local, Afterwards
    <3>2. At("create_social_user", call[p], l)
      BY <1>0, <2>1, <3>1 DEF At, Social
    <3> QED BY <2>1, <2>3, <3>1, <3>2, Goes, GotStill
  <2>4. ASSUME NEW u \in UsersMailed(db, call[p].email),
               Goto(p, "create_account",
                    [local[p] EXCEPT !.user = u.id, !.then = ThenFor(call[p], u)])
        PROVE  Stepped(p)
    <3> DEFINE next == ThenFor(call[p], u)
               l == [local[p] EXCEPT !.user = u.id, !.then = next]
    <3>1. u.id \in Id
      BY Now DEF UsersMailed, Database, User
    <3>2. next \in {"issue", "mark_reported", "override_verified", "override_unverified"}
      BY AfterAccount
    <3> HIDE DEF next
    <3>3. l \in Local /\ l.got = local[p].got /\ l.link = local[p].link /\ l.then = next
      BY <1>0, <3>1, <3>2 DEF Local, Afterwards, IdOrNone
    <3>4. At("create_account", call[p], l)
      BY <1>0, <2>1, <3>2, <3>3 DEF At, Social
    <3>5. Goto(p, "create_account", l)
      BY <2>4 DEF next
    <3> HIDE DEF l
    <3> QED BY <2>1, <3>3, <3>4, <3>5, Goes, GotStill
  <2> QED BY <1>7, <2>2, <2>3, <2>4 DEF FindByReport
<1> QED BY <1>1, <1>2, <1>3, <1>4, <1>5, <1>6, <1>7

LEMMA AccountSteps ==
    ASSUME Typed, NEW p \in Requests, pc[p] # "idle",
           CreateSocialUser(p) \/ CreateSocialAccount(p) \/ SocialSession(p)
    PROVE  Stepped(p)
<1>0. local[p] \in Local /\ Asked(call[p]) /\ At(pc[p], call[p], local[p])
  BY StillThere
<1>1. CASE CreateSocialUser(p)
  <2>1. CASE ~ CanCreateUser(db, call[p].email, NoText)
    BY <1>1, <2>1, Reading, Stops DEF CreateSocialUser
  <2>2. CASE CanCreateUser(db, call[p].email, NoText)
    <3> DEFINE l == [local[p] EXCEPT !.user = fresh, !.got = {fresh}]
    <3>1. /\ pc[p] = "create_social_user" /\ DrawFor(<<"user">>, None)
          /\ Goto(p, "create_account", l)
      BY <1>1, <2>2 DEF CreateSocialUser, Draw
    <3> DEFINE verified == Vouched(call[p])
    <3>0. verified \in BOOLEAN /\ (verified => Vouched(call[p]))
      BY DEF Vouched
    <3>7. db' = CreateUser(db, NewUser(fresh, call[p].email, NoText, verified, FALSE))
      BY <1>1, <2>2 DEF CreateSocialUser
    <3> HIDE DEF verified
    <3>2. SendsNewUser(p)
      BY <1>1, <2>2, <3>0, <3>1, <3>7 DEF CreateSocialUser, SendsNewUser, Draw
    <3>3. Sends(p)
      BY <3>2 DEF Sends, SendsUser
    <3>4. fresh \in Id /\ fresh \in 1 .. Len(kind')
      BY <3>1, FreshDrawn DEF Kinds
    <3>5. l \in Local /\ l.got \subseteq 1 .. Len(kind') /\ l.link = local[p].link
          /\ l.then = local[p].then
      BY <1>0, <3>4 DEF Local, IdOrNone
    <3>6. At("create_account", call[p], l)
      BY <1>0, <3>1, <3>5 DEF At, Social
    <3> HIDE DEF l
    <3> QED BY <3>1, <3>3, <3>5, <3>6, Goes
  <2> QED BY <2>1, <2>2
<1>2. CASE CreateSocialAccount(p)
  <2> DEFINE a == [id |-> fresh, user |-> local[p].user, provider |-> "social",
                   subject |-> call[p].target, password |-> None, grant |-> local[p].row]
  <2>1. CASE ~ CanCreateAccount(db, a)
    BY <1>2, <2>1, Reading, Stops DEF CreateSocialAccount
  <2>2. CASE CanCreateAccount(db, a)
    <3> DEFINE l == [local[p] EXCEPT !.got = @ \cup {fresh}, !.todo = {fresh}]
    <3>1. /\ pc[p] = "create_account" /\ DrawFor(<<"account">>, None)
          /\ Continue(p, local[p].then, l)
      BY <1>2, <2>2 DEF CreateSocialAccount, Draw
    <3>2. SendsAccount(p)
      BY <1>2, <2>2 DEF CreateSocialAccount, SendsAccount
    <3>3. Sends(p)
      BY <3>2 DEF Sends, SendsAccounts
    <3>4. fresh \in Id /\ fresh \in 1 .. Len(kind')
      BY <3>1, FreshDrawn DEF Kinds
    <3>5. l \in Local /\ l.got \subseteq 1 .. Len(kind') /\ l.link = local[p].link
      BY <1>0, <3>3, <3>4, GotStill DEF Local
    <3>6. /\ local[p].then # "idle"
          /\ local[p].then # "answer" => At(local[p].then, call[p], l)
      BY <1>0, <3>1, <3>5 DEF At, Social, Issuing
    <3> HIDE DEF l
    <3> QED BY <3>1, <3>3, <3>5, <3>6, Continues
  <2> QED BY <2>1, <2>2
<1>3. CASE SocialSession(p)
  <2> DEFINE cookies == IF AccountCookies /\ local[p].row # None
                                /\ CanCreateSession(db, local[p].user)
                        THEN {AccountCookie(i, local[p].user, local[p].row) : i \in local[p].todo}
                        ELSE {}
  <2>1. signed' = signed \cup cookies
    BY <1>3 DEF SocialSession
  <2>2. /\ ~ CanCreateSession(db, local[p].user) => signed' = signed
        /\ \/ signed' = signed
           \/ /\ pc[p] = "create_session" /\ call[p].op \in Social /\ local[p].row # None
              /\ signed' = signed \cup {AccountCookie(i, local[p].user, local[p].row) :
                                            i \in local[p].todo}
    BY <1>3, <2>1 DEF SocialSession, Social
  <2> QED BY <1>3, <2>2, SessionStored DEF SocialSession, SignIns
<1> QED BY <1>1, <1>2, <1>3

LEMMA TokenSteps ==
    ASSUME Typed, NEW p \in Requests, pc[p] # "idle",
           \/ FindInfo(p) \/ FindTokens(p) \/ Exchange(p) \/ AnswerFromCookie(p)
           \/ ListToUnlink(p) \/ HasPassword(p) \/ Unlink(p)
    PROVE  Stepped(p)
<1>0. local[p] \in Local /\ Asked(call[p]) /\ At(pc[p], call[p], local[p])
  BY StillThere
<1>1. CASE FindInfo(p)
  <2>1. Sends(p) /\ call[p].op \in Tokens
    BY <1>0, <1>1, Reading DEF FindInfo, At, Tokens
  <2>2. CASE Refuse(p)
    BY <2>1, <2>2, Stops
  <2>3. CASE call[p].change # Nothing /\ Continue(p, Copied(call[p]), CopyOf(call[p], local[p]))
    <3> DEFINE l == CopyOf(call[p], local[p])
    <3>1. call[p].change.grant \in IdOrNone /\ call[p].change.account \in Id
      BY <1>0, <2>1, <2>3 DEF Asked
    <3>2. l \in Local /\ l.got = local[p].got
      BY <1>0, <3>1 DEF Local, CopyOf
    <3>3. Copied(call[p]) \in {"exchange", "answer"} /\ At(Copied(call[p]), call[p], l)
      BY <2>1 DEF Copied, At, Tokens
    <3> HIDE DEF l
    <3>4. Continue(p, Copied(call[p]), l)
      BY <2>3 DEF l
    <3> QED BY <2>1, <3>2, <3>3, <3>4, Continues, GotStill
  <2>4. ASSUME NEW a \in AccountsOf(db, local[p].user),
               Goto(p, "find_tokens", [local[p] EXCEPT !.todo = {a.id}])
        PROVE  Stepped(p)
    <3> DEFINE l == [local[p] EXCEPT !.todo = {a.id}]
    <3>1. a.id \in Id
      BY Now DEF AccountsOf, Database, Account
    <3>2. l \in Local /\ l.got = local[p].got
      BY <1>0, <3>1 DEF Local
    <3>3. At("find_tokens", call[p], l)
      BY <2>1 DEF At, Tokens
    <3> QED BY <2>1, <2>4, <3>2, <3>3, Goes, GotStill
  <2> QED BY <1>1, <2>2, <2>3, <2>4 DEF FindInfo
<1>2. CASE FindTokens(p)
  <2>1. Sends(p) /\ call[p].op \in Tokens
    BY <1>0, <1>2, Reading DEF FindTokens, At
  <2>2. CASE Refuse(p)
    BY <2>1, <2>2, Stops
  <2>3. CASE Answer(p, local[p])
    BY <1>0, <2>1, <2>3, Answers, GotStill
  <2>4. ASSUME NEW a \in AccountsOf(db, local[p].user),
               Goto(p, "exchange", [local[p] EXCEPT !.row = a.grant, !.todo = {a.id}])
        PROVE  Stepped(p)
    <3> DEFINE l == [local[p] EXCEPT !.row = a.grant, !.todo = {a.id}]
    <3>1. a.id \in Id /\ a.grant \in IdOrNone
      BY Now DEF AccountsOf, Database, Account
    <3>2. l \in Local /\ l.got = local[p].got
      BY <1>0, <3>1 DEF Local
    <3>3. At("exchange", call[p], l)
      BY <2>1 DEF At, Tokens
    <3> QED BY <2>1, <2>4, <3>2, <3>3, Goes, GotStill
  <2> QED BY <1>2, <2>2, <2>3, <2>4 DEF FindTokens
<1>3. CASE Exchange(p)
  <2>1. CASE KeepIds /\ Refuse(p)
    BY <1>3, <2>1, Reading, Stops DEF Exchange
  <2>2. CASE /\ kind[local[p].row] = "grant" /\ Room(1)
             /\ kind' = Append([kind EXCEPT ![local[p].row] = "replaced"], "grant")
             /\ UNCHANGED via
             /\ Goto(p, "update_account", [local[p] EXCEPT !.row = fresh])
    <3> DEFINE l == [local[p] EXCEPT !.row = fresh]
    <3>1. SendsExchange(p) /\ pc[p] = "exchange"
      BY <1>3, <2>2 DEF Exchange, SendsExchange
    <3>2. Sends(p)
      BY <3>1 DEF Sends, SendsOther
    <3>3. fresh \in Id
      BY <2>2, Now, StoreAssumption DEF Room, Id
    <3>4. l \in Local /\ l.got = local[p].got
      BY <1>0, <3>3 DEF Local, IdOrNone
    <3>5. At("update_account", call[p], l)
      BY <1>0, <3>1 DEF At, Tokens
    <3> QED BY <2>2, <3>2, <3>4, <3>5, Goes, GotStill
  <2> QED BY <1>3, <2>1, <2>2 DEF Exchange
<1>4. CASE AnswerFromCookie(p)
  <2>1. Sends(p)
    BY <1>4, Reading DEF AnswerFromCookie
  <2> QED BY <1>0, <1>4, <2>1, Answers, GotStill DEF AnswerFromCookie
<1>5. CASE ListToUnlink(p)
  <2>1. Sends(p)
    BY <1>5, Reading DEF ListToUnlink
  <2>2. CASE Refuse(p)
    BY <2>1, <2>2, Stops
  <2>3. ASSUME NEW a \in AccountsOf(db, local[p].user), NEW next \in {"unlink", "refuse"},
               Goto(p, "has_password", [local[p] EXCEPT !.todo = {a.id}, !.then = next])
        PROVE  Stepped(p)
    <3> DEFINE l == [local[p] EXCEPT !.todo = {a.id}, !.then = next]
    <3>1. a.id \in Id
      BY Now DEF AccountsOf, Database, Account
    <3>2. l \in Local /\ l.got = local[p].got
      BY <1>0, <3>1 DEF Local, Afterwards
    <3>3. At("has_password", call[p], l)
      BY <1>0, <1>5 DEF ListToUnlink, At
    <3> QED BY <2>1, <2>3, <3>2, <3>3, Goes, GotStill
  <2>4. /\ \A rest : IfNoPassword(rest) \in {"unlink", "refuse"}
        /\ NamedBy(call[p], AccountsOf(db, local[p].user)) \subseteq AccountsOf(db, local[p].user)
    BY DEF IfNoPassword, NamedBy
  <2> QED BY <1>5, <2>2, <2>3, <2>4 DEF ListToUnlink
<1>6. CASE HasPassword(p)
  <2>1. Sends(p)
    BY <1>6, Reading DEF HasPassword
  <2>2. At("unlink", call[p], local[p])
    BY <1>0, <1>6 DEF HasPassword, At
  <2> QED BY <1>0, <1>6, <2>1, <2>2, Goes, Stops, GotStill DEF HasPassword
<1>7. CASE Unlink(p)
  <2>1. CASE Refuse(p) /\ db' = db
    BY <1>7, <2>1, Reading, Stops DEF Unlink
  <2>2. ASSUME NEW i \in local[p].todo, db' = DeleteAccount(db, i), Answer(p, local[p])
        PROVE  Stepped(p)
    <3>1. Sends(p)
      BY <1>7, <2>2 DEF Unlink, Sends, SendsAccounts, SendsUnlink, Unsigned
    <3> QED BY <1>0, <2>2, <3>1, Answers, GotStill
  <2> QED BY <1>7, <2>1, <2>2 DEF Unlink
<1> QED BY <1>1, <1>2, <1>3, <1>4, <1>5, <1>6, <1>7

LEMMA SocialSteps ==
    ASSUME Typed, NEW p \in Requests, pc[p] # "idle", SocialStep(p)
    PROVE  Stepped(p)
  BY StoreStateStep, LinkSteps, CallbackSteps, AccountSteps, TokenSteps DEF SocialStep

\* A request sends only while it is under way.
LEMMA Sending ==
    ASSUME Typed, NEW p \in Requests, Step(p)
    PROVE  pc[p] # "idle" /\ Stepped(p)
<1>1. pc[p] # "idle"
  <2>1. ASSUME SharedStep(p) PROVE pc[p] # "idle"
    BY <2>1 DEF SharedStep, ReadBan, LiftBanAndIssue, ListAccounts, DeleteOneAccount,
                DeleteUserKeys, StatementFails, Busy
  <2>2. ASSUME CredentialStep(p) PROVE pc[p] # "idle"
    BY <2>2 DEF CredentialStep, CheckEmail, SignUp, CheckPassword, CheckUnverified, SignIn,
                StoreToken, FindPasswordRow, WriteNewPassword, AddPassword, DeleteToken,
                RevokeSessions, Reissue, Reread
  <2>3. ASSUME AdminStep(p) PROVE pc[p] # "idle"
    BY <2>3 DEF AdminStep, AdminCreateUser, CheckOwnName, UpdateTarget, FindTarget,
                LiftBanFirst, Impersonate, FindAdmin, FindOwnSession, EndImpersonation,
                RevokeSession, RevokeTargetSessions, RemoveUser, DeleteUserRow
  <2>4. ASSUME ProfileStep(p) PROVE pc[p] # "idle"
    BY <2>4 DEF ProfileStep, CheckAddress, UpdateAddress, MailLink, FindByEmail,
                SessionForLink, ChangeAddress, MarkVerified, CheckDeletionPassword,
                StoreDeleteToken, FindDeleteToken, DeleteOwnSessions, DeleteOneself,
                DropDeleteToken, CreateKey, DeleteUserRow
  <2>5. ASSUME PasskeyStep(p) PROVE pc[p] # "idle"
    BY <2>5 DEF PasskeyStep, ListPasskeys, StoreChallenge, FindRegistration, StorePasskey,
                FindPasskey, WritePasskey, FindPasskeyUser, DropChallenge,
                SignInWithPasskey, CheckOwner, RemovePasskey
  <2>6. ASSUME SocialStep(p) PROVE pc[p] # "idle"
    BY <2>6 DEF SocialStep, StoreState, FindLinkUser, FindLinked, DropState, FindAccount,
                WriteTokens, FindAccountUser, MarkReported, OverrideUser, FindByReport,
                CreateSocialUser, CreateSocialAccount, SocialSession, FindInfo, FindTokens,
                Exchange, AnswerFromCookie, ListToUnlink, HasPassword, Unlink
  <2> QED BY <2>1, <2>2, <2>3, <2>4, <2>5, <2>6 DEF Step
<1> QED BY <1>1, SharedSteps, CredentialSteps, AdminSteps, ProfileSteps, PasskeySteps, SocialSteps
        DEF Step

-----------------------------------------------------------------------------
(* Requests arrive.                                                        *)

Arrived(p) == SendsRead /\ Settled(p)

LEMMA Arriving ==
    ASSUME Typed, NEW p \in Requests, pc[p] = "idle", NEW c, Asked(c),
           NEW label, label # "idle", NEW l \in Local, l.got = {},
           Arrive(p, c, label, l), At(label, c, l)
    PROVE  Arrived(p)
<1>1. /\ pc' = [pc EXCEPT ![p] = label] /\ call' = [call EXCEPT ![p] = c]
      /\ local' = [local EXCEPT ![p] = l]
      /\ UNCHANGED <<db, signed, handed, honoured, twice, ousted, undue, broken>> /\ KeepIds
  BY DEF Arrive
<1>2. /\ pc' = [q \in Requests |-> pc'[q]] /\ call' = [q \in Requests |-> call'[q]]
      /\ local' = [q \in Requests |-> local'[q]]
      /\ pc'[p] = label /\ call'[p] = c /\ local'[p] = l
      /\ \A q \in Requests \ {p} : pc'[q] = pc[q] /\ call'[q] = call[q] /\ local'[q] = local[q]
  BY <1>1 DEF Typed
<1>3. kind' = kind
  BY <1>1 DEF KeepIds
<1>4. RequestOK(p)'
  <2>1. Asked(call[p])'
    BY <1>2, <1>3 DEF Asked
  <2> QED BY <1>2, <2>1 DEF RequestOK
<1>5. proven' \subseteq Emails
  BY DEF Arrive, Asked, Typed
<1> QED BY <1>1, <1>2, <1>3, <1>4, <1>5 DEF Arrived, SendsRead, Settled, Typed, Clients

\* The rows a request begins with.
LEMMA RowsTyped ==
    ASSUME Typed
    PROVE  /\ Blank \in Local /\ Blank.got = {} /\ Blank.then = "answer" /\ Blank.user = None
           /\ Blank.link = NoLink /\ Blank.link.email = NoText
           /\ \A i \in Id : i \in IdOrNone /\ i # None
           /\ \A u \in db.users : u.id \in Id /\ u.email \in Emails
           /\ \A s \in db.sessions : s.user \in Id /\ s.by \in IdOrNone
           /\ \A v \in db.verifications \cup (signed \cap Verification) :
                 /\ v.id \in Id /\ v.about \in IdOrNone /\ v.keys \subseteq Passkey
                 /\ v.email \in Emails \cup {NoText}
                 /\ v.purpose = "state" => (v.about = None <=> v.email = NoText)
           /\ \A c : Caller(db, c) \subseteq db.sessions
           /\ \A c : Asked(c) => c.cookie \in IdOrNone /\ c.target \in IdOrNone
<1>1. Blank \in Local
  BY DEF Blank, Local, NoLink, IdOrNone, Afterwards
<1>2. /\ Blank.got = {} /\ Blank.then = "answer" /\ Blank.user = None /\ Blank.link = NoLink
      /\ Blank.link.email = NoText
  BY DEF Blank, NoLink
<1>3. \A i \in Id : i \in IdOrNone /\ i # None
  BY DEF Id, IdOrNone, None
<1>4. /\ \A u \in db.users : u.id \in Id /\ u.email \in Emails
      /\ \A s \in db.sessions : s.user \in Id /\ s.by \in IdOrNone
  BY Now DEF Database, User, Session
<1>5. \A v \in db.verifications \cup (signed \cap Verification) :
         /\ v.id \in Id /\ v.about \in IdOrNone /\ v.keys \subseteq Passkey
         /\ v.email \in Emails \cup {NoText}
  <2>1. db.verifications \cup (signed \cap Verification) \subseteq Verification
    BY Now DEF Database
  <2> QED BY <2>1 DEF Verification
<1>6. \A v \in db.verifications \cup (signed \cap Verification) :
         v.purpose = "state" => (v.about = None <=> v.email = NoText)
  BY DEF Typed, StatesOK
<1>7. \A c : Caller(db, c) \subseteq db.sessions
  BY DEF Caller, SessionOf
<1>8. \A c : Asked(c) => c.cookie \in IdOrNone /\ c.target \in IdOrNone
  <2>1. Len(kind) \in Nat /\ Len(kind) <= MaxIds /\ MaxIds \in Nat
    BY StoreAssumption DEF Typed, Clients
  <2>2. 0 .. Len(kind) \subseteq IdOrNone
    BY <2>1 DEF IdOrNone, Id, None
  <2> QED BY <2>2 DEF Asked
<1> QED BY <1>1, <1>2, <1>3, <1>4, <1>5, <1>6, <1>7, <1>8

LEMMA CredentialArrivals ==
    ASSUME Typed, NEW p \in Requests, pc[p] = "idle", NEW c, Asked(c), CredentialArrives(p, c)
    PROVE  Arrived(p)
<1>1. CASE SignUpArrives(p, c)
  <2>1. At("check_email", c, Blank)
    BY <1>1 DEF SignUpArrives, At
  <2> QED BY <1>1, <2>1, Arriving, RowsTyped DEF SignUpArrives
<1>2. CASE NamedArrives(p, c)
  <2>1. PICK u \in Named(db, c) :
           Arrive(p, c,
                  CASE c.op = "request_reset" -> "store_token"
                    [] c.op = "sign_in_username" /\ RequireVerified /\ ~ u.verified ->
                         "check_unverified"
                    [] OTHER -> "check_password",
                  [Blank EXCEPT !.user = u.id])
    BY <1>2 DEF NamedArrives
  <2> DEFINE l == [Blank EXCEPT !.user = u.id]
             label == CASE c.op = "request_reset" -> "store_token"
                        [] c.op = "sign_in_username" /\ RequireVerified /\ ~ u.verified ->
                             "check_unverified"
                        [] OTHER -> "check_password"
  <2>2. u.id \in IdOrNone
    BY RowsTyped DEF Named, UsersNamed, UsersMailed
  <2>3. l \in Local /\ l.got = {}
    BY <2>2, RowsTyped DEF Local
  <2>4. /\ c.op = "request_reset" => label = "store_token"
        /\ c.op # "request_reset" => label \in {"check_unverified", "check_password"}
    OBVIOUS
  <2> HIDE DEF label
  <2>5. label # "idle" /\ At(label, c, l)
    BY <1>2, <2>4 DEF NamedArrives, At, SignIns
  <2>6. Arrive(p, c, label, l)
    BY <2>1 DEF label
  <2> QED BY <2>3, <2>5, <2>6, Arriving
<1>3. CASE ResetArrives(p, c)
  <2>1. PICK v \in VerificationOf(db, c.secret, "reset") :
           Arrive(p, c, "find_credential", [Blank EXCEPT !.user = v.about, !.spent = {v.id}])
    BY <1>3 DEF ResetArrives
  <2> DEFINE l == [Blank EXCEPT !.user = v.about, !.spent = {v.id}]
  <2>2. v.about \in IdOrNone /\ v.id \in Id
    BY RowsTyped DEF VerificationOf
  <2>3. l \in Local /\ l.got = {}
    BY <2>2, RowsTyped DEF Local
  <2>4. At("find_credential", c, l)
    BY <1>3 DEF ResetArrives, At
  <2> QED BY <2>1, <2>3, <2>4, Arriving
<1>4. CASE CurrentUserArrives(p, c)
  <2>1. PICK s \in Caller(db, c) :
           Arrive(p, c,
                  IF c.op = "verify_password" \/ RequireCurrent THEN "check_password"
                  ELSE "find_credential",
                  [Blank EXCEPT !.user = s.user])
    BY <1>4 DEF CurrentUserArrives
  <2> DEFINE l == [Blank EXCEPT !.user = s.user]
             label == IF c.op = "verify_password" \/ RequireCurrent THEN "check_password"
                      ELSE "find_credential"
  <2>2. s.user \in IdOrNone
    BY RowsTyped
  <2>3. l \in Local /\ l.got = {}
    BY <2>2, RowsTyped DEF Local
  <2>4. label # "idle" /\ At(label, c, l)
    BY <1>4 DEF CurrentUserArrives, At
  <2> QED BY <2>1, <2>3, <2>4, Arriving
<1> QED BY <1>1, <1>2, <1>3, <1>4 DEF CredentialArrives

LEMMA AdminArrivals ==
    ASSUME Typed, NEW p \in Requests, pc[p] = "idle", NEW c, Asked(c), AdminArrives(p, c)
    PROVE  Arrived(p)
<1>1. CASE AuthorizedArrives(p, c)
  <2>1. PICK s \in Caller(db, c) :
           Arrive(p, c, AdminStart(c), [Blank EXCEPT !.user = c.target, !.row = s.user])
    BY <1>1 DEF AuthorizedArrives
  <2> DEFINE l == [Blank EXCEPT !.user = c.target, !.row = s.user]
  <2>2. s.user \in IdOrNone /\ c.target \in IdOrNone
    BY RowsTyped
  <2>3. l \in Local /\ l.got = {}
    BY <2>2, RowsTyped DEF Local
  <2>4. c.op \in AdminOps /\ c.op # "stop_impersonating"
    BY <1>1 DEF AuthorizedArrives
  <2>5. AdminStart(c) # "idle" /\ At(AdminStart(c), c, l)
    BY <2>4 DEF AdminStart, AdminOps, At, Deleting
  <2> QED BY <2>1, <2>3, <2>5, Arriving
<1>2. CASE StopArrives(p, c)
  <2>1. PICK s \in SessionOf(db, c.cookie) :
           Arrive(p, c, "find_admin", [Blank EXCEPT !.user = s.by])
    BY <1>2 DEF StopArrives
  <2> DEFINE l == [Blank EXCEPT !.user = s.by]
  <2>2. s.by \in IdOrNone
    BY RowsTyped DEF SessionOf
  <2>3. l \in Local /\ l.got = {}
    BY <2>2, RowsTyped DEF Local
  <2>4. At("find_admin", c, l)
    BY <1>2 DEF StopArrives, At
  <2> QED BY <2>1, <2>3, <2>4, Arriving
<1> QED BY <1>1, <1>2 DEF AdminArrives

LEMMA ProfileArrivals ==
    ASSUME Typed, NEW p \in Requests, pc[p] = "idle", NEW c, Asked(c), ProfileArrives(p, c)
    PROVE  Arrived(p)
<1>1. CASE SendArrives(p, c)
  <2>1. PICK u \in UsersMailed(db, c.email) :
           Arrive(p, c, "mail_link", [Blank EXCEPT !.user = u.id, !.link = VerifyLink(c.email)])
    BY <1>1 DEF SendArrives
  <2> DEFINE k == VerifyLink(c.email)
             l == [Blank EXCEPT !.user = u.id, !.link = k]
  <2>2. u.id \in IdOrNone /\ c.email \in Emails
    BY RowsTyped DEF UsersMailed
  <2>3. LinkOK(k)
    BY <2>2 DEF VerifyLink, LinkOK, Link, Links
  <2> HIDE DEF k
  <2>4. l \in Local /\ l.got = {} /\ l.link = k
    BY <2>2, <2>3, RowsTyped DEF Local, LinkOK, Link
  <2>5. At("mail_link", c, l)
    BY <1>1, <2>3, <2>4 DEF SendArrives, At
  <2>6. Arrive(p, c, "mail_link", l)
    BY <2>1 DEF k
  <2> HIDE DEF l
  <2> QED BY <2>4, <2>5, <2>6, Arriving
<1>2. CASE ChangeEmailArrives(p, c)
  <2>1. PICK u \in db.users :
           Arrive(p, c, "check_address",
                  [Blank EXCEPT !.user = u.id,
                                !.link = IF ~ u.verified /\ UpdateUnverified
                                         THEN NoLink ELSE ChangeLink(u, c.email)])
    BY <1>2 DEF ChangeEmailArrives, UserOf
  <2> DEFINE k == IF ~ u.verified /\ UpdateUnverified THEN NoLink ELSE ChangeLink(u, c.email)
             l == [Blank EXCEPT !.user = u.id, !.link = k]
  <2>2. u.id \in IdOrNone /\ u.email \in Emails /\ c.email \in Emails
    BY <1>2, RowsTyped DEF ChangeEmailArrives, Asked
  <2>3. k = NoLink \/ LinkOK(k)
    BY <2>2 DEF ChangeLink, LinkOK, Link, Links
  <2> HIDE DEF k
  <2>4. l \in Local /\ l.got = {} /\ l.link = k
    BY <2>2, <2>3, RowsTyped DEF Local, LinkOK, Link, NoLink
  <2>5. At("check_address", c, l)
    BY <1>2, <2>3, <2>4 DEF ChangeEmailArrives, At
  <2>6. Arrive(p, c, "check_address", l)
    BY <2>1 DEF k
  <2> HIDE DEF l
  <2> QED BY <2>4, <2>5, <2>6, Arriving
<1>3. CASE VerifyArrives(p, c)
  <2>1. PICK row \in {None, c.cookie} :
           Arrive(p, c, "find_by_email", [Blank EXCEPT !.row = row])
    BY <1>3 DEF VerifyArrives
  <2> DEFINE l == [Blank EXCEPT !.row = row]
  <2>2. row \in IdOrNone
    BY RowsTyped DEF IdOrNone
  <2>3. l \in Local /\ l.got = {}
    BY <2>2, RowsTyped DEF Local
  <2>4. At("find_by_email", c, l)
    BY <1>3 DEF VerifyArrives, At
  <2> QED BY <2>1, <2>3, <2>4, Arriving
<1>4. CASE DeletionArrives(p, c)
  <2>1. PICK s \in Caller(db, c) :
           Arrive(p, c, IF c.secret # None THEN "check_password" ELSE AfterPassword(c),
                  [Blank EXCEPT !.user = s.user])
    BY <1>4 DEF DeletionArrives
  <2> DEFINE l == [Blank EXCEPT !.user = s.user]
             label == IF c.secret # None THEN "check_password" ELSE AfterPassword(c)
  <2>2. s.user \in IdOrNone
    BY RowsTyped
  <2>3. l \in Local /\ l.got = {}
    BY <2>2, RowsTyped DEF Local
  <2>4. label \in {"check_password", "find_delete_token", "store_delete_token", "delete_sessions"}
    BY DEF AfterPassword
  <2>5. Arrive(p, c, label, l)
    BY <2>1
  <2>6. /\ c.op \in {"delete_user", "delete_callback"}
        /\ label \in {"check_password", "store_delete_token"} => c.op = "delete_user"
    <3>1. c.op \in {"delete_user", "delete_callback"}
      BY <1>4 DEF DeletionArrives
    <3>2. c.target # None => AfterPassword(c) = "find_delete_token"
      BY DEF AfterPassword
    <3>3. c.op = "delete_callback" => label = "find_delete_token"
      BY <3>2 DEF Asked
    <3> QED BY <3>1, <3>3
  <2> HIDE DEF label, l
  <2>7. label # "idle" /\ At(label, c, l)
    BY <2>4, <2>6 DEF At, Deleting
  <2> QED BY <2>3, <2>5, <2>7, Arriving
<1>5. CASE CreateKeyArrives(p, c)
  <2>1. PICK s \in Caller(db, c) : Arrive(p, c, "create_key", [Blank EXCEPT !.user = s.user])
    BY <1>5 DEF CreateKeyArrives
  <2> DEFINE l == [Blank EXCEPT !.user = s.user]
  <2>2. s.user \in IdOrNone /\ s.user # None
    BY RowsTyped
  <2>3. l \in Local /\ l.got = {} /\ l.user = s.user
    BY <2>2, RowsTyped DEF Local
  <2>4. At("create_key", c, l)
    BY <1>5, <2>2, <2>3 DEF CreateKeyArrives, At
  <2> QED BY <2>1, <2>3, <2>4, Arriving
<1> QED BY <1>1, <1>2, <1>3, <1>4, <1>5 DEF ProfileArrives

LEMMA PasskeyArrivals ==
    ASSUME Typed, NEW p \in Requests, pc[p] = "idle", NEW c, Asked(c), PasskeyArrives(p, c)
    PROVE  Arrived(p)
\* With a session, or without, the request begins with a user or with none.
<1>1. ASSUME NEW i \in IdOrNone, NEW label \in {"list_passkeys", "find_challenge", "check_owner"},
             Arrive(p, c, label, [Blank EXCEPT !.user = i]),
             label = "list_passkeys" => c.op \in {"register_options", "authenticate_options"},
             label = "find_challenge" => c.op = "register",
             label = "check_owner" => c.op = "delete_passkey"
      PROVE  Arrived(p)
  <2> DEFINE l == [Blank EXCEPT !.user = i]
  <2>1. l \in Local /\ l.got = {}
    BY RowsTyped DEF Local
  <2>2. At(label, c, l)
    BY <1>1 DEF At
  <2> QED BY <1>1, <2>1, <2>2, Arriving
<1>2. \A s \in Caller(db, c) : s.user \in IdOrNone
  BY RowsTyped
<1>3. CASE OptionsArrive(p, c)
  <2>1. CASE \E s \in Caller(db, c) :
                c.op = "register_options"
                /\ Arrive(p, c, "list_passkeys", [Blank EXCEPT !.user = s.user])
    BY <1>1, <1>2, <2>1
  <2>2. CASE /\ c.op = "authenticate_options"
             /\ Arrive(p, c, "list_passkeys",
                       [Blank EXCEPT !.user = IF Caller(db, c) = {} THEN None
                                              ELSE (CHOOSE s \in Caller(db, c) : TRUE).user])
    <3> DEFINE i == IF Caller(db, c) = {} THEN None
                    ELSE (CHOOSE s \in Caller(db, c) : TRUE).user
    <3>1. i \in IdOrNone
      BY <1>2 DEF IdOrNone
    <3>2. Arrive(p, c, "list_passkeys", [Blank EXCEPT !.user = i])
      BY <2>2
    <3> HIDE DEF i
    <3> QED BY <1>1, <2>2, <3>1, <3>2
  <2> QED BY <1>3, <2>1, <2>2 DEF OptionsArrive
<1>4. CASE RegisterArrives(p, c)
  BY <1>1, <1>2, <1>4 DEF RegisterArrives
<1>5. CASE DeletePasskeyArrives(p, c)
  BY <1>1, <1>2, <1>5 DEF DeletePasskeyArrives
<1>6. CASE AuthenticateArrives(p, c)
  <2>1. PICK v \in VerificationOf(db, c.secret, "login") :
           Arrive(p, c, "find_passkey",
                  [Blank EXCEPT !.row = v.id, !.keys = v.keys, !.spent = {v.id}])
    BY <1>6 DEF AuthenticateArrives
  <2> DEFINE l == [Blank EXCEPT !.row = v.id, !.keys = v.keys, !.spent = {v.id}]
  <2>2. v.id \in Id /\ v.id \in IdOrNone /\ v.keys \subseteq Passkey
    BY RowsTyped DEF VerificationOf
  <2>3. l \in Local /\ l.got = {}
    BY <2>2, RowsTyped DEF Local
  <2>4. At("find_passkey", c, l)
    BY <1>6 DEF AuthenticateArrives, At
  <2> QED BY <2>1, <2>3, <2>4, Arriving
<1> QED BY <1>3, <1>4, <1>5, <1>6 DEF PasskeyArrives

LEMMA SocialArrivals ==
    ASSUME Typed, NEW p \in Requests, pc[p] = "idle", NEW c, Asked(c), SocialArrives(p, c)
    PROVE  Arrived(p)
<1>0. \A s \in Caller(db, c) : s.user \in IdOrNone /\ s.user # None
  BY RowsTyped
<1>1. CASE StartArrives(p, c)
  <2>1. At("store_state", c, Blank)
    BY <1>1, RowsTyped DEF StartArrives, At
  <2> QED BY <1>1, <2>1, Arriving, RowsTyped DEF StartArrives
<1>2. CASE LinkArrives(p, c)
  <2>1. PICK s \in Caller(db, c) :
           Arrive(p, c, IF c.op = "link_social" THEN "find_link_user" ELSE "find_linked",
                  [Blank EXCEPT !.user = s.user])
    BY <1>2 DEF LinkArrives
  <2> DEFINE l == [Blank EXCEPT !.user = s.user]
             label == IF c.op = "link_social" THEN "find_link_user" ELSE "find_linked"
  <2>2. l \in Local /\ l.got = {} /\ l.user # None /\ l.then = "answer"
    BY <1>0, RowsTyped DEF Local
  <2>3. label # "idle" /\ At(label, c, l)
    BY <1>2, <2>2 DEF LinkArrives, At
  <2> QED BY <2>1, <2>2, <2>3, Arriving
<1>3. CASE CallbackArrives(p, c)
  <2>1. PICK v \in StateOf(db, c.secret) :
           Arrive(p, c, "drop_state",
                  [Blank EXCEPT !.user = v.about, !.link.email = v.email, !.spent = {v.id}])
    BY <1>3 DEF CallbackArrives
  <2> DEFINE l == [Blank EXCEPT !.user = v.about, !.link.email = v.email, !.spent = {v.id}]
  <2>2. /\ v.id \in Id /\ v.about \in IdOrNone /\ v.email \in Emails \cup {NoText}
        /\ v.about = None <=> v.email = NoText
    BY RowsTyped DEF StateOf, States
  <2>3. /\ l \in Local /\ l.got = {} /\ l.user = v.about /\ l.link.email = v.email
        /\ l.then = "answer"
    BY <2>2, RowsTyped DEF Local
  <2>4. At("drop_state", c, l)
    BY <1>3, <2>2, <2>3 DEF CallbackArrives, At
  <2> HIDE DEF l
  <2>5. Arrive(p, c, "drop_state", l)
    BY <2>1 DEF l
  <2> QED BY <2>3, <2>4, <2>5, Arriving
<1>4. CASE IdTokenArrives(p, c)
  <2>1. At("find_account", c, Blank)
    BY <1>4, RowsTyped DEF IdTokenArrives, At, Social
  <2> QED BY <1>4, <2>1, Arriving, RowsTyped DEF IdTokenArrives
\* A request for tokens begins with the cookie's copy, or looks for the account.
<1>5. ASSUME NEW s \in Caller(db, c), c.op \in Tokens,
             \/ /\ c.change # Nothing
                /\ Arrive(p, c, Copied(c), CopyOf(c, [Blank EXCEPT !.user = s.user]))
             \/ Arrive(p, c, "find_tokens", [Blank EXCEPT !.user = s.user])
             \/ c.op = "account_info" /\ Arrive(p, c, "find_info", [Blank EXCEPT !.user = s.user])
      PROVE  Arrived(p)
  <2> DEFINE m == [Blank EXCEPT !.user = s.user]
  <2>1. m \in Local /\ m.got = {}
    BY <1>0, RowsTyped DEF Local
  <2>2. CASE Arrive(p, c, "find_tokens", m)
    <3>1. At("find_tokens", c, m)
      BY <1>5 DEF At, Tokens
    <3> QED BY <2>1, <2>2, <3>1, Arriving
  <2>3. CASE c.op = "account_info" /\ Arrive(p, c, "find_info", m)
    <3>1. At("find_info", c, m)
      BY <2>3 DEF At
    <3> QED BY <2>1, <2>3, <3>1, Arriving
  <2>4. CASE c.change # Nothing /\ Arrive(p, c, Copied(c), CopyOf(c, m))
    <3> HIDE DEF m
    <3> DEFINE l == CopyOf(c, m)
    <3>1. c.change.grant \in IdOrNone /\ c.change.account \in Id
      BY <1>5, <2>4 DEF Asked
    <3>2. l \in Local /\ l.got = {}
      BY <2>1, <3>1 DEF Local, CopyOf
    <3>3. Copied(c) \in {"exchange", "answer"} /\ At(Copied(c), c, l)
      BY <1>5 DEF Copied, At, Tokens
    <3>4. Arrive(p, c, Copied(c), l)
      BY <2>4
    <3> HIDE DEF l
    <3> QED BY <3>2, <3>3, <3>4, Arriving
  <2> QED BY <1>5, <2>2, <2>3, <2>4
<1>6. CASE RefreshArrives(p, c)
  BY <1>5, <1>6 DEF RefreshArrives, Tokens
<1>7. CASE InfoArrives(p, c)
  BY <1>5, <1>7 DEF InfoArrives, Tokens
<1>8. CASE UnlinkArrives(p, c)
  <2>1. PICK s \in Caller(db, c) : Arrive(p, c, "list_unlink", [Blank EXCEPT !.user = s.user])
    BY <1>8 DEF UnlinkArrives
  <2> DEFINE l == [Blank EXCEPT !.user = s.user]
  <2>2. l \in Local /\ l.got = {}
    BY <1>0, RowsTyped DEF Local
  <2>3. At("list_unlink", c, l)
    BY <1>8 DEF UnlinkArrives, At
  <2> QED BY <2>1, <2>2, <2>3, Arriving
<1> QED BY <1>1, <1>2, <1>3, <1>4, <1>6, <1>7, <1>8 DEF SocialArrives

LEMMA Arrivals ==
    ASSUME Typed, NEW p \in Requests, pc[p] = "idle", NEW op \in Ops, NEW c \in Possible(op),
           Arrives(p, c)
    PROVE  Arrived(p)
<1>1. Asked(c) /\ c.op = op
  BY PossibleAsked DEF Typed
<1>2. op \in AllOps
  BY IdentityAssumption
<1>3. CASE op \in CredentialOps
  <2>1. op \notin AdminOps \cup ProfileOps \cup PasskeyOps \cup SocialOps
    BY <1>3 DEF CredentialOps, AdminOps, ProfileOps, PasskeyOps, SocialOps
  <2> QED BY <1>1, <1>3, <2>1, CredentialArrivals DEF Arrives
<1>4. CASE op \in AdminOps
  <2>1. op \notin CredentialOps \cup ProfileOps \cup PasskeyOps \cup SocialOps
    BY <1>4 DEF CredentialOps, AdminOps, ProfileOps, PasskeyOps, SocialOps
  <2> QED BY <1>1, <1>4, <2>1, AdminArrivals DEF Arrives
<1>5. CASE op \in ProfileOps
  <2>1. op \notin CredentialOps \cup AdminOps \cup PasskeyOps \cup SocialOps
    BY <1>5 DEF CredentialOps, AdminOps, ProfileOps, PasskeyOps, SocialOps
  <2> QED BY <1>1, <1>5, <2>1, ProfileArrivals DEF Arrives
<1>6. CASE op \in PasskeyOps
  <2>1. op \notin CredentialOps \cup AdminOps \cup ProfileOps \cup SocialOps
    BY <1>6 DEF CredentialOps, AdminOps, ProfileOps, PasskeyOps, SocialOps
  <2> QED BY <1>1, <1>6, <2>1, PasskeyArrivals DEF Arrives
<1>7. CASE op \in SocialOps
  <2>1. op \notin CredentialOps \cup AdminOps \cup ProfileOps \cup PasskeyOps
    BY <1>7 DEF CredentialOps, AdminOps, ProfileOps, PasskeyOps, SocialOps
  <2> QED BY <1>1, <1>7, <2>1, SocialArrivals DEF Arrives
<1> QED BY <1>2, <1>3, <1>4, <1>5, <1>6, <1>7 DEF AllOps

-----------------------------------------------------------------------------
(* Type correctness.                                                       *)

\* A step is one of these.
LEMMA Steps ==
    ASSUME Typed, Next
    PROVE  /\ \/ \E p \in Requests : pc[p] = "idle" /\ Arrived(p) /\ calls' \in 0 .. MaxCalls
              \/ \E p \in Requests : pc[p] # "idle" /\ Stepped(p) /\ calls' = calls
              \/ BansEnd
           /\ Watch
<1>1. ASSUME NEW p \in Requests, calls < MaxCalls, pc[p] = "idle", NEW op \in Ops,
             NEW c \in Possible(op), Arrives(p, c)
      PROVE  Arrived(p) /\ calls' \in 0 .. MaxCalls
  <2>1. Arrived(p)
    BY <1>1, Arrivals
  <2>2. calls' = calls + 1
    <3>1. op \in AllOps
      BY IdentityAssumption
    <3>2. \/ CredentialArrives(p, c) \/ AdminArrives(p, c) \/ ProfileArrives(p, c)
          \/ PasskeyArrives(p, c) \/ SocialArrives(p, c)
      <4>1. c.op = op
        BY PossibleAsked DEF Typed
      <4> QED BY <1>1, <3>1, <4>1 DEF Arrives, AllOps
    <3>3. CASE CredentialArrives(p, c)
      BY <3>3 DEF CredentialArrives, SignUpArrives, NamedArrives, ResetArrives,
                  CurrentUserArrives, Arrive
    <3>4. CASE AdminArrives(p, c)
      BY <3>4 DEF AdminArrives, AuthorizedArrives, StopArrives, Arrive
    <3>5. CASE ProfileArrives(p, c)
      BY <3>5 DEF ProfileArrives, SendArrives, ChangeEmailArrives, VerifyArrives,
                  DeletionArrives, CreateKeyArrives, Arrive
    <3>6. CASE PasskeyArrives(p, c)
      BY <3>6 DEF PasskeyArrives, OptionsArrive, RegisterArrives, AuthenticateArrives,
                  DeletePasskeyArrives, Arrive
    <3>7. CASE SocialArrives(p, c)
      BY <3>7 DEF SocialArrives, StartArrives, LinkArrives, CallbackArrives, IdTokenArrives,
                  RefreshArrives, InfoArrives, UnlinkArrives, Arrive
    <3> QED BY <3>2, <3>3, <3>4, <3>5, <3>6, <3>7
  <2>3. calls \in 0 .. MaxCalls /\ MaxCalls \in Nat
    BY HandlersAssumption DEF Typed
  <2> QED BY <1>1, <2>1, <2>2, <2>3
<1>2. ASSUME NEW p \in Requests, Step(p)
      PROVE  pc[p] # "idle" /\ Stepped(p) /\ calls' = calls
  BY <1>2, Sending DEF Step
<1> QED BY <1>1, <1>2 DEF Next

\* The requests that are not at it are as they were.
LEMMA OthersStill ==
    ASSUME Typed, Left, NEW q \in Requests,
           pc'[q] = pc[q], call'[q] = call[q], local'[q] = local[q]
    PROVE  RequestOK(q)'
<1>1. CASE pc[q] = "idle"
  BY <1>1 DEF Typed, RequestOK
<1>2. CASE pc[q] # "idle"
  <2>1. Asked(call[q])' /\ Len(kind) \in Nat /\ Len(kind') \in Nat /\ Len(kind) <= Len(kind')
    BY <1>2, AskedStill
  <2> QED BY <1>2, <2>1, StillThere DEF RequestOK
<1> QED BY <1>1, <1>2

LEMMA WatchTyped ==
    ASSUME Typed, Left, Watch, \A p \in Requests : RequestOK(p)'
    PROVE  earned' \in [Requests -> SUBSET Claims] /\ contested' \subseteq Id
<1>1. \A p \in Requests : Touched(p)' \subseteq Id
  <2>1. Len(kind') \in Nat /\ Len(kind') <= MaxIds /\ MaxIds \in Nat
    BY StoreAssumption DEF Left
  <2>2. 0 .. Len(kind') \subseteq IdOrNone
    BY <2>1 DEF IdOrNone, Id, None
  <2> SUFFICES ASSUME NEW p \in Requests, pc'[p] # "idle"
               PROVE  Touched(p)' \subseteq Id
    BY DEF Touched
  <2>3. Asked(call[p])' /\ local'[p] \in Local
    BY DEF RequestOK
  <2>4. {call'[p].cookie, call'[p].secret, call'[p].target} \subseteq IdOrNone
    BY <2>2, <2>3 DEF Asked
  <2>5. local'[p].user \in IdOrNone /\ local'[p].row \in IdOrNone /\ local'[p].todo \subseteq Id
    BY <2>3 DEF Local
  <2> QED BY <2>4, <2>5 DEF Touched, IdOrNone
<1>2. Shared' \subseteq Id
  BY <1>1 DEF Shared, Pairs
<1>3. earned' \in [Requests -> SUBSET Claims]
  BY DEF Watch, Typed, Holds
<1> QED BY <1>2, <1>3 DEF Watch, Typed

LEMMA BansEnding ==
    ASSUME Typed, BansEnd
    PROVE  Left
<1>1. Good(db', Len(kind)) /\ Unsigned
  BY Now, BansEndGood DEF BansEnd, Unsigned
<1>2. db'.verifications = db.verifications
  BY Now DEF BansEnd, Database
<1> QED BY <1>1, <1>2, LeftUnsigned

LEMMA TypedStays ==
    ASSUME Typed, [Next]_vars
    PROVE  Typed'
<1>1. CASE UNCHANGED vars
  BY <1>1 DEF vars, history, watched, Typed, Clients, Good, StatesOK, SignedOK, CookiesOut,
              RequestOK, Asked
<1>2. ASSUME NEW p \in Requests, Left, Settled(p), calls' \in 0 .. MaxCalls, Watch
      PROVE  Typed'
  <2>1. \A q \in Requests : RequestOK(q)'
    BY <1>2, OthersStill DEF Settled
  <2>2. earned' \in [Requests -> SUBSET Claims] /\ contested' \subseteq Id
    BY <1>2, <2>1, WatchTyped
  <2> QED BY <1>2, <2>1, <2>2 DEF Typed, Clients, Left, Settled
<1>3. CASE Next
  <2>1. Watch
    BY <1>3, Steps
  <2>2. ASSUME NEW p \in Requests, pc[p] = "idle", Arrived(p), calls' \in 0 .. MaxCalls
        PROVE  Typed'
    <3>1. Left
      <4>1. Good(db', Len(kind)) /\ db'.verifications \subseteq db.verifications
        BY <2>2, Now DEF Arrived, SendsRead
      <4> QED BY <2>2, <4>1, LeftUnsigned DEF Arrived, SendsRead, Unsigned
    <3> QED BY <1>2, <2>1, <2>2, <3>1 DEF Arrived
  <2>3. ASSUME NEW p \in Requests, pc[p] # "idle", Stepped(p), calls' = calls
        PROVE  Typed'
    BY <1>2, <2>1, <2>3 DEF Stepped, Typed
  <2>4. CASE BansEnd
    <3>1. Left
      BY <2>4, BansEnding
    <3>2. /\ UNCHANGED <<signed, pc, call, local, calls, handed, honoured, twice, proven,
                         undue, broken>>
          /\ ousted' \subseteq ousted /\ KeepIds
      BY <2>4 DEF BansEnd, StillOut
    <3>3. \A q \in Requests : RequestOK(q)'
      BY <3>1, <3>2, OthersStill
    <3>4. earned' \in [Requests -> SUBSET Claims] /\ contested' \subseteq Id
      BY <2>1, <3>1, <3>3, WatchTyped
    <3>5. kind' = kind
      BY <3>2 DEF KeepIds
    <3> QED BY <3>1, <3>2, <3>3, <3>4, <3>5 DEF Typed, Clients, Left
  <2> QED BY <1>3, <2>2, <2>3, <2>4, Steps
<1> QED BY <1>1, <1>3

LEMMA InitTyped ==
    ASSUME Init
    PROVE  Typed
<1> DEFINE e == AdminEmail
           f == CHOOSE x \in Emails \ {e} : TRUE
           first == NewUser(1, e, NoText, TRUE, TRUE)
           other == NewUser(5, f, NoText, FALSE, FALSE)
<1>1. e \in Emails /\ f \in Emails /\ e # f
  <2>1. PICK a, b \in Emails : a # b
    BY IdentityAssumption
  <2>2. e \in Emails
    BY <2>1 DEF AdminEmail
  <2> HIDE DEF e
  <2>3. \E x \in Emails \ {e} : TRUE
    BY <2>1
  <2>4. f \in Emails \ {e}
    BY <2>3
  <2> QED BY <2>2, <2>4
<1> HIDE DEF e, f
<1>2. 1 .. 11 \subseteq Id /\ MaxIds \in Nat /\ MaxIds >= 11
  BY StoreAssumption, IdentityAssumption DEF Id
<1>3. kind \in Seq(Kinds) /\ Len(kind) = 11
  BY DEF Init, Kinds, Purposes
<1>4. /\ db.users = {first, other}
      /\ db.accounts = {NewCredential(2, 1, 3), NewCredential(6, 5, 7)}
      /\ db.sessions = {[id |-> 4, user |-> 1, by |-> None], [id |-> 8, user |-> 5, by |-> None]}
      /\ db.verifications = {} /\ db.passkeys = {[id |-> 9, user |-> 5, counter |-> 0]}
      /\ db.keys = {}
      /\ db = [users |-> db.users, accounts |-> db.accounts, sessions |-> db.sessions,
               verifications |-> {}, passkeys |-> db.passkeys, keys |-> {}]
  BY DEF Init, e, f
<1>5. /\ first \in User /\ first.id = 1 /\ first.email = e /\ first.name = NoText
      /\ other \in User /\ other.id = 5 /\ other.email = f /\ other.name = NoText
  BY <1>1, <1>2 DEF NewUser, User, Ends
<1> HIDE DEF first, other
<1>6. Good(db, 11)
  <2>1. db.users \subseteq User
    BY <1>4, <1>5
  <2>2. db.accounts \subseteq Account
    BY <1>2, <1>4 DEF NewCredential, Account, Providers, IdOrNone
  <2>3. db.sessions \subseteq Session
    BY <1>2, <1>4 DEF Session, IdOrNone
  <2>4. db.passkeys \subseteq Passkey
    BY <1>2, <1>4, StoreAssumption DEF Passkey
  <2>5. db \in Database
    BY <1>4, <2>1, <2>2, <2>3, <2>4 DEF Database
  <2>6. UserOf(db, 1) # {} /\ UserOf(db, 5) # {}
    BY <1>4, <1>5 DEF UserOf
  <2>7. Sound(db)
    <3>1. \A u, w \in db.users :
             u = w \/ (u.id # w.id /\ u.email # w.email /\ (u.name # w.name \/ u.name = NoText))
      BY <1>1, <1>4, <1>5
    <3>2. \A a, b \in db.accounts :
             a = b \/ (a.id # b.id /\ <<a.provider, a.subject>> # <<b.provider, b.subject>>)
      BY <1>4 DEF NewCredential
    <3>3. \A r \in db.accounts \cup db.sessions \cup db.passkeys : r.user \in {1, 5}
      BY <1>4 DEF NewCredential
    <3> QED BY <2>6, <3>1, <3>2, <3>3 DEF Sound
  <2>8. OnePasskey(db)
    BY <1>4 DEF OnePasskey
  <2>9. Drawn(db, 11)
    <3>1. \A r \in db.users : r.id <= 11
      BY <1>4, <1>5
    <3>2. \A r \in db.accounts : r.id <= 11 /\ OwnSubject(r)
      BY <1>4 DEF NewCredential, OwnSubject
    <3>3. \A r \in db.sessions : r.id <= 11
      BY <1>4
    <3>4. \A r \in db.passkeys : r.id <= 11
      BY <1>4
    <3> QED BY <1>4, <3>1, <3>2, <3>3, <3>4 DEF Drawn
  <2> QED BY <2>5, <2>7, <2>8, <2>9 DEF Good
<1>7. signed = {} /\ SignedOK /\ StatesOK
  BY <1>4 DEF Init, SignedOK, CookiesOut, StatesOK
<1>8. handed \subseteq 1 .. 11
  BY DEF Init
<1>9. via \subseteq Id \X Id
  BY <1>2 DEF Init
<1>10. \A p \in Requests : RequestOK(p)
  BY DEF Init, RequestOK
<1>11. /\ calls \in 0 .. MaxCalls /\ earned \in [Requests -> SUBSET Claims]
       /\ twice \subseteq honoured /\ honoured \subseteq Id /\ ousted \subseteq Id
       /\ proven \subseteq Emails /\ undue \subseteq Ops /\ broken \subseteq Id
       /\ contested \subseteq Id
  BY HandlersAssumption DEF Init
<1> QED BY <1>2, <1>3, <1>6, <1>7, <1>8, <1>9, <1>10, <1>11 DEF Typed, Clients, Init

\* Every table, every request under way and everything an onlooker keeps have their
\* types, and the tables' unique indexes and foreign keys hold, whatever the
\* requests and however their statements interleave.
THEOREM TypeCorrect == Spec => []TypeOK
<1>1. Init => Typed
  BY InitTyped
<1>2. Typed /\ [Next]_vars => Typed'
  BY TypedStays
<1>3. Typed => TypeOK
  <2> SUFFICES ASSUME Typed PROVE TypeOK
    OBVIOUS
  <2>1. \A p \in Requests : local[p] \in Local
    <3>1. Blank \in Local
      BY RowsTyped
    <3> QED BY <3>1, Now DEF RequestOK
  <2>2. local \in [Requests -> Local]
    BY <2>1 DEF Typed
  <2>3. handed \subseteq Id
    BY Now DEF Typed, Clients, Id
  <2>4. db \in Database /\ Sound(db)
    BY Now DEF Good
  <2> QED BY <2>2, <2>3, <2>4 DEF Typed, Clients, TypeOK
<1> QED BY <1>1, <1>2, <1>3, PTL DEF Spec

-----------------------------------------------------------------------------
(* Which tables a statement leaves alone, and what it does to the others.  *)

OnlyUsers(d, e) ==
    /\ e.accounts = d.accounts /\ e.sessions = d.sessions /\ e.verifications = d.verifications
    /\ e.passkeys = d.passkeys /\ e.keys = d.keys
OnlyAccounts(d, e) ==
    /\ e.users = d.users /\ e.sessions = d.sessions /\ e.verifications = d.verifications
    /\ e.passkeys = d.passkeys /\ e.keys = d.keys
OnlySessions(d, e) ==
    /\ e.users = d.users /\ e.accounts = d.accounts /\ e.verifications = d.verifications
    /\ e.passkeys = d.passkeys /\ e.keys = d.keys
OnlySecrets(d, e) ==
    /\ e.users = d.users /\ e.accounts = d.accounts /\ e.sessions = d.sessions
    /\ e.passkeys = d.passkeys /\ e.keys = d.keys
OnlyPasskeys(d, e) ==
    /\ e.users = d.users /\ e.accounts = d.accounts /\ e.sessions = d.sessions
    /\ e.verifications = d.verifications /\ e.keys = d.keys
OnlyKeys(d, e) ==
    /\ e.users = d.users /\ e.accounts = d.accounts /\ e.sessions = d.sessions
    /\ e.verifications = d.verifications /\ e.passkeys = d.passkeys

LEMMA Frames ==
    ASSUME NEW d \in Database
    PROVE  /\ \A i, change : OnlyUsers(d, UpdateUser(d, i, change))
           /\ \A u : OnlyUsers(d, CreateUser(d, u))
           /\ \A a : OnlyAccounts(d, CreateAccount(d, a))
           /\ \A i, change : OnlyAccounts(d, UpdateAccount(d, i, change))
           /\ \A i : OnlyAccounts(d, DeleteAccount(d, i))
           /\ \A i, by, u : OnlySessions(d, CreateSession(d, i, u, by))
           /\ \A i : OnlySessions(d, DeleteSession(d, i))
           /\ \A i : OnlySessions(d, DeleteUserSessions(d, i))
           /\ \A v : OnlySecrets(d, CreateVerification(d, v))
           /\ \A i : OnlySecrets(d, DeleteVerification(d, i))
           /\ \A i, u, c : OnlyPasskeys(d, CreatePasskey(d, i, u, c))
           /\ \A i, c : OnlyPasskeys(d, UpdatePasskey(d, i, c))
           /\ \A i : OnlyPasskeys(d, DeletePasskey(d, i))
           /\ \A i : OnlyKeys(d, DeleteKeys(d, i))
           /\ \A i, u : OnlyKeys(d, CreateApiKey(d, i, u))
<1>1. /\ \A i, change : OnlyUsers(d, UpdateUser(d, i, change))
      /\ \A u : OnlyUsers(d, CreateUser(d, u))
  BY DEF UpdateUser, CreateUser, Database, OnlyUsers
<1>2. /\ \A a : OnlyAccounts(d, CreateAccount(d, a))
      /\ \A i, change : OnlyAccounts(d, UpdateAccount(d, i, change))
      /\ \A i : OnlyAccounts(d, DeleteAccount(d, i))
  BY DEF CreateAccount, UpdateAccount, DeleteAccount, Database, OnlyAccounts
<1>3. /\ \A i, by, u : OnlySessions(d, CreateSession(d, i, u, by))
      /\ \A i : OnlySessions(d, DeleteSession(d, i))
      /\ \A i : OnlySessions(d, DeleteUserSessions(d, i))
  BY DEF CreateSession, DeleteSession, DeleteUserSessions, Database, OnlySessions
<1>4. /\ \A v : OnlySecrets(d, CreateVerification(d, v))
      /\ \A i : OnlySecrets(d, DeleteVerification(d, i))
  BY DEF CreateVerification, DeleteVerification, Database, OnlySecrets
<1>5. /\ \A i, u, c : OnlyPasskeys(d, CreatePasskey(d, i, u, c))
      /\ \A i, c : OnlyPasskeys(d, UpdatePasskey(d, i, c))
      /\ \A i : OnlyPasskeys(d, DeletePasskey(d, i))
  BY DEF CreatePasskey, UpdatePasskey, DeletePasskey, Database, OnlyPasskeys
<1>6. /\ \A i : OnlyKeys(d, DeleteKeys(d, i))
      /\ \A i, u : OnlyKeys(d, CreateApiKey(d, i, u))
  BY DEF DeleteKeys, CreateApiKey, Database, OnlyKeys
<1> QED BY <1>1, <1>2, <1>3, <1>4, <1>5, <1>6

\* The tables of the statements requests send.
LEMMA Tables ==
    ASSUME Typed, NEW p \in Requests
    PROVE  /\ SendsLift(p) \/ SendsNewUser(p) \/ SendsUpdate(p) \/ SendsProfile(p)
                 => OnlyUsers(db, db')
           /\ SendsAccounts(p) => OnlyAccounts(db, db')
           /\ SendsSessions(p) => OnlySessions(db, db')
           /\ SendsSecret(p) \/ SendsSpend(p) \/ SendsState(p) => OnlySecrets(db, db')
           /\ SendsPasskey(p) => OnlyPasskeys(db, db')
           /\ SendsKey(p) => OnlyKeys(db, db')
           /\ SendsLink(p) \/ SendsExchange(p) \/ SendsRead => db' = db
<1>0. db \in Database /\ OnlyAccounts(db, db) /\ OnlySecrets(db, db)
  BY Now DEF OnlyAccounts, OnlySecrets
<1>1. SendsLift(p) \/ SendsNewUser(p) \/ SendsUpdate(p) \/ SendsProfile(p) => OnlyUsers(db, db')
  BY <1>0, Frames DEF SendsLift, SendsNewUser, SendsUpdate, SendsProfile
<1>2. SendsAccounts(p) => OnlyAccounts(db, db')
  <2>1. SendsUnlink(p) \/ SendsPassword(p) \/ SendsCredential(p) \/ SendsAccount(p)
          => OnlyAccounts(db, db')
    BY <1>0, Frames DEF SendsUnlink, SendsPassword, SendsCredential, SendsAccount
  <2>2. SendsGrant(p) => OnlyAccounts(db, db')
    BY <1>0, Frames DEF SendsGrant, GrantStored
  <2> QED BY <2>1, <2>2 DEF SendsAccounts
<1>3. SendsSessions(p) => OnlySessions(db, db')
  BY <1>0, Frames DEF SendsSessions, SendsSession, SendsRevoke, SendsEnd
<1>4. SendsSecret(p) \/ SendsSpend(p) \/ SendsState(p) => OnlySecrets(db, db')
  <2>1. SendsSecret(p) => OnlySecrets(db, db')
    BY <1>0, Frames DEF SendsSecret
  <2>2. SendsSpend(p) => OnlySecrets(db, db')
    BY <1>0, Frames DEF SendsSpend
  <2>3. SendsState(p) => OnlySecrets(db, db')
    BY <1>0, Frames DEF SendsState, StateGone
  <2> QED BY <2>1, <2>2, <2>3
<1>5. SendsPasskey(p) => OnlyPasskeys(db, db')
  BY <1>0, Frames DEF SendsPasskey
<1>6. SendsKey(p) => OnlyKeys(db, db')
  BY <1>0, Frames DEF SendsKey
<1>7. SendsLink(p) \/ SendsExchange(p) \/ SendsRead => db' = db
  BY DEF SendsLink, SendsExchange, SendsRead
<1> QED BY <1>1, <1>2, <1>3, <1>4, <1>5, <1>6, <1>7

LEMMA SignUpRows ==
    ASSUME Typed, NEW p \in Requests, SendsSignUp(p)
    PROVE  /\ db'.users = db.users \cup {NewUser(fresh, call[p].email, call[p].name, FALSE, FALSE)}
           /\ db'.accounts = db.accounts \cup {NewCredential(fresh + 1, fresh, fresh + 2)}
           /\ db'.sessions \in {db.sessions,
                                db.sessions \cup {[id |-> fresh + 3, user |-> fresh, by |-> None]}}
           /\ db'.verifications = db.verifications
           /\ db'.passkeys = db.passkeys /\ db'.keys = db.keys
<1> DEFINE w == NewUser(fresh, call[p].email, call[p].name, FALSE, FALSE)
           a == NewCredential(fresh + 1, fresh, fresh + 2)
<1>1. \/ db' = CreateSession(CreateAccount(CreateUser(db, w), a), fresh + 3, fresh, None)
      \/ db' = CreateAccount(CreateUser(db, w), a)
  BY DEF SendsSignUp
<1>2. db \in Database
  BY Now
<1> HIDE DEF w, a
<1>3. /\ db'.users = db.users \cup {w} /\ db'.accounts = db.accounts \cup {a}
      /\ db'.sessions \in {db.sessions,
                           db.sessions \cup {[id |-> fresh + 3, user |-> fresh, by |-> None]}}
      /\ db'.verifications = db.verifications
      /\ db'.passkeys = db.passkeys /\ db'.keys = db.keys
  BY <1>1, <1>2 DEF CreateUser, CreateAccount, CreateSession, Database
<1> QED BY <1>3 DEF w, a

LEMMA DeletionRows ==
    ASSUME Typed, NEW p \in Requests, SendsDelete(p)
    PROVE  \/ pc[p] = "delete_keys" /\ OnlyKeys(db, db') /\ db'.keys \subseteq db.keys
           \/ /\ pc[p] = "delete_user"
              /\ db'.users = {u \in db.users : u.id # local[p].user}
              /\ db'.accounts = {a \in db.accounts : a.user # local[p].user}
              /\ db'.sessions = {s \in db.sessions : s.user # local[p].user}
              /\ db'.passkeys = {k \in db.passkeys : k.user # local[p].user}
              /\ db'.verifications = db.verifications /\ db'.keys = db.keys
<1>0. db \in Database
  BY Now
<1>1. CASE pc[p] = "delete_keys" /\ db' = DeleteKeys(db, local[p].user)
  BY <1>0, <1>1, Frames DEF DeleteKeys, Database
<1>2. CASE pc[p] = "delete_user" /\ db' = DeleteUser(db, local[p].user)
  BY <1>0, <1>2 DEF DeleteUser, Database
<1> QED BY <1>1, <1>2 DEF SendsDelete

\* A user stays until the row is deleted, and nobody is banned but by an administrator.
LEMMA UserRows ==
    ASSUME Typed, NEW p \in Requests, pc[p] # "idle", Sends(p)
    PROVE  /\ \A u \in db.users : \/ UserOf(db', u.id) # {}
                                  \/ pc[p] = "delete_user" /\ local[p].user = u.id
           /\ \A w \in db'.users :
                 InForce(w) => \/ \E u \in UserOf(db, w.id) : InForce(u)
                               \/ pc[p] = "update_user" /\ call[p].target = w.id
           /\ \A u \in db.users :
                 InForce(u) => \/ \E w \in UserOf(db', u.id) : InForce(w)
                               \/ UserOf(db', u.id) = {}
                               \/ pc[p] \in {"lift_ban", "lift_first"} /\ local[p].user = u.id
                               \/ pc[p] = "update_user" /\ call[p].op \in {"unban", "update_user"}
<1> DEFINE Stays(u) == \E w \in db'.users : /\ w.id = u.id
                                            /\ InForce(u) => InForce(w)
           Was(w) == \E u \in db.users : w.id = u.id /\ InForce(u)
<1>0. /\ db \in Database /\ db.users \subseteq User /\ Asked(call[p])
      /\ At(pc[p], call[p], local[p])
      /\ \A u, w \in db.users : u.id = w.id => u = w
  BY Now, StillThere DEF Database, Good, Sound
<1>1. ASSUME \A u \in db.users : Stays(u), \A w \in db'.users : InForce(w) => Was(w)
      PROVE  /\ \A u \in db.users : UserOf(db', u.id) # {}
             /\ \A w \in db'.users : InForce(w) => \E u \in UserOf(db, w.id) : InForce(u)
             /\ \A u \in db.users : InForce(u) => \E w \in UserOf(db', u.id) : InForce(w)
  BY <1>1 DEF UserOf
<1>2. CASE db'.users = db.users
  BY <1>2 DEF UserOf
<1>3. CASE SendsSessions(p) \/ SendsAccounts(p) \/ SendsOther(p) \/ SendsRead
  <2>1. db'.users = db.users
    BY <1>3, Tables DEF SendsOther, OnlySessions, OnlyAccounts, OnlySecrets, OnlyPasskeys, OnlyKeys
  <2> QED BY <1>2, <2>1
<1>4. ASSUME NEW i, NEW change, UserChange(change), db' = UpdateUser(db, i, change)
      PROVE  /\ \A u \in db.users : \E w \in db'.users :
                   w.id = u.id /\ w = IF u.id = i THEN Updated(u, change) ELSE u
             /\ \A w \in db'.users : \E u \in db.users :
                   w.id = u.id /\ w = IF u.id = i THEN Updated(u, change) ELSE u
  <2> DEFINE New(u) == IF u.id = i THEN Updated(u, change) ELSE u
  <2>1. \A u \in db.users : New(u).id = u.id
    BY <1>0, <1>4, UpdatedUser
  <2>2. db'.users = {New(u) : u \in db.users}
    BY <1>0, <1>4 DEF UpdateUser, Database
  <2> QED BY <2>1, <2>2
<1>5. CASE SendsLift(p)
  <2> DEFINE lift == [banned |-> FALSE]
  <2>1. UserChange(lift) /\ db' = UpdateUser(db, local[p].user, lift)
    BY <1>5 DEF SendsLift, UserChange, UserFields
  <2>2. \A u \in User : ~ InForce(Updated(u, lift))
    BY DEF InForce, Updated, User
  <2> HIDE DEF lift
  <2>3. /\ \A u \in db.users : \E w \in db'.users :
              w.id = u.id /\ w = IF u.id = local[p].user THEN Updated(u, lift) ELSE u
        /\ \A w \in db'.users : \E u \in db.users :
              w.id = u.id /\ w = IF u.id = local[p].user THEN Updated(u, lift) ELSE u
    BY <1>4, <2>1
  <2>4. pc[p] \in {"lift_ban", "lift_first"}
    BY <1>5 DEF SendsLift
  <2> QED BY <1>0, <2>2, <2>3, <2>4 DEF UserOf
<1>6. CASE SendsProfile(p)
  <2>1. PICK change : /\ UserChange(change) /\ DOMAIN change \subseteq {"email", "verified"}
                      /\ db' = UpdateUser(db, local[p].user, change)
    BY <1>6 DEF SendsProfile
  <2>2. \A u \in User : InForce(Updated(u, change)) <=> InForce(u)
    BY <2>1, UpdatedUser DEF InForce
  <2>3. (\A u \in db.users : Stays(u)) /\ \A w \in db'.users : InForce(w) => Was(w)
    BY <1>0, <1>4, <2>1, <2>2
  <2> QED BY <1>1, <2>3
<1>7. CASE SendsUpdate(p)
  <2> DEFINE change == Change(call[p])
  <2>1. /\ pc[p] = "update_user" /\ db' = UpdateUser(db, call[p].target, change)
        /\ call[p].op \in {"update_user", "set_role", "ban", "unban"}
    BY <1>0, <1>7 DEF SendsUpdate, At
  <2>2. UserChange(change)
    <3>1. call[p].op \in {"update_user", "set_role"} => UserChange(call[p].change)
      BY <1>0 DEF Asked
    <3>2. /\ UserChange([banned |-> FALSE]) /\ UserChange([banned |-> TRUE])
          /\ UserChange([banned |-> TRUE, ends |-> "ahead"])
      BY DEF UserChange, UserFields, Ends
    <3> QED BY <2>1, <3>1, <3>2 DEF Change, BanChange
  <2>3. ASSUME NEW u \in User, InForce(u), call[p].op \in {"set_role", "ban"}
        PROVE  InForce(Updated(u, change))
    <3>1. CASE call[p].op = "set_role"
      <4>1. change = call[p].change /\ DOMAIN change = {"admin"}
        BY <1>0, <3>1 DEF Change, Asked
      <4> QED BY <2>2, <2>3, <4>1, UpdatedUser DEF InForce
    <3>2. CASE call[p].op = "ban"
      <4>1. change = BanChange(call[p])
        BY <3>2 DEF Change
      <4>2. change \in {[banned |-> TRUE], [banned |-> TRUE, ends |-> "ahead"]}
        BY <4>1 DEF BanChange
      <4>3. InForce(Updated(u, [banned |-> TRUE]))
        BY <2>3 DEF InForce, Updated, User
      <4>4. InForce(Updated(u, [banned |-> TRUE, ends |-> "ahead"]))
        BY <2>3 DEF InForce, Updated, User
      <4> QED BY <4>2, <4>3, <4>4
    <3> QED BY <2>3, <3>1, <3>2
  <2> HIDE DEF change
  <2>4. /\ \A u \in db.users : \E w \in db'.users :
              w.id = u.id /\ w = IF u.id = call[p].target THEN Updated(u, change) ELSE u
        /\ \A w \in db'.users : \E u \in db.users :
              w.id = u.id /\ w = IF u.id = call[p].target THEN Updated(u, change) ELSE u
    BY <1>4, <2>1, <2>2
  <2> QED BY <1>0, <2>1, <2>3, <2>4 DEF UserOf
<1>8. CASE SendsNewUser(p) \/ SendsSignUp(p)
  <2>1. PICK u : ~ u.banned /\ db'.users = db.users \cup {u}
    <3>1. \A e, n, v : ~ NewUser(fresh, e, n, v, FALSE).banned
      BY DEF NewUser
    <3>2. CASE SendsNewUser(p)
      BY <1>0, <3>1, <3>2 DEF SendsNewUser, CreateUser, Database
    <3>3. CASE SendsSignUp(p)
      BY <3>1, <3>3, SignUpRows
    <3> QED BY <1>8, <3>2, <3>3
  <2>2. (\A w \in db.users : Stays(w)) /\ \A w \in db'.users : InForce(w) => Was(w)
    BY <2>1 DEF InForce
  <2> QED BY <1>1, <2>2
<1>9. CASE SendsDelete(p)
  BY <1>0, <1>2, <1>9, DeletionRows DEF UserOf, OnlyKeys
<1> QED BY <1>3, <1>5, <1>6, <1>7, <1>8, <1>9 DEF Sends, SendsUser

\* A key is only added for the user of its request, and goes with its user.
LEMMA KeyRows ==
    ASSUME Typed, NEW p \in Requests, pc[p] # "idle", Sends(p)
    PROVE  /\ \A k \in db'.keys : k \in db.keys \/ (pc[p] = "create_key" /\ k.user = local[p].user)
           /\ pc[p] = "delete_keys" /\ db' = DeleteKeys(db, local[p].user) =>
                 \A k \in db'.keys : k.user # local[p].user
<1>0. db \in Database
  BY Now
<1>1. pc[p] = "delete_keys" /\ db' = DeleteKeys(db, local[p].user) =>
         \A k \in db'.keys : k.user # local[p].user
  BY <1>0 DEF DeleteKeys, Database
<1>2. CASE SendsKey(p)
  <2>1. db'.keys = db.keys \cup {[id |-> fresh, user |-> local[p].user]}
    BY <1>0, <1>2 DEF SendsKey, CreateApiKey, Database
  <2> QED BY <1>1, <1>2, <2>1 DEF SendsKey
<1>3. CASE SendsDelete(p) \/ SendsSignUp(p)
  <2>1. db'.keys \subseteq db.keys
    BY <1>3, DeletionRows, SignUpRows
  <2> QED BY <1>1, <2>1
<1>4. CASE \/ SendsLift(p) \/ SendsNewUser(p) \/ SendsUpdate(p) \/ SendsProfile(p)
           \/ SendsAccounts(p) \/ SendsSessions(p) \/ SendsLink(p) \/ SendsSecret(p)
           \/ SendsSpend(p) \/ SendsState(p) \/ SendsPasskey(p) \/ SendsExchange(p) \/ SendsRead
  <2>1. db'.keys = db.keys
    BY <1>4, Tables DEF OnlyUsers, OnlyAccounts, OnlySessions, OnlySecrets, OnlyPasskeys
  <2> QED BY <1>1, <2>1
<1> QED BY <1>2, <1>3, <1>4 DEF Sends, SendsUser, SendsOther

\* A passkey is only added in its registration, and only its counter is written.
LEMMA PasskeyRows ==
    ASSUME Typed, NEW p \in Requests, pc[p] # "idle", Sends(p), NEW n \in db'.passkeys
    PROVE  \/ n \in db.passkeys
           \/ /\ pc[p] = "create_passkey" /\ PasskeyOf(db, n.id) = {}
              /\ n.id = call[p].secret /\ n.user = local[p].user /\ n.counter = 0
           \/ /\ pc[p] = "update_passkey"
              /\ \E x \in local[p].keys : n.id = x.id /\ n.counter = x.counter
              /\ \E k \in db.passkeys : n.id = k.id /\ n.user = k.user
<1>0. db \in Database /\ db.passkeys \subseteq Passkey
  BY Now DEF Database
<1>1. CASE SendsPasskey(p)
  <2>1. CASE pc[p] = "create_passkey" /\ CanCreatePasskey(db, call[p].secret, local[p].user)
             /\ db' = CreatePasskey(db, call[p].secret, local[p].user, 0)
    BY <1>0, <2>1 DEF CreatePasskey, CanCreatePasskey, Database
  <2>2. CASE pc[p] = "update_passkey" /\ \E x \in local[p].keys : db' = UpdatePasskey(db, x.id, x.counter)
    <3>1. PICK x \in local[p].keys : db' = UpdatePasskey(db, x.id, x.counter)
      BY <2>2
    <3>2. db'.passkeys = {IF k.id = x.id THEN [k EXCEPT !.counter = x.counter] ELSE k : k \in db.passkeys}
      BY <1>0, <3>1 DEF UpdatePasskey, Database
    <3>3. PICK k \in db.passkeys : n = IF k.id = x.id THEN [k EXCEPT !.counter = x.counter] ELSE k
      BY <3>2
    <3>4. k.id = x.id => n.id = x.id /\ n.counter = x.counter /\ n.user = k.user
      BY <1>0, <3>3 DEF Passkey
    <3> QED BY <2>2, <3>3, <3>4
  <2>3. CASE pc[p] = "delete_passkey" /\ db' = DeletePasskey(db, call[p].target)
    BY <1>0, <2>3 DEF DeletePasskey, Database
  <2> QED BY <1>1, <2>1, <2>2, <2>3 DEF SendsPasskey
<1>2. CASE SendsDelete(p) \/ SendsSignUp(p)
  BY <1>2, DeletionRows, SignUpRows DEF OnlyKeys
<1>3. CASE \/ SendsLift(p) \/ SendsNewUser(p) \/ SendsUpdate(p) \/ SendsProfile(p)
           \/ SendsAccounts(p) \/ SendsSessions(p) \/ SendsLink(p) \/ SendsSecret(p)
           \/ SendsSpend(p) \/ SendsState(p) \/ SendsKey(p) \/ SendsExchange(p) \/ SendsRead
  BY <1>3, Tables DEF OnlyUsers, OnlyAccounts, OnlySessions, OnlySecrets, OnlyKeys
<1> QED BY <1>1, <1>2, <1>3 DEF Sends, SendsUser, SendsOther

\* A secret is only stored with the id it is drawn with, and stays what it is.
LEMMA SecretRows ==
    ASSUME Typed, NEW p \in Requests, pc[p] # "idle", Sends(p), NEW v \in db'.verifications
    PROVE  \/ v \in db.verifications
           \/ /\ v.id = fresh
              /\ v.purpose = "register" => pc[p] = "store_challenge" /\ v.about = local[p].user
<1>0. db \in Database
  BY Now
<1>1. CASE SendsSecret(p)
  <2>1. PICK w \in Verification :
           /\ w.id = fresh
           /\ w.purpose = "register" => pc[p] = "store_challenge" /\ w.about = local[p].user
           /\ db' = CreateVerification(db, w) \/ db' = db
    BY <1>1 DEF SendsSecret
  <2> QED BY <1>0, <2>1 DEF CreateVerification, Database
<1>2. CASE SendsSpend(p)
  BY <1>0, <1>2 DEF SendsSpend, DeleteVerification, Database
<1>3. CASE SendsState(p)
  BY <1>0, <1>3 DEF SendsState, StateGone, DeleteVerification, Database
<1>4. CASE SendsSignUp(p) \/ SendsDelete(p)
  BY <1>4, DeletionRows, SignUpRows DEF OnlyKeys
<1>5. CASE \/ SendsLift(p) \/ SendsNewUser(p) \/ SendsUpdate(p) \/ SendsProfile(p)
           \/ SendsAccounts(p) \/ SendsSessions(p) \/ SendsLink(p) \/ SendsPasskey(p)
           \/ SendsKey(p) \/ SendsExchange(p) \/ SendsRead
  BY <1>5, Tables DEF OnlyUsers, OnlyAccounts, OnlySessions, OnlyPasskeys, OnlyKeys
<1> QED BY <1>1, <1>2, <1>3, <1>4, <1>5 DEF Sends, SendsUser, SendsOther

-----------------------------------------------------------------------------
(* Which action takes a request to a statement that others can spoil.      *)

LEMMA Lands ==
    ASSUME Typed, NEW p \in Requests
    PROVE  /\ \A label, l : Goto(p, label, l) => /\ pc'[p] = label /\ local'[p] = l
                                                 /\ call'[p] = call[p] /\ UNCHANGED history
           /\ Drop(p) => pc'[p] = "idle" /\ local'[p] = Blank /\ call'[p] = NoCall
           /\ Refuse(p) => pc'[p] = "idle" /\ UNCHANGED history
           /\ GiveUp(p) => pc'[p] = "idle"
           /\ \A l : Answer(p, l) => pc'[p] = "idle"
           /\ \A label, l : Continue(p, label, l) => pc'[p] \in {"idle", label}
<1>0. /\ pc = [q \in Requests |-> pc[q]] /\ call = [q \in Requests |-> call[q]]
      /\ local = [q \in Requests |-> local[q]]
  BY DEF Typed
<1>1. \A label, l : Goto(p, label, l) => /\ pc'[p] = label /\ local'[p] = l
                                         /\ call'[p] = call[p] /\ UNCHANGED history
  BY <1>0 DEF Goto
<1>2. Drop(p) => pc'[p] = "idle" /\ local'[p] = Blank /\ call'[p] = NoCall
  BY <1>0 DEF Drop
<1>3. Refuse(p) => pc'[p] = "idle" /\ UNCHANGED history
  BY <1>2 DEF Refuse
<1>4. GiveUp(p) => pc'[p] = "idle"
  BY <1>2 DEF GiveUp
<1>5. \A l : Answer(p, l) => pc'[p] = "idle"
  BY <1>2 DEF Answer
<1>6. \A label, l : Continue(p, label, l) => pc'[p] \in {"idle", label}
  BY <1>1, <1>5 DEF Continue
<1> QED BY <1>1, <1>2, <1>3, <1>4, <1>5, <1>6

Spoilable == {"delete_user", "create_key", "update_passkey", "create_passkey", "lift_ban",
              "lift_first", "create_session", "impersonate", "write_password",
              "delete_account", "has_password", "unlink"}

\* And those that lead to an address or a mark being written.
Addressing == {"check_address", "mail_link", "update_address", "mark_verified",
               "create_account", "mark_reported", "override_verified"}
Taken == Spoilable \cup Addressing

LEMMA SharedEnters ==
    ASSUME Typed, NEW p \in Requests, SharedStep(p), pc'[p] \in Taken
    PROVE  \/ pc'[p] \in {"lift_ban", "create_session"} /\ ReadBan(p)
           \/ pc'[p] = "create_session" /\ LiftBanAndIssue(p)
           \/ pc'[p] = "delete_account" /\ (ListAccounts(p) \/ DeleteOneAccount(p))
           \/ pc'[p] = "delete_user" /\ DeleteUserKeys(p)
<1>1. ASSUME ReadBan(p)
      PROVE  pc'[p] \in {"lift_ban", "create_session"}
  <2>1. CASE Refuse(p)
    BY <2>1, Lands DEF Taken, Spoilable, Addressing
  <2>2. ASSUME NEW label \in {"create_session", "lift_ban"}, Goto(p, label, local[p])
        PROVE  pc'[p] \in {"lift_ban", "create_session"}
    BY <2>2, Lands
  <2> QED BY <1>1, <2>1, <2>2 DEF ReadBan
<1>2. ASSUME LiftBanAndIssue(p)
      PROVE  pc'[p] = "create_session"
  BY <1>2, Lands DEF LiftBanAndIssue, LiftBan, Taken, Spoilable, Addressing
<1>3. ASSUME ListAccounts(p) \/ DeleteOneAccount(p)
      PROVE  pc'[p] = "delete_account"
  BY <1>3 DEF Typed, ListAccounts, DeleteOneAccount, Goto, Refuse, Drop, Taken, Spoilable, Addressing
<1>4. ASSUME DeleteUserKeys(p)
      PROVE  pc'[p] = "delete_user"
  BY <1>4, Lands DEF DeleteUserKeys, Taken, Spoilable, Addressing
<1>5. ASSUME StatementFails(p)
      PROVE  FALSE
  BY <1>5, Lands DEF StatementFails, Taken, Spoilable, Addressing
<1> QED BY <1>1, <1>2, <1>3, <1>4, <1>5 DEF SharedStep

LEMMA CredentialEnters ==
    ASSUME Typed, NEW p \in Requests, CredentialStep(p), pc'[p] \in Taken
    PROVE  pc'[p] = "write_password" /\ FindPasswordRow(p)
<1>1. CASE CheckEmail(p)
  BY <1>1, Lands DEF CheckEmail, Taken, Spoilable, Addressing
<1>2. CASE SignUp(p)
  BY <1>2, Lands DEF SignUp, Taken, Spoilable, Addressing
<1>3. CASE CheckPassword(p) \/ CheckUnverified(p)
  BY <1>3, Lands DEF CheckPassword, CheckUnverified, Taken, Spoilable, Addressing
<1>4. CASE SignIn(p) \/ Reissue(p)
  BY <1>4, Lands DEF SignIn, Reissue, StoreSession, Taken, Spoilable, Addressing
<1>5. CASE StoreToken(p)
  BY <1>5, Lands DEF StoreToken, Taken, Spoilable, Addressing
<1>6. CASE FindPasswordRow(p)
  <2>1. pc'[p] \in {"write_password", "add_credential", "idle"}
    BY <1>6, Lands DEF FindPasswordRow, FindCredential
  <2> QED BY <1>6, <2>1 DEF Taken, Spoilable, Addressing
<1>7. AfterWrite(call[p]) \notin Taken
  BY DEF AfterWrite, Taken, Spoilable, Addressing
<1>8. CASE WriteNewPassword(p)
  BY <1>7, <1>8, Lands DEF WriteNewPassword, WritePassword, Taken, Spoilable, Addressing
<1>9. CASE AddPassword(p)
  BY <1>7, <1>9, Lands DEF AddPassword, AddCredential, Taken, Spoilable, Addressing
<1>10. CASE DeleteToken(p)
  BY <1>10, Lands DEF DeleteToken, Taken, Spoilable, Addressing
<1>11. CASE RevokeSessions(p)
  BY <1>11, Lands DEF RevokeSessions, DeleteSessions, Taken, Spoilable, Addressing
<1>12. CASE Reread(p)
  BY <1>12, Lands DEF Reread, Taken, Spoilable, Addressing
<1> QED BY <1>1, <1>2, <1>3, <1>4, <1>5, <1>6, <1>8, <1>9, <1>10, <1>11, <1>12 DEF CredentialStep

LEMMA AdminEnters ==
    ASSUME Typed, NEW p \in Requests, AdminStep(p), pc'[p] \in Taken
    PROVE  \/ pc'[p] \in {"lift_first", "impersonate"} /\ FindTarget(p)
           \/ pc'[p] = "impersonate" /\ LiftBanFirst(p)
<1>1. CASE AdminCreateUser(p)
  BY <1>1 DEF Typed, AdminCreateUser, Goto, Refuse, Drop, Continue, Answer, Taken, Spoilable, Addressing
<1>2. CASE CheckOwnName(p) \/ UpdateTarget(p)
  BY <1>2, Lands DEF CheckOwnName, UpdateTarget, Taken, Spoilable, Addressing
<1>3. CASE FindTarget(p)
  <2>1. pc'[p] \in {"idle", "delete_sessions", "lift_first", "impersonate", "update_user"}
    BY <1>3, Lands DEF FindTarget
  <2> QED BY <1>3, <2>1 DEF Taken, Spoilable, Addressing
<1>4. CASE LiftBanFirst(p)
  BY <1>4, Lands DEF LiftBanFirst, LiftBan, Taken, Spoilable, Addressing
<1>5. CASE Impersonate(p)
  BY <1>5, Lands DEF Impersonate, StoreSession, Taken, Spoilable, Addressing
<1>6. CASE FindAdmin(p) \/ FindOwnSession(p) \/ EndImpersonation(p) \/ RevokeSession(p)
  BY <1>6, Lands DEF FindAdmin, FindOwnSession, EndImpersonation, RevokeSession, Taken, Spoilable, Addressing
<1>7. CASE RevokeTargetSessions(p)
  BY <1>7, Lands DEF RevokeTargetSessions, DeleteSessions, Taken, Spoilable, Addressing
<1>8. CASE RemoveUser(p)
  BY <1>8, Lands DEF RemoveUser, DeleteUserRow, Taken, Spoilable, Addressing
<1> QED BY <1>1, <1>2, <1>3, <1>4, <1>5, <1>6, <1>7, <1>8 DEF AdminStep

LEMMA ProfileEnters ==
    ASSUME Typed, NEW p \in Requests, ProfileStep(p)
    PROVE  pc'[p] \notin Spoilable
<1>1. CASE CheckAddress(p) \/ MailLink(p)
  BY <1>1, Lands DEF CheckAddress, MailLink, Spoilable
<1>2. CASE UpdateAddress(p) \/ ChangeAddress(p) \/ MarkVerified(p)
  BY <1>2, Lands DEF UpdateAddress, ChangeAddress, MarkVerified, WriteUser, Spoilable
<1>3. CASE FindByEmail(p)
  BY <1>3 DEF Typed, FindByEmail, Goto, Refuse, Drop, Answer, Spoilable
<1>4. CASE SessionForLink(p)
  BY <1>4, Lands DEF SessionForLink, StoreSession, Spoilable
<1>5. AfterPassword(call[p]) \notin Spoilable
  BY DEF AfterPassword, Spoilable
<1>6. CASE CheckDeletionPassword(p)
  BY <1>5, <1>6, Lands DEF CheckDeletionPassword, Spoilable
<1>7. CASE StoreDeleteToken(p) \/ FindDeleteToken(p) \/ DropDeleteToken(p)
  BY <1>7, Lands DEF StoreDeleteToken, FindDeleteToken, DropDeleteToken, Spoilable
<1>8. CASE DeleteOwnSessions(p) \/ DeleteOneself(p)
  BY <1>8, Lands DEF DeleteOwnSessions, DeleteSessions, DeleteOneself, DeleteUserRow, Spoilable
<1>9. CASE CreateKey(p)
  BY <1>9, Lands DEF CreateKey, Spoilable
<1> QED BY <1>1, <1>2, <1>3, <1>4, <1>6, <1>7, <1>8, <1>9 DEF ProfileStep

LEMMA PasskeyEnters ==
    ASSUME Typed, NEW p \in Requests, PasskeyStep(p), pc'[p] \in Taken
    PROVE  \/ pc'[p] = "create_passkey" /\ FindRegistration(p)
           \/ pc'[p] = "update_passkey" /\ FindPasskey(p)
<1>1. CASE ListPasskeys(p) \/ StoreChallenge(p)
  BY <1>1, Lands DEF ListPasskeys, StoreChallenge, Taken, Spoilable, Addressing
<1>2. CASE FindRegistration(p)
  BY <1>2, Lands DEF FindRegistration, Taken, Spoilable, Addressing
<1>3. CASE StorePasskey(p) \/ WritePasskey(p)
  BY <1>3, Lands DEF StorePasskey, WritePasskey, Taken, Spoilable, Addressing
<1>4. CASE FindPasskey(p)
  BY <1>4, Lands DEF FindPasskey, Taken, Spoilable, Addressing
<1>5. CASE FindPasskeyUser(p) \/ DropChallenge(p)
  BY <1>5, Lands DEF FindPasskeyUser, DropChallenge, Taken, Spoilable, Addressing
<1>6. CASE SignInWithPasskey(p)
  BY <1>6, Lands DEF SignInWithPasskey, StoreSession, Taken, Spoilable, Addressing
<1>7. CASE CheckOwner(p) \/ RemovePasskey(p)
  BY <1>7, Lands DEF CheckOwner, RemovePasskey, Taken, Spoilable, Addressing
<1> QED BY <1>1, <1>2, <1>3, <1>4, <1>5, <1>6, <1>7 DEF PasskeyStep

LEMMA SocialEnters ==
    ASSUME Typed, NEW p \in Requests, SocialStep(p), pc[p] # "idle"
    PROVE  \/ pc'[p] \notin Spoilable
           \/ pc'[p] = "has_password" /\ ListToUnlink(p)
           \/ pc'[p] = "unlink" /\ HasPassword(p)
<1>0. /\ Refuse(p) => pc'[p] \notin Spoilable
      /\ \A l : Answer(p, l) => pc'[p] \notin Spoilable
      /\ \A label, l : label \notin Spoilable /\ Goto(p, label, l) => pc'[p] \notin Spoilable
  BY Lands DEF Spoilable
<1>1. CASE StoreState(p) \/ FindLinkUser(p) \/ FindLinked(p)
  <2>1. {"store_state", "create_account", "find_link_user"} \cap Spoilable = {}
    BY DEF Spoilable
  <2>2. CASE StoreState(p)
    BY <1>0, <2>2 DEF StoreState
  <2>3. CASE FindLinkUser(p)
    BY <1>0, <2>1, <2>3 DEF FindLinkUser
  <2>4. CASE FindLinked(p)
    BY <1>0, <2>1, <2>4 DEF FindLinked
  <2> QED BY <1>1, <2>2, <2>3, <2>4
<1>2. CASE DropState(p)
  BY <1>2, Lands DEF DropState, Spoilable
<1>3. CASE FindAccount(p)
  <2>1. {"find_by_report", "update_account", "find_account_user", "create_account"} \cap Spoilable = {}
    BY DEF Spoilable
  <2> QED BY <1>0, <1>3, <2>1 DEF FindAccount
<1>4. CASE WriteTokens(p)
  BY <1>4, Lands DEF WriteTokens, Spoilable
<1>5. \A c, u, v : Overrides(c, u, v) \notin Spoilable /\ ThenFor(c, u) \notin Spoilable
  BY DEF Overrides, ThenFor, Spoilable
<1>6. CASE FindAccountUser(p)
  BY <1>5, <1>6, Lands DEF FindAccountUser, Spoilable
<1>7. ASSUME NEW change, NEW label, label \notin Spoilable, WriteUser(p, change, label)
      PROVE  pc'[p] \notin Spoilable
  BY <1>7, Lands DEF WriteUser, Spoilable
<1>8. CASE MarkReported(p) \/ OverrideUser(p)
  <2>1. "issue" \notin Spoilable
    BY DEF Spoilable
  <2> QED BY <1>5, <1>7, <1>8, <2>1 DEF MarkReported, OverrideUser
<1>9. CASE FindByReport(p)
  BY <1>9 DEF Typed, FindByReport, Goto, Refuse, Drop, Spoilable
<1>10. CASE CreateSocialUser(p)
  BY <1>10 DEF Typed, CreateSocialUser, Goto, Refuse, Drop, Spoilable
<1>11. CASE CreateSocialAccount(p)
  <2>1. local[p].then \notin Spoilable
    BY <1>11, StillThere DEF CreateSocialAccount, At, Spoilable
  <2> QED BY <1>11, <2>1, Lands DEF CreateSocialAccount, Spoilable
<1>12. CASE SocialSession(p)
  BY <1>12, Lands DEF SocialSession, StoreSession, Spoilable
<1>13. Copied(call[p]) \notin Spoilable
  BY DEF Copied, Spoilable
<1>14. CASE FindInfo(p)
  BY <1>13, <1>14 DEF Typed, FindInfo, Continue, Goto, Refuse, Drop, Answer, Spoilable
<1>15. CASE FindTokens(p) \/ Exchange(p) \/ AnswerFromCookie(p)
  BY <1>15 DEF Typed, FindTokens, Exchange, AnswerFromCookie, Goto, Refuse, Drop, Answer, Spoilable
<1>16. CASE ListToUnlink(p) \/ HasPassword(p) \/ Unlink(p)
  <2>1. CASE ListToUnlink(p)
    BY <2>1, Lands DEF ListToUnlink, Spoilable
  <2>2. CASE HasPassword(p)
    BY <2>2, Lands DEF HasPassword, Spoilable
  <2>3. CASE Unlink(p)
    BY <2>3, Lands DEF Unlink, Spoilable
  <2> QED BY <1>16, <2>1, <2>2, <2>3
<1> QED BY <1>1, <1>2, <1>3, <1>4, <1>6, <1>8, <1>9, <1>10, <1>11, <1>12, <1>14, <1>15, <1>16
        DEF SocialStep

LEMMA Enters ==
    ASSUME Typed, NEW p \in Requests, Step(p), pc[p] # "idle"
    PROVE  /\ pc'[p] # "create_key"
           /\ pc'[p] = "delete_user" => DeleteUserKeys(p)
           /\ pc'[p] = "update_passkey" => FindPasskey(p)
           /\ pc'[p] = "create_passkey" => FindRegistration(p)
           /\ pc'[p] = "lift_ban" => ReadBan(p)
           /\ pc'[p] = "create_session" => ReadBan(p) \/ LiftBanAndIssue(p)
           /\ pc'[p] = "lift_first" => FindTarget(p)
           /\ pc'[p] = "impersonate" => FindTarget(p) \/ LiftBanFirst(p)
           /\ pc'[p] = "write_password" => FindPasswordRow(p)
           /\ pc'[p] = "delete_account" => ListAccounts(p) \/ DeleteOneAccount(p)
           /\ pc'[p] = "has_password" => ListToUnlink(p)
           /\ pc'[p] = "unlink" => HasPassword(p)
  BY SharedEnters, CredentialEnters, AdminEnters, ProfileEnters, PasskeyEnters, SocialEnters
     DEF Step, Taken, Spoilable

-----------------------------------------------------------------------------
(* What every step is, for the safety proofs.                              *)

LEMMA Moves ==
    ASSUME Typed, Next
    PROVE  /\ \/ \E p \in Requests :
                    /\ pc[p] = "idle" /\ Arrived(p)
                    /\ \E op \in Ops : \E c \in Possible(op) : Arrives(p, c)
              \/ \E p \in Requests : pc[p] # "idle" /\ Step(p) /\ Stepped(p)
              \/ BansEnd
           /\ Watch
<1>1. ASSUME NEW p \in Requests, pc[p] = "idle", NEW op \in Ops, NEW c \in Possible(op),
             Arrives(p, c)
      PROVE  Arrived(p)
  BY <1>1, Arrivals
<1>2. ASSUME NEW p \in Requests, Step(p)
      PROVE  pc[p] # "idle" /\ Stepped(p)
  BY <1>2, Sending
<1> QED BY <1>1, <1>2 DEF Next

\* A request that arrives has its call, and none of the statements others can spoil
\* but the creation of a key, with the user of its session.
LEMMA Begins ==
    ASSUME Typed, NEW p \in Requests, pc[p] = "idle", NEW op \in Ops, NEW c \in Possible(op),
           Arrives(p, c)
    PROVE  /\ c.op = op /\ call'[p] = c
           /\ pc'[p] \notin (Spoilable \ {"create_key"}) \cup {"issue"}
           /\ pc'[p] = "create_key" => UserOf(db, local'[p].user) # {}
<1>0. c.op = op /\ op \in AllOps
  BY PossibleAsked, IdentityAssumption DEF Typed
<1>1. ASSUME NEW label, NEW l, Arrive(p, c, label, l)
      PROVE  pc'[p] = label /\ call'[p] = c /\ local'[p] = l
  BY <1>1 DEF Arrive, Typed
<1> USE DEF Arrive, Typed
<1>2. \/ CredentialArrives(p, c) \/ AdminArrives(p, c) \/ ProfileArrives(p, c)
      \/ PasskeyArrives(p, c) \/ SocialArrives(p, c)
  BY <1>0 DEF Arrives, AllOps
<1>3. CASE CredentialArrives(p, c)
  BY <1>0, <1>3 DEF CredentialArrives, SignUpArrives, NamedArrives, ResetArrives,
                          CurrentUserArrives, Spoilable
<1>4. CASE AdminArrives(p, c)
  <2>1. AdminStart(c) \notin Spoilable \cup {"issue"}
    BY DEF AdminStart, Spoilable
  <2> QED BY <1>0, <1>4, <2>1 DEF AdminArrives, AuthorizedArrives, StopArrives, Spoilable
<1>5. CASE ProfileArrives(p, c)
  <2>1. AfterPassword(c) \notin Spoilable \cup {"issue"}
    BY DEF AfterPassword, Spoilable
  <2>2. CASE SendArrives(p, c) \/ ChangeEmailArrives(p, c) \/ VerifyArrives(p, c)
    BY <1>0, <2>2 DEF SendArrives, ChangeEmailArrives, VerifyArrives, Spoilable
  <2>3. CASE DeletionArrives(p, c)
    BY <1>0, <2>1, <2>3 DEF DeletionArrives, Spoilable
  <2>4. CASE CreateKeyArrives(p, c)
    <3>1. PICK s \in Caller(db, c) : Arrive(p, c, "create_key", [Blank EXCEPT !.user = s.user])
      BY <2>4 DEF CreateKeyArrives
    <3>2. [Blank EXCEPT !.user = s.user].user = s.user
      BY DEF Blank
    <3> QED BY <1>0, <3>1, <3>2 DEF Caller
  <2> QED BY <1>5, <2>2, <2>3, <2>4 DEF ProfileArrives
<1>6. CASE PasskeyArrives(p, c)
  BY <1>0, <1>6 DEF PasskeyArrives, OptionsArrive, RegisterArrives, AuthenticateArrives,
                          DeletePasskeyArrives, Spoilable
<1>7. CASE SocialArrives(p, c)
  <2>1. Copied(c) \notin Spoilable \cup {"issue"}
    BY DEF Copied, Spoilable
  <2>2. CASE RefreshArrives(p, c)
    BY <1>0, <2>1, <2>2 DEF RefreshArrives, Spoilable
  <2>3. CASE InfoArrives(p, c)
    BY <1>0, <2>1, <2>3 DEF InfoArrives, Spoilable
  <2>4. CASE StartArrives(p, c) \/ LinkArrives(p, c) \/ CallbackArrives(p, c)
    BY <1>0, <2>4 DEF StartArrives, LinkArrives, CallbackArrives, Spoilable
  <2>5. CASE IdTokenArrives(p, c) \/ UnlinkArrives(p, c)
    BY <1>0, <2>5 DEF IdTokenArrives, UnlinkArrives, Spoilable
  <2> QED BY <1>7, <2>2, <2>3, <2>4, <2>5 DEF SocialArrives
<1> QED BY <1>2, <1>3, <1>4, <1>5, <1>6, <1>7

\* The end of bans changes nothing else.
LEMMA BanRows ==
    ASSUME Typed, BansEnd
    PROVE  /\ OnlyUsers(db, db')
           /\ pc' = pc /\ call' = call /\ local' = local /\ kind' = kind /\ via' = via
           /\ UNCHANGED <<signed, handed, honoured, twice, proven, undue, broken>>
           /\ ousted' = StillOut(db', ousted)
           /\ \A u \in db.users : \E w \in UserOf(db', u.id) : InForce(u) => InForce(w) \/ Over(w)
           /\ \A w \in db'.users : \E u \in UserOf(db, w.id) : InForce(w) => InForce(u)
<1> DEFINE New(u) == IF u.ends = "ahead" THEN [u EXCEPT !.ends = "over"] ELSE u
<1>1. db \in Database /\ db.users \subseteq User
  BY Now DEF Database
<1>2. /\ OnlyUsers(db, db') /\ db'.users = {New(u) : u \in db.users}
  BY <1>1 DEF BansEnd, Database, OnlyUsers
<1>3. \A u \in User : /\ New(u).id = u.id
                      /\ InForce(u) => InForce(New(u)) \/ Over(New(u))
                      /\ InForce(New(u)) => InForce(u)
  BY DEF User, InForce, Over
<1>4. /\ pc' = pc /\ call' = call /\ local' = local /\ kind' = kind /\ via' = via
      /\ UNCHANGED <<signed, handed, honoured, twice, proven, undue, broken>>
      /\ ousted' = StillOut(db', ousted)
  BY DEF BansEnd, KeepIds
<1> HIDE DEF New
<1> QED BY <1>1, <1>2, <1>3, <1>4 DEF UserOf

\* An onlooker misses nothing: what two requests are both at work on is contested.
Overlap == Shared \subseteq contested

LEMMA Met ==
    ASSUME Overlap, NEW p \in Requests, NEW q \in Requests, p # q,
           NEW i \in Touched(p) \cap Touched(q)
    PROVE  i \in contested
<1>1. <<p, q>> \in Pairs
  BY DEF Pairs
<1>2. Touched(p) \cap Touched(q) \subseteq Shared
  BY <1>1 DEF Shared
<1> QED BY <1>2 DEF Overlap

LEMMA OverlapStays ==
    ASSUME Typed, Overlap, [Next]_vars
    PROVE  Overlap' /\ contested \subseteq contested'
<1>1. CASE Next
  BY <1>1 DEF Next, Watch, Overlap
<1>2. CASE UNCHANGED vars
  <2>1. Shared' = Shared
    BY <1>2 DEF vars, Shared, Touched, Pairs
  <2> QED BY <1>2, <2>1 DEF Overlap, vars, watched
<1> QED BY <1>1, <1>2

LEMMA InitOverlap ==
    ASSUME Init
    PROVE  Overlap
<1>1. \A p \in Requests : Touched(p) = {}
  BY DEF Init, Touched
<1> QED BY <1>1 DEF Overlap, Shared, Pairs

-----------------------------------------------------------------------------
(* No API key outlives its owner, unless it was created while its owner    *)
(* was deleted.                                                            *)

\* The owner is only deleted once the keys are; a key that comes between the two has
\* a request that met the deletion.
KeyOf(p) ==
    /\ pc[p] = "delete_user" =>
          \A k \in db.keys : k.user = local[p].user => k.user \in contested
    /\ pc[p] = "create_key" => UserOf(db, local[p].user) # {} \/ local[p].user \in contested

KeysOwned ==
    /\ Typed /\ Overlap
    /\ NoOrphanKey
    /\ \A p \in Requests : KeyOf(p)

LEMMA KeysStayOwned ==
    ASSUME KeysOwned, [Next]_vars
    PROVE  KeysOwned'
<1>0. Typed /\ Overlap /\ NoOrphanKey /\ \A p \in Requests : KeyOf(p)
  BY DEF KeysOwned
<1>1. Typed' /\ Overlap' /\ contested \subseteq contested'
  BY <1>0, TypedStays, OverlapStays
<1>2. CASE UNCHANGED vars
  BY <1>0, <1>1, <1>2 DEF vars, watched, KeysOwned, KeyOf, NoOrphanKey, UserOf
<1>3. CASE BansEnd
  <2>1. /\ db'.keys = db.keys /\ pc' = pc /\ local' = local
        /\ \A u \in db.users : UserOf(db', u.id) # {}
    BY <1>0, <1>3, BanRows DEF OnlyUsers
  <2>2. \A i : UserOf(db, i) # {} => UserOf(db', i) # {}
    BY <2>1 DEF UserOf
  <2> QED BY <1>0, <1>1, <2>1, <2>2 DEF KeysOwned, KeyOf, NoOrphanKey
<1>4. ASSUME NEW p \in Requests, pc[p] = "idle", Arrived(p), NEW op \in Ops,
             NEW c \in Possible(op), Arrives(p, c)
      PROVE  KeysOwned'
  <2>1. /\ db' = db /\ \A q \in Requests \ {p} : pc'[q] = pc[q] /\ local'[q] = local[q]
    BY <1>4 DEF Arrived, SendsRead, Settled
  <2>2. pc'[p] # "delete_user" /\ (pc'[p] = "create_key" => UserOf(db, local'[p].user) # {})
    BY <1>0, <1>4, Begins DEF Spoilable
  <2>3. KeyOf(p)'
    BY <2>1, <2>2 DEF KeyOf
  <2>4. \A q \in Requests \ {p} : KeyOf(q)'
    BY <1>0, <1>1, <2>1 DEF KeyOf
  <2> QED BY <1>0, <1>1, <2>1, <2>3, <2>4 DEF KeysOwned, NoOrphanKey
<1>5. ASSUME NEW q \in Requests, pc[q] # "idle", Step(q), Stepped(q)
      PROVE  KeysOwned'
  <2>0. /\ Sends(q) /\ \A p \in Requests \ {q} : pc'[p] = pc[p] /\ local'[p] = local[p]
    BY <1>5 DEF Stepped, Settled
  <2>1. \A i : UserOf(db, i) # {} =>
           UserOf(db', i) # {} \/ (pc[q] = "delete_user" /\ local[q].user = i)
    BY <1>0, <1>5, <2>0, UserRows DEF UserOf
  <2>2. \A k \in db'.keys : k \in db.keys \/ (pc[q] = "create_key" /\ k.user = local[q].user)
    BY <1>0, <1>5, <2>0, KeyRows
  <2>3. NoOrphanKey'
    <3> SUFFICES ASSUME NEW k \in db'.keys, k.user \notin contested
                 PROVE  UserOf(db', k.user) # {}
      BY <1>1 DEF NoOrphanKey
    <3>1. CASE k \in db.keys
      <4>1. UserOf(db, k.user) # {}
        BY <1>0, <3>1 DEF NoOrphanKey
      <4>2. ~ (pc[q] = "delete_user" /\ local[q].user = k.user)
        BY <1>0, <3>1 DEF KeyOf
      <4> QED BY <2>1, <4>1, <4>2
    <3>2. CASE pc[q] = "create_key" /\ k.user = local[q].user
      <4>1. UserOf(db, k.user) # {}
        BY <1>0, <3>2 DEF KeyOf
      <4> QED BY <2>1, <3>2, <4>1
    <3> QED BY <2>2, <3>1, <3>2
  <2>4. KeyOf(q)'
    <3>1. pc'[q] # "create_key" /\ (pc'[q] = "delete_user" => DeleteUserKeys(q))
      BY <1>0, <1>5, Enters
    <3>2. ASSUME DeleteUserKeys(q), pc'[q] = "delete_user"
          PROVE  \A k \in db'.keys : k.user # local'[q].user
      <4>1. /\ pc[q] = "delete_keys"
            /\ Refuse(q) \/ (db' = DeleteKeys(db, local[q].user) /\ Goto(q, "delete_user", local[q]))
        BY <3>2 DEF DeleteUserKeys
      <4>2. ~ Refuse(q)
        BY <1>0, <3>2, Lands
      <4>3. db' = DeleteKeys(db, local[q].user) /\ local'[q] = local[q]
        BY <1>0, <4>1, <4>2 DEF Goto, Typed
      <4> QED BY <1>0, <1>5, <2>0, <4>1, <4>3, KeyRows
    <3> QED BY <3>1, <3>2 DEF KeyOf
  <2>5. ASSUME NEW p \in Requests \ {q}
        PROVE  KeyOf(p)'
    <3>1. \A i : i # None /\ pc[p] # "idle" /\ local[p].user = i /\ local[q].user = i
                   => i \in contested
      BY <1>0, <1>5, Met DEF Touched
    <3>2. ASSUME pc[p] = "delete_user", NEW k \in db'.keys, k.user = local[p].user
          PROVE  k.user \in contested
      <4>1. CASE k \in db.keys
        BY <1>0, <3>2, <4>1 DEF KeyOf
      <4>2. CASE pc[q] = "create_key" /\ k.user = local[q].user
        <5>1. local[q].user # None
          BY <1>0, <1>5, <4>2, StillThere DEF At
        <5> QED BY <3>1, <3>2, <4>2, <5>1
      <4> QED BY <2>2, <4>1, <4>2
    <3>3. ASSUME pc[p] = "create_key", local[p].user \notin contested
          PROVE  UserOf(db', local[p].user) # {}
      <4>1. UserOf(db, local[p].user) # {} /\ local[p].user # None
        BY <1>0, <3>3, StillThere DEF KeyOf, At
      <4>2. local[q].user # local[p].user
        BY <3>1, <3>3, <4>1
      <4> QED BY <2>1, <4>1, <4>2
    <3> QED BY <1>1, <2>0, <3>2, <3>3 DEF KeyOf
  <2> QED BY <1>1, <2>3, <2>4, <2>5 DEF KeysOwned
<1>6. CASE Next
  BY <1>0, <1>3, <1>4, <1>5, <1>6, Moves
<1> QED BY <1>2, <1>6

\* However deletions, removals and key creations interleave, a key is left without
\* its owner only where a creation met the deletion of its owner.
THEOREM NoKeyIsOrphaned == Spec => []NoOrphanKey
<1>1. ASSUME Init PROVE KeysOwned
  <2>1. db.keys = {} /\ \A p \in Requests : pc[p] = "idle"
    BY <1>1 DEF Init
  <2> QED BY <1>1, <2>1, InitTyped, InitOverlap DEF KeysOwned, NoOrphanKey, KeyOf
<1>2. KeysOwned /\ [Next]_vars => KeysOwned'
  BY KeysStayOwned
<1>3. KeysOwned => NoOrphanKey
  BY DEF KeysOwned
<1> QED BY <1>1, <1>2, <1>3, PTL DEF Spec

-----------------------------------------------------------------------------
(* A passkey's signature counter never goes back.                          *)

\* What a sign-in is going to write is no less than what is stored.
CounterOf(p) ==
    pc[p] = "update_passkey" =>
        \A x \in local[p].keys :
            /\ x.id = call[p].target
            /\ \A k \in PasskeyOf(db, x.id) : k.counter <= x.counter \/ x.id \in contested

CountersKept ==
    /\ Typed /\ Overlap
    /\ \A p \in Requests : CounterOf(p)

\* The statement that writes it, and those that write other rows.
LEMMA CountersGoOn ==
    ASSUME CountersKept, NEW q \in Requests, pc[q] # "idle", Sends(q),
           NEW k \in db.passkeys, NEW n \in PasskeyOf(db', k.id)
    PROVE  n.counter >= k.counter \/ k.id \in contested
<1>0. /\ Typed /\ CounterOf(q) /\ db.passkeys \subseteq Passkey
      /\ \A i, j \in db.passkeys : i.id = j.id => i = j
  BY Now DEF CountersKept, Database, Good, OnePasskey
<1>1. n \in db'.passkeys /\ n.id = k.id
  BY DEF PasskeyOf
<1>2. CASE n \in db.passkeys
  <2>1. n = k /\ k.counter \in Int
    BY <1>0, <1>1, <1>2 DEF Passkey
  <2> QED BY <2>1
<1>3. CASE PasskeyOf(db, n.id) = {}
  BY <1>1, <1>3 DEF PasskeyOf
<1>4. ASSUME pc[q] = "update_passkey", NEW x \in local[q].keys, n.id = x.id, n.counter = x.counter
      PROVE  n.counter >= k.counter \/ k.id \in contested
  <2>1. k \in PasskeyOf(db, x.id)
    BY <1>1, <1>4 DEF PasskeyOf
  <2>2. k.counter <= x.counter \/ x.id \in contested
    BY <1>0, <1>4, <2>1 DEF CounterOf
  <2> QED BY <1>1, <1>4, <2>2
<1> QED BY <1>0, <1>1, <1>2, <1>3, <1>4, PasskeyRows

LEMMA CountersStayKept ==
    ASSUME CountersKept, [Next]_vars
    PROVE  CountersKept'
<1>0. /\ Typed /\ Overlap /\ (\A p \in Requests : CounterOf(p)) /\ db.passkeys \subseteq Passkey
      /\ \A i, j \in db.passkeys : i.id = j.id => i = j
  BY Now DEF CountersKept, Database, Good, OnePasskey
<1>1. Typed' /\ Overlap' /\ contested \subseteq contested'
  BY <1>0, TypedStays, OverlapStays
<1>2. CASE UNCHANGED vars
  BY <1>0, <1>1, <1>2 DEF vars, watched, CountersKept, CounterOf, PasskeyOf
<1>3. CASE BansEnd
  <2>1. db'.passkeys = db.passkeys /\ pc' = pc /\ local' = local /\ call' = call
    BY <1>0, <1>3, BanRows DEF OnlyUsers
  <2> QED BY <1>0, <1>1, <2>1 DEF CountersKept, CounterOf, PasskeyOf
<1>4. ASSUME NEW p \in Requests, pc[p] = "idle", Arrived(p), NEW op \in Ops,
             NEW c \in Possible(op), Arrives(p, c)
      PROVE  CountersKept'
  <2>1. /\ db' = db
        /\ \A q \in Requests \ {p} : pc'[q] = pc[q] /\ local'[q] = local[q] /\ call'[q] = call[q]
    BY <1>4 DEF Arrived, SendsRead, Settled
  <2>2. pc'[p] # "update_passkey"
    BY <1>0, <1>4, Begins DEF Spoilable
  <2> QED BY <1>0, <1>1, <2>1, <2>2 DEF CountersKept, CounterOf
<1>5. ASSUME NEW q \in Requests, pc[q] # "idle", Step(q), Stepped(q)
      PROVE  CountersKept'
  <2>0. /\ Sends(q)
        /\ \A p \in Requests \ {q} : pc'[p] = pc[p] /\ local'[p] = local[p] /\ call'[p] = call[p]
    BY <1>5 DEF Stepped, Settled
  <2>1. CounterOf(q)'
    <3> SUFFICES ASSUME pc'[q] = "update_passkey" PROVE CounterOf(q)'
      BY DEF CounterOf
    <3>1. FindPasskey(q)
      BY <1>0, <1>5, Enters
    <3>2. ~ Refuse(q) /\ db' = db
      BY <1>0, <3>1, Lands DEF FindPasskey
    <3>3. PICK k \in PasskeyOf(db, call[q].target) :
             Goto(q, "update_passkey",
                  [local[q] EXCEPT !.keys = {CounterRaised(k, call[q].change.counter)}])
      BY <3>1, <3>2 DEF FindPasskey
    <3>4. local[q] \in Local /\ Asked(call[q]) /\ call[q].op = "authenticate"
      BY <1>0, <1>5, <3>1, StillThere DEF At, FindPasskey
    <3>5. local'[q].keys = {CounterRaised(k, call[q].change.counter)} /\ call'[q] = call[q]
      BY <1>0, <3>3, <3>4 DEF Goto, Typed, Local
    <3>6. k \in Passkey /\ k.id = call[q].target /\ call[q].change.counter \in Int
      BY <1>0, <3>4 DEF PasskeyOf, Asked
    <3>7. /\ CounterRaised(k, call[q].change.counter).id = k.id
          /\ CounterRaised(k, call[q].change.counter).counter >= k.counter
      BY <3>6 DEF CounterRaised, Passkey
    <3>8. \A j \in PasskeyOf(db', call[q].target) : j = k
      BY <1>0, <3>2, <3>6 DEF PasskeyOf
    <3> QED BY <3>5, <3>6, <3>7, <3>8 DEF CounterOf
  <2>2. ASSUME NEW p \in Requests \ {q}, pc[p] = "update_passkey", NEW x \in local[p].keys
        PROVE  \A n \in PasskeyOf(db', x.id) : n.counter <= x.counter \/ x.id \in contested
    <3>1. x.id = call[p].target /\ \A k \in PasskeyOf(db, x.id) :
                                       k.counter <= x.counter \/ x.id \in contested
      BY <1>0, <2>2 DEF CounterOf
    <3>2. x \in Passkey
      BY <1>0, <2>2, StillThere DEF Local
    <3> TAKE n \in PasskeyOf(db', x.id)
    <3>3. n \in db'.passkeys /\ n.id = x.id
      BY DEF PasskeyOf
    <3>4. CASE n \in db.passkeys
      BY <3>1, <3>3, <3>4 DEF PasskeyOf
    <3>5. CASE n.counter = 0
      BY <3>2, <3>5 DEF Passkey
    <3>6. ASSUME pc[q] = "update_passkey", NEW y \in local[q].keys, n.id = y.id
          PROVE  x.id \in contested
      <4>1. y.id = call[q].target
        BY <1>0, <3>6 DEF CounterOf
      <4>2. x.id # None
        BY <1>0, <3>2, Now DEF Passkey
      <4>3. x.id \in Touched(p) \cap Touched(q)
        BY <2>2, <3>1, <3>3, <3>6, <4>1, <4>2 DEF Touched
      <4> QED BY <1>0, <4>3, Met
    <3> QED BY <1>0, <1>5, <2>0, <3>3, <3>4, <3>5, <3>6, PasskeyRows
  <2>3. \A p \in Requests \ {q} : CounterOf(p)'
    BY <1>0, <1>1, <2>0, <2>2 DEF CounterOf
  <2> QED BY <1>1, <2>1, <2>3 DEF CountersKept
<1>6. CASE Next
  BY <1>0, <1>3, <1>4, <1>5, <1>6, Moves
<1> QED BY <1>2, <1>6

LEMMA InitCounters ==
    ASSUME Init
    PROVE  CountersKept
<1>1. \A p \in Requests : pc[p] = "idle"
  BY DEF Init
<1> QED BY <1>1, InitTyped, InitOverlap DEF CountersKept, CounterOf

\* Whichever copy of a passkey is written back, and in whatever order, its counter
\* never goes down, unless two requests were at work on that passkey at once.
THEOREM CountersNeverGoBack == Spec => CounterForward
<1>1. Init => CountersKept
  BY InitCounters
<1>2. CountersKept /\ [Next]_vars => CountersKept'
  BY CountersStayKept
<1>3. CountersKept /\ [Next]_vars =>
         [\A k \in db.passkeys : \A n \in PasskeyOf(db', k.id) :
             n.counter >= k.counter \/ k.id \in contested]_vars
  <2> SUFFICES ASSUME CountersKept, Next,
                      NEW k \in db.passkeys, NEW n \in PasskeyOf(db', k.id)
               PROVE  n.counter >= k.counter \/ k.id \in contested
    OBVIOUS
  <2>0. /\ Typed /\ db.passkeys \subseteq Passkey
        /\ \A i, j \in db.passkeys : i.id = j.id => i = j
    BY Now DEF CountersKept, Database, Good, OnePasskey
  <2>1. CASE db'.passkeys = db.passkeys
    <3>1. n = k /\ k.counter \in Int
      BY <2>0, <2>1 DEF PasskeyOf, Passkey
    <3> QED BY <3>1
  <2>2. CASE BansEnd
    BY <2>0, <2>1, <2>2, BanRows DEF OnlyUsers
  <2>3. ASSUME NEW p \in Requests, Arrived(p)
        PROVE  db'.passkeys = db.passkeys
    BY <2>3 DEF Arrived, SendsRead
  <2>4. ASSUME NEW q \in Requests, pc[q] # "idle", Stepped(q)
        PROVE  n.counter >= k.counter \/ k.id \in contested
    BY <2>4, CountersGoOn DEF Stepped
  <2> QED BY <2>0, <2>1, <2>2, <2>3, <2>4, Moves
<1> QED BY <1>1, <1>2, <1>3, PTL DEF Spec, CounterForward

-----------------------------------------------------------------------------
(* A ban in force stands.                                                  *)

\* Whoever is about to lift a ban has seen that it is over.
BanSeenBy(p) ==
    pc[p] \in {"lift_ban", "lift_first"} =>
        \A u \in UserOf(db, local[p].user) : ~ InForce(u) \/ u.id \in contested

BansSeen ==
    /\ Typed /\ Overlap
    /\ \A p \in Requests : BanSeenBy(p)

LEMMA BansStaySeen ==
    ASSUME BansSeen, [Next]_vars
    PROVE  BansSeen'
<1>0. /\ Typed /\ Overlap /\ (\A p \in Requests : BanSeenBy(p))
      /\ \A u, w \in db.users : u.id = w.id => u = w
  BY Now DEF BansSeen, Good, Sound
<1>1. Typed' /\ Overlap' /\ contested \subseteq contested'
  BY <1>0, TypedStays, OverlapStays
<1>2. CASE UNCHANGED vars
  BY <1>0, <1>1, <1>2 DEF vars, watched, BansSeen, BanSeenBy, UserOf
<1>3. CASE BansEnd
  <2>1. /\ pc' = pc /\ local' = local
        /\ \A w \in db'.users : \E u \in UserOf(db, w.id) : InForce(w) => InForce(u)
    BY <1>0, <1>3, BanRows
  <2>2. \A p \in Requests : BanSeenBy(p)'
    BY <1>0, <1>1, <2>1 DEF BanSeenBy, UserOf
  <2> QED BY <1>1, <2>2 DEF BansSeen
<1>4. ASSUME NEW p \in Requests, pc[p] = "idle", Arrived(p), NEW op \in Ops,
             NEW c \in Possible(op), Arrives(p, c)
      PROVE  BansSeen'
  <2>1. db' = db /\ \A q \in Requests \ {p} : pc'[q] = pc[q] /\ local'[q] = local[q]
    BY <1>4 DEF Arrived, SendsRead, Settled
  <2>2. pc'[p] \notin {"lift_ban", "lift_first"}
    BY <1>0, <1>4, Begins DEF Spoilable
  <2> QED BY <1>0, <1>1, <2>1, <2>2 DEF BansSeen, BanSeenBy
<1>5. ASSUME NEW q \in Requests, pc[q] # "idle", Step(q), Stepped(q)
      PROVE  BansSeen'
  <2>0. /\ Sends(q) /\ \A p \in Requests \ {q} : pc'[p] = pc[p] /\ local'[p] = local[p]
    BY <1>5 DEF Stepped, Settled
  <2>1. BanSeenBy(q)'
    <3>1. CASE pc'[q] = "lift_ban"
      <4>1. ReadBan(q)
        BY <1>0, <1>5, <3>1, Enters
      <4>2. ~ Refuse(q) /\ db' = db
        BY <1>0, <3>1, <4>1, Lands DEF ReadBan
      <4>3. PICK u \in UserOf(db, local[q].user) :
               IF ~ AdminPlugin \/ ~ u.banned THEN Goto(q, "create_session", local[q])
               ELSE IF Lifts(u) THEN Goto(q, "lift_ban", local[q])
               ELSE Refuse(q)
        BY <4>1, <4>2 DEF ReadBan
      <4>4. ~ Goto(q, "create_session", local[q])
        BY <1>0, <3>1 DEF Goto, Typed
      <4>5. Lifts(u) /\ local'[q] = local[q]
        BY <1>0, <4>2, <4>3, <4>4 DEF Goto, Typed
      <4>6. ~ InForce(u)
        BY <4>5 DEF Lifts, Over, InForce
      <4> QED BY <1>0, <4>2, <4>3, <4>5, <4>6 DEF BanSeenBy, UserOf
    <3>2. CASE pc'[q] = "lift_first"
      <4>1. FindTarget(q)
        BY <1>0, <1>5, <3>2, Enters
      <4>2. ~ Refuse(q) /\ db' = db /\ pc[q] = "find_target"
        BY <1>0, <3>2, <4>1, Lands DEF FindTarget
      <4>3. local[q].user = call[q].target
        BY <1>0, <4>2, StillThere DEF At
      <4>4. PICK u \in UserOf(db, call[q].target) :
               CASE call[q].op = "remove_user" -> Goto(q, "delete_sessions", local[q])
                 [] call[q].op = "impersonate" ->
                      IF (u.admin /\ ~ ImpersonateAdmins) \/ InForce(u) THEN Refuse(q)
                      ELSE Goto(q, IF u.banned THEN "lift_first" ELSE "impersonate", local[q])
                 [] OTHER -> Goto(q, "update_user", local[q])
        BY <4>1, <4>2 DEF FindTarget
      <4>5. ~ Goto(q, "delete_sessions", local[q]) /\ ~ Goto(q, "update_user", local[q])
        BY <1>0, <3>2 DEF Goto, Typed
      <4>6. ~ InForce(u)
        BY <4>2, <4>4, <4>5
      <4>7. local'[q] = local[q]
        BY <1>0, <4>2, <4>4, <4>5 DEF Goto, Typed
      <4> QED BY <1>0, <4>2, <4>3, <4>4, <4>6, <4>7 DEF BanSeenBy, UserOf
    <3> QED BY <3>1, <3>2 DEF BanSeenBy
  <2>2. ASSUME NEW p \in Requests \ {q}, pc[p] \in {"lift_ban", "lift_first"},
               NEW w \in UserOf(db', local[p].user), InForce(w)
        PROVE  w.id \in contested
    <3>1. w \in db'.users /\ w.id = local[p].user /\ w.id # None
      <4>1. db'.users \subseteq User
        BY <1>1 DEF Typed, Clients, Good, Database
      <4>2. None \notin Id
        BY <1>0, Now
      <4> QED BY <4>1, <4>2 DEF UserOf, User
    <3>2. CASE \E u \in UserOf(db, w.id) : InForce(u)
      BY <1>0, <2>2, <3>1, <3>2 DEF BanSeenBy, UserOf
    <3>3. CASE pc[q] = "update_user" /\ call[q].target = w.id
      <4>1. w.id \in Touched(p) \cap Touched(q)
        BY <2>2, <3>1, <3>3 DEF Touched
      <4> QED BY <1>0, <4>1, Met
    <3> QED BY <1>0, <1>5, <2>0, <2>2, <3>1, <3>2, <3>3, UserRows
  <2>3. \A p \in Requests \ {q} : BanSeenBy(p)'
    BY <1>1, <2>0, <2>2 DEF BanSeenBy
  <2> QED BY <1>1, <2>1, <2>3 DEF BansSeen
<1>6. CASE Next
  BY <1>0, <1>3, <1>4, <1>5, <1>6, Moves
<1> QED BY <1>2, <1>6

\* Sign-ins and impersonations lift only bans that are over, however long ago they
\* have read them, unless one was under way with the ban.
THEOREM BansKeepStanding == Spec => BanStands
<1>1. ASSUME Init PROVE BansSeen
  <2>1. \A p \in Requests : pc[p] = "idle"
    BY <1>1 DEF Init
  <2> QED BY <1>1, <2>1, InitTyped, InitOverlap DEF BansSeen, BanSeenBy
<1>2. BansSeen /\ [Next]_vars => BansSeen'
  BY BansStaySeen
<1>3. BansSeen /\ [Next]_vars =>
         [\A u \in db.users : InForce(u) =>
             \/ \E w \in UserOf(db', u.id) : InForce(w)
             \/ UserOf(db', u.id) = {}
             \/ \E w \in UserOf(db', u.id) : Over(w)
             \/ u.id \in contested
             \/ \E p \in Requests : pc[p] = "update_user"
                                    /\ call[p].op \in {"unban", "update_user"}]_vars
  <2> SUFFICES ASSUME BansSeen, Next, NEW u \in db.users, InForce(u)
               PROVE  \/ \E w \in UserOf(db', u.id) : InForce(w)
                      \/ UserOf(db', u.id) = {}
                      \/ \E w \in UserOf(db', u.id) : Over(w)
                      \/ u.id \in contested
                      \/ \E p \in Requests : pc[p] = "update_user"
                                             /\ call[p].op \in {"unban", "update_user"}
    OBVIOUS
  <2>0. Typed /\ \A p \in Requests : BanSeenBy(p)
    BY DEF BansSeen
  <2>1. CASE BansEnd
    BY <2>0, <2>1, BanRows
  <2>2. ASSUME NEW p \in Requests, Arrived(p)
        PROVE  \E w \in UserOf(db', u.id) : InForce(w)
    BY <2>2 DEF Arrived, SendsRead, UserOf
  <2>3. ASSUME NEW q \in Requests, pc[q] # "idle", Stepped(q),
               pc[q] \in {"lift_ban", "lift_first"}, local[q].user = u.id
        PROVE  u.id \in contested
    BY <2>0, <2>3 DEF BanSeenBy, UserOf
  <2>4. ASSUME NEW q \in Requests, pc[q] # "idle", Stepped(q)
        PROVE  \/ \E w \in UserOf(db', u.id) : InForce(w)
               \/ UserOf(db', u.id) = {}
               \/ u.id \in contested
               \/ \E p \in Requests : pc[p] = "update_user"
                                      /\ call[p].op \in {"unban", "update_user"}
    BY <2>0, <2>3, <2>4, UserRows DEF Stepped
  <2> QED BY <2>0, <2>1, <2>2, <2>4, Moves
<1> QED BY <1>1, <1>2, <1>3, PTL DEF Spec, BanStands

-----------------------------------------------------------------------------
(* A single-use secret is honoured twice only for requests under way at    *)
(* once, while the states of flows are kept in the database.               *)

\* The endpoints that keep the id of their secret in local[p].row, and those to
\* which it is given.
Redeeming == {"register", "authenticate", "delete_user", "delete_callback"}
Presenting == {"reset", "callback"}
SecretOf(p) == IF call[p].op \in Presenting THEN call[p].secret ELSE local[p].row

\* Between the statement that reads a secret and the one that deletes it.
Holding(x, op) ==
    \/ op = "reset" /\ x \in {"find_credential", "write_password", "add_credential", "delete_token"}
    \/ op \in {"register", "authenticate"}
         /\ x \in {"find_passkey", "update_passkey", "find_passkey_user", "create_passkey",
                   "drop_challenge"}
    \/ op \in {"delete_user", "delete_callback"}
         /\ x \in {"delete_sessions", "list_accounts", "delete_account", "delete_keys",
                   "delete_user", "drop_delete_token"}
    \/ op = "callback" /\ x = "drop_state"

Gone(d, ids) == \A v \in d.verifications : v.id \notin ids

SpentBy(p) ==
    pc[p] # "idle" =>
        /\ local[p].spent \subseteq {SecretOf(p)}
        /\ local[p].spent \subseteq 1 .. Len(kind)
        /\ call[p].op \notin Redeeming \cup Presenting => local[p].spent = {}
        /\ local[p].spent \cap honoured \subseteq contested
        /\ Holding(pc[p], call[p].op) \/ Gone(db, local[p].spent)

SecretsSpent ==
    /\ Typed /\ Overlap
    /\ SpentOnce
    /\ honoured \subseteq 1 .. Len(kind) /\ Gone(db, honoured)
    /\ \A p \in Requests : SpentBy(p)

\* What a step does with the secrets its answer is to rest on: it refuses, answers
\* on them, or goes on with them.
Denies(p) == pc'[p] = "idle" /\ UNCHANGED <<honoured, twice>>
Honours(p) == /\ pc'[p] = "idle"
              /\ honoured' = honoured \cup local[p].spent
              /\ twice' = twice \cup (honoured \cap local[p].spent)
Proceeds(p) == /\ UNCHANGED <<honoured, twice>> /\ call'[p] = call[p]
               /\ local'[p].spent = local[p].spent
               /\ local'[p].row = local[p].row \/ call[p].op \notin Redeeming
Carries(p) == Denies(p) \/ Honours(p) \/ Proceeds(p)

LEMMA Carrying ==
    ASSUME Typed, NEW p \in Requests
    PROVE  /\ Refuse(p) => Denies(p)
           /\ GiveUp(p) => Denies(p)
           /\ \A l : Answer(p, l) /\ l.spent = local[p].spent => Honours(p)
           /\ \A label, l : Goto(p, label, l) /\ l.spent = local[p].spent
                               /\ (l.row = local[p].row \/ call[p].op \notin Redeeming)
                            => Proceeds(p)
           /\ \A label, l : Continue(p, label, l) /\ l.spent = local[p].spent
                               /\ (l.row = local[p].row \/ call[p].op \notin Redeeming)
                            => Proceeds(p) \/ Honours(p)
<1>0. /\ pc = [q \in Requests |-> pc[q]] /\ call = [q \in Requests |-> call[q]]
      /\ local = [q \in Requests |-> local[q]]
  BY DEF Typed
<1>1. (Refuse(p) => Denies(p)) /\ (GiveUp(p) => Denies(p))
  BY <1>0 DEF Refuse, GiveUp, Drop, Denies, history
<1>2. \A l : Answer(p, l) /\ l.spent = local[p].spent => Honours(p)
  BY <1>0 DEF Answer, Drop, Honours
<1>3. \A label, l : Goto(p, label, l) /\ l.spent = local[p].spent
                       /\ (l.row = local[p].row \/ call[p].op \notin Redeeming)
                    => Proceeds(p)
  BY <1>0 DEF Goto, Proceeds, history
<1>4. \A label, l : Continue(p, label, l) /\ l.spent = local[p].spent
                       /\ (l.row = local[p].row \/ call[p].op \notin Redeeming)
                    => Proceeds(p) \/ Honours(p)
  BY <1>2, <1>3 DEF Continue
<1> QED BY <1>1, <1>2, <1>3, <1>4

LEMMA SharedCarries ==
    ASSUME Typed, NEW p \in Requests, pc[p] # "idle", SharedStep(p)
    PROVE  Carries(p)
<1>0. local[p] \in Local
  BY StillThere
<1>1. CASE ReadBan(p)
  BY <1>1, Carrying DEF ReadBan, Carries
<1>2. CASE LiftBanAndIssue(p)
  BY <1>2, Carrying DEF LiftBanAndIssue, LiftBan, Carries
<1>3. CASE ListAccounts(p)
  BY <1>0, <1>3, Carrying DEF ListAccounts, Carries, Local
<1>4. CASE DeleteOneAccount(p)
  BY <1>0, <1>4, Carrying DEF DeleteOneAccount, Carries, Local
<1>5. CASE DeleteUserKeys(p)
  BY <1>5, Carrying DEF DeleteUserKeys, Carries
<1>6. CASE StatementFails(p)
  BY <1>6, Carrying DEF StatementFails, Carries
<1> QED BY <1>1, <1>2, <1>3, <1>4, <1>5, <1>6 DEF SharedStep

LEMMA CredentialCarries ==
    ASSUME Typed, NEW p \in Requests, pc[p] # "idle", CredentialStep(p)
    PROVE  Carries(p)
<1>0. local[p] \in Local /\ At(pc[p], call[p], local[p])
  BY StillThere
<1>1. CASE CheckEmail(p)
  BY <1>1, Carrying DEF CheckEmail, Carries
<1>2. CASE SignUp(p)
  BY <1>0, <1>2, Carrying DEF SignUp, Carries, Local
<1>3. CASE CheckPassword(p) \/ CheckUnverified(p)
  BY <1>3, Carrying DEF CheckPassword, CheckUnverified, Carries
<1>4. CASE SignIn(p) \/ Reissue(p)
  BY <1>0, <1>4, Carrying DEF SignIn, Reissue, StoreSession, Carries, Local
<1>5. CASE StoreToken(p)
  BY <1>0, <1>5, Carrying DEF StoreToken, Carries, Local
<1>6. CASE FindPasswordRow(p)
  <2>1. call[p].op \notin Redeeming
    BY <1>0, <1>6 DEF At, FindPasswordRow, Redeeming
  <2> QED BY <1>0, <1>6, <2>1, Carrying DEF FindPasswordRow, FindCredential, Carries, Local
<1>7. CASE WriteNewPassword(p)
  BY <1>0, <1>7, Carrying DEF WriteNewPassword, WritePassword, Carries, Local
<1>8. CASE AddPassword(p)
  BY <1>8, Carrying DEF AddPassword, AddCredential, Carries
<1>9. CASE DeleteToken(p)
  BY <1>9, Carrying DEF DeleteToken, Carries
<1>10. CASE RevokeSessions(p)
  BY <1>10, Carrying DEF RevokeSessions, DeleteSessions, Carries
<1>11. CASE Reread(p)
  BY <1>11, Carrying DEF Reread, Carries
<1> QED BY <1>1, <1>2, <1>3, <1>4, <1>5, <1>6, <1>7, <1>8, <1>9, <1>10, <1>11 DEF CredentialStep

LEMMA AdminCarries ==
    ASSUME Typed, NEW p \in Requests, pc[p] # "idle", AdminStep(p)
    PROVE  Carries(p)
<1>0. local[p] \in Local
  BY StillThere
<1>1. CASE AdminCreateUser(p)
  BY <1>0, <1>1, Carrying DEF AdminCreateUser, Carries, Local
<1>2. CASE CheckOwnName(p)
  BY <1>2, Carrying DEF CheckOwnName, Carries
<1>3. CASE UpdateTarget(p)
  BY <1>0, <1>3, Carrying DEF UpdateTarget, Carries, Local
<1>4. CASE FindTarget(p)
  BY <1>4, Carrying DEF FindTarget, Carries
<1>5. CASE LiftBanFirst(p)
  BY <1>5, Carrying DEF LiftBanFirst, LiftBan, Carries
<1>6. CASE Impersonate(p)
  BY <1>0, <1>6, Carrying DEF Impersonate, StoreSession, Carries, Local
<1>7. CASE FindAdmin(p) \/ FindOwnSession(p) \/ EndImpersonation(p) \/ RevokeSession(p)
  BY <1>7, Carrying DEF FindAdmin, FindOwnSession, EndImpersonation, RevokeSession, Carries
<1>8. CASE RevokeTargetSessions(p)
  BY <1>8, Carrying DEF RevokeTargetSessions, DeleteSessions, Carries
<1>9. CASE RemoveUser(p)
  BY <1>9, Carrying DEF RemoveUser, DeleteUserRow, Carries
<1> QED BY <1>1, <1>2, <1>3, <1>4, <1>5, <1>6, <1>7, <1>8, <1>9 DEF AdminStep

LEMMA ProfileCarries ==
    ASSUME Typed, NEW p \in Requests, pc[p] # "idle", ProfileStep(p)
    PROVE  Carries(p) \/ FindDeleteToken(p)
<1>0. local[p] \in Local
  BY StillThere
<1>1. CASE CheckAddress(p)
  BY <1>1, Carrying DEF CheckAddress, Carries
<1>2. ASSUME NEW change, NEW label, WriteUser(p, change, label)
      PROVE  Carries(p)
  BY <1>2, Carrying DEF WriteUser, Carries
<1>3. CASE UpdateAddress(p) \/ ChangeAddress(p) \/ MarkVerified(p)
  BY <1>2, <1>3 DEF UpdateAddress, ChangeAddress, MarkVerified
<1>4. CASE MailLink(p)
  BY <1>4, Carrying DEF MailLink, Carries
<1>5. CASE FindByEmail(p)
  BY <1>0, <1>5, Carrying DEF FindByEmail, Carries, Local
<1>6. CASE SessionForLink(p)
  BY <1>0, <1>6, Carrying DEF SessionForLink, StoreSession, Carries, Local
<1>7. CASE CheckDeletionPassword(p)
  BY <1>7, Carrying DEF CheckDeletionPassword, Carries
<1>8. CASE StoreDeleteToken(p)
  BY <1>0, <1>8, Carrying DEF StoreDeleteToken, Carries, Local
<1>9. CASE DeleteOwnSessions(p)
  BY <1>9, Carrying DEF DeleteOwnSessions, DeleteSessions, Carries
<1>10. CASE DeleteOneself(p)
  BY <1>10, Carrying DEF DeleteOneself, DeleteUserRow, Carries
<1>11. CASE DropDeleteToken(p)
  BY <1>11, Carrying DEF DropDeleteToken, Carries
<1>12. CASE CreateKey(p)
  BY <1>0, <1>12, Carrying DEF CreateKey, Carries, Local
<1> QED BY <1>1, <1>3, <1>4, <1>5, <1>6, <1>7, <1>8, <1>9, <1>10, <1>11, <1>12 DEF ProfileStep

LEMMA PasskeyCarries ==
    ASSUME Typed, NEW p \in Requests, pc[p] # "idle", PasskeyStep(p)
    PROVE  Carries(p) \/ FindRegistration(p)
<1>0. local[p] \in Local
  BY StillThere
<1>1. CASE ListPasskeys(p)
  BY <1>0, <1>1, Carrying DEF ListPasskeys, Carries, Local
<1>2. CASE StoreChallenge(p)
  BY <1>0, <1>2, Carrying DEF StoreChallenge, Carries, Local
<1>3. CASE StorePasskey(p)
  BY <1>3, Carrying DEF StorePasskey, Carries
<1>4. CASE FindPasskey(p)
  BY <1>0, <1>4, Carrying DEF FindPasskey, Carries, Local
<1>5. CASE WritePasskey(p)
  BY <1>0, <1>5, Carrying DEF WritePasskey, Carries, Local
<1>6. CASE FindPasskeyUser(p) \/ DropChallenge(p) \/ CheckOwner(p) \/ RemovePasskey(p)
  BY <1>6, Carrying DEF FindPasskeyUser, DropChallenge, CheckOwner, RemovePasskey, Carries
<1>7. CASE SignInWithPasskey(p)
  BY <1>0, <1>7, Carrying DEF SignInWithPasskey, StoreSession, Carries, Local
<1> QED BY <1>1, <1>2, <1>3, <1>4, <1>5, <1>6, <1>7 DEF PasskeyStep

LEMMA SocialCarries ==
    ASSUME Typed, NEW p \in Requests, pc[p] # "idle", SocialStep(p)
    PROVE  Carries(p)
<1>0. local[p] \in Local /\ At(pc[p], call[p], local[p])
  BY StillThere
<1>1. CASE StoreState(p)
  BY <1>0, <1>1, Carrying DEF StoreState, Carries, Local
<1>2. CASE FindLinkUser(p)
  BY <1>0, <1>2, Carrying DEF FindLinkUser, Carries, Local
<1>3. CASE FindLinked(p)
  BY <1>3, Carrying DEF FindLinked, Carries
<1>4. CASE DropState(p)
  <2>1. call[p].op \notin Redeeming
    BY <1>0, <1>4 DEF At, DropState, Redeeming
  <2> QED BY <1>0, <1>4, <2>1, Carrying DEF DropState, Carries, Local
<1>5. CASE FindAccount(p)
  BY <1>0, <1>5, Carrying DEF FindAccount, Carries, Local
<1>6. CASE WriteTokens(p)
  BY <1>6, Carrying DEF WriteTokens, Carries
<1>7. CASE FindAccountUser(p)
  BY <1>7, Carrying DEF FindAccountUser, Carries
<1>8. ASSUME NEW change, NEW label, WriteUser(p, change, label)
      PROVE  Carries(p)
  BY <1>8, Carrying DEF WriteUser, Carries
<1>9. CASE MarkReported(p) \/ OverrideUser(p)
  BY <1>8, <1>9 DEF MarkReported, OverrideUser
<1>10. CASE FindByReport(p)
  BY <1>0, <1>10, Carrying DEF FindByReport, Carries, Local
<1>11. CASE CreateSocialUser(p)
  BY <1>0, <1>11, Carrying DEF CreateSocialUser, Carries, Local
<1>12. CASE CreateSocialAccount(p)
  BY <1>0, <1>12, Carrying DEF CreateSocialAccount, Carries, Local
<1>13. CASE SocialSession(p)
  BY <1>0, <1>13, Carrying DEF SocialSession, StoreSession, Carries, Local
<1>14. call[p].op \in Tokens => call[p].op \notin Redeeming
  BY DEF Tokens, Redeeming
<1>15. CASE FindInfo(p)
  <2>1. call[p].op \notin Redeeming
    BY <1>0, <1>15 DEF At, FindInfo, Redeeming
  <2> QED BY <1>0, <1>15, <2>1, Carrying DEF FindInfo, CopyOf, Carries, Local
<1>16. CASE FindTokens(p)
  <2>1. call[p].op \notin Redeeming
    BY <1>0, <1>14, <1>16 DEF At, FindTokens
  <2> QED BY <1>0, <1>16, <2>1, Carrying DEF FindTokens, Carries, Local
<1>17. CASE Exchange(p)
  <2>1. call[p].op \notin Redeeming
    BY <1>0, <1>14, <1>17 DEF At, Exchange
  <2> QED BY <1>0, <1>17, <2>1, Carrying DEF Exchange, Carries, Local
<1>18. CASE AnswerFromCookie(p) \/ HasPassword(p) \/ Unlink(p)
  BY <1>18, Carrying DEF AnswerFromCookie, HasPassword, Unlink, Carries
<1>19. CASE ListToUnlink(p)
  BY <1>0, <1>19, Carrying DEF ListToUnlink, Carries, Local
<1> QED BY <1>1, <1>2, <1>3, <1>4, <1>5, <1>6, <1>7, <1>9, <1>10, <1>11, <1>12, <1>13, <1>15, <1>16,
           <1>17, <1>18, <1>19 DEF SocialStep

LEMMA Carried ==
    ASSUME Typed, NEW p \in Requests, pc[p] # "idle", Step(p)
    PROVE  Carries(p) \/ FindDeleteToken(p) \/ FindRegistration(p)
  BY SharedCarries, CredentialCarries, AdminCarries, ProfileCarries, PasskeyCarries, SocialCarries
     DEF Step

\* The statements between the one that reads a secret and the one that deletes it.
LEMMA HoldingSteps ==
    ASSUME Typed, NEW p \in Requests, pc[p] # "idle", Step(p), Holding(pc[p], call[p].op)
    PROVE  \/ StatementFails(p) \/ ListAccounts(p) \/ DeleteOneAccount(p) \/ DeleteUserKeys(p)
           \/ FindPasswordRow(p) \/ WriteNewPassword(p) \/ AddPassword(p) \/ DeleteToken(p)
           \/ DeleteOwnSessions(p) \/ DeleteOneself(p) \/ DropDeleteToken(p)
           \/ StorePasskey(p) \/ FindPasskey(p) \/ WritePasskey(p) \/ FindPasskeyUser(p)
           \/ DropChallenge(p) \/ DropState(p)
<1>1. CASE SharedStep(p)
  BY <1>1 DEF SharedStep, ReadBan, LiftBanAndIssue, Holding
<1>2. CASE CredentialStep(p)
  BY <1>2 DEF CredentialStep, CheckEmail, SignUp, CheckPassword, CheckUnverified, SignIn,
              StoreToken, RevokeSessions, Reissue, Reread, CredentialOps, Holding
<1>3. CASE AdminStep(p)
  BY <1>3 DEF AdminStep, AdminCreateUser, CheckOwnName, UpdateTarget, FindTarget, LiftBanFirst,
              Impersonate, FindAdmin, FindOwnSession, EndImpersonation, RevokeSession,
              RevokeTargetSessions, RemoveUser, DeleteUserRow, AdminOps, Holding
<1>4. CASE ProfileStep(p)
  BY <1>4 DEF ProfileStep, CheckAddress, UpdateAddress, MailLink, FindByEmail, SessionForLink,
              ChangeAddress, MarkVerified, CheckDeletionPassword, StoreDeleteToken,
              FindDeleteToken, CreateKey, Holding
<1>5. CASE PasskeyStep(p)
  BY <1>5 DEF PasskeyStep, ListPasskeys, StoreChallenge, FindRegistration, SignInWithPasskey,
              CheckOwner, RemovePasskey, Holding
<1>6. CASE SocialStep(p)
  BY <1>6 DEF SocialStep, StoreState, FindLinkUser, FindLinked, FindAccount, WriteTokens,
              FindAccountUser, MarkReported, OverrideUser, FindByReport, CreateSocialUser,
              CreateSocialAccount, SocialSession, FindInfo, FindTokens, Exchange,
              AnswerFromCookie, ListToUnlink, HasPassword, Unlink, Holding
<1> QED BY <1>1, <1>2, <1>3, <1>4, <1>5, <1>6 DEF Step

LEMMA Releasing ==
    ASSUME ~ StateInCookie, Typed, NEW p \in Requests, pc[p] # "idle", Step(p), SpentBy(p),
           Holding(pc[p], call[p].op)
    PROVE  Denies(p) \/ Holding(pc'[p], call[p].op) \/ Gone(db', local[p].spent)
<1>0. /\ db \in Database /\ local[p] \in Local /\ At(pc[p], call[p], local[p])
      /\ local[p].spent \subseteq {SecretOf(p)} /\ local[p].spent \subseteq 1 .. Len(kind)
  BY Now, StillThere DEF SpentBy
<1>1. \A i : local[p].spent \subseteq {i} /\ db' = DeleteVerification(db, i)
               => Gone(db', local[p].spent)
  BY <1>0 DEF DeleteVerification, Database, Gone
<1>2. CASE StatementFails(p)
  BY <1>2, Carrying DEF StatementFails
<1>3. CASE ListAccounts(p)
  BY <1>3, Lands DEF ListAccounts, Holding
<1>4. CASE DeleteOneAccount(p)
  <2>1. call[p].op \in {"delete_user", "delete_callback"}
    BY <1>4 DEF DeleteOneAccount, Holding
  <2>2. Refuse(p) \/ pc'[p] \in {"delete_keys", "delete_account"}
    BY <1>4 DEF DeleteOneAccount, Goto, Typed
  <2> QED BY <2>1, <2>2, Carrying DEF Holding
<1>5. CASE DeleteUserKeys(p)
  BY <1>5, Lands, Carrying DEF DeleteUserKeys, Holding
<1>6. CASE FindPasswordRow(p)
  BY <1>6, Lands DEF FindPasswordRow, FindCredential, Holding
<1>7. call[p].op = "reset" => AfterWrite(call[p]) = "delete_token"
  BY DEF AfterWrite
<1>8. CASE WriteNewPassword(p)
  <2>1. Refuse(p) \/ pc'[p] = "delete_token"
    BY <1>7, <1>8 DEF WriteNewPassword, WritePassword, Holding, Continue, Goto, Typed
  <2> QED BY <1>8, <2>1, Carrying DEF WriteNewPassword, Holding
<1>9. CASE AddPassword(p)
  <2>1. Refuse(p) \/ pc'[p] = "delete_token"
    BY <1>7, <1>9 DEF AddPassword, AddCredential, Holding, Continue, Goto, Typed
  <2> QED BY <1>9, <2>1, Carrying DEF AddPassword, Holding
<1>10. CASE DeleteToken(p)
  <2>1. call[p].op = "reset" /\ db' = DeleteVerification(db, call[p].secret)
    BY <1>0, <1>10 DEF DeleteToken, At
  <2> QED BY <1>0, <1>1, <2>1 DEF SecretOf, Presenting
<1>11. CASE DeleteOwnSessions(p)
  BY <1>11 DEF DeleteOwnSessions, DeleteSessions, Continue, Goto, Typed, Holding
<1>12. CASE DeleteOneself(p)
  <2>1. pc[p] = "delete_user" /\ call[p].op \in {"delete_user", "delete_callback"}
    BY <1>12 DEF DeleteOneself, DeleteUserRow
  <2>2. CASE local[p].row = None
    <3>1. local[p].spent \subseteq {None} /\ None \notin 1 .. Len(kind)
      BY <1>0, <2>1, <2>2, Now DEF SecretOf, Presenting
    <3> QED BY <1>0, <3>1 DEF Gone
  <2>3. CASE local[p].row # None
    BY <1>12, <2>1, <2>3 DEF DeleteOneself, DeleteUserRow, Continue, Goto, Typed, Holding
  <2> QED BY <2>2, <2>3
<1>13. CASE DropDeleteToken(p)
  <2>1. call[p].op \notin Presenting /\ db' = DeleteVerification(db, local[p].row)
    BY <1>0, <1>13 DEF DropDeleteToken, At, Presenting
  <2> QED BY <1>0, <1>1, <2>1 DEF SecretOf
<1>14. CASE StorePasskey(p)
  BY <1>14, Lands, Carrying DEF StorePasskey, Holding
<1>15. CASE FindPasskey(p)
  BY <1>15, Carrying DEF FindPasskey, Goto, Typed, Holding
<1>16. CASE WritePasskey(p)
  BY <1>16, Carrying DEF WritePasskey, Goto, Typed, Holding
<1>17. CASE FindPasskeyUser(p)
  BY <1>17, Lands, Carrying DEF FindPasskeyUser, Holding
<1>18. CASE DropChallenge(p)
  <2>1. call[p].op \notin Presenting /\ db' = DeleteVerification(db, local[p].row)
    BY <1>0, <1>18 DEF DropChallenge, ChallengeGone, At, Presenting
  <2> QED BY <1>0, <1>1, <2>1 DEF SecretOf
<1>19. CASE DropState(p)
  <2>1. call[p].op = "callback" /\ db' = DeleteVerification(db, call[p].secret)
    BY <1>0, <1>19 DEF DropState, StateGone, At
  <2> QED BY <1>0, <1>1, <2>1 DEF SecretOf, Presenting
<1> QED BY <1>2, <1>3, <1>4, <1>5, <1>6, <1>8, <1>9, <1>10, <1>11, <1>12, <1>13, <1>14, <1>15,
           <1>16, <1>17, <1>18, <1>19, HoldingSteps

\* A request that arrives has spent nothing, or the secret it has just read.
LEMMA Presented ==
    ASSUME ~ StateInCookie, Typed, NEW p \in Requests, pc[p] = "idle", NEW op \in Ops,
           NEW c \in Possible(op), Arrives(p, c)
    PROVE  /\ UNCHANGED <<honoured, twice>> /\ call'[p] = c
           /\ \/ local'[p].spent = {}
              \/ \E v \in db.verifications :
                    /\ local'[p].spent = {v.id}
                    /\ v.id = IF c.op \in Presenting THEN c.secret ELSE local'[p].row
                    /\ c.op \in Redeeming \cup Presenting
                    /\ Holding(pc'[p], c.op)
<1>0. c.op = op /\ op \in AllOps
  BY PossibleAsked, IdentityAssumption DEF Typed
<1>1. \/ CredentialArrives(p, c) \/ AdminArrives(p, c) \/ ProfileArrives(p, c)
      \/ PasskeyArrives(p, c) \/ SocialArrives(p, c)
  BY <1>0 DEF Arrives, AllOps
<1>2. ASSUME NEW label, NEW l, Arrive(p, c, label, l)
      PROVE  /\ UNCHANGED <<honoured, twice>> /\ call'[p] = c /\ pc'[p] = label /\ local'[p] = l
  BY <1>2 DEF Arrive, Typed
<1>3. CASE SignUpArrives(p, c) \/ StartArrives(p, c) \/ IdTokenArrives(p, c)
  BY <1>2, <1>3 DEF SignUpArrives, StartArrives, IdTokenArrives, Blank
<1>4. CASE NamedArrives(p, c) \/ CurrentUserArrives(p, c)
  <2>1. \A i : [Blank EXCEPT !.user = i].spent = {}
    BY DEF Blank
  <2>2. \E label, i : Arrive(p, c, label, [Blank EXCEPT !.user = i])
    BY <1>4 DEF NamedArrives, CurrentUserArrives
  <2> QED BY <1>2, <2>1, <2>2
<1>5. CASE ResetArrives(p, c)
  <2>1. c.op = "reset" /\ c.op \in Presenting
    BY <1>5 DEF ResetArrives, Presenting
  <2>2. PICK v \in VerificationOf(db, c.secret, "reset") :
           Arrive(p, c, "find_credential", [Blank EXCEPT !.user = v.about, !.spent = {v.id}])
    BY <1>5 DEF ResetArrives
  <2>3. [Blank EXCEPT !.user = v.about, !.spent = {v.id}].spent = {v.id}
    BY DEF Blank
  <2>4. v \in db.verifications /\ v.id = c.secret
    BY <2>2 DEF VerificationOf
  <2>5. Holding("find_credential", c.op)
    BY <2>1 DEF Holding
  <2> QED BY <1>2, <2>1, <2>2, <2>3, <2>4, <2>5
<1>6. CASE AdminArrives(p, c)
  <2>1. \A i, j : [Blank EXCEPT !.user = i, !.row = j].spent = {}
    BY DEF Blank
  <2>2. \A i : [Blank EXCEPT !.user = i].spent = {}
    BY DEF Blank
  <2>3. \/ \E label, i, j : Arrive(p, c, label, [Blank EXCEPT !.user = i, !.row = j])
        \/ \E label, i : Arrive(p, c, label, [Blank EXCEPT !.user = i])
    BY <1>6 DEF AdminArrives, AuthorizedArrives, StopArrives
  <2>4. \E label, l : Arrive(p, c, label, l) /\ l.spent = {}
    BY <2>1, <2>2, <2>3
  <2> QED BY <1>2, <2>4
<1>7. CASE ProfileArrives(p, c)
  <2>1. \A i, k : [Blank EXCEPT !.user = i, !.link = k].spent = {}
    BY DEF Blank
  <2>2. \A i : [Blank EXCEPT !.user = i].spent = {} /\ [Blank EXCEPT !.row = i].spent = {}
    BY DEF Blank
  <2>3. \/ \E label, i, k : Arrive(p, c, label, [Blank EXCEPT !.user = i, !.link = k])
        \/ \E label, i : Arrive(p, c, label, [Blank EXCEPT !.user = i])
        \/ \E label, i : Arrive(p, c, label, [Blank EXCEPT !.row = i])
    BY <1>7 DEF ProfileArrives, SendArrives, ChangeEmailArrives, VerifyArrives, DeletionArrives,
                CreateKeyArrives
  <2>4. \E label, l : Arrive(p, c, label, l) /\ l.spent = {}
    BY <2>1, <2>2, <2>3
  <2> QED BY <1>2, <2>4
<1>8. CASE OptionsArrive(p, c) \/ RegisterArrives(p, c) \/ DeletePasskeyArrives(p, c)
  <2>1. \A i : [Blank EXCEPT !.user = i].spent = {}
    BY DEF Blank
  <2>2. \E label, i : Arrive(p, c, label, [Blank EXCEPT !.user = i])
    BY <1>8 DEF OptionsArrive, RegisterArrives, DeletePasskeyArrives
  <2> QED BY <1>2, <2>1, <2>2
<1>9. CASE AuthenticateArrives(p, c)
  <2>1. c.op = "authenticate" /\ c.op \in Redeeming /\ c.op \notin Presenting
    BY <1>9 DEF AuthenticateArrives, Redeeming, Presenting
  <2>2. PICK v \in VerificationOf(db, c.secret, "login") :
           Arrive(p, c, "find_passkey",
                  [Blank EXCEPT !.row = v.id, !.keys = v.keys, !.spent = {v.id}])
    BY <1>9 DEF AuthenticateArrives
  <2>3. /\ [Blank EXCEPT !.row = v.id, !.keys = v.keys, !.spent = {v.id}].spent = {v.id}
        /\ [Blank EXCEPT !.row = v.id, !.keys = v.keys, !.spent = {v.id}].row = v.id
    BY DEF Blank
  <2>4. v \in db.verifications
    BY <2>2 DEF VerificationOf
  <2>5. Holding("find_passkey", c.op)
    BY <2>1 DEF Holding
  <2> QED BY <1>2, <2>1, <2>2, <2>3, <2>4, <2>5
<1>10. CASE LinkArrives(p, c) \/ InfoArrives(p, c) \/ RefreshArrives(p, c) \/ UnlinkArrives(p, c)
  <2>1. \A i : [Blank EXCEPT !.user = i].spent = {} /\ CopyOf(c, [Blank EXCEPT !.user = i]).spent = {}
    BY DEF Blank, CopyOf
  <2>2. \/ \E label, i : Arrive(p, c, label, [Blank EXCEPT !.user = i])
        \/ \E label, i : Arrive(p, c, label, CopyOf(c, [Blank EXCEPT !.user = i]))
    BY <1>10 DEF LinkArrives, InfoArrives, RefreshArrives, UnlinkArrives
  <2> QED BY <1>2, <2>1, <2>2
<1>11. CASE CallbackArrives(p, c)
  <2>1. c.op = "callback" /\ c.op \in Presenting
    BY <1>11 DEF CallbackArrives, Presenting
  <2>2. PICK v \in StateOf(db, c.secret) :
           Arrive(p, c, "drop_state",
                  [Blank EXCEPT !.user = v.about, !.link.email = v.email, !.spent = {v.id}])
    BY <1>11 DEF CallbackArrives
  <2>3. [Blank EXCEPT !.user = v.about, !.link.email = v.email, !.spent = {v.id}].spent = {v.id}
    BY DEF Blank
  <2>4. v \in db.verifications /\ v.id = c.secret
    BY <2>2 DEF StateOf, States
  <2>5. Holding("drop_state", c.op)
    BY <2>1 DEF Holding
  <2> QED BY <1>2, <2>1, <2>2, <2>3, <2>4, <2>5
<1> QED BY <1>1, <1>3, <1>4, <1>5, <1>6, <1>7, <1>8, <1>9, <1>10, <1>11
        DEF CredentialArrives, PasskeyArrives, SocialArrives

LEMMA SecretsStaySpent ==
    ASSUME ~ StateInCookie, SecretsSpent, [Next]_vars
    PROVE  SecretsSpent'
<1>0. /\ Typed /\ Overlap /\ SpentOnce /\ honoured \subseteq 1 .. Len(kind) /\ Gone(db, honoured)
      /\ (\A p \in Requests : SpentBy(p)) /\ Len(kind) \in Nat /\ fresh = Len(kind) + 1
  BY Now DEF SecretsSpent
<1>1. Typed' /\ Overlap' /\ contested \subseteq contested'
  BY <1>0, TypedStays, OverlapStays
<1>2. CASE UNCHANGED vars
  BY <1>0, <1>1, <1>2 DEF vars, history, watched, SecretsSpent, SpentBy, SecretOf, SpentOnce, Gone
<1>3. CASE BansEnd
  <2>1. /\ db'.verifications = db.verifications /\ pc' = pc /\ local' = local /\ call' = call
        /\ kind' = kind /\ UNCHANGED <<honoured, twice>>
    BY <1>0, <1>3, BanRows DEF OnlyUsers
  <2>2. SpentOnce' /\ \A p \in Requests : SpentBy(p)'
    BY <1>0, <1>1, <2>1 DEF SpentOnce, SpentBy, SecretOf, Gone
  <2> QED BY <1>0, <1>1, <2>1, <2>2 DEF SecretsSpent, Gone
<1>4. ASSUME NEW p \in Requests, pc[p] = "idle", Arrived(p), NEW op \in Ops,
             NEW c \in Possible(op), Arrives(p, c)
      PROVE  SecretsSpent'
  <2>1. /\ db' = db /\ kind' = kind
        /\ \A q \in Requests \ {p} : pc'[q] = pc[q] /\ local'[q] = local[q] /\ call'[q] = call[q]
    BY <1>4 DEF Arrived, SendsRead, Settled, KeepIds
  <2>2. /\ UNCHANGED <<honoured, twice>> /\ call'[p] = c
        /\ \/ local'[p].spent = {}
           \/ \E v \in db.verifications :
                 /\ local'[p].spent = {v.id}
                 /\ v.id = IF c.op \in Presenting THEN c.secret ELSE local'[p].row
                 /\ c.op \in Redeeming \cup Presenting
                 /\ Holding(pc'[p], c.op)
    BY <1>0, <1>4, Presented
  <2>3. SpentBy(p)'
    <3>1. CASE local'[p].spent = {}
      BY <3>1 DEF SpentBy, Gone
    <3>2. ASSUME NEW v \in db.verifications, local'[p].spent = {v.id},
                 v.id = IF c.op \in Presenting THEN c.secret ELSE local'[p].row,
                 c.op \in Redeeming \cup Presenting, Holding(pc'[p], c.op)
          PROVE  SpentBy(p)'
      <4>1. v.id \notin honoured
        BY <1>0 DEF Gone
      <4>2. v.id \in 1 .. Len(kind)
        <5>1. v.id <= Len(kind) /\ v.id \in Id
          BY <1>0, Now DEF Good, Drawn, Database, Verification
        <5> QED BY <1>0, <5>1 DEF Id
      <4> QED BY <2>1, <2>2, <3>2, <4>1, <4>2 DEF SpentBy, SecretOf
    <3> QED BY <2>2, <3>1, <3>2
  <2>4. \A q \in Requests \ {p} : SpentBy(q)'
    BY <1>0, <1>1, <2>1, <2>2 DEF SpentBy, SecretOf
  <2> QED BY <1>0, <1>1, <2>1, <2>2, <2>3, <2>4 DEF SecretsSpent, SpentOnce
<1>5. ASSUME NEW q \in Requests, pc[q] # "idle", Step(q), Stepped(q)
      PROVE  SecretsSpent'
  <2>0. /\ Sends(q) /\ Len(kind) <= Len(kind') /\ Len(kind') \in Nat
        /\ \A p \in Requests \ {q} : pc'[p] = pc[p] /\ local'[p] = local[p] /\ call'[p] = call[p]
    BY <1>5 DEF Stepped, Settled, Left
  <2>1. \A v \in db'.verifications : v \in db.verifications \/ v.id = fresh
    BY <1>0, <1>5, <2>0, SecretRows
  <2>2. \A ids : ids \subseteq 1 .. Len(kind) /\ Gone(db, ids) => Gone(db', ids)
    BY <1>0, <2>1 DEF Gone
  <2>3. SpentBy(q)
    BY <1>0
  <2>4. Holding(pc[q], call[q].op) =>
           Denies(q) \/ Holding(pc'[q], call[q].op) \/ Gone(db', local[q].spent)
    BY <1>0, <1>5, <2>3, Releasing
  <2>5. ASSUME FindDeleteToken(q) \/ FindRegistration(q)
        PROVE  /\ UNCHANGED <<honoured, twice>>
               /\ pc'[q] # "idle" =>
                     /\ call'[q] = call[q] /\ call[q].op \in Redeeming
                     /\ Holding(pc'[q], call[q].op)
                     /\ \E v \in db.verifications : local'[q].spent = {v.id} /\ local'[q].row = v.id
    <3>0. local[q] \in Local /\ At(pc[q], call[q], local[q])
      BY <1>0, <1>5, StillThere
    <3>1. CASE Refuse(q)
      BY <1>0, <3>1, Carrying DEF Denies
    <3>2. ASSUME NEW v \in db.verifications, NEW label,
                 Goto(q, label, [local[q] EXCEPT !.row = v.id, !.spent = {v.id}]),
                 call[q].op \in Redeeming, Holding(label, call[q].op)
          PROVE  /\ UNCHANGED <<honoured, twice>> /\ call'[q] = call[q]
                 /\ Holding(pc'[q], call[q].op)
                 /\ \E w \in db.verifications : local'[q].spent = {w.id} /\ local'[q].row = w.id
      <4>1. /\ UNCHANGED <<honoured, twice>> /\ call'[q] = call[q] /\ pc'[q] = label
            /\ local'[q] = [local[q] EXCEPT !.row = v.id, !.spent = {v.id}]
        BY <1>0, <3>2 DEF Goto, Typed, history
      <4>2. local'[q].spent = {v.id} /\ local'[q].row = v.id
        BY <3>0, <4>1 DEF Local
      <4> QED BY <3>2, <4>1, <4>2
    <3>3. CASE FindDeleteToken(q)
      <4>1. call[q].op \in {"delete_user", "delete_callback"}
        BY <3>0, <3>3 DEF FindDeleteToken, At
      <4>2. ASSUME ~ Refuse(q)
            PROVE  \E v \in db.verifications :
                      /\ v.id = call[q].target
                      /\ Goto(q, "delete_sessions",
                              [local[q] EXCEPT !.row = call[q].target, !.spent = {call[q].target}])
        BY <3>3, <4>2 DEF FindDeleteToken, OwnToken, VerificationOf
      <4>3. CASE ~ Refuse(q)
        <5>1. PICK v \in db.verifications :
                 /\ v.id = call[q].target
                 /\ Goto(q, "delete_sessions",
                         [local[q] EXCEPT !.row = call[q].target, !.spent = {call[q].target}])
          BY <4>2, <4>3
        <5>2. Goto(q, "delete_sessions", [local[q] EXCEPT !.row = v.id, !.spent = {v.id}])
          BY <5>1
        <5>3. call[q].op \in Redeeming /\ Holding("delete_sessions", call[q].op)
          BY <4>1 DEF Redeeming, Holding
        <5> QED BY <3>2, <5>2, <5>3
      <4> QED BY <3>1, <4>3
    <3>4. CASE FindRegistration(q)
      <4>1. call[q].op = "register"
        BY <3>4 DEF FindRegistration
      <4>2. CASE ~ Refuse(q)
        <5>1. PICK v \in VerificationOf(db, call[q].secret, "register") :
                 IF v.about # local[q].user THEN Refuse(q)
                 ELSE Goto(q, "create_passkey", [local[q] EXCEPT !.row = v.id, !.spent = {v.id}])
          BY <3>4, <4>2 DEF FindRegistration
        <5>2. /\ v \in db.verifications
              /\ Goto(q, "create_passkey", [local[q] EXCEPT !.row = v.id, !.spent = {v.id}])
          BY <4>2, <5>1 DEF VerificationOf
        <5>3. call[q].op \in Redeeming /\ Holding("create_passkey", call[q].op)
          BY <4>1 DEF Redeeming, Holding
        <5> QED BY <3>2, <5>2, <5>3
      <4> QED BY <3>1, <4>2
    <3> QED BY <2>5, <3>3, <3>4
  <2>6. Carries(q) \/ FindDeleteToken(q) \/ FindRegistration(q)
    BY <1>0, <1>5, Carried
  <2>7. /\ UNCHANGED <<honoured, twice>>
        \/ /\ Honours(q) /\ Gone(db', local[q].spent)
    <3>1. CASE Honours(q)
      <4>1. Denies(q) => UNCHANGED <<honoured, twice>>
        BY DEF Denies
      <4>2. ~ Holding("idle", call[q].op)
        BY DEF Holding
      <4> QED BY <1>5, <2>2, <2>3, <2>4, <3>1, <4>1, <4>2 DEF Honours, SpentBy
    <3> QED BY <2>5, <2>6, <3>1 DEF Carries, Denies, Proceeds
  <2>8. /\ SpentOnce'
        /\ honoured' \subseteq 1 .. Len(kind') /\ Gone(db', honoured')
    <3>1. Gone(db', honoured)
      BY <1>0, <2>2
    <3>2. honoured' \subseteq honoured \cup local[q].spent
      BY <2>7 DEF Honours
    <3>3. twice' \subseteq twice \cup (honoured \cap local[q].spent)
      BY <2>7 DEF Honours
    <3>4. Gone(db', honoured')
      BY <2>7, <3>1 DEF Honours, Gone
    <3>5. local[q].spent \subseteq 1 .. Len(kind) /\ local[q].spent \cap honoured \subseteq contested
      BY <1>5, <2>3 DEF SpentBy
    <3> QED BY <1>0, <1>1, <2>0, <3>2, <3>3, <3>4, <3>5 DEF SpentOnce
  <2>9. SpentBy(q)'
    <3> SUFFICES ASSUME pc'[q] # "idle" PROVE SpentBy(q)'
      BY DEF SpentBy
    <3>1. UNCHANGED <<honoured, twice>>
      BY <2>7 DEF Honours
    <3>2. CASE Proceeds(q)
      <4>1. call'[q] = call[q] /\ local'[q].spent = local[q].spent
        BY <3>2 DEF Proceeds
      <4>2. local[q].spent # {} => call[q].op \in Redeeming \cup Presenting
        BY <1>5, <2>3 DEF SpentBy
      <4>3. SecretOf(q)' = SecretOf(q) \/ local[q].spent = {}
        BY <3>2, <4>1, <4>2 DEF Proceeds, SecretOf
      <4>4. Holding(pc'[q], call[q].op) \/ Gone(db', local[q].spent)
        BY <1>5, <2>2, <2>3, <2>4 DEF SpentBy, Denies
      <4> QED BY <1>0, <1>1, <1>5, <2>0, <2>3, <3>1, <4>1, <4>3, <4>4 DEF SpentBy
    <3>3. ASSUME call'[q] = call[q], call[q].op \in Redeeming, Holding(pc'[q], call[q].op),
                 NEW v \in db.verifications, local'[q].spent = {v.id}, local'[q].row = v.id
          PROVE  SpentBy(q)'
      <4>1. v.id \notin honoured
        BY <1>0 DEF Gone
      <4>2. v.id \in 1 .. Len(kind')
        <5>1. v.id <= Len(kind) /\ v.id \in Id
          BY <1>0, Now DEF Good, Drawn, Database, Verification
        <5> QED BY <1>0, <2>0, <5>1 DEF Id
      <4>3. call[q].op \notin Presenting
        BY <3>3 DEF Redeeming, Presenting
      <4> QED BY <3>1, <3>3, <4>1, <4>2, <4>3 DEF SpentBy, SecretOf
    <3> QED BY <2>5, <2>6, <3>2, <3>3 DEF Carries, Denies, Honours
  <2>10. ASSUME NEW p \in Requests \ {q}, pc[p] # "idle"
         PROVE  SpentBy(p)'
    <3>1. /\ local[p].spent \subseteq {SecretOf(p)} /\ local[p].spent \subseteq 1 .. Len(kind)
          /\ local[p].spent \cap honoured \subseteq contested
          /\ call[p].op \notin Redeeming \cup Presenting => local[p].spent = {}
          /\ Holding(pc[p], call[p].op) \/ Gone(db, local[p].spent)
      BY <1>0, <2>10 DEF SpentBy
    <3>2. local[p].spent \cap local[q].spent \subseteq contested
      <4> SUFFICES ASSUME NEW i \in local[p].spent \cap local[q].spent PROVE i \in contested
        OBVIOUS
      <4>1. i = SecretOf(p) /\ i = SecretOf(q)
        BY <1>5, <2>3, <3>1 DEF SpentBy
      <4>2. i # None
        BY <3>1 DEF None
      <4>3. i \in Touched(p) \cap Touched(q)
        BY <1>5, <2>10, <4>1, <4>2 DEF Touched, SecretOf
      <4> QED BY <1>0, <4>3, Met
    <3>3. honoured' \subseteq honoured \cup local[q].spent
      BY <2>7 DEF Honours
    <3>4. local[p].spent \cap honoured' \subseteq contested'
      BY <1>1, <3>1, <3>2, <3>3
    <3>5. Holding(pc[p], call[p].op) \/ Gone(db', local[p].spent)
      BY <2>2, <3>1
    <3> QED BY <2>0, <3>1, <3>4, <3>5 DEF SpentBy, SecretOf
  <2>11. \A p \in Requests \ {q} : SpentBy(p)'
    BY <2>0, <2>10 DEF SpentBy
  <2> QED BY <1>1, <2>8, <2>9, <2>11 DEF SecretsSpent
<1>6. CASE Next
  BY <1>0, <1>3, <1>4, <1>5, <1>6, Moves
<1> QED BY <1>2, <1>6

\* While states are kept in the database, two answers rest on the same reset token,
\* deletion token, challenge or state only if their requests overlapped: deleting it
\* last, as every endpoint does, lets no later request use it again.
THEOREM SecretsServeOnce ==
    ASSUME ~ StateInCookie
    PROVE  Spec => []SpentOnce
<1>1. ASSUME Init PROVE SecretsSpent
  <2>1. honoured = {} /\ twice = {} /\ \A p \in Requests : pc[p] = "idle"
    BY <1>1 DEF Init
  <2> QED BY <1>1, <2>1, InitTyped, InitOverlap DEF SecretsSpent, SpentOnce, SpentBy, Gone
<1>2. SecretsSpent /\ [Next]_vars => SecretsSpent'
  BY SecretsStaySpent
<1>3. SecretsSpent => SpentOnce
  BY DEF SecretsSpent
<1> QED BY <1>1, <1>2, <1>3, PTL DEF Spec
=============================================================================
