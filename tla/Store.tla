------------------------------- MODULE Store -------------------------------
(***************************************************************************)
(* The tables of one database and the statements the stores of             *)
(* crates/seaorm/src/store send to them, as operators on the value d of    *)
(* the whole database.  A statement that can fail on a constraint of       *)
(* migrator.rs has a condition of its own (CanCreateUser, ...): where it   *)
(* does not hold, the statement fails and changes nothing.                 *)
(*                                                                         *)
(* Every row, password and secret is an id; e-mail addresses and usernames *)
(* are lower-cased before they are stored or looked up, so one value       *)
(* stands for all its spellings.                                           *)
(***************************************************************************)
EXTENDS Integers, FiniteSets

CONSTANTS
    Emails,         \* e-mail addresses
    Names,          \* usernames
    MaxCount,       \* bound on a passkey's signature counter
    MaxIds          \* bound on the ids drawn

ASSUME StoreAssumption ==
    /\ MaxIds \in Nat
    /\ MaxCount \in Nat
    /\ "none" \notin Emails \cup Names

None == 0           \* NULL, for an id
NoText == "none"    \* NULL, for an address or a name
Id == 1 .. MaxIds
IdOrNone == Id \cup {None}

\* When a ban ends: at no set time, at a time to come, at a time gone by.
Ends == {"never", "ahead", "over"}
Providers == {"credential", "social"}
Purposes == {"reset", "delete", "state", "register", "login"}

User == [id : Id, email : Emails, name : Names \cup {NoText}, verified : BOOLEAN,
         admin : BOOLEAN, banned : BOOLEAN, ends : Ends]
Account == [id : Id, user : Id, provider : Providers, subject : Nat,
            password : IdOrNone, grant : IdOrNone]
Session == [id : Id, user : Id, by : IdOrNone]
Passkey == [id : Id, user : Id, counter : 0 .. MaxCount]
Verification == [id : Id, purpose : Purposes, about : IdOrNone,
                 email : Emails \cup {NoText}, keys : SUBSET Passkey]
ApiKey == [id : Id, user : Id]

Database == [users : SUBSET User, accounts : SUBSET Account,
             sessions : SUBSET Session, verifications : SUBSET Verification,
             passkeys : SUBSET Passkey, keys : SUBSET ApiKey]

-----------------------------------------------------------------------------
(* Users.                                                                  *)

UserOf(d, i) == {u \in d.users : u.id = i}
UsersNamed(d, n) == {u \in d.users : u.name = n /\ n # NoText}
UsersMailed(d, e) == {u \in d.users : u.email = e}

\* Seeded fault: the usernames have no unique index.
EmailFree(others, e, n) == \A u \in others : u.email # e
\* The unique indexes of the users table let a row have e and n.
FreeFor(others, e, n) ==
    \A u \in others : u.email # e /\ (n = NoText \/ u.name # n)

CanCreateUser(d, e, n) == FreeFor(d.users, e, n)

\* A new user is never banned.
NewUser(i, e, n, verified, admin) ==
    [id |-> i, email |-> e, name |-> n, verified |-> verified, admin |-> admin,
     banned |-> FALSE, ends |-> "never"]

CreateUser(d, u) == [d EXCEPT !.users = @ \cup {u}]

\* apply_update: only the fields given are set, and lifting a ban clears its end.
Updated(u, change) ==
    LET set == [f \in DOMAIN u |-> IF f \in DOMAIN change THEN change[f] ELSE u[f]]
    IN  IF "banned" \in DOMAIN change /\ ~ change.banned
        THEN [set EXCEPT !.ends = "never"] ELSE set

CanUpdateUser(d, i, change) ==
    \E u \in UserOf(d, i) :
        LET new == Updated(u, change) IN
        FreeFor(d.users \ {u}, new.email, new.name)

UpdateUser(d, i, change) ==
    [d EXCEPT !.users = {IF u.id = i THEN Updated(u, change) ELSE u : u \in @}]

\* delete_user removes the API keys by their reference, then the user; the
\* foreign keys take the user's other rows along.
\* Seeded fault: the keys stay.
KeepKeys(d, i) == d
DeleteKeys(d, i) == [d EXCEPT !.keys = {k \in @ : k.user # i}]
DeleteUser(d, i) ==
    [d EXCEPT !.users = {u \in @ : u.id # i},
              !.accounts = {a \in @ : a.user # i},
              !.sessions = {s \in @ : s.user # i},
              !.passkeys = {k \in @ : k.user # i}]

-----------------------------------------------------------------------------
(* Accounts.                                                               *)

AccountOf(d, i) == {a \in d.accounts : a.id = i}
AccountsOf(d, i) == {a \in d.accounts : a.user = i}
AccountAt(d, provider, subject) ==
    {a \in d.accounts : a.provider = provider /\ a.subject = subject}

\* get_credential_account.
CredentialOf(d, i) == {a \in AccountsOf(d, i) : a.provider = "credential"}

CanCreateAccount(d, a) ==
    AccountAt(d, a.provider, a.subject) = {} /\ UserOf(d, a.user) # {}
CreateAccount(d, a) == [d EXCEPT !.accounts = @ \cup {a}]

NewCredential(i, user, password) ==
    [id |-> i, user |-> user, provider |-> "credential", subject |-> user,
     password |-> password, grant |-> None]

UpdateAccount(d, i, change) ==
    [d EXCEPT !.accounts =
        {IF a.id = i
         THEN [f \in DOMAIN a |-> IF f \in DOMAIN change THEN change[f] ELSE a[f]]
         ELSE a : a \in @}]
DeleteAccount(d, i) == [d EXCEPT !.accounts = {a \in @ : a.id # i}]

-----------------------------------------------------------------------------
(* Sessions, verifications, passkeys and API keys.                         *)

SessionOf(d, i) == {s \in d.sessions : s.id = i}
CanCreateSession(d, user) == UserOf(d, user) # {}
CreateSession(d, i, user, by) ==
    [d EXCEPT !.sessions = @ \cup {[id |-> i, user |-> user, by |-> by]}]
DeleteSession(d, i) == [d EXCEPT !.sessions = {s \in @ : s.id # i}]
DeleteUserSessions(d, i) == [d EXCEPT !.sessions = {s \in @ : s.user # i}]

\* The secret in the identifier is drawn at random: its row is found by it alone.
VerificationOf(d, i, purpose) ==
    {v \in d.verifications : v.id = i /\ v.purpose = purpose}
NewVerification(i, purpose, about) ==
    [id |-> i, purpose |-> purpose, about |-> about, email |-> NoText,
     keys |-> {}]
CreateVerification(d, v) == [d EXCEPT !.verifications = @ \cup {v}]
DeleteVerification(d, i) ==
    [d EXCEPT !.verifications = {v \in @ : v.id # i}]

PasskeysOf(d, user) == {k \in d.passkeys : k.user = user}
PasskeyOf(d, i) == {k \in d.passkeys : k.id = i}
CanCreatePasskey(d, i, user) == PasskeyOf(d, i) = {} /\ UserOf(d, user) # {}
CreatePasskey(d, i, user, counter) ==
    [d EXCEPT !.passkeys =
        @ \cup {[id |-> i, user |-> user, counter |-> counter]}]
UpdatePasskey(d, i, counter) ==
    [d EXCEPT !.passkeys =
        {IF k.id = i THEN [k EXCEPT !.counter = counter] ELSE k : k \in @}]
DeletePasskey(d, i) == [d EXCEPT !.passkeys = {k \in @ : k.id # i}]

CreateApiKey(d, i, user) == [d EXCEPT !.keys = @ \cup {[id |-> i, user |-> user]}]

-----------------------------------------------------------------------------
\* What the tables' unique indexes and foreign keys guarantee of a database.
Sound(d) ==
    /\ \A u, w \in d.users :
          u = w \/ (/\ u.id # w.id
                    /\ u.email # w.email
                    /\ (u.name # w.name \/ u.name = NoText))
    /\ \A a, b \in d.accounts :
          a = b \/ (/\ a.id # b.id
                    /\ <<a.provider, a.subject>> # <<b.provider, b.subject>>)
    /\ \A r \in d.accounts \cup d.sessions \cup d.passkeys : UserOf(d, r.user) # {}
=============================================================================
