# TLA+ models of better-auth-rs

Specifications, model-checking configurations and machine-checked proofs for
the authentication server in this repository (`crates/core`, `crates/api`,
`crates/seaorm`).  Paths below are relative to the repository root.

The library is a set of async HTTP handlers over a SQL database.  Almost no
handler holds a transaction: it reads rows, decides on those copies, and writes
with later statements.  Everything that makes the code hard to test is what
other requests do between two statements, and what is left behind when one of
them fails.  So the unit of atomicity in every module is **one database
statement** (or one store transaction where the code has one), a request is a
process with a program counter and the locals it has read, and the properties
say what holds however requests interleave.

## 1. Inventory

| component | state | operations | hard behaviours | correct when |
|---|---|---|---|---|
| Sessions (`core/src/session.rs`, `seaorm/src/store/sessions.rs`, `session_management.rs`) | session rows: token, owner, `expires_at`, `updated_at` | create, look up (with purge and refresh), list, sign out, revoke one / all / others, sweep | a refresh in flight while the row is revoked or expires; a deletion loop that stops half way; purge by a stale copy | revocation is final and complete, a user ends only their own sessions, an unused session dies |
| Device authorization (`device_authorization/mod.rs`, `store/device_codes.rs`) | device-code rows: status, holder, client, `last_polled_at` | issue, poll, claim, approve, deny | overlapping polls, two claimants, approve against deny, redemption then failing session insert | one claim, one standing decision, at most one session, the approver's |
| API keys (`api_key/`, `store/api_keys.rs`) | key rows: owner, enabled, expiry, quota, refill, window counter; sweep clock | create, get, list, update, delete, use through the request hook, sweep | concurrent uses of one quota, refill and window boundaries, an update in flight against a revocation | no use lost or given away, window limit, revocation binds |
| Organizations (`organization/`, `store/{organizations,members,invitations}.rs`) | organizations, members with roles, invitations with a status | create, delete, leave, remove, change role, invite, accept, reject, cancel | counts and roles read before the write; invitations answered twice; deletion under way | owners come only from owners, joins only by invitation, limits, one membership, somebody stays owner |
| Verification table (`store/verifications.rs`) | identifier, value, expiry | create, get, consume, delete | `consume_verification` selects and then deletes without looking at the row count | a value serves once |
| Password reset and change (`password_management/`) | accounts' hashes, reset tokens, sessions | request, reset, change | token read first and deleted last; sessions revoked last | a token resets once, old sessions end |
| Two-factor (`two_factor/mod.rs`) | secrets, backup codes, pending sign-ins, one-time codes with a counter, trusted devices | enrol, disable, send and verify, backup codes, trust | counter and code list are read-modify-write; session issued before the challenge is deleted | bounded guesses, a backup code serves once |
| Sign-in, bans, administration (`email_password.rs`, `admin/`, `helpers.rs`) | users: banned, ban expiry, role; sessions with `impersonated_by` | sign up, sign in, ban, unban, impersonate, remove | ban check against session insert, lifting an expired ban by a late write | a banned user has no session |
| OAuth and linking (`oauth/`, `account_management.rs`) | states, accounts, users | start, callback, link, unlink | double callback, two first sign-ins, user without an account, two unlinks | an account has one user, a user has a way in |
| E-mail verification and change, deletion (`email_verification/`, `user_management/`) | `email_verified`, address, deletion tokens | verify, change, delete | reusable signed tokens against a changed address; deletion in several statements | a verified mark belongs to the address that was verified |
| Passkeys (`passkey/`) | credentials with a counter, challenges | register, authenticate | challenge and counter read first, written last | a challenge serves once, counters grow |
| Dispatch (`src/core/auth.rs`, `src/handlers/axum.rs`) | none of its own | router, middleware, plugin hooks, routes, `update-user`, the session extractor | three ways in, which run different checks; two ways of spelling a path | no handler runs for a request that a check forbids |
| Rate limit, CSRF, CORS, body limit (`core/src/middleware/`) | one locked map of time stamps | before each request | clock read before the lock | at most the maximum per window |
| Cache (`core/src/store/cache.rs`) | a locked map | set, get, delete | none: nothing in the repository calls it | |
| Migrations (`store/migrator.rs`) | the schema | up | crash between statements, and a restart on what it left | no key is lost or left bound to users; a restart serves on the whole schema unless a migration was cut short |
| Macros, registry, command line, docs, scripts | none at run time | | | |

Interaction.  A request passes the middleware, then each plugin's
`before_request` hook (API keys let a request act for a user there), then one
route handler.  Handlers share nothing but the database and find their user
with `require_session`, which is the lookup modelled in `Sessions`; sign-in,
two-factor, device and OAuth handlers all end in `issue_user_session`, which is
`Issue` there.  Foreign keys cascade from users and organizations.

`PROJECT.json` lists every component with its status, and every hazard at its
line with the properties that would catch it, or the reason none does.

## 2. What is modelled

Common conventions:

* `Requests` is a set of request slots.  In `Sessions`, `DeviceGrant` and `ApiKeys` each slot
  serves one request of any kind, chosen when it begins, so histories such as
  "the answer request p got" stay part of the state.  In `Organizations`, `TwoFactor` and
  `Identity` a slot is used again.
* An identifier is a model value or a string; tokens, hashes, names, metadata
  and response bodies are data and left out.
* Time is a counter bounded by `MaxTime`; `Tick` may happen between any two
  statements.  The code reads the clock in application code, so one request may
  compare with an instant older than the statement it then sends.
* `Faults` lets the database refuse a statement: the action `StatementFails`
  (`Fail` in `Organizations`) follows each handler's own error path, including
  the ones that ignore the error.
* An operator marked *Seeded fault* is a variant of the operator below it; the
  specification does not use it.  `PROJECT.json` names, for each property, the
  variant that must make it fail.

### Sessions (`Sessions.tla`, abstract `SessionPromise.tla`)

`status` and `row` are the table; `pc`, `call`, `seen`, `write`, `todo` the
requests.  `Lookup`, `Purge`, `RefreshFind`, `RefreshWrite`, `Reread` and
`LoadUser` are the statements of `SessionManager::get_session` and
`require_session`; `revoke-session` runs the same lookup a second time, on its
target.  `DeleteOwn`, `DeleteTarget`, `DeleteAll`, `List` and `DeleteEach` are
the endpoints' own statements, `Issue` any successful sign-in, `CleanupExpired`
the sweep.  `snap`, `skipped` and `lastUse` are history.

`SessionPromise` knows three things: whether a token is unissued, live or gone,
what was live when a request began, and which token it was granted for.  It
promises that gone stays gone and that a grant names a token of the snapshot.
`KeepsPromise` is `Sessions` under the mapping at the end of the module.

### Device grant (`DeviceGrant.tla`, abstract `DevicePromise.tla`)

`table` and `row` are the code table; `copy` is the row a handler decided on.
`Poll*`, `Verify*` and `Decide*` follow the handlers in order: the gate on
`last_polled_at`, its write, the branch on the status as read, the conditional
delete (`delete_device_code_if_status`), the session.  `DevicePromise` is the
life of a code, `pending`, held, `approved` or `denied`, and then spent or
void, with at most one delivery; the mapping derives the phase from the row and
from which poll deleted it.

### API keys (`ApiKeys.tla`)

`Find`, `Consume`, `LoadUser` are a use; `Consume` is the store's transaction
with the row locked, so it is one action.  `Insert`, `Update`, `Delete`, `Drop`,
`Sweep` are the other statements.  `Update` writes only the columns the request
names, as `apply_update` does.  `HostCreates` stands for the application calling
the store itself, which is the only way to a quota with a refill.  `Second` lets
an instance scale seconds and milliseconds together.

### Organizations (`Organizations.tla`)

`orgs`, `row` and `invite` are the tables, `req` the slots.  Each handler is cut
at its statements: for `remove-member`, `ReadMember` (requester), `ReadRemoved`
(target), `CountOwners`, `DropMember`.  A request's inputs are chosen where the
handler first uses them, which loses no behaviour and keeps idle slots alike.
`Fail` ends a request only after it has written something, because one that
fails earlier is as if it had never come.  Identifiers are fresh UUIDs; a freed
one is used again only when no row and no request holds it.

`raced` is a history bit: some statement of another request (or the passing of
an invitation's expiry) changed a table after this request began to read.  The
properties whose checks the code cannot make atomic are stated with it: they
hold for every request that was not overtaken, and say so.  `owned` is the
history of who was an owner.

Left out: `update-organization` and the slug (data), the listings, the active
organization of a session (each endpoint reads the membership again, the column
is a default), custom roles.

### Two-factor authentication (`TwoFactor.tla`)

One user, with any number of browsers.  Every row, session and secret is an id
drawn in order; `kind` says what it is and `live` which sessions, challenges
and trusted devices are stored, `otps` the OTP rows (several may have one key,
and the lookup takes any), `record` the `two_factor` row.  A slot serves one
request after another: `Load` .. `Issue` are the password sign-in up to its
session or challenge, `Resolve` is `resolve_two_factor_state` or
`require_session`, then each endpoint's statements, then the common tails
(`Promote`, `Issue`, `Retire` in a session, `Issue`, `Consume`, `Trust` for a
pending sign-in).  Ids reach a browser (`handed`) only by an answer.

`honoured` and `answers` count what was accepted and what was guessed,
`outdated` what was accepted after its replacement had been given out, and
`contested` the places (an OTP key, the user's row, a challenge, a trusted
device) that two requests had in hand at once.  What the read and the later
delete cannot guarantee when requests race is stated for places never
contested; what holds even then is stated without it: an OTP's guesses are
bounded by the tree that racing guesses make of its row (`GuessesBounded`).

Left out: lifetimes, since an expired row reads as an absent one and a row
stored again keeps its expiry; the ban check inside `issue_user_session`; the
arithmetic of TOTP, whose codes are right for one secret.

### Identity (`Store`, `Handlers`, `Credentials`, `Administration`, `Profile`, `Passkeys`, `SocialSignIn`, `Identity`)

The plugins that create, change and remove users share their tables, so they
are composed on one database.

* `Store` has no state.  It says what each statement of the user, account,
  session, verification, passkey and API-key stores does to a database `d`, a
  record of sets of rows, and under which condition the constraints of
  `migrator.rs` let it: unique addresses, usernames and provider accounts, and
  foreign keys with their cascades.  API keys have no foreign key.
* `Handlers` is the machine the plugins run on.  `pc[p]` names the statement
  request `p` sends next; `local[p]` is what it has read and may be out of date.
  `Goto`, `Answer`, `Refuse`, `GiveUp` are the four ways on.  The statements
  that several handlers send are here once: the ban check and the lift of
  `issue_user_session` (`ReadBan`, `LiftBanAndIssue`, `StoreSession`), the
  deletion loop (`ListAccounts`, `DeleteOneAccount`, `DeleteUserKeys`,
  `DeleteUserRow`), writing a password.
* `Credentials` (sign-up, both sign-ins, reset, change and verification of a
  password), `Administration` (users, roles, passwords, bans, impersonation,
  sessions and removal by an administrator), `Profile` (signed links, change of
  address, deletion with a password or a link, API keys), `Passkeys`
  (registration, authentication, deletion) and `SocialSignIn` (the redirect flow,
  ID tokens, linking, unlinking, and the three paths that refresh tokens) each
  have: the requests clients can send, what entitles one to an answer
  (`...Claim`), and one action per statement.
* `Identity` composes them.  `Init` has an administrator and a user with a
  password, a session and a passkey, and two accounts at the provider that
  nobody has used yet.

A request arrives with its first statement: one that is refused there leaves no
trace and is left out.  Tokens that the server signs and keeps no copy of (links
in mails, state cookies) are the set `signed`.  The provider is external: it
reports what `Reports` lists, an address and whether it vouches for it.

History.  `earned[p]` collects, at every step of request `p`, the claims the
database supports at that moment: that it is who it says, that its proof holds,
that it is let in.  `undue` are the endpoints that gave a 200 to a request which
never earned all three; `EveryAnswerEarned` says there are none, whatever was
revoked, banned, deleted or changed in between.  `contested` are the ids two
requests had in hand at once, `broken` the rows a failed request left half-way,
`ousted` what an answer has said is locked out (`StillOut`: a user for as long as the
ban is in force, a password for good), `proven` the addresses whose
owner followed a link, `twice` the single-use secrets two answers rest on.  The
handlers read and write in separate statements, and what they promise under
contention they mostly do not keep; the properties therefore say which ids were
contested, and hold for all others, with any number of requests about.

### Server and migrations (`Migrations.tla`, `Server.tla`)

`Migrations` is `run_migrations`: `Boot` looks for what `better_auth_migrations`
does not list, `SendStatement` is one statement of `InitialAuthSchema`,
`AlterApiKeys` or `RebuildApiKeys`, `RecordMigration` lists one, `Serve` ends the
boot, `Crash` may fall between any two.  A statement is accepted or not by the
schema it meets (`CREATE INDEX` has no IF NOT EXISTS, a dropped key must be
there), so that running a migration again is tested against what the last run
left.  The history variable `cut` turns TRUE with a crash that cuts a migration
short: its statements so far stay (not on PostgreSQL), and they are not followed, at
the next boot, by those that were still to be sent (`Remaining`).  A crash while the
server is up, between two migrations, or after a change of ownership that is through
and not yet listed, cuts nothing short.  On PostgreSQL the migration runner (external) puts a boot into one
transaction: `work` is that connection's schema, `schema` what others see.

`Server` extends it: requests come in while `phase = "up"`.  `Arrive` is the Axum
router (or a direct call of `handle_request`, or a route of the application with
the `CurrentSession` extractor), `ReadClock` the body limit and the rate
limiter's clock, `Count` its locked part and the checks behind it (CSRF, redirect
targets, CORS preflight, disabled paths), `Dispatch` the API-key hook and the
routes, `FindUser`, `CheckName`, `WriteName` the handler `update-user` that the
core itself has, `Extract` the extractor.  A body of `update-user` is its username
and whether it has any other field (`more`): name, image, display name, metadata and
also `role` (auth.rs:475), which the handler writes for whoever the request acts for.
No step of this module reads those, so they have no variable.  A crash loses the requests under way
and the rate limiter's memory, and nothing that is stored.

## 3. Runs

| run | instance | shows |
|---|---|---|
| `Sessions_safety` | 2 users, 2 tokens, 2 requests of all kinds, clock 0..2, faults | `AuthenticatedWasLive`, `OthersRevoked`, `IdleLimit`, `OnlyOwnerRevokes`, refinement of `SessionPromise` |
| `DeviceGrant_safety` | 2 users, 2 clients, 1 code, 4 requests, before and after expiry, faults | `DecisionStands`, refinement of `DevicePromise` |
| `ApiKeys_safety` | 1 key of a user or an organization, 3 requests of seven kinds, quota with and without refill, 2 uses per window, clock 0..2, faults | `QuotaConserved`, `WindowLimit`, `RevocationBinds` |
| `Organizations_safety` | 1 organization, 2 users, 3 roles, 3 member ids, 1 invitation id, 2 slots used without end, faults | `OwnersMakeOwners`, `JoinsAsInvited`, `LastOwnerKept`, `NothingOutlivesItsOrg` |
| `Organizations_limits` | 3 users, 3 member and 3 invitation ids, both limits 2, 2 slots | `LimitKept`, `InvitesKept` |
| `TwoFactor_safety` | an enrolled or not yet enrolled user, 4 requests to all 8 endpoints, 2 at a time, 2 backup codes, attempt limit 1, faults | `TypeOK`, `AcceptedOnce`, `GuessesBounded`, `NewestOnly` |
| `Identity_passwords` | 2 users and one address to spare, 3 requests to 18 endpoints of passwords and administration, 2 at a time, faults | `TypeOK`, `EveryAnswerEarned`, `SpentOnce`, `OustedStayOut`, `BanStands` |
| `Identity_social` | 2 accounts at the provider under three addresses, vouched for or not, 3 requests to 9 endpoints, 2 at a time, faults | `EveryAnswerEarned`, `NobodyStranded`, `StoredGrantLive` |
| `Identity_profile` | 4 requests to 11 endpoints of links, deletion, API keys and passkeys, 2 at a time, faults | `EveryAnswerEarned`, `SpentOnce`, `VerifiedIsProven`, `NoOrphanKey`, `CounterForward` |
| `Identity_unlink` | 1 request | **violated**: a user unlinks the only account |
| `Server_safety` | three databases, new or installed, 1 crash, 3 requests, one of them of 26 kinds, 2 (1 by an override) per window of 2, clock 0..2 | `TypeOK`, `RateHolds`, `OnlyAllowedHandled`, `KeysKept`, `ServesCurrent`, `OrganizationsCanOwn`, `ComesUp` |
| `Server_extractor` | 1 request to a route of the application | **violated**: an expired session is let in |

Why the bounds are enough.  A race here is between a reader and one writer, so
two requests at a time reach each of them; three or four are used where a third
party matters (a claim, an approval, a denial and a poll; a quota of two and a
use too many; a link that is mailed, an address that is changed, and the link
followed).  `MaxCalls` bounds the number of requests in `TwoFactor` and
`Identity`: at least one to obtain a secret, two to race with it, and in
`Identity_profile` one more for a change in between.  `MaxIds` is never reached
before `MaxCalls`.  The clock has one instant before, at and after each
boundary: lifetimes, intervals and windows are 0, 1 or 2 and `MaxTime` is 1 or
2.  Two users are an owner and a stranger, or an administrator and a user.  In
`Organizations` ids return, so two slots run arbitrarily long histories in a
finite graph.  In `TwoFactor` the attempt limit is 1, so that four requests can
exceed the bound of two racing guesses.  `MaxCount` lets a passkey's counter go
up twice, so that an answer to an older challenge can be behind.  `MaxCrashes` is
1: after a second crash the schema is one that a first crash at another statement
leaves.  `Served` names the boots after which requests arrive: what the
middleware does is the same on every database, so that all six boots are checked
and one of them with traffic, crash included.

Symmetry is declared over slots and row ids only in runs without liveness; no
action tells them apart.  Deadlock checking is off: a run ends when every slot
has served its request (or, in `Organizations`, never), and a quiescent server is
not a fault.

Fairness.  `Server_safety` alone assumes any: `WF_vars(Start)`.  Whoever runs the
server starts it again when it is down, and a boot that has begun sends its next
statement unless the server crashes.  Nothing forces a client to send a request,
the clock to move, a sweep to run or a statement to fail, and no property needs
it to.

The type invariants of `Sessions`, `DeviceGrant`, `ApiKeys` and `Organizations`
are not run: they are theorems (section 5), with no bound.  So are
`Readable`, `NoResurrection`, `OneClaim`, `OneRedemption`, `DeniedNeverGranted`,
`SessionIsApprovers` and `OneMembership`.

## 4. Findings

1. `Identity_unlink`: the guard is to "prevent unlinking the last credential",
   yet who has a password may unlink every account, that of the password too.
2. `Server_extractor`: `CurrentSession` "returns 401 if no valid session is
   found", and looks at the row without looking at its end.

Seen while modelling, and not kept as runs.

Sessions.  POST `/get-session` refreshes the expiry as GET does
(`session_management.rs:78`, against `sessions.mdx:49`).  A lookup that read the
row just before its end writes a new expiry just after it (`session.rs:94`).
Sign-out answers success when its DELETE failed.  `revoke-other-sessions` skips a
session at the very instant of its expiry, at which a lookup still accepts it.

Device grant.  Two overlapping polls are both served whatever the polling
interval, whose gate is a read and a later write.

API keys.  The default expiry is documented in milliseconds (`api_key/mod.rs:283`)
and added as seconds (`helpers.rs:14`).  A use that has read an expired copy
deletes the key although it was renewed since (`api_key/mod.rs:691`).

Organizations.  Two owners who leave at once both pass the count and leave none.
An invitation at the instant `expires_at` can be accepted but is no longer listed.
An unknown invitation status is read as pending.  `create-organization` is two
inserts, the second of which may fail and leave an organization nobody can manage.
`LimitKept` and `InvitesKept` hold for requests that were not overtaken only.

Two-factor.  Racing verifications accept one OTP twice (`two_factor/mod.rs:765`).
A wrong guess that was under way when a new OTP was sent stores the old one again
beside it.  Disabling forgets only the trusted device whose cookie came along.

Identity.  A ban without a duration keeps the elapsed end of an earlier one, and
is over as soon as it is set (`admin/handlers.rs:356`).  E-mail sign-in does not ask for
a verified address where username sign-in does.  Links that confirm a change of
address are bound to the old address, and following one issues a session before
the update that may fail.  `get-access-token` and `refresh-token` take the account
from a cookie and do not compare its user with the session's, as `account-info` does
when it names no account.  Two first sign-ins
with one account at the provider but different addresses leave a user without an
account.  The last branch of `verify_email_core` cannot be reached.
`consume_verification` deletes without looking at the row count; nothing calls it.
The `on_user_created` hooks are never called.

Server.  Overrides of the rate limit are looked up by the path as it was spelled
(`rate_limit.rs:17`): one that is called with its base path has the default
maximum and a bucket of its own.  The map of buckets never shrinks.  The client's
address is the whole `X-Forwarded-For` header.  Timestamps are read before the
lock: counted by stamp alone, or by the lock's time alone, a window can exceed the
maximum, and `RateHolds` counts a request for a window that holds both.  The
CORS preflight cannot be reached through the router, which has no OPTIONS route,
and the router's own 404, 405 and 413 carry no CORS headers.  `config.rs:461` says
that CORS uses the trusted origins; it has a list of its own.  Disabled paths are
compared with templates in the router and with real paths in the dispatch.  Two
requests that race for a username end in one 500 instead of 400.

Migrations.  On SQLite and MySQL a crash in the ownership migration leaves a schema
a later boot does not complete: the keys stay in `api_keys_old`, or a column is
missing although the migration gets listed; in the initial schema an index that
exists makes every later boot fail.  `cut` is TRUE from such a crash on, and
`ServesCurrent` and `ComesUp` claim nothing then; they do claim that a server comes up
on the whole schema after every other crash, on every backend: while it served, between
migrations, and anywhere on PostgreSQL.  `KeysKept` and `OrganizationsCanOwn` are about
every crash, those that cut a migration short first of all: no row is lost, and a
server that takes the half-changed table for done serves with the foreign key gone, as
it is dropped before the column is renamed.

## 5. Proofs

All proofs hold for arbitrary sets of users, rows and requests, under the named
assumptions of each module, which only say that constants have their type and
that null values are outside their sets.  `ApiKeyAssumption` also takes
`Requests` to be finite, because `QuotaConserved` counts them.
`IdentityAssumption` says that the users and rows `Init` starts from have ids and
addresses: two addresses, and at least 11 ids; and that the administrative endpoints
are there only with the admin plugin, whose `on_init` is what turns on the bans
(`src/crates/api/src/plugins/admin/mod.rs:117`).  `TwoFactorAssumption` takes
`BackupCodes` to be positive, as `DEFAULT_BACKUP_CODE_COUNT` is.

**`SessionsProofs`**: `TypeCorrect`, `RevokedForGood`, `RevocationIsFinal`,
`IdleSessionsDie`, `OthersAreRevoked`, `OnlyOwnersRevoke`, `ImplementsPromise`.
`AuthenticatedWasLive` is not inductive: between `Lookup` and `LoadUser` the user
is only in the request's copy.  `AuthInv` adds that a request past its lookup
carries a token of its snapshot and that `seen` is that row's owner, which no
statement changes.  `IdleLimit` needs that an expiry a request has computed and not
yet written is no later than `ExpiresIn` after the use that computed it;
`OthersRevoked` that a revocation's listing accounts for every row it has still to
delete; `OnlyOwnerRevokes` that what a request is about to delete is its caller's
(`RevInv`).  The refinement proves that each action maps to the promise's step of the same
meaning or to a stutter.

**`DeviceGrantProofs`**: `TypeCorrect`, `ClaimedOnce`, `DecisionsStand`,
`DenialIsFinal`, `RedeemedOnce`, `SessionsAreApproved`, `GrantKeepsPromise`.
`GrantInv` ties each answer to the row: a claim sets the holder once, a decision
is taken only by the holder and only on a pending row, a redeemer is the request
that removed an approved row.  Each property is a consequence; the refinement
uses the same invariant to show that a poll's delete is the promise's `Spend`.

**`ApiKeysProofs`**: `TypeCorrect`, `QuotaIsConserved`, `WindowIsLimited`,
`RevocationTakesHold`.  `MeterInv` says when each counted use happened relative
to the last refill, so that the sum changes by one on both sides; `WindowsKept`
says that the uses since the window's start are at most the row's counter and
that earlier ones lie more than a window back; `RevInv` follows a revocation
through the updates in flight: a copy is judged before the write that lands, and
a use that began after the answer can only see the row shut or gone.

**`OrganizationsProofs`**: `TypeCorrect`, `OneMembershipAlways`,
`NothingOutlives`, `LastOwnerKeptAlways`, `OnlyOwnersMakeOwners`, `OnlyInvitedJoin`,
`InvitesKeptAlways`, `LimitKeptAlways`.  `TypeInv` is type correctness with
`LocalsOK`: which locals a request holds at which statement.  `Unique` (two rows
of one user in one organization are one row) replaces the cardinality in
`OneMembership`.  For the last owner, `KnowInv` records what a request that was
not overtaken still knows at each statement: the requester's role, that the
target is in the organization, and before the write that some other owner is
there (`Spare`).  `InformInv` does the same for what is counted and found before an
insert: the room, the pending invitations, the address.  `OwnInv` speaks of stale
requests too.  Owners in rows, and whoever invited an owner, are on record
(`Recorded`); a request about to hand out the creator role is of a user who was an
owner, one about to accept still has the invitation it read (`Backed`), both as long
as the organization is there; and until its creator is a member nobody else has
anything to do with an organization (`Founding`).  Each write is shown to leave the
other requests what they go on (`Steady`, `Apart`).  `LimitKeptAlways` needs a limit
above 0, since creating an organization adds its creator without asking for room, and
proves on the way that an organization has finitely many members.

**`IdentityProofs`**: `TypeCorrect`, `NoKeyIsOrphaned`, `CountersNeverGoBack`,
`BansKeepStanding`, `SecretsServeOnce`, for any number of requests to any of the 38
endpoints.  `Typed` is type correctness with what makes it inductive: the types of
the locals, of what is signed, and `Sound` (the unique indexes and foreign keys),
which each statement of a store is shown to keep.  One lemma per plugin says which
statement follows which and what it hands on (`Lands`, `Moves`), and one per table
what each action leaves in it (`UserRows`, `KeyRows`, `PasskeyRows`, `SecretRows`,
`BanRows`).  The properties speak of contested ids, so `Overlap` says what being
uncontested gives: of two requests that have the same thing in hand, at most one
is at work on it.  On top of it:
`KeysOwned`: the user of a key about to be created is still there, and a user about to
be deleted has no keys left, unless the two met.
`CountersKept`: the copy of a passkey that a request will write back is that of the
passkey it was asked for and not behind the row.
`BansSeen`: a user whose ban a request is about to lift has no ban in force.
`SecretsSpent`: a secret an answer rests on is gone from its table, or a request that
rests on it is still to delete it, and nobody else holds it.
`SecretsServeOnce` assumes that states are kept in the database, as in every run: a
state in a cookie is never deleted, and serves as often as the client sends it.

**`EntitlementProofs`**, on top of it: `AnswersAreEarned`, `MarksAreProven`,
`TheOustedStayOut`, `StoredGrantsLive`, `NobodyIsStranded`, which follow a request from
its arrival to its answer.
`AnswersAreEarned` follows each claim an answer rests on.  `Entitled` says of a request
(`Due`) that whatever the database entitles it to at this moment has been earned, that
every claim it has not still to show at this statement (`Unmet`) has been earned, and
that what it has not found when it asked has left a trace (`Yet`): a row that comes
later comes with its own proof.  It needs `CountersKept`, and `OneOwner`: a passkey, the
challenge it was registered with and the registration or sign-in under way belong to one
user (`Owns`).  There are four lemmas per plugin: what its claims mean of the database
(`...Holds`), which are pending after each statement (`...Onward`), that a statement
keeps `Due` and answers only when everything is earned (`...Earns`), and that a request
that arrives has earned nothing it needs not (`...Begins`).  What happens meanwhile
could only harm by signing a state that was asked for or giving a session an id already
looked for: `SignedSince` and `SessionsSince` exclude both.
`MarksAreProven` follows who proved an address.  Seven statements write an address or
the mark on one (`AddressRows`), and what they go by was read or signed earlier:
`Vetted` says that every link goes to the address it marks or changes to (`ToItsOwn`,
`Follows`), and that what a request has judged of its user still holds at the statement
that writes, unless another request is at work on that user (`Vets`); what follows the
creation of an account is judged before it (`Bound`).  It assumes that administrators'
update-user is not among the endpoints: that one writes an address and leaves the mark,
and TLC then finds an address nobody has proven marked as verified.
`TheOustedStayOut` says of whatever an answer has locked out why no session can come
back (`OutKept`): a banned user has a ban in force and no sessions, a replaced password
is nobody's any more (`Replaced`), and whoever still presents it met the replacement.
For that `LockedOut` follows four kinds of requests: those about to let a user in
(`LetIn`), those that hold a password they have compared (`Presents`), those that write
over one (`Overwrites`), and those that have banned or replaced and are still to delete
the sessions before they answer (`LocksOut`).  Ids tell users and passwords apart
(`KindsKnown`), and no password is two accounts' (`OwnPasswords`).  A ban must be
judged by the database after the statement that answers, and be forgotten when it ends
(`StillOut`): otherwise a new ban that nobody has answered for yet counts as answered.
`StoredGrantsLive` needs to know who has tokens in hand (`TokensKept`).  `Brings` says
of every statement how a request comes by them; `TokensOf` that tokens just fetched are
nobody else's yet (`Unheard`), and tokens in use are those of the accounts in the
request's `todo` (`Keeps`).  `GrantsOwn`: no two accounts share tokens, and a cookie's
copy is that of its own account; so whoever exchanges tokens, from a row or from a
cookie, is at work on the account that has them.  `GrantsLive`: tokens that were replaced
have their successors on the way; only `Exchange` replaces any, and `TokensLand` shows
that the successors are stored or the account is known to be broken.
`NobodyIsStranded` follows the accounts a request has in hand (`Kept`).  Everyone has an
account, or is to get one, or is being deleted (`KeptIn`, `Ending`), and a request there
arrives or leaves the user broken (`EndsKept`).  The accounts a request is to delete are
its user's (`TakesOwn`), the one it unlinks is not the last (`LeavesOne`), and those of a
user who is deleted are all there still (`FindsAll`), unless two requests are at work on
the user.  It assumes that unlinking everything is not allowed (`UnlinkAll`), and that
only the founders have a password: sign-up, create-user and reset are not among the
endpoints.  All of that is needed: whoever has a password may unlink every account, that
of the password included (the finding of `Identity_unlink`), and an administrator's
create-user without a password creates a user with no account.

**`TwoFactorProofs`**: `TypeCorrect`, `AcceptedAtMostOnce`, `OnlyTheNewest`,
`GuessesAreBounded`, for any number of requests, attempts, backup codes and ids (`Draw` takes no id beyond
`MaxIds`; the runs never get there).  `Typed` adds to the types what the ids say of
the rows (`Ids`), what a request carries (`Asked`) and what it has found out at each
statement (`Fits`); `StepMoves` shows of every statement that it leads on to one that
fits.  `Rows` says what an uncontested key or `two_factor` row gives: one OTP row at
most (`OneRow`), which the request that is to delete it still finds, and none for the
request that is to store one (`AtRow`), and codes to be written back that are those of
the row but for one (`AtCodes`).  `AcceptedOnce` is not inductive: an answer counts what
its request compared several statements earlier.  `AcceptInv` follows each secret: in
a request's hands it has not been accepted yet (`Unspent`), once accepted it is gone
from its table (`Accounted`), and `GoneStays` shows that no statement brings it back,
`Recount` and `WriteCodes` included.  `NewestInv` adds that what is in a table or in a
request's hands is no older than the newest given out (`NewestKept`, `NewestAt`), and
that codes about to be shown are all the row has (`Showing`).

`GuessesBounded` counts what no variable names: how often requests may compare a guess
with copies of one OTP's row, when each wrong guess stores a row of its own with one
attempt more.  `GuessInv` gives every row a place in a tree (`path`: the requests whose
wrong guesses led to it) and every judged guess a node (that path and the request
itself).  `Traced` says that no two rows of an OTP share a place, that the attempts of a
row are its depth, and that a node done once cannot be judged again: the row is deleted
before the guess is counted (`Removed`), and no row comes back under its old id.  Both maps
are bound by an existential in the invariant; a step picks the next ones (`TraceKept`,
`TraceStarted`, `TraceJudged`).  So the guesses at an OTP inject into the
sequences of at most `OtpAttempts` requests (`Nodes`), and `GuessCount` shows that there
are at most `Guesses[OtpAttempts]` of those, by the least attempt limit for which that
would fail (`LeastNumber`): an induction the library's theorem could not be used for.

**`ServerProofs`** (middleware and migrations):
`OnlyAllowedReachHandlers`, `AnswersReadable`, `RateIsLimited`, `TypeCorrect`,
`NoKeyLost`, `ServesOnCurrentSchema`, `OrganizationsOwnKeys`.  `OnlyAllowedHandled`
speaks of a handler that has run; `Underway` says of each stage which checks a
request has passed when it is there, and for whom it then acts, and `RanFor` that
a handler has run only for a request that is answered, so that no later step can
change what it was.  `Offers` is arbitrary: any mix of requests, where the run has
one slot of 26 kinds.  `RateHolds` counts what was let past, and the limiter only its
bucket, which drops entries by a clock read earlier.  `RateInv` ties the two:
what was let past and may still share a window with the present has its entry in the
bucket (`Remembered`), whoever pruned it last (`StillWithin`), and has but one, since
a request is counted once.  So a window that has not ended injects into the entries
the next request is judged by (`Injects`), and that request adds at most one
(`CountBounds`); a window that has ended gains nothing.  Windows, maxima, overrides
and the number of requests are arbitrary; a maximum is any natural number, 0 too.
`NoKeyLost` allows any number of crashes and any set of old
keys.  `KeysInv` says that rows are only in a table that is there, that a script
drops a table only right after it has copied its rows (`Script`, proved of all three
scripts), and that when the drop is next the rows are in both tables (`Copied`); an
accepted statement keeps this (`ApplyKeeps`), a crash takes the schema as it is.
`ServesCurrent` is about what a whole script does: `Runs(d, s, e)` says that a
database on schema `d` accepts the statements of `s` one after the other and is on `e`
then.  Scripts are joined by `RunsJoin`; `InitialGrows` follows the first migration
table by table (a table's foreign keys point to tables that are there, no index is
made twice), `AlterRuns` and `RebuildRuns` the change of ownership in place and by a
copy.  `CurrentInv` says that, while no crash has cut a migration short, a boot is
somewhere on the way to that end (`OnWay`), and a schema that a crash leaves is one from
which the next boot is on its way, so no statement is refused.  `FreedInv` needs no such
condition: a schema with the foreign key has `user_id` still and lists the first
migration only, so that a boot which meets it sends a script that frees the table
(`Frees`: a statement that drops the key or puts the table aside, ahead of any renamed
column), and a boot that has sent everything has freed it.

**Only model-checked.**  `ComesUp` is liveness under fairness and out of the prover's
reach.  Every other property of a passing run is a theorem.

## 6. Not modelled

* Provider descriptions, token encryption, password hashing, cookies, e-mail
  sending, wire types and OpenAPI: data, or calls of a library whose outcome the
  modules take.
* The cache adapter: nothing in the repository calls it.
* Hooks, custom middleware and custom plugins: the application's code.
* Code generation, the command line, documentation, examples and scripts: nothing
  at run time.
* In modelled components: listings and other reads without an effect, custom
  roles, the active organization of a session, permissions other than an
  administrator's, the age a session may have for deleting an account without a
  password (`fresh_age`), and the deletion of a user as it cascades into organizations.
* Simplified: a passkey's id is that of the challenge it was registered with, and a
  sign-in with an ID token brings no refresh token of the client's own (the handler
  would store one, and `StoredGrantLive` speaks of those the provider issued).

## 7. Plan

Every safety property a passing run checks is proved.  What would extend the project is more of
the code: custom roles and the active organization, the deletion of a user as it cascades
into organizations, and lifetimes where a late answer meets a cleanup.
