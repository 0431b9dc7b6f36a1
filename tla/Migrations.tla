----------------------------- MODULE Migrations -----------------------------
(***************************************************************************)
(* Bringing a database up to the schema the stores expect: AuthMigrator of *)
(* crates/seaorm/src/store/migrator.rs, which a server runs before it      *)
(* serves, compat-tests/rust-server/src/main.rs as any other.              *)
(*                                                                         *)
(* A boot runs the migrations that better_auth_migrations does not list,   *)
(* each a sequence of statements, and lists each when it is through.  A    *)
(* statement that fails ends the boot.  A crash between two statements     *)
(* leaves what was done, or on PostgreSQL, where sea-orm-migration puts    *)
(* the whole run into one transaction, nothing.  Columns other than those  *)
(* of the ownership of API keys are left out.                              *)
(***************************************************************************)
EXTENDS Naturals, SequencesExt

CONSTANTS
    Backends,       \* the databases of this instance
    OldKeys,        \* API keys of an installation from before the change
    MaxCrashes      \* bound on the number of crashes

ASSUME MigrationsAssumption ==
    /\ Backends \subseteq {"postgres", "mysql", "sqlite"}
    /\ MaxCrashes \in Nat

VARIABLES
    backend,    \* which of them this is
    installed,  \* TRUE: the database is that of an installation from before the change
    schema,     \* the schema as another connection sees it
    work,       \* the schema as the connection of this boot sees it
    phase,      \* "down", "booting" or "up"
    todo,       \* the statements of the migration under way still to be sent
    crashes,
    cut         \* history: a crash has cut a migration short

schemaVars == <<backend, installed, schema, work, phase, todo, crashes, cut>>

Migrations == <<"initial", "ownership">>

-----------------------------------------------------------------------------
(* Statements, and what they do to a schema.                               *)

\* The table api_keys is old when it is the one with user_id, and new when it is
\* the one with reference_id.  A schema without a table has no row and no column of it.
Nowhere == [columns |-> {}, foreign |-> FALSE, rows |-> {}]
OldTable == [columns |-> {"user_id"}, foreign |-> TRUE, rows |-> OldKeys]
NewTable == [columns |-> {"reference_id", "config_id"}, foreign |-> FALSE, rows |-> {}]

Statement(do, name, on) == [do |-> do, name |-> name, on |-> on]
\* CREATE TABLE IF NOT EXISTS name, with foreign keys to the tables in refs.
Create(name, refs) == Statement("create_table", name, refs)
\* CREATE INDEX, without IF NOT EXISTS.  An index is named by its table and columns.
Index(name, on) == Statement("create_index", <<name, on>>, {name})

TableOf(name, refs, indexed) ==
    <<Create(name, refs)>> \o [i \in 1 .. Len(indexed) |-> Index(name, indexed[i])]

CreateUsers == TableOf("users", {}, <<"email", "username">>)
CreateSessions == TableOf("sessions", {"users"}, <<"token", "user_id", "expires_at">>)
CreateAccounts == TableOf("accounts", {"users"}, <<"user_id", "provider_account">>)
CreateVerifications == TableOf("verifications", {}, <<"identifier">>)
CreateOrganizations == TableOf("organization", {}, <<"slug">>)
CreateMembers ==
    TableOf("member", {"organization", "users"},
            <<"organization_id", "user_id", "org_user_unique">>)
CreateInvitations ==
    TableOf("invitation", {"organization", "users"},
            <<"organization_id", "email", "status">>)
CreateTwoFactor == TableOf("two_factor", {"users"}, <<"user_id">>)
CreateApiKeys == TableOf("api_keys", {}, <<"reference_id", "config_id">>)
CreatePasskeys == TableOf("passkeys", {"users"}, <<"user_id", "credential_id">>)
CreateDeviceCodes ==
    TableOf("device_code", {"users"},
            <<"device_code", "user_code", "user_id", "expires_at">>)

\* Seeded fault: a table is created ahead of one that it refers to.
InitialMembersFirst ==
    CreateUsers \o CreateSessions \o CreateAccounts \o CreateVerifications
    \o CreateMembers \o CreateOrganizations \o CreateInvitations \o CreateTwoFactor
    \o CreateApiKeys \o CreatePasskeys \o CreateDeviceCodes
InitialAuthSchema ==
    CreateUsers \o CreateSessions \o CreateAccounts \o CreateVerifications
    \o CreateOrganizations \o CreateMembers \o CreateInvitations \o CreateTwoFactor
    \o CreateApiKeys \o CreatePasskeys \o CreateDeviceCodes

\* Where the backend can, the table is altered in place.
\* Seeded fault: the foreign key to users stays.
AlterKeepingForeign ==
    <<Statement("drop_index", <<"api_keys", "user_id">>, {}),
      Statement("rename_column", "api_keys", {}),
      Statement("add_column", "api_keys", {}),
      Index("api_keys", "reference_id"),
      Index("api_keys", "config_id")>>
\* Seeded fault: the foreign key goes after the column it constrains.
AlterRenamingFirst ==
    <<Statement("rename_column", "api_keys", {}),
      Statement("drop_foreign", "api_keys", {}),
      Statement("drop_index", <<"api_keys", "user_id">>, {}),
      Statement("add_column", "api_keys", {}),
      Index("api_keys", "reference_id"),
      Index("api_keys", "config_id")>>
AlterApiKeys ==
    <<Statement("drop_foreign", "api_keys", {}),
      Statement("drop_index", <<"api_keys", "user_id">>, {}),
      Statement("rename_column", "api_keys", {}),
      Statement("add_column", "api_keys", {}),
      Index("api_keys", "reference_id"),
      Index("api_keys", "config_id")>>

\* SQLite copies the rows through a table of the new shape.
\* Seeded fault: the old table goes before its rows have been copied.
RebuildEagerly ==
    <<Statement("drop_index_if", <<"api_keys", "user_id">>, {}),
      Statement("rename_table", "api_keys", {})>>
    \o <<Statement("drop_table", "api_keys_old", {})>> \o CreateApiKeys
    \o <<Statement("copy_rows", "api_keys_old", {})>>
RebuildApiKeys ==
    <<Statement("drop_index_if", <<"api_keys", "user_id">>, {}),
      Statement("rename_table", "api_keys", {})>>
    \o CreateApiKeys
    \o <<Statement("copy_rows", "api_keys_old", {}),
         Statement("drop_table", "api_keys_old", {})>>

\* Whether a schema accepts a statement.
Accepts(d, s) ==
    CASE s.do = "create_table"  -> s.on \subseteq d.tables
      [] s.do = "create_index"  ->
           /\ s.name \notin d.indexes
           /\ s.on \subseteq d.tables
           /\ s.name[1] = "api_keys" => s.name[2] \in d.keys.columns
      [] s.do = "drop_foreign"  -> d.keys.foreign
      [] s.do = "drop_index"    -> s.name \in d.indexes
      [] s.do = "rename_column" -> "user_id" \in d.keys.columns
      [] s.do = "add_column"    -> "config_id" \notin d.keys.columns
      [] s.do = "rename_table"  -> {"api_keys", "api_keys_old"} \cap d.tables = {"api_keys"}
      [] s.do = "copy_rows"     -> {"api_keys", s.name} \subseteq d.tables
      [] s.do = "drop_table"    -> s.name \in d.tables
      [] OTHER -> TRUE

Apply(d, s) ==
    CASE s.do = "create_table" ->
           [d EXCEPT !.tables = @ \cup {s.name},
                     !.keys = IF s.name = "api_keys" /\ s.name \notin d.tables
                              THEN NewTable ELSE @]
      [] s.do = "create_index" -> [d EXCEPT !.indexes = @ \cup {s.name}]
      [] s.do \in {"drop_index", "drop_index_if"} -> [d EXCEPT !.indexes = @ \ {s.name}]
      [] s.do = "drop_foreign" -> [d EXCEPT !.keys.foreign = FALSE]
      [] s.do = "rename_column" ->
           [d EXCEPT !.keys.columns = (@ \ {"user_id"}) \cup {"reference_id"}]
      [] s.do = "add_column" -> [d EXCEPT !.keys.columns = @ \cup {"config_id"}]
      [] s.do = "rename_table" ->
           [d EXCEPT !.tables = (@ \ {"api_keys"}) \cup {"api_keys_old"},
                     !.old = d.keys.rows, !.keys = Nowhere]
      [] s.do = "copy_rows" -> [d EXCEPT !.keys.rows = @ \cup d.old]
      [] s.do = "drop_table" -> [d EXCEPT !.tables = @ \ {s.name}, !.old = {}]

-----------------------------------------------------------------------------
(* Booting.                                                                *)

Fresh == [tables |-> {}, indexes |-> {}, keys |-> Nowhere, old |-> {}, applied |-> {}]
Tables == {"users", "sessions", "accounts", "verifications", "organization", "member",
           "invitation", "two_factor", "api_keys", "passkeys", "device_code"}
Current ==
    [tables |-> Tables, keys |-> NewTable, old |-> {}, applied |-> Range(Migrations),
     indexes |-> LET all == InitialAuthSchema IN
                 {all[i].name : i \in {j \in DOMAIN all : all[j].do = "create_index"}}]
\* An installation from before the change: everything but the shape of api_keys.
Installed ==
    [Current EXCEPT
        !.keys = OldTable, !.applied = {"initial"},
        !.indexes = {i \in @ : i[1] # "api_keys"} \cup {<<"api_keys", "user_id">>}]

SchemaInit ==
    /\ backend \in Backends
    /\ installed \in BOOLEAN
    /\ schema = IF installed THEN Installed ELSE Fresh
    /\ work = schema
    /\ phase = "down"
    /\ todo = <<>>
    /\ crashes = 0
    /\ cut = FALSE

Transactional == backend = "postgres"
Visible(d) == schema' = IF Transactional THEN schema ELSE d

\* The migrations that are not listed, and the first of them.
Pending(d) == {i \in DOMAIN Migrations : Migrations[i] \notin d.applied}
NextOf(d) == Migrations[CHOOSE i \in Pending(d) : \A j \in Pending(d) : i <= j]

\* What a migration finds to do on this schema.
StatementsOf(m, d) ==
    IF m = "initial" THEN InitialAuthSchema
    ELSE IF "reference_id" \in d.keys.columns THEN <<>>
    ELSE IF backend = "sqlite" THEN RebuildApiKeys
    ELSE AlterApiKeys

\* What the first migration that is not listed sends.
Remaining(d) == IF Pending(d) = {} THEN <<>> ELSE StatementsOf(NextOf(d), d)

Boot ==
    /\ phase = "down"
    /\ phase' = "booting"
    /\ work' = schema
    /\ todo' = Remaining(schema)
    /\ UNCHANGED <<backend, installed, schema, crashes, cut>>

SendStatement ==
    /\ phase = "booting" /\ todo # <<>>
    /\ IF Accepts(work, Head(todo))
       THEN /\ work' = Apply(work, Head(todo))
            /\ todo' = Tail(todo)
            /\ Visible(work')
            /\ UNCHANGED phase
       ELSE /\ phase' = "down"
            /\ todo' = <<>>
            /\ work' = schema
            /\ UNCHANGED schema
    /\ UNCHANGED <<backend, installed, crashes, cut>>

\* The migration is listed, and the next one looks at what it finds.
RecordMigration ==
    /\ phase = "booting" /\ todo = <<>> /\ Pending(work) # {}
    /\ work' = [work EXCEPT !.applied = @ \cup {NextOf(work)}]
    /\ todo' = Remaining(work')
    /\ Visible(work')
    /\ UNCHANGED <<backend, installed, phase, crashes, cut>>

Serve ==
    /\ phase = "booting" /\ todo = <<>> /\ Pending(work) = {}
    /\ schema' = work
    /\ phase' = "up"
    /\ UNCHANGED <<backend, installed, work, todo, crashes, cut>>

\* A migration is cut short when its statements so far stay, and the next boot will not
\* go on with those that this one still had to send.  A server that is up has none.
Crash ==
    /\ phase # "down"
    /\ crashes < MaxCrashes
    /\ crashes' = crashes + 1
    /\ phase' = "down"
    /\ todo' = <<>>
    /\ work' = schema
    /\ cut' = (cut \/ (~ Transactional /\ todo # Remaining(work)))
    /\ UNCHANGED <<backend, installed, schema>>

BootStep == Boot \/ SendStatement \/ RecordMigration \/ Serve

-----------------------------------------------------------------------------
(* Properties.                                                             *)

Promised == [Current EXCEPT !.keys.rows = IF installed THEN OldKeys ELSE {}]

\* An API key of the installation is never gone: whatever statement the server
\* crashed at, the row is in the table or in the copy rebuild_sqlite_api_keys left.
KeysKept == installed => schema.keys.rows \cup schema.old = OldKeys

\* A server serves on the schema the stores were written for, with every table, index
\* and key, from a fresh database and from an old one, on every backend, and again after
\* every crash but one that cut a migration short: run_migrations.
ServesCurrent == phase = "up" /\ ~ cut => schema = Promised

\* Whatever crash cut the change of ownership short, no server serves with the foreign key
\* to users, which would reject the API keys of organizations: ApiKeyReferenceOwnership
\* takes a table that has reference_id for done, so the key has to go before the rename.
OrganizationsCanOwn == phase = "up" => ~ schema.keys.foreign

\* A server that is down comes up: for the first time, after a crash while it served or
\* between two migrations, and on PostgreSQL after any crash.  One that cut a migration
\* short on MySQL or SQLite is left out: CREATE INDEX may refuse every later boot.
ComesUp == phase = "down" /\ ~ cut ~> phase = "up" \/ cut

=============================================================================
