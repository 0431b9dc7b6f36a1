---------------------------- MODULE ServerProofs ----------------------------
(***************************************************************************)
(* What a server promises of its boot and of its middleware.               *)
(*                                                                         *)
(* No boot loses an API key, wherever it ends: for every set of keys an    *)
(* old installation may hold, on every backend, after any number of        *)
(* crashes.  A key is lost only by dropping the table it is in, and every  *)
(* script that drops a table has copied its rows just before.  A boot      *)
(* after crashes that cut no migration short ends with the schema the      *)
(* stores were written for: each migration, on the schema it finds, meets  *)
(* no statement that the database refuses.  And after any crash no server  *)
(* serves with the foreign key of the old table: a script frees the table  *)
(* of it before it renames the column that tells the table is done.        *)
(*                                                                         *)
(* For every set of requests, whatever each may be, and every              *)
(* configuration: no handler of a plugin runs past a check that refuses    *)
(* the request, or for a user the request cannot act for; a page reads the *)
(* answers its origin is allowed to; and no window sees more requests of a *)
(* path than its limit.  The first two are invariants of one request at a  *)
(* time: a step of a request leaves what is known of the others alone, and *)
(* a handler has run only for a request that is answered.  The last is     *)
(* about all of them: a request that is let past has an entry in the       *)
(* bucket for as long as a window may hold both it and the present.        *)
(***************************************************************************)
EXTENDS Server, FiniteSetTheorems, TLAPS


-----------------------------------------------------------------------------
(* Scripts.                                                                *)

Columns == {"email", "username", "token", "user_id", "expires_at", "provider_account",
            "identifier", "slug", "organization_id", "org_user_unique", "status",
            "reference_id", "config_id", "credential_id", "device_code", "user_code"}
Identifiers == Tables \cup {"api_keys_old"} \cup (Tables \X Columns)
Kinds == {"create_table", "create_index", "drop_index", "drop_index_if", "drop_foreign",
          "rename_column", "add_column", "rename_table", "copy_rows", "drop_table"}
StatementSet ==
    {s \in [do : Kinds, name : Identifiers, on : SUBSET Tables] :
        /\ s.do = "create_table" => s.name \in Tables
        /\ s.do \in {"copy_rows", "drop_table"} => s.name = "api_keys_old"}

Script(s) ==
    /\ s \in Seq(StatementSet)
    /\ \A i \in 1 .. Len(s) : s[i].do = "drop_table" => i > 1 /\ s[i - 1].do = "copy_rows"
DropsNothing(s) ==
    /\ s \in Seq(StatementSet)
    /\ \A i \in 1 .. Len(s) : s[i].do # "drop_table"

LEMMA StatementTyped ==
    ASSUME NEW k \in Kinds, NEW n \in Identifiers, NEW on \in SUBSET Tables,
           k = "create_table" => n \in Tables,
           k \notin {"copy_rows", "drop_table"}
    PROVE  Statement(k, n, on) \in StatementSet /\ Statement(k, n, on).do = k
  BY DEF Statement, StatementSet

LEMMA TableDropsNothing ==
    ASSUME NEW name \in Tables, NEW refs \in SUBSET Tables, NEW indexed \in Seq(Columns)
    PROVE  DropsNothing(TableOf(name, refs, indexed))
<1> DEFINE made == <<Create(name, refs)>>
           rest == [i \in 1 .. Len(indexed) |-> Index(name, indexed[i])]
<1>1. Create(name, refs) \in StatementSet /\ Create(name, refs).do = "create_table"
  BY StatementTyped DEF Create, Kinds, Identifiers
<1>2. \A i \in 1 .. Len(indexed) :
         /\ Index(name, indexed[i]) \in StatementSet
         /\ Index(name, indexed[i]).do = "create_index"
  <2> SUFFICES ASSUME NEW i \in 1 .. Len(indexed)
               PROVE  /\ Index(name, indexed[i]) \in StatementSet
                      /\ Index(name, indexed[i]).do = "create_index"
    OBVIOUS
  <2>1. <<name, indexed[i]>> \in Identifiers
    BY DEF Identifiers
  <2> QED BY <2>1, StatementTyped DEF Index, Kinds
<1>3. rest \in Seq(StatementSet) /\ Len(rest) = Len(indexed)
  BY <1>2
<1>4. DropsNothing(rest)
  BY <1>2, <1>3 DEF DropsNothing
<1>5. DropsNothing(made)
  BY <1>1 DEF DropsNothing
<1> HIDE DEF made, rest
<1>6. DropsNothing(made \o rest)
  BY <1>4, <1>5 DEF DropsNothing
<1> QED BY <1>6 DEF TableOf, made, rest

LEMMA JoinDropsNothing ==
    ASSUME NEW s, NEW t, DropsNothing(s), DropsNothing(t)
    PROVE  DropsNothing(s \o t)
  BY DEF DropsNothing

LEMMA DropsNothingIsScript ==
    ASSUME NEW s, DropsNothing(s) PROVE Script(s)
  BY DEF DropsNothing, Script

LEMMA InitialIsScript == Script(InitialAuthSchema)
<1>1. DropsNothing(CreateUsers)
  <2>1. "users" \in Tables /\ {} \in SUBSET Tables /\ <<"email", "username">> \in Seq(Columns)
    BY DEF Tables, Columns
  <2> QED BY <2>1, TableDropsNothing DEF CreateUsers
<1>2. DropsNothing(CreateSessions)
  <2>1. "sessions" \in Tables /\ {"users"} \in SUBSET Tables /\ <<"token", "user_id", "expires_at">> \in Seq(Columns)
    BY DEF Tables, Columns
  <2> QED BY <2>1, TableDropsNothing DEF CreateSessions
<1>3. DropsNothing(CreateAccounts)
  <2>1. "accounts" \in Tables /\ {"users"} \in SUBSET Tables /\ <<"user_id", "provider_account">> \in Seq(Columns)
    BY DEF Tables, Columns
  <2> QED BY <2>1, TableDropsNothing DEF CreateAccounts
<1>4. DropsNothing(CreateVerifications)
  <2>1. "verifications" \in Tables /\ {} \in SUBSET Tables /\ <<"identifier">> \in Seq(Columns)
    BY DEF Tables, Columns
  <2> QED BY <2>1, TableDropsNothing DEF CreateVerifications
<1>5. DropsNothing(CreateOrganizations)
  <2>1. "organization" \in Tables /\ {} \in SUBSET Tables /\ <<"slug">> \in Seq(Columns)
    BY DEF Tables, Columns
  <2> QED BY <2>1, TableDropsNothing DEF CreateOrganizations
<1>6. DropsNothing(CreateMembers)
  <2>1. "member" \in Tables /\ {"organization", "users"} \in SUBSET Tables /\ <<"organization_id", "user_id", "org_user_unique">> \in Seq(Columns)
    BY DEF Tables, Columns
  <2> QED BY <2>1, TableDropsNothing DEF CreateMembers
<1>7. DropsNothing(CreateInvitations)
  <2>1. "invitation" \in Tables /\ {"organization", "users"} \in SUBSET Tables /\ <<"organization_id", "email", "status">> \in Seq(Columns)
    BY DEF Tables, Columns
  <2> QED BY <2>1, TableDropsNothing DEF CreateInvitations
<1>8. DropsNothing(CreateTwoFactor)
  <2>1. "two_factor" \in Tables /\ {"users"} \in SUBSET Tables /\ <<"user_id">> \in Seq(Columns)
    BY DEF Tables, Columns
  <2> QED BY <2>1, TableDropsNothing DEF CreateTwoFactor
<1>9. DropsNothing(CreateApiKeys)
  <2>1. "api_keys" \in Tables /\ {} \in SUBSET Tables /\ <<"reference_id", "config_id">> \in Seq(Columns)
    BY DEF Tables, Columns
  <2> QED BY <2>1, TableDropsNothing DEF CreateApiKeys
<1>10. DropsNothing(CreatePasskeys)
  <2>1. "passkeys" \in Tables /\ {"users"} \in SUBSET Tables /\ <<"user_id", "credential_id">> \in Seq(Columns)
    BY DEF Tables, Columns
  <2> QED BY <2>1, TableDropsNothing DEF CreatePasskeys
<1>11. DropsNothing(CreateDeviceCodes)
  <2>1. "device_code" \in Tables /\ {"users"} \in SUBSET Tables /\ <<"device_code", "user_code", "user_id", "expires_at">> \in Seq(Columns)
    BY DEF Tables, Columns
  <2> QED BY <2>1, TableDropsNothing DEF CreateDeviceCodes
<1>12. DropsNothing(CreateUsers \o CreateSessions \o CreateAccounts \o CreateVerifications)
  BY <1>1, <1>2, <1>3, <1>4, JoinDropsNothing
<1>13. DropsNothing(CreateUsers \o CreateSessions \o CreateAccounts \o CreateVerifications
                    \o CreateOrganizations \o CreateMembers \o CreateInvitations
                    \o CreateTwoFactor)
  BY <1>12, <1>5, <1>6, <1>7, <1>8, JoinDropsNothing
<1>14. DropsNothing(InitialAuthSchema)
  BY <1>13, <1>9, <1>10, <1>11, JoinDropsNothing DEF InitialAuthSchema
<1> QED BY <1>14, DropsNothingIsScript

LEMMA AlterIsScript == Script(AlterApiKeys)
<1>1. /\ Statement("drop_foreign", "api_keys", {}) \in StatementSet
      /\ Statement("drop_index", <<"api_keys", "user_id">>, {}) \in StatementSet
      /\ Statement("rename_column", "api_keys", {}) \in StatementSet
      /\ Statement("add_column", "api_keys", {}) \in StatementSet
      /\ Index("api_keys", "reference_id") \in StatementSet
      /\ Index("api_keys", "config_id") \in StatementSet
  BY DEF Statement, Index, StatementSet, Kinds, Identifiers, Tables, Columns
<1>2. AlterApiKeys \in Seq(StatementSet)
  BY <1>1 DEF AlterApiKeys
<1>3. \A i \in 1 .. Len(AlterApiKeys) : AlterApiKeys[i].do # "drop_table"
  BY DEF AlterApiKeys, Statement, Index
<1> QED BY <1>2, <1>3, DropsNothingIsScript DEF DropsNothing

LEMMA RebuildIsScript == Script(RebuildApiKeys)
<1> DEFINE before == <<Statement("drop_index_if", <<"api_keys", "user_id">>, {}),
                       Statement("rename_table", "api_keys", {})>>
           after == <<Statement("copy_rows", "api_keys_old", {}),
                      Statement("drop_table", "api_keys_old", {})>>
<1>1. DropsNothing(before)
  BY DEF DropsNothing, Statement, StatementSet, Kinds, Identifiers, Tables, Columns
<1>2. DropsNothing(CreateApiKeys)
  BY TableDropsNothing DEF Tables, Columns, CreateApiKeys
<1>3. Script(after)
  BY DEF Script, Statement, StatementSet, Kinds, Identifiers, Tables, Columns
<1> HIDE DEF before, after
<1>4. DropsNothing(before \o CreateApiKeys)
  BY <1>1, <1>2, JoinDropsNothing
<1>5. ASSUME NEW s, NEW t, DropsNothing(s), Script(t) PROVE Script(s \o t)
  <2>1. s \in Seq(StatementSet) /\ t \in Seq(StatementSet) /\ s \o t \in Seq(StatementSet)
    BY <1>5 DEF DropsNothing, Script
  <2>2. ASSUME NEW i \in 1 .. Len(s \o t), (s \o t)[i].do = "drop_table"
        PROVE  i > 1 /\ (s \o t)[i - 1].do = "copy_rows"
    <3>1. i > Len(s) /\ i - Len(s) \in 1 .. Len(t) /\ (s \o t)[i] = t[i - Len(s)]
      BY <1>5, <2>1, <2>2 DEF DropsNothing
    <3>2. i - Len(s) > 1 /\ t[i - Len(s) - 1].do = "copy_rows"
      BY <1>5, <2>2, <3>1 DEF Script
    <3>3. i - 1 > Len(s) /\ (s \o t)[i - 1] = t[i - Len(s) - 1]
      BY <2>1, <3>1, <3>2
    <3> QED BY <2>1, <3>1, <3>2, <3>3
  <2> QED BY <2>1, <2>2 DEF Script
<1>6. Script(before \o CreateApiKeys \o after)
  BY <1>3, <1>4, <1>5
<1> QED BY <1>6 DEF RebuildApiKeys, before, after

-----------------------------------------------------------------------------
(* Schemas.                                                                *)

Keys == [columns : SUBSET {"user_id", "reference_id", "config_id"}, foreign : BOOLEAN,
         rows : SUBSET OldKeys]
IsSchema(d) ==
    /\ d = [tables |-> d.tables, indexes |-> d.indexes, keys |-> d.keys, old |-> d.old,
            applied |-> d.applied]
    /\ d.tables \subseteq Tables \cup {"api_keys_old"}
    /\ d.indexes \subseteq Identifiers
    /\ d.keys \in Keys
    /\ d.old \subseteq OldKeys

Stored(d) == d.keys.rows \cup d.old
\* A row is in a table that is there, and an old installation's rows are all somewhere.
Sound(d) ==
    /\ IsSchema(d)
    /\ "api_keys" \notin d.tables => d.keys.rows = {}
    /\ "api_keys_old" \notin d.tables => d.old = {}
    /\ installed => Stored(d) = OldKeys

\* A table is dropped only when its rows are in the other.
Copied(d, s) == s # <<>> /\ s[1].do = "drop_table" => d.old \subseteq d.keys.rows

KeysInv ==
    /\ Sound(schema) /\ Sound(work)
    /\ todo \in Seq(StatementSet)
    /\ \A i \in 2 .. Len(todo) : todo[i].do = "drop_table" => todo[i - 1].do = "copy_rows"
    /\ Copied(work, todo)

\* A statement that the database accepts moves rows, and loses none.
LEMMA ApplyKeeps ==
    ASSUME NEW d, Sound(d), NEW s \in StatementSet, Accepts(d, s),
           s.do = "drop_table" => d.old \subseteq d.keys.rows
    PROVE  /\ Sound(Apply(d, s))
           /\ s.do = "copy_rows" => Apply(d, s).old \subseteq Apply(d, s).keys.rows
<1>0. /\ IsSchema(d) /\ d.keys \in Keys
      /\ d.tables \subseteq Tables \cup {"api_keys_old"}
      /\ d.keys.rows \subseteq OldKeys /\ d.old \subseteq OldKeys
      /\ d.indexes \subseteq Identifiers /\ s.name \in Identifiers
      /\ s.do = "create_table" => s.name \in Tables
      /\ s.do \in {"copy_rows", "drop_table"} => s.name = "api_keys_old"
  BY DEF Sound, IsSchema, Keys, StatementSet
<1>1. CASE s.do = "create_table"
  <2>1. NewTable \in Keys /\ NewTable.rows = {}
    BY DEF NewTable, Keys
  <2>2. Apply(d, s) = [d EXCEPT !.tables = @ \cup {s.name},
                                !.keys = IF s.name = "api_keys" /\ s.name \notin d.tables
                                         THEN NewTable ELSE @]
    BY <1>1 DEF Apply
  <2>3. CASE s.name = "api_keys" /\ s.name \notin d.tables
    <3>1. Apply(d, s) = [d EXCEPT !.tables = @ \cup {s.name}, !.keys = NewTable]
      BY <2>2, <2>3
    <3>2. IsSchema(Apply(d, s))
      <4>1. d.tables \cup {s.name} \subseteq Tables \cup {"api_keys_old"}
        BY <1>0, <1>1
      <4> QED BY <1>0, <4>1, <2>1, <3>1 DEF IsSchema
    <3>3. /\ Apply(d, s).tables = d.tables \cup {"api_keys"}
          /\ Apply(d, s).keys.rows = {} /\ Apply(d, s).old = d.old
      BY <1>0, <2>1, <2>3, <3>1 DEF IsSchema
    <3>4. d.keys.rows = {} /\ ("api_keys_old" \notin d.tables => d.old = {})
      BY <2>3 DEF Sound
    <3>5. installed => d.old = OldKeys
      BY <3>4 DEF Sound, Stored
    <3>6. Sound(Apply(d, s))
      BY <3>2, <3>3, <3>4, <3>5 DEF Sound, Stored
    <3> QED BY <1>1, <3>6
  <2>4. CASE ~ (s.name = "api_keys" /\ s.name \notin d.tables)
    <3>1. Apply(d, s) = [d EXCEPT !.tables = @ \cup {s.name}]
      BY <1>0, <2>2, <2>4 DEF IsSchema
    <3> QED BY <1>0, <1>1, <3>1 DEF Sound, IsSchema, Stored
  <2> QED BY <2>3, <2>4
<1>2. CASE s.do = "create_index"
  <2>1. Apply(d, s) = [d EXCEPT !.indexes = @ \cup {s.name}]
    BY <1>2 DEF Apply
  <2>2. /\ Apply(d, s).tables = d.tables /\ Apply(d, s).keys = d.keys /\ Apply(d, s).old = d.old
        /\ Apply(d, s).indexes = d.indexes \cup {s.name}
        /\ IsSchema(Apply(d, s))
    BY <1>0, <2>1 DEF IsSchema
  <2>3. Sound(Apply(d, s))
    BY <2>2 DEF Sound, Stored
  <2> QED BY <1>2, <2>3
<1>3. CASE s.do \in {"drop_index", "drop_index_if"}
  <2>1. Apply(d, s) = [d EXCEPT !.indexes = @ \ {s.name}]
    BY <1>3 DEF Apply
  <2>2. /\ Apply(d, s).tables = d.tables /\ Apply(d, s).keys = d.keys /\ Apply(d, s).old = d.old
        /\ Apply(d, s).indexes = d.indexes \ {s.name}
        /\ IsSchema(Apply(d, s))
    BY <1>0, <2>1 DEF IsSchema
  <2>3. Sound(Apply(d, s))
    BY <2>2 DEF Sound, Stored
  <2> QED BY <1>3, <2>3
<1>4. ASSUME NEW k \in Keys, k.rows = d.keys.rows, s.do # "copy_rows",
             Apply(d, s) = [d EXCEPT !.keys = k]
      PROVE  Sound(Apply(d, s))
  BY <1>0, <1>4 DEF Sound, IsSchema, Stored
<1>5. CASE s.do = "drop_foreign"
  <2>1. /\ [d.keys EXCEPT !.foreign = FALSE] \in Keys
        /\ [d.keys EXCEPT !.foreign = FALSE].rows = d.keys.rows
    BY <1>0 DEF Keys
  <2>2. Apply(d, s) = [d EXCEPT !.keys = [d.keys EXCEPT !.foreign = FALSE]]
    BY <1>0, <1>5 DEF Apply, IsSchema
  <2> QED BY <1>4, <1>5, <2>1, <2>2
<1>6. CASE s.do = "rename_column"
  <2> DEFINE k == [d.keys EXCEPT !.columns = (@ \ {"user_id"}) \cup {"reference_id"}]
  <2>1. k \in Keys /\ k.rows = d.keys.rows
    BY <1>0 DEF Keys
  <2>2. Apply(d, s) = [d EXCEPT !.keys = k]
    BY <1>0, <1>6 DEF Apply, IsSchema
  <2> QED BY <1>4, <1>6, <2>1, <2>2
<1>7. CASE s.do = "add_column"
  <2> DEFINE k == [d.keys EXCEPT !.columns = @ \cup {"config_id"}]
  <2>1. k \in Keys /\ k.rows = d.keys.rows
    BY <1>0 DEF Keys
  <2>2. Apply(d, s) = [d EXCEPT !.keys = k]
    BY <1>0, <1>7 DEF Apply, IsSchema
  <2> QED BY <1>4, <1>7, <2>1, <2>2
<1>8. CASE s.do = "rename_table"
  <2>1. Apply(d, s) = [d EXCEPT !.tables = (@ \ {"api_keys"}) \cup {"api_keys_old"},
                                !.old = d.keys.rows, !.keys = Nowhere]
    BY <1>8 DEF Apply
  <2>2. "api_keys_old" \notin d.tables
    BY <1>8 DEF Accepts
  <2>3. d.old = {}
    BY <2>2 DEF Sound
  <2>4. Nowhere \in Keys /\ Nowhere.rows = {}
    BY DEF Nowhere, Keys
  <2>5. IsSchema(Apply(d, s))
    BY <1>0, <2>1, <2>4 DEF IsSchema
  <2>6. /\ Apply(d, s).tables = (d.tables \ {"api_keys"}) \cup {"api_keys_old"}
        /\ Apply(d, s).keys.rows = {} /\ Apply(d, s).old = d.keys.rows
    BY <1>0, <2>1, <2>4 DEF IsSchema
  <2>7. installed => d.keys.rows = OldKeys
    BY <2>3 DEF Sound, Stored
  <2>8. Sound(Apply(d, s))
    BY <2>5, <2>6, <2>7 DEF Sound, Stored
  <2> QED BY <1>8, <2>8
<1>9. CASE s.do = "copy_rows"
  <2> DEFINE k == [d.keys EXCEPT !.rows = @ \cup d.old]
  <2>1. k \in Keys /\ k.rows = d.keys.rows \cup d.old
    BY <1>0 DEF Keys
  <2>2. Apply(d, s) = [d EXCEPT !.keys = k]
    BY <1>0, <1>9 DEF Apply, IsSchema
  <2>3. "api_keys" \in d.tables /\ "api_keys_old" \in d.tables
    BY <1>0, <1>9 DEF Accepts
  <2> HIDE DEF k
  <2> QED BY <1>0, <2>1, <2>2, <2>3 DEF Sound, IsSchema, Stored
<1>10. CASE s.do = "drop_table"
  <2>1. Apply(d, s) = [d EXCEPT !.tables = @ \ {"api_keys_old"}, !.old = {}]
    BY <1>0, <1>10 DEF Apply
  <2> QED BY <1>0, <1>10, <2>1 DEF Sound, IsSchema, Stored
<1> QED BY <1>1, <1>2, <1>3, <1>5, <1>6, <1>7, <1>8, <1>9, <1>10, <1>4
        DEF StatementSet, Kinds

-----------------------------------------------------------------------------
(* Every step of a boot, and every crash.                                  *)

\* What a migration sends has the form the invariant asks for, and begins with no drop.
LEMMA ScriptStarts ==
    ASSUME NEW d, NEW m
    PROVE  /\ StatementsOf(m, d) \in Seq(StatementSet)
           /\ Script(StatementsOf(m, d))
           /\ Copied(d, StatementsOf(m, d))
<1>1. Script(<<>>)
  BY DEF Script
<1>2. Script(StatementsOf(m, d))
  BY <1>1, InitialIsScript, AlterIsScript, RebuildIsScript DEF StatementsOf
<1> QED BY <1>2 DEF Script, Copied

LEMMA NothingStarts == ASSUME NEW d PROVE Script(<<>>) /\ Copied(d, <<>>)
  BY DEF Script, Copied

LEMMA SchemaInitOK == SchemaInit => KeysInv
<1> SUFFICES ASSUME SchemaInit PROVE KeysInv
  OBVIOUS
<1>1. /\ InitialAuthSchema \in Seq(StatementSet)
      /\ Current.tables = Tables /\ Current.old = {}
      /\ Current = [tables |-> Tables, indexes |-> Current.indexes, keys |-> NewTable,
                    old |-> {}, applied |-> Current.applied]
  BY InitialIsScript DEF Script, Current
<1>2. Current.indexes \subseteq Identifiers
  BY <1>1 DEF Current, StatementSet
<1>3. Sound(Fresh) \/ installed
  BY DEF Fresh, Nowhere, Sound, IsSchema, Keys
<1>4. PICK listed : listed = {i \in Current.indexes : i[1] # "api_keys"}
                                  \cup {<<"api_keys", "user_id">>}
  OBVIOUS
<1>5. Installed = [Current EXCEPT !.keys = OldTable, !.applied = {"initial"},
                                  !.indexes = listed]
  BY <1>4 DEF Installed
<1>6. /\ Installed = [tables |-> Installed.tables, indexes |-> Installed.indexes,
                      keys |-> Installed.keys, old |-> Installed.old,
                      applied |-> Installed.applied]
      /\ Installed.tables = Tables /\ Installed.indexes = listed
      /\ Installed.keys = OldTable /\ Installed.old = {}
  BY <1>1, <1>5
<1>7. listed \subseteq Identifiers
  BY <1>2, <1>4 DEF Identifiers, Tables, Columns
<1>8. OldTable \in Keys /\ OldTable.rows = OldKeys
  BY DEF OldTable, Keys
<1>9. "api_keys" \in Tables
  BY DEF Tables
<1>10. Sound(Installed)
  BY <1>6, <1>7, <1>8, <1>9 DEF Sound, IsSchema, Stored
<1>11. Sound(schema)
  BY <1>3, <1>10 DEF SchemaInit
<1>12. todo = <<>> /\ work = schema
  BY DEF SchemaInit
<1> QED BY <1>11, <1>12 DEF KeysInv, Copied

LEMMA BootKeeps == KeysInv /\ Boot => KeysInv'
<1> SUFFICES ASSUME KeysInv, Boot PROVE KeysInv'
  OBVIOUS
<1>1. /\ Sound(schema)' /\ Sound(work)' /\ work' = schema
  BY DEF KeysInv, Boot, Sound
<1>2. PICK m : todo' \in {<<>>, StatementsOf(m, schema)}
  BY DEF Boot, Remaining
<1>3. Script(todo') /\ Copied(schema, todo')
  BY <1>2, ScriptStarts, NothingStarts
<1> QED BY <1>1, <1>3 DEF KeysInv, Script, Copied

LEMMA SendKeeps == KeysInv /\ SendStatement => KeysInv'
<1> SUFFICES ASSUME KeysInv, SendStatement PROVE KeysInv'
  OBVIOUS
<1>1. /\ todo # <<>> /\ Head(todo) = todo[1] /\ todo[1] \in StatementSet
      /\ installed' = installed
  BY DEF KeysInv, SendStatement
<1>2. CASE Accepts(work, Head(todo))
  <2> DEFINE s == todo[1]
  <2>1. /\ work' = Apply(work, s) /\ todo' = Tail(todo)
        /\ schema' \in {schema, work'}
    BY <1>1, <1>2 DEF SendStatement, Visible
  <2>2. s.do = "drop_table" => work.old \subseteq work.keys.rows
    BY <1>1 DEF KeysInv, Copied
  <2>3. /\ Sound(Apply(work, s))
        /\ s.do = "copy_rows" => Apply(work, s).old \subseteq Apply(work, s).keys.rows
    BY <1>1, <1>2, <2>2, ApplyKeeps DEF KeysInv
  <2>4. Sound(work)' /\ Sound(schema)'
    BY <1>1, <2>1, <2>3 DEF KeysInv, Sound
  <2>5. /\ todo' \in Seq(StatementSet) /\ Len(todo') = Len(todo) - 1
        /\ \A i \in 1 .. Len(todo') : todo'[i] = todo[i + 1]
    BY <1>1, <2>1 DEF KeysInv
  <2>6. \A i \in 2 .. Len(todo') : todo'[i].do = "drop_table" => todo'[i - 1].do = "copy_rows"
    BY <2>5 DEF KeysInv
  <2>7. Copied(work', todo')
    <3> SUFFICES ASSUME todo' # <<>>, todo'[1].do = "drop_table"
                 PROVE  work'.old \subseteq work'.keys.rows
      BY DEF Copied
    <3>1. todo[2].do = "drop_table" /\ 2 \in 2 .. Len(todo)
      BY <2>5
    <3>2. s.do = "copy_rows"
      BY <3>1 DEF KeysInv
    <3> QED BY <3>2, <2>1, <2>3
  <2> QED BY <2>4, <2>5, <2>6, <2>7 DEF KeysInv, Copied
<1>3. CASE ~ Accepts(work, Head(todo))
  <2>1. todo' = <<>> /\ work' = schema /\ schema' = schema
    BY <1>3 DEF SendStatement
  <2> QED BY <1>1, <2>1 DEF KeysInv, Sound, Copied
<1> QED BY <1>2, <1>3

LEMMA RecordKeeps == KeysInv /\ RecordMigration => KeysInv'
<1> SUFFICES ASSUME KeysInv, RecordMigration PROVE KeysInv'
  OBVIOUS
<1>1. PICK l : work' = [work EXCEPT !.applied = l]
  BY DEF RecordMigration
<1>2. schema' \in {schema, work'} /\ installed' = installed
  BY DEF RecordMigration, Visible
<1>3. Sound(work)'
  BY <1>1, <1>2 DEF KeysInv, Sound, IsSchema, Stored
<1>4. Sound(schema)'
  BY <1>2, <1>3 DEF KeysInv, Sound
<1>5. PICK m : todo' \in {<<>>, StatementsOf(m, work')}
  BY DEF RecordMigration, Remaining
<1>6. Script(todo') /\ Copied(work', todo')
  BY <1>5, ScriptStarts, NothingStarts
<1> QED BY <1>3, <1>4, <1>6 DEF KeysInv, Script, Copied

LEMMA RestKeeps ==
    KeysInv /\ (Serve \/ Crash \/ UNCHANGED schemaVars) => KeysInv'
<1> SUFFICES ASSUME KeysInv, Serve \/ Crash \/ UNCHANGED schemaVars PROVE KeysInv'
  OBVIOUS
<1>1. /\ schema' \in {schema, work} /\ work' \in {schema, work}
      /\ installed' = installed
      /\ todo' = <<>> \/ (todo' = todo /\ work' = work)
  BY DEF Serve, Crash, schemaVars
<1>2. Sound(schema)' /\ Sound(work)'
  BY <1>1 DEF KeysInv, Sound
<1>3. CASE todo' = <<>>
  BY <1>2, <1>3 DEF KeysInv, Copied
<1>4. CASE todo' = todo /\ work' = work
  BY <1>2, <1>4 DEF KeysInv, Copied
<1> QED BY <1>1, <1>3, <1>4

\* A step of the server keeps the keys, whichever it is.
LEMMA BootStepKeeps ==
    KeysInv /\ (BootStep \/ Crash \/ UNCHANGED schemaVars) => KeysInv'
  BY BootKeeps, SendKeeps, RecordKeeps, RestKeeps DEF BootStep

LEMMA InvKeepsKeys == KeysInv => KeysKept
  BY DEF KeysInv, Sound, Stored, KeysKept

-----------------------------------------------------------------------------
(* What a script makes of a schema.                                        *)

\* A database on schema d accepts the statements of s one after the other and is on
\* schema e then.
Runs(d, s, e) ==
    \E f : /\ f[0] = d /\ f[Len(s)] = e
           /\ \A i \in 1 .. Len(s) : Accepts(f[i - 1], s[i]) /\ f[i] = Apply(f[i - 1], s[i])

LEMMA RunsNone == ASSUME NEW d PROVE Runs(d, <<>>, d)
<1> DEFINE f == [i \in {0} |-> d]
<1>1. f[0] = d /\ f[Len(<<>>)] = d
  OBVIOUS
<1>2. \A i \in 1 .. Len(<<>>) : Accepts(f[i - 1], <<>>[i]) /\ f[i] = Apply(f[i - 1], <<>>[i])
  OBVIOUS
<1> HIDE DEF f
<1> QED BY <1>1, <1>2 DEF Runs

LEMMA RunsOut == ASSUME NEW d, NEW e, Runs(d, <<>>, e) PROVE d = e
  BY DEF Runs

LEMMA RunsOne ==
    ASSUME NEW d, NEW s, Accepts(d, s) PROVE Runs(d, <<s>>, Apply(d, s))
<1> DEFINE f == [i \in 0 .. 1 |-> IF i = 0 THEN d ELSE Apply(d, s)]
<1>1. f[0] = d /\ f[1] = Apply(d, s) /\ Len(<<s>>) = 1 /\ <<s>>[1] = s
  OBVIOUS
<1> HIDE DEF f
<1>2. \A i \in 1 .. Len(<<s>>) :
         Accepts(f[i - 1], <<s>>[i]) /\ f[i] = Apply(f[i - 1], <<s>>[i])
  <2> TAKE i \in 1 .. Len(<<s>>)
  <2>1. i = 1 /\ i - 1 = 0
    BY <1>1
  <2> QED BY <1>1, <2>1
<1> QED BY <1>1, <1>2 DEF Runs

LEMMA RunsOn ==
    ASSUME NEW d, NEW S, NEW s \in Seq(S), NEW e, s # <<>>, Runs(d, s, e)
    PROVE  Accepts(d, Head(s)) /\ Runs(Apply(d, Head(s)), Tail(s), e)
<1>1. PICK f : /\ f[0] = d /\ f[Len(s)] = e
               /\ \A i \in 1 .. Len(s) :
                     Accepts(f[i - 1], s[i]) /\ f[i] = Apply(f[i - 1], s[i])
  BY DEF Runs
<1> DEFINE g == [i \in 0 .. Len(s) - 1 |-> f[i + 1]]
           t == Tail(s)
<1>2. /\ Len(s) \in Nat /\ Len(s) >= 1 /\ Head(s) = s[1] /\ Len(t) = Len(s) - 1
      /\ \A i \in 1 .. Len(t) : t[i] = s[i + 1]
  OBVIOUS
<1>3. Accepts(d, Head(s)) /\ f[1] = Apply(d, Head(s))
  <2>1. 1 \in 1 .. Len(s) /\ 1 - 1 = 0
    BY <1>2
  <2>2. Accepts(f[1 - 1], s[1]) /\ f[1] = Apply(f[1 - 1], s[1])
    BY <1>1, <2>1
  <2>3. f[1 - 1] = d
    BY <1>1, <2>1
  <2> QED BY <1>2, <2>2, <2>3
<1>4. g[0] = f[1] /\ g[Len(t)] = e
  BY <1>1, <1>2
<1>5. ASSUME NEW i \in 1 .. Len(t)
      PROVE  Accepts(g[i - 1], t[i]) /\ g[i] = Apply(g[i - 1], t[i])
  <2>1. /\ i + 1 \in 1 .. Len(s) /\ (i + 1) - 1 = i /\ g[i - 1] = f[i] /\ g[i] = f[i + 1]
        /\ t[i] = s[i + 1]
    BY <1>2
  <2>2. Accepts(f[(i + 1) - 1], s[i + 1]) /\ f[i + 1] = Apply(f[(i + 1) - 1], s[i + 1])
    BY <1>1, <2>1
  <2>3. f[(i + 1) - 1] = g[i - 1]
    BY <2>1
  <2> QED BY <2>1, <2>2, <2>3
<1> HIDE DEF g, t
<1>6. Runs(Apply(d, Head(s)), t, e)
  BY <1>3, <1>4, <1>5 DEF Runs
<1> QED BY <1>3, <1>6 DEF t

LEMMA RunsJoin ==
    ASSUME NEW S, NEW s \in Seq(S), NEW t \in Seq(S), NEW d, NEW m, NEW e,
           Runs(d, s, m), Runs(m, t, e)
    PROVE  Runs(d, s \o t, e)
<1>1. PICK f : /\ f[0] = d /\ f[Len(s)] = m
               /\ \A i \in 1 .. Len(s) :
                     Accepts(f[i - 1], s[i]) /\ f[i] = Apply(f[i - 1], s[i])
  BY DEF Runs
<1>2. PICK g : /\ g[0] = m /\ g[Len(t)] = e
               /\ \A i \in 1 .. Len(t) :
                     Accepts(g[i - 1], t[i]) /\ g[i] = Apply(g[i - 1], t[i])
  BY DEF Runs
<1> DEFINE n == Len(s)
           h == [i \in 0 .. n + Len(t) |-> IF i <= n THEN f[i] ELSE g[i - n]]
           u == s \o t
<1>3. /\ n \in Nat /\ Len(t) \in Nat /\ Len(u) = n + Len(t)
      /\ \A i \in 1 .. n : u[i] = s[i]
      /\ \A i \in 1 .. Len(t) : u[n + i] = t[i]
  OBVIOUS
<1>4. /\ \A i \in 0 .. n : h[i] = f[i]
      /\ \A i \in 0 .. Len(t) : h[n + i] = g[i]
  <2>1. \A i \in 0 .. n : h[i] = f[i]
    BY <1>3
  <2>2. \A i \in 1 .. Len(t) : h[n + i] = g[i]
    BY <1>3
  <2>3. h[n + 0] = g[0]
    BY <1>1, <1>2, <1>3
  <2> HIDE DEF h
  <2>4. ASSUME NEW i \in 0 .. Len(t) PROVE h[n + i] = g[i]
    <3>1. i = 0 \/ i \in 1 .. Len(t)
      BY <1>3
    <3> QED BY <2>2, <2>3, <3>1
  <2> QED BY <2>1, <2>4
<1> HIDE DEF h, u
<1>5. h[0] = d /\ h[Len(u)] = e
  BY <1>1, <1>2, <1>3, <1>4
<1>6. ASSUME NEW i \in 1 .. Len(u)
      PROVE  Accepts(h[i - 1], u[i]) /\ h[i] = Apply(h[i - 1], u[i])
  <2>1. CASE i <= n
    <3>1. i \in 1 .. n /\ h[i] = f[i] /\ h[i - 1] = f[i - 1] /\ u[i] = s[i]
      BY <2>1, <1>3, <1>4
    <3> QED BY <3>1, <1>1
  <2>2. CASE i > n
    <3>1. PICK j \in 1 .. Len(t) : i = n + j
      <4>1. i - n \in 1 .. Len(t) /\ i = n + (i - n)
        BY <2>2, <1>3
      <4> QED BY <4>1
    <3>2. h[n + j] = g[j] /\ h[n + (j - 1)] = g[j - 1] /\ u[n + j] = t[j]
      BY <1>3, <1>4
    <3>3. i - 1 = n + (j - 1)
      BY <3>1, <1>3
    <3> QED BY <3>1, <3>2, <3>3, <1>2
  <2> QED BY <2>1, <2>2, <1>3
<1>7. Runs(d, u, e)
  BY <1>5, <1>6 DEF Runs
<1> QED BY <1>7 DEF u

Schema(tables, indexes, keys, old, applied) ==
    [tables |-> tables, indexes |-> indexes, keys |-> keys, old |-> old, applied |-> applied]

\* The indexes that a script makes.
Indexed(s) == {s[i].name : i \in {j \in DOMAIN s : s[j].do = "create_index"}}

LEMMA IndexedJoin ==
    ASSUME NEW S, NEW s \in Seq(S), NEW t \in Seq(S)
    PROVE  Indexed(s \o t) = Indexed(s) \cup Indexed(t)
<1> DEFINE u == s \o t
           n == Len(s)
<1>1. /\ n \in Nat /\ Len(t) \in Nat
      /\ DOMAIN u = 1 .. n + Len(t) /\ DOMAIN s = 1 .. n /\ DOMAIN t = 1 .. Len(t)
      /\ \A i \in 1 .. n : u[i] = s[i]
      /\ \A i \in 1 .. Len(t) : u[n + i] = t[i]
  OBVIOUS
<1> HIDE DEF u
<1>2. ASSUME NEW x \in Indexed(s) PROVE x \in Indexed(u)
  <2>1. PICK i \in DOMAIN s : s[i].do = "create_index" /\ x = s[i].name
    BY DEF Indexed
  <2>2. i \in DOMAIN u /\ u[i] = s[i]
    BY <1>1
  <2> QED BY <2>1, <2>2 DEF Indexed
<1>3. ASSUME NEW x \in Indexed(t) PROVE x \in Indexed(u)
  <2>1. PICK i \in DOMAIN t : t[i].do = "create_index" /\ x = t[i].name
    BY DEF Indexed
  <2>2. n + i \in DOMAIN u /\ u[n + i] = t[i]
    BY <1>1
  <2> QED BY <2>1, <2>2 DEF Indexed
<1>4. ASSUME NEW x \in Indexed(u) PROVE x \in Indexed(s) \cup Indexed(t)
  <2>1. PICK i \in DOMAIN u : u[i].do = "create_index" /\ x = u[i].name
    BY DEF Indexed
  <2>2. CASE i <= n
    <3>1. i \in DOMAIN s /\ u[i] = s[i]
      BY <1>1, <2>2
    <3> QED BY <2>1, <3>1 DEF Indexed
  <2>3. CASE i > n
    <3>1. i - n \in DOMAIN t /\ u[n + (i - n)] = t[i - n] /\ n + (i - n) = i
      BY <1>1, <2>3
    <3>2. u[i] = t[i - n]
      BY <3>1
    <3> QED BY <2>1, <3>1, <3>2 DEF Indexed
  <2> QED BY <1>1, <2>2, <2>3
<1>5. Indexed(u) = Indexed(s) \cup Indexed(t)
  BY <1>2, <1>3, <1>4
<1> QED BY <1>5 DEF u

\* The statements that make the indexes of a table, and the indexes there are after k.
IndexesOf(name, indexed) == [i \in 1 .. Len(indexed) |-> Index(name, indexed[i])]
Made(name, indexed, k) == {<<name, indexed[i]>> : i \in 1 .. k}

LEMMA IndexedTable ==
    ASSUME NEW name \in Tables, NEW refs \in SUBSET Tables, NEW indexed \in Seq(Columns)
    PROVE  /\ TableOf(name, refs, indexed) \in Seq(StatementSet)
           /\ IndexesOf(name, indexed) \in Seq(StatementSet)
           /\ Len(IndexesOf(name, indexed)) = Len(indexed)
           /\ TableOf(name, refs, indexed)
                = <<Create(name, refs)>> \o IndexesOf(name, indexed)
           /\ Indexed(TableOf(name, refs, indexed)) = Made(name, indexed, Len(indexed))
<1> DEFINE made == <<Create(name, refs)>>
           rest == IndexesOf(name, indexed)
<1>1. TableOf(name, refs, indexed) \in Seq(StatementSet)
  BY TableDropsNothing DEF DropsNothing
<1>2. \A i \in 1 .. Len(indexed) : <<name, indexed[i]>> \in Identifiers
  BY DEF Identifiers
<1>3. \A i \in 1 .. Len(indexed) : Index(name, indexed[i]) \in StatementSet
  BY <1>2, StatementTyped DEF Index, Kinds
<1>4. /\ rest \in Seq(StatementSet) /\ Len(rest) = Len(indexed)
      /\ DOMAIN rest = 1 .. Len(indexed)
      /\ \A i \in 1 .. Len(indexed) : rest[i] = Index(name, indexed[i])
  BY <1>3 DEF IndexesOf
<1>5. TableOf(name, refs, indexed) = made \o rest
  BY DEF TableOf, IndexesOf
<1>6. /\ made \in Seq(StatementSet) /\ DOMAIN made = {1}
      /\ made[1].do = "create_table"
  <2>1. Create(name, refs) \in StatementSet /\ Create(name, refs).do = "create_table"
    BY StatementTyped DEF Create, Kinds, Identifiers
  <2>2. PICK c : c = Create(name, refs)
    OBVIOUS
  <2>3. made = <<c>>
    BY <2>2
  <2>4. c \in StatementSet /\ c.do = "create_table"
    BY <2>1, <2>2
  <2> HIDE DEF made
  <2> QED BY <2>3, <2>4
<1> HIDE DEF made, rest
<1>7. Indexed(made) = {}
  BY <1>6 DEF Indexed
<1>8. Indexed(rest) = Made(name, indexed, Len(indexed))
  <2>1. \A i \in 1 .. Len(indexed) :
           rest[i].do = "create_index" /\ rest[i].name = <<name, indexed[i]>>
    BY <1>4 DEF Index, Statement
  <2>2. {j \in DOMAIN rest : rest[j].do = "create_index"} = 1 .. Len(indexed)
    BY <2>1, <1>4
  <2> DEFINE names == {rest[i].name : i \in 1 .. Len(indexed)}
  <2>3. Indexed(rest) = names
    BY <2>2 DEF Indexed
  <2>4. ASSUME NEW x \in names PROVE x \in Made(name, indexed, Len(indexed))
    <3>1. PICK i \in 1 .. Len(indexed) : x = rest[i].name
      OBVIOUS
    <3> QED BY <2>1, <3>1 DEF Made
  <2>5. ASSUME NEW x \in Made(name, indexed, Len(indexed)) PROVE x \in names
    <3>1. PICK i \in 1 .. Len(indexed) : x = <<name, indexed[i]>>
      BY DEF Made
    <3>2. rest[i].name = x
      BY <2>1, <3>1
    <3>3. rest[i].name \in names
      OBVIOUS
    <3> QED BY <3>2, <3>3
  <2> HIDE DEF names
  <2> QED BY <2>3, <2>4, <2>5
<1>9. Indexed(made \o rest) = Made(name, indexed, Len(indexed))
  <2>1. Indexed(made \o rest) = Indexed(made) \cup Indexed(rest)
    <3>1. made \in Seq(StatementSet) /\ rest \in Seq(StatementSet)
      BY <1>4, <1>6
    <3> QED BY ONLY <3>1, IndexedJoin
  <2> QED BY <2>1, <1>7, <1>8
<1> QED BY <1>1, <1>4, <1>5, <1>9 DEF rest, made

\* The indexes of a table are made one after the other.
LEMMA IndexesRun ==
    ASSUME NEW T, NEW I, NEW K, NEW O, NEW A, NEW name \in Tables,
           NEW indexed \in Seq(Columns), name \in T,
           \A c \in Columns : <<name, c>> \notin I,
           name = "api_keys" => \A i \in 1 .. Len(indexed) : indexed[i] \in K.columns,
           \A i \in 1 .. Len(indexed) : \A j \in 1 .. i - 1 : indexed[i] # indexed[j]
    PROVE  Runs(Schema(T, I, K, O, A), IndexesOf(name, indexed),
                Schema(T, I \cup Made(name, indexed, Len(indexed)), K, O, A))
<1> DEFINE n == Len(indexed)
           J(k) == I \cup Made(name, indexed, k)
           f == [k \in 0 .. n |-> Schema(T, J(k), K, O, A)]
           s == IndexesOf(name, indexed)
<1>1. n \in Nat /\ Len(s) = n /\ \A i \in 1 .. n : s[i] = Index(name, indexed[i])
  BY DEF IndexesOf
<1>2. J(0) = I
  BY DEF Made
<1>3. ASSUME NEW i \in 1 .. n
      PROVE  /\ J(i) = J(i - 1) \cup {<<name, indexed[i]>>}
             /\ <<name, indexed[i]>> \notin J(i - 1)
  <2>1. 1 .. i = (1 .. i - 1) \cup {i}
    BY <1>1
  <2>2. Made(name, indexed, i) = Made(name, indexed, i - 1) \cup {<<name, indexed[i]>>}
    BY <2>1 DEF Made
  <2>3. <<name, indexed[i]>> \notin Made(name, indexed, i - 1)
    BY DEF Made
  <2>4. indexed[i] \in Columns
    OBVIOUS
  <2>5. <<name, indexed[i]>> \notin I
    BY <2>4
  <2> HIDE DEF n
  <2> QED BY <2>2, <2>3, <2>5
<1> HIDE DEF J
<1>4. ASSUME NEW i \in 1 .. n
      PROVE  Accepts(f[i - 1], s[i]) /\ f[i] = Apply(f[i - 1], s[i])
  <2>1. f[i] = Schema(T, J(i), K, O, A) /\ f[i - 1] = Schema(T, J(i - 1), K, O, A)
    BY <1>1
  <2>2. name = "api_keys" => indexed[i] \in K.columns
    OBVIOUS
  <2>3. /\ Accepts(Schema(T, J(i - 1), K, O, A), Index(name, indexed[i]))
        /\ Apply(Schema(T, J(i - 1), K, O, A), Index(name, indexed[i]))
             = Schema(T, J(i - 1) \cup {<<name, indexed[i]>>}, K, O, A)
    <3>1. PICK c : c = indexed[i]
      OBVIOUS
    <3>2. PICK P : P = J(i - 1)
      OBVIOUS
    <3>3. name \in T /\ <<name, c>> \notin P /\ (name = "api_keys" => c \in K.columns)
      BY <1>3, <2>2, <3>1, <3>2
    <3>4. /\ Accepts(Schema(T, P, K, O, A), Index(name, c))
          /\ Apply(Schema(T, P, K, O, A), Index(name, c))
               = Schema(T, P \cup {<<name, c>>}, K, O, A)
      BY ONLY <3>3 DEF Accepts, Apply, Schema, Index, Statement
    <3> QED BY <3>1, <3>2, <3>4
  <2>4. s[i] = Index(name, indexed[i])
    BY <1>1
  <2> HIDE DEF f, s
  <2> QED BY <1>3, <2>1, <2>3, <2>4
<1>5. f[0] = Schema(T, I, K, O, A) /\ f[n] = Schema(T, J(n), K, O, A)
  BY <1>1, <1>2
<1> HIDE DEF f, s
<1>6. Runs(Schema(T, I, K, O, A), s, Schema(T, J(n), K, O, A))
  BY <1>1, <1>4, <1>5 DEF Runs
<1> QED BY <1>6 DEF s, J

LEMMA TableRuns ==
    ASSUME NEW T, NEW I, NEW K, NEW O, NEW A, NEW name \in Tables,
           NEW refs \in SUBSET Tables, NEW indexed \in Seq(Columns), name \notin T,
           refs \subseteq T,
           \A c \in Columns : <<name, c>> \notin I,
           name = "api_keys" => \A i \in 1 .. Len(indexed) : indexed[i] \in NewTable.columns,
           \A i \in 1 .. Len(indexed) : \A j \in 1 .. i - 1 : indexed[i] # indexed[j]
    PROVE  Runs(Schema(T, I, K, O, A), TableOf(name, refs, indexed),
                Schema(T \cup {name}, I \cup Indexed(TableOf(name, refs, indexed)),
                       IF name = "api_keys" THEN NewTable ELSE K, O, A))
<1>1. PICK L : L = IF name = "api_keys" THEN NewTable ELSE K
  OBVIOUS
<1>2. PICK c : c = Create(name, refs)
  OBVIOUS
<1>3. /\ TableOf(name, refs, indexed) = <<c>> \o IndexesOf(name, indexed)
      /\ IndexesOf(name, indexed) \in Seq(StatementSet)
      /\ Indexed(TableOf(name, refs, indexed)) = Made(name, indexed, Len(indexed))
  BY <1>2, IndexedTable
<1>4. Runs(Schema(T, I, K, O, A), <<c>>, Schema(T \cup {name}, I, L, O, A))
  <2>1. /\ Accepts(Schema(T, I, K, O, A), c)
        /\ Apply(Schema(T, I, K, O, A), c) = Schema(T \cup {name}, I, L, O, A)
    <3>1. Accepts(Schema(T, I, K, O, A), c)
      BY <1>2 DEF Accepts, Schema, Create, Statement
    <3>2. Apply(Schema(T, I, K, O, A), c)
            = [Schema(T, I, K, O, A) EXCEPT
                 !.tables = @ \cup {name},
                 !.keys = IF name = "api_keys" /\ name \notin T THEN NewTable ELSE @]
      BY <1>2 DEF Apply, Schema, Create, Statement
    <3>3. CASE name = "api_keys"
      BY <1>1, <3>1, <3>2, <3>3 DEF Schema
    <3>4. CASE name # "api_keys"
      BY <1>1, <3>1, <3>2, <3>4 DEF Schema
    <3> QED BY <3>3, <3>4
  <2>2. Runs(Schema(T, I, K, O, A), <<c>>, Apply(Schema(T, I, K, O, A), c))
    BY ONLY <2>1, RunsOne
  <2> QED BY <2>1, <2>2
<1>5. Runs(Schema(T \cup {name}, I, L, O, A), IndexesOf(name, indexed),
           Schema(T \cup {name}, I \cup Made(name, indexed, Len(indexed)), L, O, A))
  <2>1. name \in T \cup {name}
    OBVIOUS
  <2>2. name = "api_keys" => \A i \in 1 .. Len(indexed) : indexed[i] \in L.columns
    BY <1>1
  <2> QED BY <2>1, <2>2, IndexesRun
<1>6. <<c>> \in Seq(StatementSet)
  <2>1. c \in StatementSet
    BY <1>2, StatementTyped DEF Create, Kinds, Identifiers
  <2> QED BY <2>1
<1>7. Runs(Schema(T, I, K, O, A), <<c>> \o IndexesOf(name, indexed),
           Schema(T \cup {name}, I \cup Made(name, indexed, Len(indexed)), L, O, A))
  BY <1>3, <1>4, <1>5, <1>6, RunsJoin
<1> QED BY <1>1, <1>3, <1>7

\* A database that was empty, when s has made the tables T with their indexes.
KeyIndexes == {<<"api_keys", "reference_id">>, <<"api_keys", "config_id">>}
KeysOf(T) == IF "api_keys" \in T THEN NewTable ELSE Nowhere
Grown(s, T) ==
    /\ s \in Seq(StatementSet)
    /\ T \subseteq Tables
    /\ Runs(Fresh, s, Schema(T, Indexed(s), KeysOf(T), {}, {}))
    /\ Indexed(s) \subseteq T \X Columns
    /\ {i \in Indexed(s) : i[1] = "api_keys"} = IF "api_keys" \in T THEN KeyIndexes ELSE {}

\* The script of one table: each of its indexes is another.
Makes(t, name, refs) ==
    \E indexed \in Seq(Columns) :
        /\ t = TableOf(name, refs, indexed)
        /\ name = "api_keys" => indexed = <<"reference_id", "config_id">>
        /\ \A i \in 1 .. Len(indexed) : \A j \in 1 .. i - 1 : indexed[i] # indexed[j]

LEMMA GrownNone == Grown(<<>>, {})
<1>0. <<>> \in Seq(StatementSet)
  OBVIOUS
<1>1. Indexed(<<>>) = {}
  BY DEF Indexed
<1>2. Fresh = Schema({}, {}, KeysOf({}), {}, {})
  BY DEF Fresh, Schema, KeysOf
<1>3. Runs(Fresh, <<>>, Schema({}, {}, KeysOf({}), {}, {}))
  BY <1>2, RunsNone
<1>4. "api_keys" \notin {} /\ {i \in {} : i[1] = "api_keys"} = {}
  OBVIOUS
<1>5. {i \in Indexed(<<>>) : i[1] = "api_keys"}
        = IF "api_keys" \in {} THEN KeyIndexes ELSE {}
  BY <1>1, <1>4
<1>6. Indexed(<<>>) \subseteq {} \X Columns
  BY <1>1
<1> QED BY <1>0, <1>1, <1>3, <1>5, <1>6 DEF Grown

LEMMA GrowTable ==
    ASSUME NEW s, NEW T, Grown(s, T), NEW name \in Tables \ T, NEW refs, refs \subseteq T,
           NEW t, Makes(t, name, refs)
    PROVE  Grown(s \o t, T \cup {name})
<1>1. PICK indexed \in Seq(Columns) :
          /\ t = TableOf(name, refs, indexed)
          /\ name = "api_keys" => indexed = <<"reference_id", "config_id">>
          /\ \A i \in 1 .. Len(indexed) : \A j \in 1 .. i - 1 : indexed[i] # indexed[j]
  BY DEF Makes
<1>a. ASSUME name = "api_keys"
      PROVE  Len(indexed) = 2 /\ indexed[1] = "reference_id" /\ indexed[2] = "config_id"
  <2>1. PICK p : p = <<"reference_id", "config_id">>
    OBVIOUS
  <2>2. Len(p) = 2 /\ p[1] = "reference_id" /\ p[2] = "config_id"
    BY ONLY <2>1
  <2>3. indexed = p
    BY <1>1, <1>a, <2>1
  <2> QED BY ONLY <2>2, <2>3
<1>2. /\ s \in Seq(StatementSet) /\ T \subseteq Tables /\ refs \in SUBSET Tables
      /\ Indexed(s) \subseteq T \X Columns
  BY DEF Grown
<1>3. t \in Seq(StatementSet) /\ Indexed(t) = Made(name, indexed, Len(indexed))
  BY <1>1, <1>2, IndexedTable
<1>4. s \o t \in Seq(StatementSet) /\ Indexed(s \o t) = Indexed(s) \cup Indexed(t)
  BY <1>2, <1>3, IndexedJoin
<1>5. Runs(Schema(T, Indexed(s), KeysOf(T), {}, {}), t,
           Schema(T \cup {name}, Indexed(s) \cup Indexed(t), KeysOf(T \cup {name}), {}, {}))
  <2>1. \A c \in Columns : <<name, c>> \notin Indexed(s)
    BY <1>2
  <2>2. name = "api_keys" => \A i \in 1 .. Len(indexed) : indexed[i] \in NewTable.columns
    <3>1. NewTable.columns = {"reference_id", "config_id"}
      BY DEF NewTable
    <3>2. ASSUME name = "api_keys", NEW i \in 1 .. Len(indexed)
          PROVE  indexed[i] \in {"reference_id", "config_id"}
      <4>1. Len(indexed) = 2 /\ indexed[1] = "reference_id" /\ indexed[2] = "config_id"
        BY <1>a, <3>2
      <4>2. i \in 1 .. 2
        BY <4>1
      <4>3. i = 1 \/ i = 2
        BY ONLY <4>2
      <4> QED BY ONLY <4>1, <4>3
    <3> QED BY <3>1, <3>2
  <2>3. KeysOf(T \cup {name}) = IF name = "api_keys" THEN NewTable ELSE KeysOf(T)
    BY DEF KeysOf
  <2>4. name \in Tables /\ name \notin T
    OBVIOUS
  <2>5. Runs(Schema(T, Indexed(s), KeysOf(T), {}, {}), TableOf(name, refs, indexed),
             Schema(T \cup {name}, Indexed(s) \cup Indexed(TableOf(name, refs, indexed)),
                    IF name = "api_keys" THEN NewTable ELSE KeysOf(T), {}, {}))
    BY <1>1, <1>2, <2>1, <2>2, <2>4, TableRuns
  <2> QED BY <1>1, <2>3, <2>5
<1>6. Runs(Fresh, s \o t,
           Schema(T \cup {name}, Indexed(s \o t), KeysOf(T \cup {name}), {}, {}))
  <2>1. Runs(Fresh, s, Schema(T, Indexed(s), KeysOf(T), {}, {}))
    BY DEF Grown
  <2>2. Runs(Fresh, s \o t,
             Schema(T \cup {name}, Indexed(s) \cup Indexed(t), KeysOf(T \cup {name}), {}, {}))
    BY ONLY <1>2, <1>3, <1>5, <2>1, RunsJoin
  <2> QED BY <1>4, <2>2
<1>7. Indexed(s \o t) \subseteq (T \cup {name}) \X Columns
  BY <1>2, <1>3, <1>4 DEF Made
<1>8. {i \in Indexed(s \o t) : i[1] = "api_keys"}
        = IF "api_keys" \in T \cup {name} THEN KeyIndexes ELSE {}
  <2>1. {i \in Indexed(s) : i[1] = "api_keys"} = IF "api_keys" \in T THEN KeyIndexes ELSE {}
    BY DEF Grown
  <2>2. \A i \in Indexed(t) : i[1] = name
    BY <1>3 DEF Made
  <2>3. CASE name # "api_keys"
    <3>1. {i \in Indexed(s \o t) : i[1] = "api_keys"}
            = {i \in Indexed(s) : i[1] = "api_keys"}
      BY <1>4, <2>2, <2>3
    <3> QED BY <2>1, <2>3, <3>1
  <2>4. CASE name = "api_keys"
    <3>1. {i \in Indexed(s) : i[1] = "api_keys"} = {}
      BY <2>1, <2>4
    <3>2. {i \in Indexed(s \o t) : i[1] = "api_keys"} = Indexed(t)
      BY <1>4, <2>2, <2>4, <3>1
    <3>3. /\ Len(indexed) = 2 /\ 1 .. 2 = {1, 2}
          /\ indexed[1] = "reference_id" /\ indexed[2] = "config_id"
      BY <1>a, <2>4
    <3>4. Indexed(t) = KeyIndexes
      <4>1. Made(name, indexed, Len(indexed)) = {<<name, indexed[1]>>, <<name, indexed[2]>>}
        BY <3>3 DEF Made
      <4> QED BY <1>3, <2>4, <3>3, <4>1 DEF KeyIndexes
    <3> QED BY <2>4, <3>2, <3>4
  <2> QED BY <2>3, <2>4
<1> QED BY <1>2, <1>4, <1>6, <1>7, <1>8 DEF Grown

\* Each table has its script.
LEMMA TableScripts ==
    /\ Makes(CreateUsers, "users", {})
    /\ Makes(CreateSessions, "sessions", {"users"})
    /\ Makes(CreateAccounts, "accounts", {"users"})
    /\ Makes(CreateVerifications, "verifications", {})
    /\ Makes(CreateOrganizations, "organization", {})
    /\ Makes(CreateMembers, "member", {"organization", "users"})
    /\ Makes(CreateInvitations, "invitation", {"organization", "users"})
    /\ Makes(CreateTwoFactor, "two_factor", {"users"})
    /\ Makes(CreateApiKeys, "api_keys", {})
    /\ Makes(CreatePasskeys, "passkeys", {"users"})
    /\ Makes(CreateDeviceCodes, "device_code", {"users"})
<1>1. ASSUME NEW p, NEW name, NEW refs, p \in Seq(Columns),
             name = "api_keys" => p = <<"reference_id", "config_id">>,
             \A i \in 1 .. Len(p) : \A j \in 1 .. i - 1 : p[i] # p[j]
      PROVE  Makes(TableOf(name, refs, p), name, refs)
  BY <1>1 DEF Makes
<1>2. Makes(CreateUsers, "users", {})
  <2>1. PICK p : p = <<"email", "username">>
    OBVIOUS
  <2>2. /\ p \in Seq(Columns)
        /\ \A i \in 1 .. Len(p) : \A j \in 1 .. i - 1 : p[i] # p[j]
    BY ONLY <2>1 DEF Columns
  <2>3. CreateUsers = TableOf("users", {}, p)
    BY <2>1 DEF CreateUsers
  <2> QED BY <1>1, <2>1, <2>2, <2>3
<1>3. Makes(CreateSessions, "sessions", {"users"})
  <2>1. PICK p : p = <<"token", "user_id", "expires_at">>
    OBVIOUS
  <2>2. /\ p \in Seq(Columns)
        /\ \A i \in 1 .. Len(p) : \A j \in 1 .. i - 1 : p[i] # p[j]
    BY ONLY <2>1 DEF Columns
  <2>3. CreateSessions = TableOf("sessions", {"users"}, p)
    BY <2>1 DEF CreateSessions
  <2> QED BY <1>1, <2>1, <2>2, <2>3
<1>4. Makes(CreateAccounts, "accounts", {"users"})
  <2>1. PICK p : p = <<"user_id", "provider_account">>
    OBVIOUS
  <2>2. /\ p \in Seq(Columns)
        /\ \A i \in 1 .. Len(p) : \A j \in 1 .. i - 1 : p[i] # p[j]
    BY ONLY <2>1 DEF Columns
  <2>3. CreateAccounts = TableOf("accounts", {"users"}, p)
    BY <2>1 DEF CreateAccounts
  <2> QED BY <1>1, <2>1, <2>2, <2>3
<1>5. Makes(CreateVerifications, "verifications", {})
  <2>1. PICK p : p = <<"identifier">>
    OBVIOUS
  <2>2. /\ p \in Seq(Columns)
        /\ \A i \in 1 .. Len(p) : \A j \in 1 .. i - 1 : p[i] # p[j]
    BY ONLY <2>1 DEF Columns
  <2>3. CreateVerifications = TableOf("verifications", {}, p)
    BY <2>1 DEF CreateVerifications
  <2> QED BY <1>1, <2>1, <2>2, <2>3
<1>6. Makes(CreateOrganizations, "organization", {})
  <2>1. PICK p : p = <<"slug">>
    OBVIOUS
  <2>2. /\ p \in Seq(Columns)
        /\ \A i \in 1 .. Len(p) : \A j \in 1 .. i - 1 : p[i] # p[j]
    BY ONLY <2>1 DEF Columns
  <2>3. CreateOrganizations = TableOf("organization", {}, p)
    BY <2>1 DEF CreateOrganizations
  <2> QED BY <1>1, <2>1, <2>2, <2>3
<1>7. Makes(CreateMembers, "member", {"organization", "users"})
  <2>1. PICK p : p = <<"organization_id", "user_id", "org_user_unique">>
    OBVIOUS
  <2>2. /\ p \in Seq(Columns)
        /\ \A i \in 1 .. Len(p) : \A j \in 1 .. i - 1 : p[i] # p[j]
    BY ONLY <2>1 DEF Columns
  <2>3. CreateMembers = TableOf("member", {"organization", "users"}, p)
    BY <2>1 DEF CreateMembers
  <2> QED BY <1>1, <2>1, <2>2, <2>3
<1>8. Makes(CreateInvitations, "invitation", {"organization", "users"})
  <2>1. PICK p : p = <<"organization_id", "email", "status">>
    OBVIOUS
  <2>2. /\ p \in Seq(Columns)
        /\ \A i \in 1 .. Len(p) : \A j \in 1 .. i - 1 : p[i] # p[j]
    BY ONLY <2>1 DEF Columns
  <2>3. CreateInvitations = TableOf("invitation", {"organization", "users"}, p)
    BY <2>1 DEF CreateInvitations
  <2> QED BY <1>1, <2>1, <2>2, <2>3
<1>9. Makes(CreateTwoFactor, "two_factor", {"users"})
  <2>1. PICK p : p = <<"user_id">>
    OBVIOUS
  <2>2. /\ p \in Seq(Columns)
        /\ \A i \in 1 .. Len(p) : \A j \in 1 .. i - 1 : p[i] # p[j]
    BY ONLY <2>1 DEF Columns
  <2>3. CreateTwoFactor = TableOf("two_factor", {"users"}, p)
    BY <2>1 DEF CreateTwoFactor
  <2> QED BY <1>1, <2>1, <2>2, <2>3
<1>10. Makes(CreateApiKeys, "api_keys", {})
  <2>1. PICK p : p = <<"reference_id", "config_id">>
    OBVIOUS
  <2>2. /\ p \in Seq(Columns)
        /\ \A i \in 1 .. Len(p) : \A j \in 1 .. i - 1 : p[i] # p[j]
    BY ONLY <2>1 DEF Columns
  <2>3. CreateApiKeys = TableOf("api_keys", {}, p)
    BY <2>1 DEF CreateApiKeys
  <2> QED BY <1>1, <2>1, <2>2, <2>3
<1>11. Makes(CreatePasskeys, "passkeys", {"users"})
  <2>1. PICK p : p = <<"user_id", "credential_id">>
    OBVIOUS
  <2>2. /\ p \in Seq(Columns)
        /\ \A i \in 1 .. Len(p) : \A j \in 1 .. i - 1 : p[i] # p[j]
    BY ONLY <2>1 DEF Columns
  <2>3. CreatePasskeys = TableOf("passkeys", {"users"}, p)
    BY <2>1 DEF CreatePasskeys
  <2> QED BY <1>1, <2>1, <2>2, <2>3
<1>12. Makes(CreateDeviceCodes, "device_code", {"users"})
  <2>1. PICK p : p = <<"device_code", "user_code", "user_id", "expires_at">>
    OBVIOUS
  <2>2. /\ p \in Seq(Columns)
        /\ \A i \in 1 .. Len(p) : \A j \in 1 .. i - 1 : p[i] # p[j]
    BY ONLY <2>1 DEF Columns
  <2>3. CreateDeviceCodes = TableOf("device_code", {"users"}, p)
    BY <2>1 DEF CreateDeviceCodes
  <2> QED BY <1>1, <2>1, <2>2, <2>3
<1> QED BY <1>2, <1>3, <1>4, <1>5, <1>6, <1>7, <1>8, <1>9, <1>10, <1>11, <1>12

\* The first migration makes of an empty database what the stores expect.
LEMMA InitialGrows == Grown(InitialAuthSchema, Tables)
<1> DEFINE s0 == <<>>
           T0 == {}
           s1 == CreateUsers
           T1 == T0 \cup {"users"}
           s2 == s1 \o CreateSessions
           T2 == T1 \cup {"sessions"}
           s3 == s2 \o CreateAccounts
           T3 == T2 \cup {"accounts"}
           s4 == s3 \o CreateVerifications
           T4 == T3 \cup {"verifications"}
           s5 == s4 \o CreateOrganizations
           T5 == T4 \cup {"organization"}
           s6 == s5 \o CreateMembers
           T6 == T5 \cup {"member"}
           s7 == s6 \o CreateInvitations
           T7 == T6 \cup {"invitation"}
           s8 == s7 \o CreateTwoFactor
           T8 == T7 \cup {"two_factor"}
           s9 == s8 \o CreateApiKeys
           T9 == T8 \cup {"api_keys"}
           s10 == s9 \o CreatePasskeys
           T10 == T9 \cup {"passkeys"}
           s11 == s10 \o CreateDeviceCodes
           T11 == T10 \cup {"device_code"}
<1>1. Grown(s1, T1)
  <2>1. Grown(<<>> \o CreateUsers, {} \cup {"users"})
    <3>1. "users" \in Tables \ {} /\ {} \subseteq {}
      BY DEF Tables
    <3> QED BY ONLY <3>1, GrownNone, GrowTable, TableScripts
  <2>2. CreateUsers \in Seq(StatementSet)
    <3>1. /\ "users" \in Tables /\ {} \in SUBSET Tables
          /\ <<"email", "username">> \in Seq(Columns)
      BY DEF Tables, Columns
    <3> QED BY <3>1, IndexedTable DEF CreateUsers
  <2>3. <<>> \o CreateUsers = CreateUsers
    BY <2>2
  <2> QED BY <2>1, <2>3
<1>2. Grown(s2, T2)
  <2>1. "sessions" \in Tables \ T1 /\ {"users"} \subseteq T1
    BY DEF Tables
  <2>2. Makes(CreateSessions, "sessions", {"users"})
    BY TableScripts
  <2> HIDE DEF s1, T1
  <2> QED BY ONLY <1>1, <2>1, <2>2, GrowTable
<1>3. Grown(s3, T3)
  <2>1. "accounts" \in Tables \ T2 /\ {"users"} \subseteq T2
    BY DEF Tables
  <2>2. Makes(CreateAccounts, "accounts", {"users"})
    BY TableScripts
  <2> HIDE DEF s2, T2
  <2> QED BY ONLY <1>2, <2>1, <2>2, GrowTable
<1>4. Grown(s4, T4)
  <2>1. "verifications" \in Tables \ T3 /\ {} \subseteq T3
    BY DEF Tables
  <2>2. Makes(CreateVerifications, "verifications", {})
    BY TableScripts
  <2> HIDE DEF s3, T3
  <2> QED BY ONLY <1>3, <2>1, <2>2, GrowTable
<1>5. Grown(s5, T5)
  <2>1. "organization" \in Tables \ T4 /\ {} \subseteq T4
    BY DEF Tables
  <2>2. Makes(CreateOrganizations, "organization", {})
    BY TableScripts
  <2> HIDE DEF s4, T4
  <2> QED BY ONLY <1>4, <2>1, <2>2, GrowTable
<1>6. Grown(s6, T6)
  <2>1. "member" \in Tables \ T5 /\ {"organization", "users"} \subseteq T5
    BY DEF Tables
  <2>2. Makes(CreateMembers, "member", {"organization", "users"})
    BY TableScripts
  <2> HIDE DEF s5, T5
  <2> QED BY ONLY <1>5, <2>1, <2>2, GrowTable
<1>7. Grown(s7, T7)
  <2>1. "invitation" \in Tables \ T6 /\ {"organization", "users"} \subseteq T6
    BY DEF Tables
  <2>2. Makes(CreateInvitations, "invitation", {"organization", "users"})
    BY TableScripts
  <2> HIDE DEF s6, T6
  <2> QED BY ONLY <1>6, <2>1, <2>2, GrowTable
<1>8. Grown(s8, T8)
  <2>1. "two_factor" \in Tables \ T7 /\ {"users"} \subseteq T7
    BY DEF Tables
  <2>2. Makes(CreateTwoFactor, "two_factor", {"users"})
    BY TableScripts
  <2> HIDE DEF s7, T7
  <2> QED BY ONLY <1>7, <2>1, <2>2, GrowTable
<1>9. Grown(s9, T9)
  <2>1. "api_keys" \in Tables \ T8 /\ {} \subseteq T8
    BY DEF Tables
  <2>2. Makes(CreateApiKeys, "api_keys", {})
    BY TableScripts
  <2> HIDE DEF s8, T8
  <2> QED BY ONLY <1>8, <2>1, <2>2, GrowTable
<1>10. Grown(s10, T10)
  <2>1. "passkeys" \in Tables \ T9 /\ {"users"} \subseteq T9
    BY DEF Tables
  <2>2. Makes(CreatePasskeys, "passkeys", {"users"})
    BY TableScripts
  <2> HIDE DEF s9, T9
  <2> QED BY ONLY <1>9, <2>1, <2>2, GrowTable
<1>11. Grown(s11, T11)
  <2>1. "device_code" \in Tables \ T10 /\ {"users"} \subseteq T10
    BY DEF Tables
  <2>2. Makes(CreateDeviceCodes, "device_code", {"users"})
    BY TableScripts
  <2> HIDE DEF s10, T10
  <2> QED BY ONLY <1>10, <2>1, <2>2, GrowTable
<1>12. s11 = InitialAuthSchema
  BY DEF InitialAuthSchema
<1>13. T11 = Tables
  BY DEF Tables
<1> HIDE DEF s11, T11
<1> QED BY <1>11, <1>12, <1>13

-----------------------------------------------------------------------------
(* What the change of ownership makes of an old installation.              *)

Every == Indexed(InitialAuthSchema)
Rest == {i \in Every : i[1] # "api_keys"}
OldIndex == <<"api_keys", "user_id">>
Filled(held) == [columns |-> {"reference_id", "config_id"}, foreign |-> FALSE, rows |-> held]

LEMMA Indexes ==
    /\ Every \subseteq Tables \X Columns
    /\ Every = Rest \cup KeyIndexes
    /\ \A c : <<"api_keys", c>> \notin Rest
<1>1. /\ Every \subseteq Tables \X Columns
      /\ {i \in Every : i[1] = "api_keys"} = KeyIndexes
  <2>1. "api_keys" \in Tables
    BY DEF Tables
  <2> QED BY <2>1, InitialGrows DEF Grown, Every
<1>2. \A c : <<"api_keys", c>> \notin Rest
  <2> SUFFICES ASSUME NEW c, <<"api_keys", c>> \in Rest PROVE FALSE
    OBVIOUS
  <2>1. <<"api_keys", c>>[1] = "api_keys"
    OBVIOUS
  <2> QED BY <2>1 DEF Rest
<1> QED BY <1>1, <1>2 DEF Rest

LEMMA Schemas ==
    /\ Fresh = Schema({}, {}, Nowhere, {}, {})
    /\ Installed = Schema(Tables, Rest \cup {OldIndex}, OldTable, {}, {"initial"})
    /\ Promised = Schema(Tables, Every, Filled(IF installed THEN OldKeys ELSE {}), {},
                         {"initial", "ownership"})
<1>1. Range(Migrations) = {"initial", "ownership"}
  <2>1. DOMAIN Migrations = {1, 2} /\ Migrations[1] = "initial" /\ Migrations[2] = "ownership"
    BY DEF Migrations
  <2> QED BY <2>1 DEF Range
<1>2. Current = Schema(Tables, Every, NewTable, {}, {"initial", "ownership"})
  BY <1>1 DEF Current, Schema, Every, Indexed
<1>3. Fresh = Schema({}, {}, Nowhere, {}, {})
  BY DEF Fresh, Schema
<1>4. Installed = Schema(Tables, Rest \cup {OldIndex}, OldTable, {}, {"initial"})
  <2>1. Installed = [Current EXCEPT !.keys = OldTable, !.applied = {"initial"},
                       !.indexes = {i \in @ : i[1] # "api_keys"} \cup {OldIndex}]
    BY DEF Installed, OldIndex
  <2>2. Current.indexes = Every
    BY <1>2 DEF Schema
  <2>3. Installed = [Current EXCEPT !.keys = OldTable, !.applied = {"initial"},
                       !.indexes = Rest \cup {OldIndex}]
    BY <2>1, <2>2 DEF Rest
  <2> QED BY <1>2, <2>3 DEF Schema
<1>5. Promised = Schema(Tables, Every, Filled(IF installed THEN OldKeys ELSE {}), {},
                        {"initial", "ownership"})
  <2>1. PICK held : held = IF installed THEN OldKeys ELSE {}
    OBVIOUS
  <2>2. Promised = [Current EXCEPT !.keys = [NewTable EXCEPT !.rows = held]]
    BY <1>2, <2>1 DEF Promised, Schema
  <2>3. [NewTable EXCEPT !.rows = held] = Filled(held)
    <3>1. PICK columns : columns = {"reference_id", "config_id"}
      OBVIOUS
    <3>2. PICK no : no = FALSE
      OBVIOUS
    <3>3. NewTable = [columns |-> columns, foreign |-> no, rows |-> {}]
      BY <3>1, <3>2 DEF NewTable
    <3>4. [NewTable EXCEPT !.rows = held] = [columns |-> columns, foreign |-> no, rows |-> held]
      BY ONLY <3>3
    <3>5. Filled(held) = [columns |-> columns, foreign |-> no, rows |-> held]
      BY <3>1, <3>2 DEF Filled
    <3> QED BY ONLY <3>4, <3>5
  <2>4. Promised = [Current EXCEPT !.keys = Filled(held)]
    BY <2>2, <2>3
  <2>5. Promised = Schema(Tables, Every, Filled(held), {}, {"initial", "ownership"})
    BY ONLY <1>2, <2>4 DEF Schema
  <2> QED BY <2>1, <2>5
<1> QED BY <1>3, <1>4, <1>5

LEMMA RunsTwo ==
    ASSUME NEW d, NEW a, NEW m, NEW b, NEW e,
           Accepts(d, a), Apply(d, a) = m, Accepts(m, b), Apply(m, b) = e
    PROVE  Runs(d, <<a, b>>, e)
<1> DEFINE f == [i \in 0 .. 2 |-> IF i = 0 THEN d ELSE IF i = 1 THEN m ELSE e]
<1>1. /\ f[0] = d /\ f[1] = m /\ f[2] = e
      /\ Len(<<a, b>>) = 2 /\ <<a, b>>[1] = a /\ <<a, b>>[2] = b
  OBVIOUS
<1> HIDE DEF f
<1>2. \A i \in 1 .. Len(<<a, b>>) :
         Accepts(f[i - 1], <<a, b>>[i]) /\ f[i] = Apply(f[i - 1], <<a, b>>[i])
  <2> TAKE i \in 1 .. Len(<<a, b>>)
  <2>1. (i = 1 /\ i - 1 = 0) \/ (i = 2 /\ i - 1 = 1)
    BY <1>1
  <2> QED BY <1>1, <2>1
<1> QED BY <1>1, <1>2 DEF Runs

\* MySQL and PostgreSQL change the table in place.
LEMMA AlterRuns ==
    ASSUME NEW A
    PROVE  Runs(Schema(Tables, Rest \cup {OldIndex}, OldTable, {}, A), AlterApiKeys,
                Schema(Tables, Every, Filled(OldKeys), {}, A))
<1> DEFINE D(I, columns, foreign) ==
               Schema(Tables, I, [columns |-> columns, foreign |-> foreign, rows |-> OldKeys],
                      {}, A)
           K1 == Rest \cup {OldIndex}
           K2 == Rest \cup {<<"api_keys", "reference_id">>}
           both == {"reference_id", "config_id"}
           s == AlterApiKeys
           f == [i \in 0 .. 6 |-> IF i = 0 THEN D(K1, {"user_id"}, TRUE)
                                   ELSE IF i = 1 THEN D(K1, {"user_id"}, FALSE)
                                   ELSE IF i = 2 THEN D(Rest, {"user_id"}, FALSE)
                                   ELSE IF i = 3 THEN D(Rest, {"reference_id"}, FALSE)
                                   ELSE IF i = 4 THEN D(Rest, both, FALSE)
                                   ELSE IF i = 5 THEN D(K2, both, FALSE)
                                   ELSE D(Every, both, FALSE)]
<1>1. "api_keys" \in Tables /\ \A x : <<"api_keys", x>> \notin Rest
  BY Indexes DEF Tables
<1>2. /\ Accepts(D(K1, {"user_id"}, TRUE), s[1])
      /\ Apply(D(K1, {"user_id"}, TRUE), s[1]) = D(K1, {"user_id"}, FALSE)
  <2>1. s[1] = Statement("drop_foreign", "api_keys", {})
    BY DEF AlterApiKeys
  <2> HIDE DEF s
  <2>2. /\ Accepts(D(K1, {"user_id"}, TRUE), Statement("drop_foreign", "api_keys", {}))
        /\ Apply(D(K1, {"user_id"}, TRUE), Statement("drop_foreign", "api_keys", {}))
             = D(K1, {"user_id"}, FALSE)
    BY DEF Accepts, Apply, Schema, Statement
  <2> HIDE DEF D, K1
  <2> QED BY <2>1, <2>2
<1>3. /\ Accepts(D(K1, {"user_id"}, FALSE), s[2])
      /\ Apply(D(K1, {"user_id"}, FALSE), s[2]) = D(Rest, {"user_id"}, FALSE)
  <2>1. s[2] = Statement("drop_index", OldIndex, {})
    BY DEF AlterApiKeys, OldIndex
  <2>2. Rest = K1 \ {OldIndex} /\ OldIndex \in K1
    BY <1>1 DEF OldIndex
  <2> HIDE DEF s, K1
  <2>3. /\ Accepts(D(K1, {"user_id"}, FALSE), Statement("drop_index", OldIndex, {}))
        /\ Apply(D(K1, {"user_id"}, FALSE), Statement("drop_index", OldIndex, {}))
             = D(K1 \ {OldIndex}, {"user_id"}, FALSE)
    BY <2>2 DEF Accepts, Apply, Schema, Statement
  <2> HIDE DEF D
  <2> QED BY <2>1, <2>2, <2>3
<1>4. /\ Accepts(D(Rest, {"user_id"}, FALSE), s[3])
      /\ Apply(D(Rest, {"user_id"}, FALSE), s[3]) = D(Rest, {"reference_id"}, FALSE)
  <2>1. s[3] = Statement("rename_column", "api_keys", {})
    BY DEF AlterApiKeys
  <2>2. ({"user_id"} \ {"user_id"}) \cup {"reference_id"} = {"reference_id"}
    OBVIOUS
  <2> HIDE DEF s
  <2>3. /\ Accepts(D(Rest, {"user_id"}, FALSE), Statement("rename_column", "api_keys", {}))
        /\ Apply(D(Rest, {"user_id"}, FALSE), Statement("rename_column", "api_keys", {}))
             = D(Rest, ({"user_id"} \ {"user_id"}) \cup {"reference_id"}, FALSE)
    BY <2>2 DEF Accepts, Apply, Schema, Statement
  <2> HIDE DEF D
  <2> QED BY <2>1, <2>2, <2>3
<1>5. /\ Accepts(D(Rest, {"reference_id"}, FALSE), s[4])
      /\ Apply(D(Rest, {"reference_id"}, FALSE), s[4]) = D(Rest, both, FALSE)
  <2>1. s[4] = Statement("add_column", "api_keys", {})
    BY DEF AlterApiKeys
  <2>2. {"reference_id"} \cup {"config_id"} = both
    OBVIOUS
  <2> HIDE DEF s, both
  <2>3. /\ Accepts(D(Rest, {"reference_id"}, FALSE), Statement("add_column", "api_keys", {}))
        /\ Apply(D(Rest, {"reference_id"}, FALSE), Statement("add_column", "api_keys", {}))
             = D(Rest, {"reference_id"} \cup {"config_id"}, FALSE)
    BY <2>2 DEF Accepts, Apply, Schema, Statement
  <2> HIDE DEF D
  <2> QED BY <2>1, <2>2, <2>3
<1>6. /\ Accepts(D(Rest, both, FALSE), s[5])
      /\ Apply(D(Rest, both, FALSE), s[5]) = D(K2, both, FALSE)
  <2>1. s[5] = Index("api_keys", "reference_id")
    BY DEF AlterApiKeys
  <2>2. "reference_id" \in both
    OBVIOUS
  <2> HIDE DEF s, both
  <2>3. /\ Accepts(D(Rest, both, FALSE), Index("api_keys", "reference_id"))
        /\ Apply(D(Rest, both, FALSE), Index("api_keys", "reference_id"))
             = D(Rest \cup {<<"api_keys", "reference_id">>}, both, FALSE)
    BY <2>2, <1>1 DEF Accepts, Apply, Schema, Statement, Index
  <2> HIDE DEF D
  <2> QED BY <2>1, <2>2, <2>3 DEF K2
<1>7. /\ Accepts(D(K2, both, FALSE), s[6])
      /\ Apply(D(K2, both, FALSE), s[6]) = D(Every, both, FALSE)
  <2>1. s[6] = Index("api_keys", "config_id")
    BY DEF AlterApiKeys
  <2>2. /\ "config_id" \in both /\ <<"api_keys", "config_id">> \notin K2
        /\ Every = K2 \cup {<<"api_keys", "config_id">>}
    BY <1>1, Indexes DEF KeyIndexes
  <2> HIDE DEF s, both, K2
  <2>3. /\ Accepts(D(K2, both, FALSE), Index("api_keys", "config_id"))
        /\ Apply(D(K2, both, FALSE), Index("api_keys", "config_id"))
             = D(K2 \cup {<<"api_keys", "config_id">>}, both, FALSE)
    BY <2>2, <1>1 DEF Accepts, Apply, Schema, Statement, Index
  <2> HIDE DEF D
  <2> QED BY <2>1, <2>2, <2>3
<1>8. Len(s) = 6
  BY DEF AlterApiKeys
<1> HIDE DEF D, K1, K2, both, s
<1>9. /\ f[0] = D(K1, {"user_id"}, TRUE) /\ f[1] = D(K1, {"user_id"}, FALSE)
      /\ f[2] = D(Rest, {"user_id"}, FALSE) /\ f[3] = D(Rest, {"reference_id"}, FALSE)
      /\ f[4] = D(Rest, both, FALSE) /\ f[5] = D(K2, both, FALSE)
      /\ f[6] = D(Every, both, FALSE)
  OBVIOUS
<1> HIDE DEF f
<1>10. \A i \in 1 .. 6 : Accepts(f[i - 1], s[i]) /\ f[i] = Apply(f[i - 1], s[i])
  <2> TAKE i \in 1 .. 6
  <2>1. <<i, i - 1>> \in {<<1, 0>>, <<2, 1>>, <<3, 2>>, <<4, 3>>, <<5, 4>>, <<6, 5>>}
    OBVIOUS
  <2> QED BY <1>2, <1>3, <1>4, <1>5, <1>6, <1>7, <1>9, <2>1
<1>11. Runs(D(K1, {"user_id"}, TRUE), s, D(Every, both, FALSE))
  BY <1>8, <1>9, <1>10 DEF Runs
<1>12. /\ D(K1, {"user_id"}, TRUE) = Schema(Tables, Rest \cup {OldIndex}, OldTable, {}, A)
       /\ D(Every, both, FALSE) = Schema(Tables, Every, Filled(OldKeys), {}, A)
  BY DEF OldTable, Filled, D, K1, both
<1> QED BY <1>11, <1>12 DEF s

\* SQLite copies it.
LEMMA RebuildRuns ==
    ASSUME NEW A
    PROVE  Runs(Schema(Tables, Rest \cup {OldIndex}, OldTable, {}, A), RebuildApiKeys,
                Schema(Tables, Every, Filled(OldKeys), {}, A))
<1> DEFINE a == Statement("drop_index_if", OldIndex, {})
           b == Statement("rename_table", "api_keys", {})
           c == Statement("copy_rows", "api_keys_old", {})
           d == Statement("drop_table", "api_keys_old", {})
           T == (Tables \ {"api_keys"}) \cup {"api_keys_old"}
           U == T \cup {"api_keys"}
           K1 == Rest \cup {OldIndex}
<1>1. /\ "api_keys" \in Tables /\ "api_keys_old" \notin Tables
      /\ \A x : <<"api_keys", x>> \notin Rest
      /\ Every = Rest \cup KeyIndexes
  BY Indexes DEF Tables
<1>2. Runs(Schema(Tables, K1, OldTable, {}, A), <<a, b>>,
           Schema(T, Rest, Nowhere, OldKeys, A))
  <2>1. /\ Accepts(Schema(Tables, K1, OldTable, {}, A), a)
        /\ Apply(Schema(Tables, K1, OldTable, {}, A), a)
             = Schema(Tables, K1 \ {OldIndex}, OldTable, {}, A)
    BY DEF Accepts, Apply, Schema, Statement
  <2>2. K1 \ {OldIndex} = Rest
    BY <1>1 DEF OldIndex
  <2>3. {"api_keys", "api_keys_old"} \cap Tables = {"api_keys"}
    BY <1>1
  <2>4. Accepts(Schema(Tables, Rest, OldTable, {}, A), b)
    BY <2>3 DEF Accepts, Schema, Statement
  <2>5. Apply(Schema(Tables, Rest, OldTable, {}, A), b)
          = Schema(T, Rest, Nowhere, OldKeys, A)
    BY DEF Apply, Schema, Statement, OldTable
  <2> HIDE DEF a, b, T, K1
  <2> QED BY <2>1, <2>2, <2>4, <2>5, RunsTwo
<1>3. /\ Runs(Schema(T, Rest, Nowhere, OldKeys, A), CreateApiKeys,
              Schema(U, Every, NewTable, OldKeys, A))
      /\ CreateApiKeys \in Seq(StatementSet)
  <2>1. PICK p : p = <<"reference_id", "config_id">>
    OBVIOUS
  <2>2. /\ p \in Seq(Columns) /\ Len(p) = 2 /\ 1 .. Len(p) = {1, 2}
        /\ p[1] = "reference_id" /\ p[2] = "config_id"
    BY ONLY <2>1 DEF Columns
  <2>3. CreateApiKeys = TableOf("api_keys", {}, p) /\ {} \in SUBSET Tables
    BY <2>1 DEF CreateApiKeys
  <2>4. Indexed(CreateApiKeys) = KeyIndexes /\ CreateApiKeys \in Seq(StatementSet)
    <3>1. /\ Indexed(CreateApiKeys) = Made("api_keys", p, Len(p))
          /\ CreateApiKeys \in Seq(StatementSet)
      BY <1>1, <2>2, <2>3, IndexedTable
    <3>2. Made("api_keys", p, Len(p)) = KeyIndexes
      BY <2>2 DEF Made, KeyIndexes
    <3> QED BY <3>1, <3>2
  <2>5. \A i \in 1 .. Len(p) : p[i] \in NewTable.columns
    BY <2>2 DEF NewTable
  <2>6. \A i \in 1 .. Len(p) : \A j \in 1 .. i - 1 : p[i] # p[j]
    BY <2>2
  <2>7. "api_keys" \notin T /\ {} \subseteq T
    OBVIOUS
  <2>8. \A x \in Columns : <<"api_keys", x>> \notin Rest
    BY <1>1
  <2> HIDE DEF T, U
  <2>9. Runs(Schema(T, Rest, Nowhere, OldKeys, A), TableOf("api_keys", {}, p),
             Schema(T \cup {"api_keys"}, Rest \cup Indexed(TableOf("api_keys", {}, p)),
                    IF "api_keys" = "api_keys" THEN NewTable ELSE Nowhere, OldKeys, A))
    BY <1>1, <2>2, <2>3, <2>5, <2>6, <2>7, <2>8, TableRuns
  <2>10. Runs(Schema(T, Rest, Nowhere, OldKeys, A), CreateApiKeys,
              Schema(U, Rest \cup Indexed(CreateApiKeys), NewTable, OldKeys, A))
    BY <2>3, <2>9 DEF U
  <2> QED BY <1>1, <2>4, <2>10
<1>4. Runs(Schema(U, Every, NewTable, OldKeys, A), <<c, d>>,
           Schema(Tables, Every, Filled(OldKeys), {}, A))
  <2>1. {"api_keys", "api_keys_old"} \subseteq U /\ U \ {"api_keys_old"} = Tables
    BY <1>1
  <2> HIDE DEF U, T
  <2>2. Accepts(Schema(U, Every, NewTable, OldKeys, A), c)
    BY <2>1 DEF Accepts, Schema, Statement
  <2>3. [NewTable EXCEPT !.rows = @ \cup OldKeys] = Filled(OldKeys)
    <3>1. PICK columns : columns = {"reference_id", "config_id"}
      OBVIOUS
    <3>2. PICK no : no = FALSE
      OBVIOUS
    <3>3. NewTable = [columns |-> columns, foreign |-> no, rows |-> {}]
      BY <3>1, <3>2 DEF NewTable
    <3>4. [NewTable EXCEPT !.rows = @ \cup OldKeys]
            = [columns |-> columns, foreign |-> no, rows |-> {} \cup OldKeys]
      BY ONLY <3>3
    <3>5. {} \cup OldKeys = OldKeys
      OBVIOUS
    <3>6. Filled(OldKeys) = [columns |-> columns, foreign |-> no, rows |-> OldKeys]
      BY <3>1, <3>2 DEF Filled
    <3> QED BY ONLY <3>4, <3>5, <3>6
  <2>4. Apply(Schema(U, Every, NewTable, OldKeys, A), c)
          = Schema(U, Every, [NewTable EXCEPT !.rows = @ \cup OldKeys], OldKeys, A)
    BY DEF Apply, Schema, Statement
  <2>5. /\ Accepts(Schema(U, Every, Filled(OldKeys), OldKeys, A), d)
        /\ Apply(Schema(U, Every, Filled(OldKeys), OldKeys, A), d)
             = Schema(U \ {"api_keys_old"}, Every, Filled(OldKeys), {}, A)
    BY <2>1 DEF Accepts, Apply, Schema, Statement
  <2> HIDE DEF c, d
  <2> QED BY <2>1, <2>2, <2>3, <2>4, <2>5, RunsTwo
<1>5. <<a, b>> \in Seq(StatementSet) /\ <<c, d>> \in Seq(StatementSet)
  BY DEF Statement, StatementSet, Kinds, Identifiers, Tables, Columns, OldIndex
<1>6. RebuildApiKeys = (<<a, b>> \o CreateApiKeys) \o <<c, d>>
  BY DEF RebuildApiKeys, OldIndex
<1>7. <<a, b>> \o CreateApiKeys \in Seq(StatementSet)
  BY <1>3, <1>5
<1> HIDE DEF a, b, c, d, T, U, K1
<1>8. Runs(Schema(Tables, K1, OldTable, {}, A), <<a, b>> \o CreateApiKeys,
           Schema(U, Every, NewTable, OldKeys, A))
  BY ONLY <1>2, <1>3, <1>5, RunsJoin
<1>9. Runs(Schema(Tables, K1, OldTable, {}, A), (<<a, b>> \o CreateApiKeys) \o <<c, d>>,
           Schema(Tables, Every, Filled(OldKeys), {}, A))
  BY ONLY <1>4, <1>5, <1>7, <1>8, RunsJoin
<1> QED BY <1>6, <1>9 DEF K1

-----------------------------------------------------------------------------
(* Boots that end with the schema the stores were written for.             *)

Begin == IF installed THEN Installed ELSE Fresh
\* The schema at the end of a boot, with the migrations l listed.
Listed(l) == Schema(Tables, Every, Filled(IF installed THEN OldKeys ELSE {}), {}, l)

\* A boot on schema w that is to send s gets there.
OnWay(w, s) ==
    \/ w.applied = {} /\ ~ installed /\ Runs(w, s, Listed({}))
    \/ w.applied = {"initial"} /\ Runs(w, s, Listed({"initial"}))
    \/ w = Promised /\ s = <<>>

CurrentInv ==
    /\ phase \in {"down", "booting", "up"} /\ cut \in BOOLEAN
    /\ ~ cut =>
          /\ phase = "down" => OnWay(schema, Remaining(schema))
          /\ phase = "booting" =>
                /\ OnWay(work, todo)
                /\ IF Transactional THEN OnWay(schema, Remaining(schema)) ELSE schema = work
          /\ phase = "up" => schema = Promised

LEMMA NextMigration ==
    ASSUME NEW d
    PROVE  /\ d.applied = {} => Pending(d) # {} /\ NextOf(d) = "initial"
           /\ d.applied = {"initial"} => Pending(d) # {} /\ NextOf(d) = "ownership"
           /\ d.applied = {"initial", "ownership"} => Pending(d) = {}
<1>1. DOMAIN Migrations = {1, 2} /\ Migrations[1] = "initial" /\ Migrations[2] = "ownership"
  BY DEF Migrations
<1>2. ASSUME NEW i \in {1, 2}, i \in Pending(d), \A j \in Pending(d) : i <= j
      PROVE  NextOf(d) = Migrations[i]
  <2>1. Pending(d) \subseteq {1, 2}
    BY <1>1 DEF Pending
  <2>2. \A k \in Pending(d) : (\A j \in Pending(d) : k <= j) => k = i
    BY <1>2, <2>1
  <2>3. (CHOOSE k \in Pending(d) : \A j \in Pending(d) : k <= j) = i
    BY <1>2, <2>2
  <2> QED BY <2>3 DEF NextOf
<1>3. CASE d.applied = {}
  <2>1. Pending(d) = {1, 2}
    BY <1>1, <1>3 DEF Pending
  <2>2. NextOf(d) = Migrations[1]
    BY <1>2, <2>1
  <2> QED BY <1>1, <1>3, <2>1, <2>2
<1>4. CASE d.applied = {"initial"}
  <2>1. Pending(d) = {2}
    BY <1>1, <1>4 DEF Pending
  <2>2. NextOf(d) = Migrations[2]
    BY <1>2, <2>1
  <2> QED BY <1>1, <1>4, <2>1, <2>2
<1>5. CASE d.applied = {"initial", "ownership"}
  <2>1. Pending(d) = {}
    BY <1>1, <1>5 DEF Pending
  <2> QED BY <1>5, <2>1
<1> QED BY <1>3, <1>4, <1>5

\* Where a boot begins, what it sends leads to the end.
LEMMA Begins ==
    ASSUME NEW d \in {Begin, Promised} PROVE OnWay(d, Remaining(d))
<1> DEFINE s == Remaining(d)
<1>0. s = IF Pending(d) = {} THEN <<>> ELSE StatementsOf(NextOf(d), d)
  BY DEF Remaining
<1>1. CASE d = Promised
  <2>1. d.applied = {"initial", "ownership"}
    BY <1>1, Schemas DEF Schema
  <2> QED BY <1>0, <1>1, <2>1, NextMigration DEF OnWay
<1>2. CASE d = Begin /\ ~ installed
  <2>1. d = Fresh /\ d.applied = {}
    BY <1>2 DEF Begin, Fresh
  <2>2. s = InitialAuthSchema
    BY <1>0, <2>1, NextMigration DEF StatementsOf
  <2>3. Runs(Fresh, InitialAuthSchema, Schema(Tables, Every, NewTable, {}, {}))
    BY InitialGrows DEF Grown, Every, KeysOf, Tables
  <2>4. Listed({}) = Schema(Tables, Every, NewTable, {}, {})
    BY <1>2 DEF Listed, Filled, NewTable
  <2> QED BY <1>2, <2>1, <2>2, <2>3, <2>4 DEF OnWay
<1>3. CASE d = Begin /\ installed
  <2>1. d = Installed
    BY <1>3 DEF Begin
  <2>2. d = Schema(Tables, Rest \cup {OldIndex}, OldTable, {}, {"initial"})
    BY <2>1, Schemas
  <2>3. d.applied = {"initial"} /\ d.keys.columns = {"user_id"}
    BY <2>2 DEF Schema, OldTable
  <2>4. s \in {RebuildApiKeys, AlterApiKeys}
    BY <1>0, <2>3, NextMigration DEF StatementsOf
  <2>5. Listed({"initial"}) = Schema(Tables, Every, Filled(OldKeys), {}, {"initial"})
    BY <1>3 DEF Listed
  <2>6. Runs(d, s, Listed({"initial"}))
    BY <2>2, <2>4, <2>5, AlterRuns, RebuildRuns
  <2> QED BY <2>3, <2>6 DEF OnWay
<1> QED BY <1>1, <1>2, <1>3

\* No statement lists a migration.
LEMMA ApplyLists ==
    ASSUME NEW d, IsSchema(d), NEW s \in StatementSet PROVE Apply(d, s).applied = d.applied
<1>1. d = Schema(d.tables, d.indexes, d.keys, d.old, d.applied)
  BY DEF IsSchema, Schema
<1>2. s.do \in Kinds
  BY DEF StatementSet
<1> QED BY <1>1, <1>2 DEF Apply, Schema, Kinds

LEMMA SchemaInitCurrent == SchemaInit => CurrentInv
<1> SUFFICES ASSUME SchemaInit PROVE CurrentInv
  OBVIOUS
<1>1. schema = Begin /\ phase = "down" /\ cut = FALSE
  BY DEF SchemaInit, Begin
<1>2. OnWay(Begin, Remaining(Begin))
  BY Begins
<1> QED BY <1>1, <1>2 DEF CurrentInv

\* What a boot has to do depends on the schema and on the database alone.
LEMMA SameWay ==
    ASSUME UNCHANGED <<backend, installed>>
    PROVE  /\ Promised' = Promised /\ (Transactional' <=> Transactional)
           /\ \A l : Listed(l)' = Listed(l)
           /\ UNCHANGED schema =>
                 (OnWay(schema, Remaining(schema))' <=> OnWay(schema, Remaining(schema)))
<1>1. /\ Promised' = Promised /\ (Transactional' <=> Transactional)
      /\ \A l : Listed(l)' = Listed(l)
  BY DEF Promised, Transactional, Listed
<1>2. UNCHANGED schema => Remaining(schema)' = Remaining(schema)
  BY DEF Remaining, StatementsOf
<1>3. UNCHANGED schema =>
         (OnWay(schema, Remaining(schema))' <=> OnWay(schema, Remaining(schema)))
  BY <1>1, <1>2 DEF OnWay, Listed
<1> QED BY <1>1, <1>3

LEMMA BootCurrent == CurrentInv /\ Boot => CurrentInv'
<1> SUFFICES ASSUME CurrentInv, Boot PROVE CurrentInv'
  OBVIOUS
<1>1. /\ UNCHANGED <<backend, installed, schema, cut>> /\ work' = schema
      /\ phase = "down" /\ phase' = "booting" /\ todo' = Remaining(schema)
  BY DEF Boot
<1>2. ~ cut => OnWay(schema, Remaining(schema))'
  BY <1>1, SameWay DEF CurrentInv
<1>3. work' = schema' /\ todo' = Remaining(schema)'
  BY <1>1 DEF Remaining, StatementsOf
<1>4. ~ cut => OnWay(work, todo)'
  BY <1>2, <1>3 DEF OnWay
<1> QED BY <1>1, <1>2, <1>3, <1>4 DEF CurrentInv

LEMMA SendCurrent == KeysInv /\ CurrentInv /\ SendStatement => CurrentInv'
<1> SUFFICES ASSUME KeysInv, CurrentInv, SendStatement PROVE CurrentInv'
  OBVIOUS
<1>1. /\ UNCHANGED <<backend, installed, cut>>
      /\ phase = "booting" /\ todo # <<>> /\ phase' \in {"down", "booting"}
  BY DEF SendStatement
<1>2. (Transactional' <=> Transactional)
  BY <1>1, SameWay
<1>4. CASE cut
  BY <1>1, <1>4 DEF CurrentInv
<1>5. CASE ~ cut
  <2>1. OnWay(work, todo)
    BY <1>1, <1>5 DEF CurrentInv
  <2>2. todo \in Seq(StatementSet) /\ Head(todo) \in StatementSet /\ IsSchema(work)
    BY <1>1 DEF KeysInv, Sound
  <2>3. PICK e : /\ Runs(work, todo, e)
                 /\ \/ work.applied = {} /\ ~ installed /\ e = Listed({})
                    \/ work.applied = {"initial"} /\ e = Listed({"initial"})
    BY <1>1, <2>1 DEF OnWay
  <2>4. Accepts(work, Head(todo)) /\ Runs(Apply(work, Head(todo)), Tail(todo), e)
    BY <1>1, <2>2, <2>3, RunsOn
  <2>5. /\ work' = Apply(work, Head(todo)) /\ todo' = Tail(todo) /\ phase' = phase
        /\ schema' = IF Transactional THEN schema ELSE work'
    BY <2>4 DEF SendStatement, Visible
  <2>6. work'.applied = work.applied
    BY <2>2, <2>5, ApplyLists
  <2>7. Listed({})' = Listed({}) /\ Listed({"initial"})' = Listed({"initial"})
    BY <1>1 DEF Listed
  <2>8. OnWay(work, todo)'
    BY <1>1, <2>3, <2>4, <2>5, <2>6, <2>7 DEF OnWay
  <2>9. IF Transactional THEN OnWay(schema, Remaining(schema))' ELSE schema' = work'
    BY <1>1, <1>5, <2>5, SameWay DEF CurrentInv
  <2> QED BY <1>1, <1>2, <2>5, <2>8, <2>9 DEF CurrentInv
<1> QED BY <1>4, <1>5

LEMMA RecordCurrent == CurrentInv /\ RecordMigration => CurrentInv'
<1> SUFFICES ASSUME CurrentInv, RecordMigration PROVE CurrentInv'
  OBVIOUS
<1>1. /\ UNCHANGED <<backend, installed, cut, phase>>
      /\ phase = "booting" /\ todo = <<>> /\ Pending(work) # {}
      /\ work' = [work EXCEPT !.applied = @ \cup {NextOf(work)}]
      /\ todo' = IF Pending(work') = {} THEN <<>> ELSE StatementsOf(NextOf(work'), work')
      /\ schema' = IF Transactional THEN schema ELSE work'
  BY DEF RecordMigration, Visible, Remaining
<1>2. /\ Promised' = Promised
      /\ Listed({})' = Listed({}) /\ Listed({"initial"})' = Listed({"initial"})
  BY <1>1 DEF Promised, Listed
<1>3. (Transactional' <=> Transactional)
  BY <1>1, SameWay
<1>4. CASE cut
  BY <1>1, <1>4 DEF CurrentInv
<1>5. CASE ~ cut
  <2>1. OnWay(work, todo)
    BY <1>1, <1>5 DEF CurrentInv
  <2>0. IF Transactional THEN OnWay(schema, Remaining(schema))' ELSE schema' = work'
    BY <1>1, <1>5, SameWay DEF CurrentInv
  <2>2. \A l : \A m : [Listed(l) EXCEPT !.applied = m] = Listed(m)
    BY DEF Listed, Schema
  <2>3. \A l : Listed(l).applied = l /\ "reference_id" \in Listed(l).keys.columns
    BY DEF Listed, Schema, Filled
  <2>4. Promised = Listed({"initial", "ownership"})
    BY Schemas DEF Listed
  <2>5. CASE work.applied = {} /\ Runs(work, todo, Listed({}))
    <3>1. work = Listed({}) /\ NextOf(work) = "initial"
      BY <1>1, <2>5, RunsOut, NextMigration
    <3>2. work' = [work EXCEPT !.applied = {} \cup {"initial"}]
      BY <1>1, <2>5, <3>1
    <3>3. work' = Listed({"initial"})
      <4>1. {} \cup {"initial"} = {"initial"}
        OBVIOUS
      <4> QED BY <2>2, <3>1, <3>2, <4>1
    <3>4. work'.applied = {"initial"} /\ "reference_id" \in work'.keys.columns
      BY <2>3, <3>3
    <3>5. todo' = <<>>
      <4>1. PICK w : w = work'
        OBVIOUS
      <4>2. Pending(w) # {} /\ NextOf(w) = "ownership"
        BY <3>4, <4>1, NextMigration
      <4> QED BY <1>1, <3>4, <4>1, <4>2 DEF StatementsOf
    <3>6. Runs(work', <<>>, Listed({"initial"}))
      BY <3>3, RunsNone
    <3>7. OnWay(work, todo)'
      BY <1>2, <3>4, <3>5, <3>6 DEF OnWay
    <3> QED BY <1>1, <1>3, <2>0, <3>7 DEF CurrentInv
  <2>6. CASE work.applied = {"initial"} /\ Runs(work, todo, Listed({"initial"}))
    <3>1. work = Listed({"initial"}) /\ NextOf(work) = "ownership"
      BY <1>1, <2>6, RunsOut, NextMigration
    <3>2. work' = [work EXCEPT !.applied = {"initial"} \cup {"ownership"}]
      BY <1>1, <2>6, <3>1
    <3>3. work' = Promised
      <4>1. {"initial"} \cup {"ownership"} = {"initial", "ownership"}
        OBVIOUS
      <4> QED BY <2>2, <2>4, <3>1, <3>2, <4>1
    <3>4. todo' = <<>>
      <4>1. PICK w : w = work'
        OBVIOUS
      <4>2. Pending(w) = {}
        BY <2>3, <2>4, <3>3, <4>1, NextMigration
      <4> QED BY <1>1, <4>1, <4>2
    <3>5. OnWay(work, todo)'
      BY <1>2, <3>3, <3>4 DEF OnWay
    <3> QED BY <1>1, <1>3, <2>0, <3>5 DEF CurrentInv
  <2>7. CASE work = Promised
    BY <1>1, <2>3, <2>4, <2>7, NextMigration
  <2> QED BY <2>1, <2>5, <2>6, <2>7 DEF OnWay
<1> QED BY <1>4, <1>5

LEMMA ServeCurrent == CurrentInv /\ Serve => CurrentInv'
<1> SUFFICES ASSUME CurrentInv, Serve PROVE CurrentInv'
  OBVIOUS
<1>1. /\ UNCHANGED <<backend, installed, cut>>
      /\ phase = "booting" /\ todo = <<>> /\ Pending(work) = {}
      /\ schema' = work /\ phase' = "up"
  BY DEF Serve
<1>2. Promised' = Promised
  BY <1>1, SameWay
<1>3. ASSUME ~ cut PROVE work = Promised
  <2>1. OnWay(work, todo)
    BY <1>1, <1>3 DEF CurrentInv
  <2>2. work.applied # {} /\ work.applied # {"initial"}
    BY <1>1, NextMigration
  <2> QED BY <2>1, <2>2 DEF OnWay
<1> QED BY <1>1, <1>2, <1>3 DEF CurrentInv

\* A crash that cuts nothing short leaves a schema on which the next boot goes on.
LEMMA CrashCurrent == CurrentInv /\ Crash => CurrentInv'
<1> SUFFICES ASSUME CurrentInv, Crash PROVE CurrentInv'
  OBVIOUS
<1>1. /\ UNCHANGED <<backend, installed, schema>> /\ phase # "down" /\ phase' = "down"
      /\ cut' = (cut \/ (~ Transactional /\ todo # Remaining(work)))
  BY DEF Crash
<1>2. ASSUME ~ cut' PROVE OnWay(schema, Remaining(schema))
  <2>1. ~ cut /\ (Transactional \/ todo = Remaining(work))
    BY <1>1, <1>2
  <2>2. CASE phase = "booting"
    BY <2>1, <2>2 DEF CurrentInv
  <2>3. CASE phase = "up"
    <3>1. schema = Promised
      BY <2>1, <2>3 DEF CurrentInv
    <3>2. OnWay(Promised, Remaining(Promised))
      BY Begins
    <3> QED BY <3>1, <3>2
  <2> QED BY <1>1, <2>2, <2>3 DEF CurrentInv
<1>3. ~ cut' => OnWay(schema, Remaining(schema))'
  BY <1>1, <1>2, SameWay
<1>4. cut' \in BOOLEAN
  BY <1>1
<1> QED BY <1>1, <1>3, <1>4 DEF CurrentInv

\* Every step of a server keeps the boots on their way.
LEMMA BootStepCurrent ==
    KeysInv /\ CurrentInv /\ (BootStep \/ Crash \/ UNCHANGED schemaVars) => CurrentInv'
<1>1. ASSUME CurrentInv, UNCHANGED schemaVars PROVE CurrentInv'
  <2>1. UNCHANGED <<backend, installed, schema, work, phase, todo, cut>>
    BY <1>1 DEF schemaVars
  <2>2. OnWay(work, todo)' <=> OnWay(work, todo)
    BY <2>1, SameWay DEF OnWay, Listed
  <2>3. /\ Promised' = Promised /\ (Transactional' <=> Transactional)
        /\ OnWay(schema, Remaining(schema))' <=> OnWay(schema, Remaining(schema))
    BY <2>1, SameWay
  <2> QED BY <1>1, <2>1, <2>2, <2>3 DEF CurrentInv
<1> QED BY <1>1, BootCurrent, SendCurrent, RecordCurrent, ServeCurrent, CrashCurrent
        DEF BootStep

LEMMA InvServesCurrent == CurrentInv => ServesCurrent
  BY DEF CurrentInv, ServesCurrent

-----------------------------------------------------------------------------
(* The foreign key of an old table, whatever crashes cut short.            *)

\* A script that frees the table of its foreign key, before it renames the column.
Frees(s) ==
    \E j \in 1 .. Len(s) :
        /\ s[j].do \in {"drop_foreign", "rename_table"}
        /\ \A i \in 1 .. j : s[i].do # "rename_column"

\* A schema that has the foreign key is one that no migration takes for done.
Untouched(d) == d.keys.foreign => d.applied = {"initial"} /\ "reference_id" \notin d.keys.columns

FreedInv ==
    /\ Untouched(schema) /\ Untouched(work)
    /\ phase = "booting" /\ work.keys.foreign => Frees(todo)
    /\ phase = "up" => ~ schema.keys.foreign

LEMMA AlterFrees == Frees(AlterApiKeys)
<1> DEFINE s == AlterApiKeys
<1>1. Len(s) = 6 /\ s[1].do = "drop_foreign"
  BY DEF AlterApiKeys, Statement, Index
<1> HIDE DEF s
<1>2. 1 \in 1 .. Len(s) /\ \A i \in 1 .. 1 : s[i].do # "rename_column"
  BY <1>1
<1> QED BY <1>1, <1>2 DEF Frees, s

LEMMA RebuildFrees == Frees(RebuildApiKeys)
<1> DEFINE a == Statement("drop_index_if", <<"api_keys", "user_id">>, {})
           b == Statement("rename_table", "api_keys", {})
           c == Statement("copy_rows", "api_keys_old", {})
           d == Statement("drop_table", "api_keys_old", {})
           s == (<<a, b>> \o CreateApiKeys) \o <<c, d>>
<1>1. CreateApiKeys \in Seq(StatementSet)
  <2>1. DropsNothing(CreateApiKeys)
    BY TableDropsNothing DEF Tables, Columns, CreateApiKeys
  <2> QED BY <2>1 DEF DropsNothing
<1>2. {a, b, c, d} \subseteq StatementSet
  BY DEF Statement, StatementSet, Kinds, Identifiers, Tables, Columns
<1>3. a.do = "drop_index_if" /\ b.do = "rename_table"
  BY DEF Statement
<1> HIDE DEF a, b, c, d
<1>4. Len(s) >= 2 /\ s[1] = a /\ s[2] = b
  BY <1>1, <1>2
<1>5. s = RebuildApiKeys
  BY DEF RebuildApiKeys, a, b, c, d
<1> HIDE DEF s
<1>6. 2 \in 1 .. Len(s) /\ \A i \in 1 .. 2 : s[i].do # "rename_column"
  BY <1>3, <1>4
<1>7. Frees(s)
  BY <1>3, <1>4, <1>6 DEF Frees
<1> QED BY <1>5, <1>7

\* What a boot sends to a table that has the foreign key frees it.
LEMMA RemainingFrees ==
    ASSUME NEW d, Untouched(d), d.keys.foreign PROVE Frees(Remaining(d))
<1>1. d.applied = {"initial"} /\ "reference_id" \notin d.keys.columns
  BY DEF Untouched
<1>2. Remaining(d) \in {RebuildApiKeys, AlterApiKeys}
  BY <1>1, NextMigration DEF Remaining, StatementsOf
<1> QED BY <1>2, AlterFrees, RebuildFrees

\* No statement brings the foreign key back, those that free the table of it apart.
LEMMA ApplyFrees ==
    ASSUME NEW d, IsSchema(d), NEW s \in StatementSet
    PROVE  Apply(d, s).keys.foreign =>
              /\ d.keys.foreign /\ s.do \notin {"drop_foreign", "rename_table"}
              /\ s.do # "rename_column" /\ "reference_id" \notin d.keys.columns =>
                    "reference_id" \notin Apply(d, s).keys.columns
<1>1. d.keys \in Keys
  BY DEF IsSchema
<1>2. PICK k \in Keys : d.keys = k
  BY <1>1
<1>3. d = [tables |-> d.tables, indexes |-> d.indexes, keys |-> k, old |-> d.old,
           applied |-> d.applied]
  BY <1>2 DEF IsSchema
<1>4. CASE s.do = "create_table"
  <2>1. Apply(d, s) = [d EXCEPT !.tables = @ \cup {s.name},
                                !.keys = IF s.name = "api_keys" /\ s.name \notin d.tables
                                         THEN NewTable ELSE @]
    BY <1>4 DEF Apply
  <2>2. NewTable.foreign = FALSE
    BY DEF NewTable
  <2>3. CASE s.name = "api_keys" /\ s.name \notin d.tables
    <3>1. Apply(d, s) = [d EXCEPT !.tables = @ \cup {s.name}, !.keys = NewTable]
      BY <2>1, <2>3
    <3>2. Apply(d, s).keys = NewTable
      BY <1>3, <3>1
    <3> QED BY <2>2, <3>2
  <2>4. CASE ~ (s.name = "api_keys" /\ s.name \notin d.tables)
    <3>1. Apply(d, s).keys = k
      BY <1>3, <2>1, <2>4
    <3> QED BY <1>2, <1>4, <3>1
  <2> QED BY <2>3, <2>4
<1>5. CASE s.do \in {"create_index", "drop_index", "drop_index_if", "drop_table"}
  <2>1. Apply(d, s).keys = k
    BY <1>3, <1>5 DEF Apply
  <2> QED BY <1>2, <1>5, <2>1
<1>6. CASE s.do = "drop_foreign"
  <2>1. Apply(d, s).keys.foreign = FALSE
    BY <1>3, <1>6 DEF Apply, Keys
  <2> QED BY <2>1
<1>7. CASE s.do = "rename_table"
  <2>1. Apply(d, s).keys = Nowhere
    BY <1>3, <1>7 DEF Apply
  <2> QED BY <2>1 DEF Nowhere
<1>8. CASE s.do = "rename_column"
  <2>1. Apply(d, s).keys.foreign = k.foreign
    BY <1>3, <1>8 DEF Apply, Keys
  <2> QED BY <1>2, <1>8, <2>1
<1>9. CASE s.do = "add_column"
  <2>1. /\ Apply(d, s).keys.foreign = k.foreign
        /\ Apply(d, s).keys.columns = k.columns \cup {"config_id"}
    BY <1>3, <1>9 DEF Apply, Keys
  <2> QED BY <1>2, <1>9, <2>1
<1>10. CASE s.do = "copy_rows"
  <2>1. Apply(d, s).keys.foreign = k.foreign /\ Apply(d, s).keys.columns = k.columns
    BY <1>3, <1>10 DEF Apply, Keys
  <2> QED BY <1>2, <1>10, <2>1
<1> QED BY <1>4, <1>5, <1>6, <1>7, <1>8, <1>9, <1>10 DEF StatementSet, Kinds

LEMMA SchemaInitFreed == SchemaInit => FreedInv
<1> SUFFICES ASSUME SchemaInit PROVE FreedInv
  OBVIOUS
<1>1. schema \in {Installed, Fresh} /\ work = schema /\ phase = "down"
  BY DEF SchemaInit
<1>2. Untouched(Fresh)
  BY DEF Untouched, Fresh, Nowhere
<1>3. Untouched(Installed)
  <2>1. Installed = Schema(Tables, Rest \cup {OldIndex}, OldTable, {}, {"initial"})
    BY Schemas
  <2> QED BY <2>1 DEF Untouched, Schema, OldTable
<1> QED BY <1>1, <1>2, <1>3 DEF FreedInv

LEMMA BootFreed == FreedInv /\ Boot => FreedInv'
<1> SUFFICES ASSUME FreedInv, Boot PROVE FreedInv'
  OBVIOUS
<1>1. schema' = schema /\ work' = schema /\ todo' = Remaining(schema) /\ phase' = "booting"
  BY DEF Boot
<1>2. Untouched(schema) /\ (schema.keys.foreign => Frees(Remaining(schema)))
  BY RemainingFrees DEF FreedInv
<1> QED BY <1>1, <1>2 DEF FreedInv, Untouched, Frees

LEMMA SendFreed == KeysInv /\ FreedInv /\ SendStatement => FreedInv'
<1> SUFFICES ASSUME KeysInv, FreedInv, SendStatement PROVE FreedInv'
  OBVIOUS
<1>1. /\ phase = "booting" /\ todo # <<>> /\ todo \in Seq(StatementSet)
      /\ IsSchema(work) /\ Untouched(schema) /\ Untouched(work)
  BY DEF SendStatement, KeysInv, Sound, FreedInv
<1>2. CASE ~ Accepts(work, Head(todo))
  <2>1. phase' = "down" /\ work' = schema /\ schema' = schema
    BY <1>2 DEF SendStatement
  <2> QED BY <1>1, <2>1 DEF FreedInv, Untouched
<1>3. CASE Accepts(work, Head(todo))
  <2> DEFINE s == Head(todo)
  <2>1. /\ work' = Apply(work, s) /\ todo' = Tail(todo) /\ phase' = "booting"
        /\ schema' \in {schema, work'}
    BY <1>1, <1>3 DEF SendStatement, Visible
  <2>2. s \in StatementSet /\ s = todo[1] /\ Apply(work, s).applied = work.applied
    BY <1>1, ApplyLists
  <2>3. ASSUME work'.keys.foreign
        PROVE  Frees(todo') /\ work'.applied = {"initial"} /\ "reference_id" \notin work'.keys.columns
    <3>1. work.keys.foreign /\ s.do \notin {"drop_foreign", "rename_table"}
      BY <1>1, <2>1, <2>2, <2>3, ApplyFrees
    <3>2. PICK j \in 1 .. Len(todo) :
             /\ todo[j].do \in {"drop_foreign", "rename_table"}
             /\ \A i \in 1 .. j : todo[i].do # "rename_column"
      BY <1>1, <3>1 DEF FreedInv, Frees
    <3>3. j # 1 /\ 1 \in 1 .. j
      BY <2>2, <3>1, <3>2
    <3>4. s.do # "rename_column"
      BY <2>2, <3>2, <3>3
    <3>5. work.applied = {"initial"} /\ "reference_id" \notin work.keys.columns
      BY <1>1, <3>1 DEF Untouched
    <3>6. "reference_id" \notin work'.keys.columns
      BY <1>1, <2>1, <2>2, <2>3, <3>4, <3>5, ApplyFrees
    <3>7. /\ Len(todo') = Len(todo) - 1
          /\ \A i \in 1 .. Len(todo') : todo'[i] = todo[i + 1]
      BY <1>1, <2>1
    <3>8. j - 1 \in 1 .. Len(todo') /\ todo'[j - 1] = todo[j]
      BY <1>1, <3>2, <3>3, <3>7
    <3>9. \A i \in 1 .. (j - 1) : todo'[i].do # "rename_column"
      BY <1>1, <3>2, <3>3, <3>7, <3>8
    <3>10. Frees(todo')
      BY <3>2, <3>8, <3>9 DEF Frees
    <3> QED BY <2>1, <2>2, <3>5, <3>6, <3>10
  <2>4. Untouched(work') /\ Untouched(schema')
    BY <1>1, <2>1, <2>3 DEF Untouched
  <2> QED BY <2>1, <2>3, <2>4 DEF FreedInv, Untouched, Frees
<1> QED BY <1>2, <1>3

LEMMA RecordFreed == KeysInv /\ FreedInv /\ RecordMigration => FreedInv'
<1> SUFFICES ASSUME KeysInv, FreedInv, RecordMigration PROVE FreedInv'
  OBVIOUS
<1>1. /\ phase = "booting" /\ phase' = phase /\ todo = <<>>
      /\ schema' \in {schema, work'}
      /\ work' = [work EXCEPT !.applied = @ \cup {NextOf(work)}]
  BY DEF RecordMigration, Visible
<1>2. ~ Frees(todo)
  BY <1>1 DEF Frees
<1>3. ~ work.keys.foreign
  BY <1>1, <1>2 DEF FreedInv
<1>4. work'.keys = work.keys
  BY <1>1 DEF KeysInv, Sound, IsSchema
<1> QED BY <1>1, <1>3, <1>4 DEF FreedInv, Untouched

LEMMA ServeFreed == FreedInv /\ Serve => FreedInv'
<1> SUFFICES ASSUME FreedInv, Serve PROVE FreedInv'
  OBVIOUS
<1>1. phase = "booting" /\ todo = <<>> /\ schema' = work /\ work' = work /\ phase' = "up"
  BY DEF Serve
<1>2. ~ Frees(todo)
  BY <1>1 DEF Frees
<1> QED BY <1>1, <1>2 DEF FreedInv, Untouched

\* Every step of a server, and every crash, whatever it cut short.
LEMMA BootStepFreed ==
    KeysInv /\ FreedInv /\ (BootStep \/ Crash \/ UNCHANGED schemaVars) => FreedInv'
<1>1. FreedInv /\ Crash => FreedInv'
  BY DEF Crash, FreedInv, Untouched
<1>2. FreedInv /\ UNCHANGED schemaVars => FreedInv'
  BY DEF schemaVars, FreedInv, Untouched, Frees
<1> QED BY <1>1, <1>2, BootFreed, SendFreed, RecordFreed, ServeFreed DEF BootStep


-----------------------------------------------------------------------------
(* The inductive invariant.                                                *)

Typed ==
    /\ stage \in [Requests -> Stages]
    /\ asked \in [Requests -> RequestSet]
    /\ acting \in [Requests -> Users \cup {None}]
    /\ answer \in [Requests -> [status : Nat, cors : BOOLEAN]]
    /\ rows \subseteq Sessions

Checked(q) == q.via # "app" /\ q.path \notin Disabled /\ ~ q.large /\ CsrfOk(q)
UserOf(q) == IF q.key # None THEN Owners[q.key] ELSE SessionOf[q.cookie]

\* What is known of a request at each of its stages.
Underway(r) ==
    LET q == asked[r] IN
    /\ stage[r] = "extract" => q.via = "app"
    /\ stage[r] \in {"limit", "lock"} => q.via # "app"
    /\ stage[r] = "lock" => ~ q.large
    /\ stage[r] \in {"hooks", "who", "name", "write"} => Checked(q)
    /\ stage[r] = "who" => /\ q.key \in DOMAIN Owners \cup {None}
                           /\ acting[r] = VirtualUser(q)
    /\ stage[r] \in {"name", "write"} => acting[r] = UserOf(q)

AnswerOK(r) ==
    stage[r] = "answered" =>
        /\ answer[r].cors => asked[r].origin \in Allowed
        /\ asked[r].via = "call" /\ asked[r].origin \in Allowed => answer[r].cors

\* What is known of a handler that ran for user u.
Entitled(q, u) ==
    IF q.via = "app" THEN u = SessionOf[q.cookie]
    ELSE Checked(q) /\ (u # None => u = UserOf(q))
RanFor(h) ==
    /\ h.who \in Requests
    /\ stage[h.who] = "answered"
    /\ Entitled(asked[h.who], h.user)

IInv ==
    /\ Typed
    /\ \A r \in Requests : Underway(r) /\ AnswerOK(r)
    /\ \A h \in handled : RanFor(h)

-----------------------------------------------------------------------------
(* Configuration, and answers.                                             *)

LEMMA Configured ==
    /\ \A k \in DOMAIN Owners : Owners[k] \in Users /\ Owners[k] # None /\ k # None
    /\ \A s \in Sessions : SessionOf[s] \in Users /\ SessionOf[s] # None /\ s # None
  BY ServerAssumption DEF Users, Range, Sessions

\* An answer of the middleware can be read where the origin is allowed, and one of
\* the router cannot be read; only the router answers a request by axum or the application so.
LEMMA AnswerTyped ==
    ASSUME Typed, NEW r \in Requests, NEW s \in Nat, Answer(r, s), asked' = asked
    PROVE  /\ stage' = [stage EXCEPT ![r] = "answered"]
           /\ stage' \in [Requests -> Stages]
           /\ answer' \in [Requests -> [status : Nat, cors : BOOLEAN]]
           /\ \A p \in Requests \ {r} : stage'[p] = stage[p] /\ answer'[p] = answer[p]
           /\ stage'[r] = "answered"
           /\ Underway(r)' /\ AnswerOK(r)'
<1>1. Answered(asked[r], s) \in [status : Nat, cors : BOOLEAN]
  BY DEF Answered
<1>2. stage' = [stage EXCEPT ![r] = "answered"] /\ "answered" \in Stages
  BY DEF Answer, Goto, Stages
<1>3. answer' = [answer EXCEPT ![r] = Answered(asked[r], s)]
  BY DEF Answer
<1>4. stage' \in [Requests -> Stages] /\ stage'[r] = "answered"
  BY <1>2 DEF Typed
<1>5. answer' \in [Requests -> [status : Nat, cors : BOOLEAN]]
  BY <1>1, <1>3 DEF Typed
<1>6. \A p \in Requests \ {r} : stage'[p] = stage[p] /\ answer'[p] = answer[p]
  BY <1>2, <1>3 DEF Typed
<1>7. answer'[r].cors = (asked[r].origin \in Allowed)
  BY <1>3 DEF Typed, Answered
<1>8. Underway(r)'
  BY <1>4 DEF Underway
<1>9. AnswerOK(r)'
  BY <1>4, <1>7 DEF AnswerOK
<1> QED BY <1>2, <1>4, <1>5, <1>6, <1>8, <1>9

LEMMA BareTyped ==
    ASSUME Typed, NEW r \in Requests, NEW s \in Nat, AnswerBare(r, s),
           asked'[r].via # "call"
    PROVE  /\ stage' \in [Requests -> Stages]
           /\ answer' \in [Requests -> [status : Nat, cors : BOOLEAN]]
           /\ \A p \in Requests \ {r} : stage'[p] = stage[p] /\ answer'[p] = answer[p]
           /\ stage'[r] = "answered"
           /\ Underway(r)' /\ AnswerOK(r)'
<1>1. stage' = [stage EXCEPT ![r] = "answered"] /\ "answered" \in Stages
  BY DEF AnswerBare, Goto, Stages
<1>2. answer' = [answer EXCEPT ![r] = [status |-> s, cors |-> FALSE]]
  BY DEF AnswerBare
<1>3. stage' \in [Requests -> Stages] /\ stage'[r] = "answered"
  BY <1>1 DEF Typed
<1>4. answer' \in [Requests -> [status : Nat, cors : BOOLEAN]] /\ answer'[r].cors = FALSE
  BY <1>2 DEF Typed
<1>5. \A p \in Requests \ {r} : stage'[p] = stage[p] /\ answer'[p] = answer[p]
  BY <1>1, <1>2 DEF Typed
<1>6. Underway(r)'
  BY <1>3 DEF Underway
<1>7. AnswerOK(r)'
  BY <1>3, <1>4 DEF AnswerOK
<1> QED BY <1>3, <1>4, <1>5, <1>6, <1>7

\* Going on to another stage answers nobody.
LEMMA GotoTyped ==
    ASSUME Typed, NEW r \in Requests, NEW s \in Stages \ {"answered"}, Goto(r, s)
    PROVE  /\ stage' \in [Requests -> Stages]
           /\ \A p \in Requests \ {r} : stage'[p] = stage[p]
           /\ stage'[r] = s
           /\ AnswerOK(r)'
<1>1. stage' \in [Requests -> Stages] /\ stage'[r] = s
  BY DEF Goto, Typed
<1>2. \A p \in Requests \ {r} : stage'[p] = stage[p]
  BY DEF Goto, Typed
<1>3. AnswerOK(r)'
  BY <1>1 DEF AnswerOK
<1> QED BY <1>1, <1>2, <1>3

\* A step of one request leaves what is known of the others as it is.
Others(r) ==
    \A p \in Requests \ {r} :
        /\ stage'[p] = stage[p] /\ asked'[p] = asked[p]
        /\ acting'[p] = acting[p] /\ answer'[p] = answer[p]

LEMMA OneAtATime ==
    ASSUME IInv, NEW r \in Requests, stage[r] # "answered", Typed', Others(r),
           Underway(r)', AnswerOK(r)',
           \A h \in handled' : h \in handled \/ RanFor(h)'
    PROVE  IInv'
<1>1. ASSUME NEW p \in Requests PROVE Underway(p)' /\ AnswerOK(p)'
  <2>1. CASE p = r
    BY <2>1
  <2>2. CASE p # r
    <3>1. Underway(p) /\ AnswerOK(p)
      BY DEF IInv
    <3>2. /\ stage'[p] = stage[p] /\ asked'[p] = asked[p]
          /\ acting'[p] = acting[p] /\ answer'[p] = answer[p]
      BY <2>2 DEF Others
    <3> QED BY <3>1, <3>2 DEF Underway, AnswerOK
  <2> QED BY <2>1, <2>2
<1>2. ASSUME NEW h \in handled PROVE RanFor(h)'
  <2>1. RanFor(h)
    BY DEF IInv
  <2>2. h.who \in Requests \ {r}
    BY <2>1 DEF RanFor
  <2>3. stage'[h.who] = stage[h.who] /\ asked'[h.who] = asked[h.who]
    BY <2>2 DEF Others
  <2> QED BY <2>1, <2>3 DEF RanFor
<1> QED BY <1>1, <1>2 DEF IInv

\* The record of a handler that has just run.
LEMMA JustRan ==
    ASSUME NEW r \in Requests, NEW u, Handle(r, u), stage'[r] = "answered",
           Entitled(asked[r], u), asked' = asked
    PROVE  \A h \in handled' : h \in handled \/ RanFor(h)'
<1>1. ASSUME NEW h \in handled', h \notin handled PROVE RanFor(h)'
  <2>1. h = [who |-> r, user |-> u]
    BY <1>1 DEF Handle
  <2> QED BY <2>1 DEF RanFor
<1> QED BY <1>1

-----------------------------------------------------------------------------
(* Every step keeps the invariant.                                         *)

LEMMA InitOK == Init => IInv
<1> SUFFICES ASSUME Init PROVE IInv
  OBVIOUS
<1>1. Blank \in RequestSet
  BY DEF Blank, RequestSet
<1>2. Typed
  BY <1>1 DEF Init, Typed, Stages
<1>3. \A r \in Requests : Underway(r) /\ AnswerOK(r)
  BY DEF Init, Underway, AnswerOK
<1>4. handled = {}
  BY DEF Init
<1> QED BY <1>2, <1>3, <1>4 DEF IInv

LEMMA ArriveKeeps ==
    ASSUME IInv, NEW r \in Requests, Arrive(r) PROVE IInv'
<1>0. Typed /\ stage[r] = "idle" /\ stage[r] # "answered"
  BY DEF IInv, Arrive
<1>1. PICK q \in Offers[r] :
         /\ asked' = [asked EXCEPT ![r] = q]
         /\ \/ q.via = "app" /\ Goto(r, "extract") /\ UNCHANGED answer
            \/ q.via # "app" /\ Goto(r, "limit") /\ UNCHANGED answer
            \/ q.via \notin {"app", "call"}
               /\ \/ AnswerBare(r, 404) \/ AnswerBare(r, 405)
                  \/ AnswerBare(r, 200) \/ AnswerBare(r, 413)
  <2>1. PICK q \in Offers[r] :
           /\ asked' = [asked EXCEPT ![r] = q]
           /\ IF q.via = "app" THEN Goto(r, "extract") /\ UNCHANGED answer
              ELSE IF q.via = "call" THEN Goto(r, "limit") /\ UNCHANGED answer
              ELSE IF q.path \notin DOMAIN Routes \ Disabled THEN AnswerBare(r, 404)
              ELSE IF ~ Mounted(q) THEN AnswerBare(r, 405)
              ELSE IF q.path = "ok" THEN AnswerBare(r, 200)
              ELSE IF q.large THEN AnswerBare(r, 413)
              ELSE Goto(r, "limit") /\ UNCHANGED answer
    BY DEF Arrive
  <2>2. CASE q.via = "app"
    <3>1. Goto(r, "extract") /\ UNCHANGED answer
      BY <2>1, <2>2
    <3> QED BY <2>1, <2>2, <3>1
  <2>3. CASE q.via # "app" /\ Goto(r, "limit") /\ UNCHANGED answer
    BY <2>1, <2>3
  <2>4. CASE /\ q.via \notin {"app", "call"}
             /\ \/ AnswerBare(r, 404) \/ AnswerBare(r, 405)
                \/ AnswerBare(r, 200) \/ AnswerBare(r, 413)
    BY <2>1, <2>4
  <2>5. \/ q.via = "app"
        \/ q.via # "app" /\ Goto(r, "limit") /\ UNCHANGED answer
        \/ /\ q.via \notin {"app", "call"}
           /\ \/ AnswerBare(r, 404) \/ AnswerBare(r, 405)
              \/ AnswerBare(r, 200) \/ AnswerBare(r, 413)
    BY <2>1
  <2> QED BY <2>2, <2>3, <2>4, <2>5
<1>2. q \in RequestSet
  BY ServerAssumption
<1>3. /\ asked' \in [Requests -> RequestSet] /\ asked'[r] = q
      /\ \A p \in Requests \ {r} : asked'[p] = asked[p]
  BY <1>0, <1>1, <1>2 DEF Typed
<1>4. UNCHANGED <<acting, rows, handled>>
  BY DEF Arrive, shared, watch
<1>5. ASSUME UNCHANGED answer, NEW s \in {"extract", "limit"}, Goto(r, s),
             s = "extract" => q.via = "app", s = "limit" => q.via # "app"
      PROVE  IInv'
  <2>1. s \in Stages \ {"answered"}
    BY DEF Stages
  <2>2. /\ stage' \in [Requests -> Stages] /\ stage'[r] = s /\ AnswerOK(r)'
        /\ \A p \in Requests \ {r} : stage'[p] = stage[p]
    BY <2>1, <1>0, <1>5, GotoTyped
  <2>3. Underway(r)'
    BY <2>2, <1>3, <1>5 DEF Underway
  <2>4. Typed' /\ Others(r)
    BY <2>2, <1>0, <1>3, <1>4, <1>5 DEF Typed, Others
  <2> QED BY <2>2, <2>3, <2>4, <1>0, <1>4, OneAtATime
<1>6. ASSUME NEW s \in Nat, AnswerBare(r, s), q.via # "call" PROVE IInv'
  <2>1. /\ stage' \in [Requests -> Stages]
        /\ answer' \in [Requests -> [status : Nat, cors : BOOLEAN]]
        /\ \A p \in Requests \ {r} : stage'[p] = stage[p] /\ answer'[p] = answer[p]
        /\ Underway(r)' /\ AnswerOK(r)'
    BY <1>0, <1>3, <1>6, BareTyped
  <2>2. Typed' /\ Others(r)
    BY <2>1, <1>0, <1>3, <1>4 DEF Typed, Others
  <2> QED BY <2>1, <2>2, <1>0, <1>4, OneAtATime
<1> QED BY <1>1, <1>5, <1>6

\* The step of a request that answers it, a handler having run or not.
LEMMA AnswerKeeps ==
    ASSUME IInv, NEW r \in Requests, stage[r] # "answered", NEW s \in Nat, Answer(r, s),
           asked' = asked, rows' \subseteq rows,
           NEW u \in Users \cup {None}, acting' = [acting EXCEPT ![r] = u],
           \/ UNCHANGED handled
           \/ \E v \in Users \cup {None} : Handle(r, v) /\ Entitled(asked[r], v)
    PROVE  IInv'
<1>0. Typed
  BY DEF IInv
<1>1. /\ stage' \in [Requests -> Stages] /\ stage'[r] = "answered"
      /\ answer' \in [Requests -> [status : Nat, cors : BOOLEAN]]
      /\ \A p \in Requests \ {r} : stage'[p] = stage[p] /\ answer'[p] = answer[p]
      /\ Underway(r)' /\ AnswerOK(r)'
  BY <1>0, AnswerTyped
<1>2. /\ acting' \in [Requests -> Users \cup {None}]
      /\ \A p \in Requests \ {r} : acting'[p] = acting[p]
  BY <1>0 DEF Typed
<1>3. Typed' /\ Others(r)
  BY <1>0, <1>1, <1>2 DEF Typed, Others
<1>4. \A h \in handled' : h \in handled \/ RanFor(h)'
  <2>1. ASSUME NEW v, Handle(r, v), Entitled(asked[r], v)
        PROVE  \A h \in handled' : h \in handled \/ RanFor(h)'
    BY <2>1, <1>1, JustRan
  <2> QED BY <2>1
<1> QED BY <1>1, <1>3, <1>4, OneAtATime

\* The step of a request that goes on.
LEMMA GotoKeeps ==
    ASSUME IInv, NEW r \in Requests, stage[r] # "answered",
           NEW s \in Stages \ {"answered"}, Goto(r, s),
           UNCHANGED <<asked, answer, rows, handled>>,
           NEW u \in Users \cup {None}, acting' = [acting EXCEPT ![r] = u],
           Underway(r)'
    PROVE  IInv'
<1>0. Typed
  BY DEF IInv
<1>1. /\ stage' \in [Requests -> Stages] /\ AnswerOK(r)'
      /\ \A p \in Requests \ {r} : stage'[p] = stage[p]
  BY <1>0, GotoTyped
<1>2. /\ acting' \in [Requests -> Users \cup {None}] /\ acting'[r] = u
      /\ \A p \in Requests \ {r} : acting'[p] = acting[p]
  BY <1>0 DEF Typed
<1>3. Typed' /\ Others(r)
  BY <1>0, <1>1, <1>2 DEF Typed, Others
<1> QED BY <1>1, <1>3, OneAtATime

LEMMA StepKeeps ==
    ASSUME IInv, NEW r \in Requests, Step(r) PROVE IInv'
<1> DEFINE q == asked[r]
<1>0. Typed /\ Underway(r)
  BY DEF IInv
<1>1. /\ q \in RequestSet /\ acting[r] \in Users \cup {None}
      /\ acting = [acting EXCEPT ![r] = acting[r]]
      /\ {200, 204, 400, 401, 403, 404, 413, 429, 500} \subseteq Nat
      /\ {"lock", "hooks", "who", "name", "write"} \subseteq Stages \ {"answered"}
  BY <1>0 DEF Typed, Stages
<1>2. CASE ReadClock(r)
  <2>1. /\ stage[r] = "limit" /\ q.via # "app"
        /\ UNCHANGED <<asked, acting, rows, handled>>
    BY <1>0, <1>2 DEF ReadClock, Underway, shared, watch
  <2>2. CASE Answer(r, 413)
    BY <2>1, <2>2, <1>1, AnswerKeeps
  <2>3. CASE Goto(r, "lock") /\ UNCHANGED answer /\ ~ q.large
    <3>1. stage'[r] = "lock"
      BY <2>3, <1>0, <1>1, GotoTyped
    <3>2. Underway(r)'
      BY <3>1, <2>1, <2>3 DEF Underway
    <3> QED BY <3>2, <2>1, <2>3, <1>1, GotoKeeps
  <2> QED BY <2>2, <2>3, <1>2 DEF ReadClock
<1>3. CASE Count(r)
  <2>1. /\ stage[r] = "lock" /\ q.via # "app" /\ ~ q.large
        /\ UNCHANGED <<asked, acting, rows, handled>>
    BY <1>0, <1>3 DEF Count, Underway
  <2>2. ASSUME NEW s \in {429, 403, 204, 404}, Answer(r, s) PROVE IInv'
    BY <2>1, <2>2, <1>1, AnswerKeeps
  <2>3. CASE Goto(r, "hooks") /\ UNCHANGED answer /\ CsrfOk(q) /\ q.path \notin Disabled
    <3>1. stage'[r] = "hooks"
      BY <2>3, <1>0, <1>1, GotoTyped
    <3>2. Checked(q)
      BY <2>1, <2>3 DEF Checked
    <3>3. Checked(asked'[r])
      BY <3>2, <2>1
    <3>4. Underway(r)'
      BY <3>1, <3>3 DEF Underway
    <3> QED BY <3>4, <2>1, <2>3, <1>1, GotoKeeps
  <2> QED BY <2>2, <2>3, <1>3 DEF Count
<1>4. CASE Dispatch(r)
  <2>1. /\ stage[r] = "hooks" /\ Checked(q) /\ q.via # "app"
        /\ UNCHANGED <<asked, rows>>
        /\ acting' = [acting EXCEPT ![r] = VirtualUser(q)]
    BY <1>0, <1>4 DEF Dispatch, Underway, Checked, shared
  <2>2. VirtualUser(q) \in Users \cup {None}
    BY Configured DEF VirtualUser
  <2>3. ASSUME NEW s \in Nat, Answer(r, s),
               \/ UNCHANGED handled
               \/ \E v \in Users \cup {None} : Handle(r, v) /\ Entitled(q, v)
        PROVE  IInv'
    <3>1. PICK u \in Users \cup {None} : acting' = [acting EXCEPT ![r] = u]
      BY <2>1, <2>2
    <3>2. asked' = asked /\ rows' \subseteq rows /\ stage[r] # "answered"
      BY <2>1
    <3> QED BY <3>1, <3>2, <2>3, AnswerKeeps
  <2>4. CASE /\ Answer(r, 200) /\ q.key \in DOMAIN Owners /\ Handle(r, Owners[q.key])
    <3>1. q.key # None /\ Owners[q.key] \in Users
      BY <2>4, Configured
    <3>2. Entitled(q, Owners[q.key])
      BY <3>1, <2>1 DEF Entitled, UserOf
    <3> QED BY <3>1, <3>2, <2>3, <2>4
  <2>5. CASE Answer(r, 200) /\ Handle(r, None)
    <3>1. Entitled(q, None)
      BY <2>1 DEF Entitled
    <3> QED BY <3>1, <2>3, <2>5
  <2>6. CASE /\ Goto(r, "who") /\ UNCHANGED <<answer, handled>>
             /\ q.key \in DOMAIN Owners \cup {None}
    <3>1. stage'[r] = "who"
      BY <2>6, <1>0, <1>1, GotoTyped
    <3>2. acting'[r] = VirtualUser(q)
      BY <2>1, <1>0 DEF Typed
    <3>3. Checked(asked'[r]) /\ asked'[r] = q /\ VirtualUser(asked'[r]) = VirtualUser(q)
      BY <2>1
    <3>4. Underway(r)'
      BY <3>1, <3>2, <3>3, <2>6 DEF Underway
    <3>5. /\ stage[r] # "answered" /\ "who" \in Stages \ {"answered"} /\ Goto(r, "who")
          /\ UNCHANGED <<asked, answer, rows, handled>>
      BY <2>1, <2>6, <1>1
    <3>6. PICK u \in Users \cup {None} : acting' = [acting EXCEPT ![r] = u]
      BY <2>1, <2>2
    <3> QED BY <3>4, <3>5, <3>6, GotoKeeps
  <2>7. \/ \E s \in {400, 404} : Answer(r, s) /\ UNCHANGED handled
        \/ Answer(r, 200) /\ q.key \in DOMAIN Owners /\ Handle(r, Owners[q.key])
        \/ Answer(r, 200) /\ Handle(r, None)
        \/ /\ Goto(r, "who") /\ UNCHANGED <<answer, handled>>
           /\ q.key \in DOMAIN Owners \cup {None}
    BY <1>4 DEF Dispatch
  <2> QED BY <2>3, <2>4, <2>5, <2>6, <2>7
<1>5. CASE FindUser(r)
  <2>1. /\ stage[r] = "who" /\ Checked(q)
        /\ q.key \in DOMAIN Owners \cup {None} /\ acting[r] = VirtualUser(q)
        /\ UNCHANGED <<asked, handled>>
    BY <1>0, <1>5 DEF FindUser, Underway, watch
  <2>2. ASSUME NEW u \in Users, u = UserOf(q), Goto(r, "name"),
               UNCHANGED <<answer, rows>>, acting' = [acting EXCEPT ![r] = u]
        PROVE  IInv'
    <3>1. stage'[r] = "name"
      BY <2>2, <1>0, <1>1, GotoTyped
    <3>2. acting'[r] = u
      BY <2>2, <1>0 DEF Typed
    <3>3. Checked(asked'[r]) /\ UserOf(asked'[r]) = u
      BY <2>1, <2>2
    <3>4. Underway(r)'
      BY <3>1, <3>2, <3>3 DEF Underway
    <3>5. /\ stage[r] # "answered" /\ "name" \in Stages \ {"answered"} /\ Goto(r, "name")
          /\ UNCHANGED <<asked, answer, rows, handled>>
      BY <2>1, <2>2, <1>1
    <3>6. u \in Users \cup {None} /\ acting' = [acting EXCEPT ![r] = u]
      BY <2>2
    <3> QED BY <3>4, <3>5, <3>6, GotoKeeps
  <2>3. CASE acting[r] # None
    <3>1. q.key \in DOMAIN Owners /\ acting[r] = Owners[q.key]
      BY <2>1, <2>3 DEF VirtualUser
    <3>2. acting[r] \in Users /\ acting[r] = UserOf(q)
      BY <3>1, Configured DEF UserOf
    <3>3. Goto(r, "name") /\ UNCHANGED <<acting, answer, rows>>
      BY <2>3, <1>5 DEF FindUser
    <3> QED BY <3>2, <3>3, <2>2, <1>1
  <2>4. CASE acting[r] = None
    <3>1. q.key = None
      BY <2>1, <2>4, Configured DEF VirtualUser
    <3>2. CASE Live(q.cookie)
      <4>1. q.cookie \in Sessions
        BY <3>2, <1>0 DEF Live, Typed
      <4>2. SessionOf[q.cookie] \in Users /\ SessionOf[q.cookie] = UserOf(q)
        BY <4>1, <3>1, Configured DEF UserOf
      <4>3. /\ acting' = [acting EXCEPT ![r] = SessionOf[q.cookie]]
            /\ Goto(r, "name") /\ UNCHANGED <<answer, rows>>
        BY <2>4, <3>2, <1>5 DEF FindUser
      <4> QED BY <4>2, <4>3, <2>2
    <3>3. CASE ~ Live(q.cookie)
      <4>1. rows' \subseteq rows /\ Answer(r, 401) /\ UNCHANGED acting
        BY <2>4, <3>3, <1>5 DEF FindUser
      <4> QED BY <4>1, <2>1, <1>1, AnswerKeeps
    <3> QED BY <3>2, <3>3
  <2> QED BY <2>3, <2>4
<1>6. CASE CheckName(r)
  <2>1. /\ stage[r] = "name" /\ Checked(q) /\ acting[r] = UserOf(q)
        /\ UNCHANGED <<asked, acting, rows, handled>>
    BY <1>0, <1>6 DEF CheckName, Underway, shared, watch
  <2>2. CASE Answer(r, 400)
    BY <2>1, <2>2, <1>1, AnswerKeeps
  <2>3. CASE Goto(r, "write") /\ UNCHANGED answer
    <3>1. stage'[r] = "write"
      BY <2>3, <1>0, <1>1, GotoTyped
    <3>2. Checked(asked'[r]) /\ acting'[r] = UserOf(asked'[r])
      BY <2>1
    <3>3. Underway(r)'
      BY <3>1, <3>2 DEF Underway
    <3> QED BY <3>3, <2>1, <2>3, <1>1, GotoKeeps
  <2> QED BY <2>2, <2>3, <1>6 DEF CheckName
<1>7. CASE WriteName(r)
  <2>1. /\ stage[r] = "write" /\ Checked(q) /\ q.via # "app" /\ acting[r] = UserOf(q)
        /\ UNCHANGED <<asked, acting, rows>>
    BY <1>0, <1>7 DEF WriteName, Underway, Checked
  <2>2. Entitled(q, acting[r])
    BY <2>1 DEF Entitled
  <2>3. \/ Answer(r, 200) /\ Handle(r, acting[r])
        \/ Answer(r, 500) /\ UNCHANGED handled
    BY <1>7 DEF WriteName
  <2> QED BY <2>1, <2>2, <2>3, <1>1, AnswerKeeps
<1>8. CASE Extract(r)
  <2>1. /\ stage[r] = "extract" /\ stage[r] # "answered" /\ q.via = "app"
        /\ UNCHANGED <<asked, acting, rows>>
    BY <1>0, <1>8 DEF Extract, Underway, shared
  <2>2. PICK s \in Nat : AnswerBare(r, s)
    BY <1>1, <1>8 DEF Extract
  <2>3. \/ UNCHANGED handled
        \/ Handle(r, SessionOf[q.cookie])
    BY <1>8 DEF Extract
  <2>4. /\ stage' \in [Requests -> Stages] /\ stage'[r] = "answered"
        /\ answer' \in [Requests -> [status : Nat, cors : BOOLEAN]]
        /\ \A p \in Requests \ {r} : stage'[p] = stage[p] /\ answer'[p] = answer[p]
        /\ Underway(r)' /\ AnswerOK(r)'
    BY <1>0, <2>1, <2>2, BareTyped
  <2>5. Typed' /\ Others(r)
    BY <1>0, <2>1, <2>4 DEF Typed, Others
  <2>6. Entitled(q, SessionOf[q.cookie])
    BY <2>1 DEF Entitled
  <2>7. \A h \in handled' : h \in handled \/ RanFor(h)'
    BY <2>1, <2>3, <2>4, <2>6, JustRan
  <2> QED BY <2>1, <2>4, <2>5, <2>7, OneAtATime
<1> QED BY <1>2, <1>3, <1>4, <1>5, <1>6, <1>7, <1>8 DEF Step

\* A crash loses the requests under way; the others stay as they are.
LEMMA StopKeeps ==
    ASSUME IInv, Stop PROVE IInv'
<1>1. /\ Typed
      /\ stage' = [r \in Requests |-> IF stage[r] \in {"idle", "answered"}
                                      THEN stage[r] ELSE "lost"]
      /\ UNCHANGED <<asked, acting, answer, rows, handled>>
  BY DEF IInv, Stop
<1>2. Typed'
  BY <1>1 DEF Typed, Stages
<1>3. ASSUME NEW r \in Requests PROVE Underway(r)' /\ AnswerOK(r)'
  <2>1. stage'[r] \in {"idle", "answered", "lost"}
    BY <1>1
  <2>2. stage'[r] = "answered" => stage[r] = "answered"
    BY <1>1
  <2>3. Underway(r)'
    BY <2>1 DEF Underway
  <2>4. AnswerOK(r)
    BY DEF IInv
  <2>5. AnswerOK(r)'
    BY <2>2, <2>4, <1>1 DEF AnswerOK
  <2> QED BY <2>3, <2>5
<1>4. ASSUME NEW h \in handled PROVE RanFor(h)'
  <2>1. RanFor(h)
    BY DEF IInv
  <2>2. stage'[h.who] = "answered"
    BY <2>1, <1>1 DEF RanFor
  <2> QED BY <2>1, <2>2, <1>1 DEF RanFor
<1> QED BY <1>1, <1>2, <1>3, <1>4 DEF IInv

LEMMA IdleKeeps ==
    ASSUME IInv, UNCHANGED <<stage, asked, acting, answer, rows, handled>>
    PROVE  IInv'
<1>1. Typed'
  BY DEF IInv, Typed
<1>2. ASSUME NEW r \in Requests PROVE Underway(r)' /\ AnswerOK(r)'
  BY DEF IInv, Underway, AnswerOK
<1>3. ASSUME NEW h \in handled PROVE RanFor(h)'
  BY DEF IInv, RanFor
<1> QED BY <1>1, <1>2, <1>3 DEF IInv

\* Every request is where its checks have brought it, in every reachable state.
THEOREM Inductive == Spec => []IInv
<1>1. ASSUME IInv, [Next]_vars PROVE IInv'
  <2>1. CASE UNCHANGED vars
    BY <1>1, <2>1, IdleKeeps DEF vars, serverVars, requestVars, shared, watch
  <2>2. CASE Start
    BY <1>1, <2>2, IdleKeeps DEF Start, serverVars, requestVars, shared, watch
  <2>3. CASE Stop
    BY <1>1, <2>3, StopKeeps
  <2>4. CASE Tick
    BY <1>1, <2>4, IdleKeeps DEF Tick, requestVars, shared, watch
  <2>5. ASSUME NEW r \in Requests, Arrive(r) PROVE IInv'
    BY <1>1, <2>5, ArriveKeeps
  <2>6. ASSUME NEW r \in Requests, Step(r) PROVE IInv'
    BY <1>1, <2>6, StepKeeps
  <2> QED BY <1>1, <2>1, <2>2, <2>3, <2>4, <2>5, <2>6 DEF Next
<1> QED BY <1>1, InitOK, PTL DEF Spec

-----------------------------------------------------------------------------
(* What the middleware promises.                                           *)

\* A handler of a plugin runs only for a request that the path list, the body limit,
\* the CSRF rules and the redirect rule allow, and acts for the user of its key or else
\* of its session: handle_request runs every before_request of the middleware first.
THEOREM OnlyAllowedReachHandlers == Spec => []OnlyAllowedHandled
<1>1. ASSUME IInv PROVE OnlyAllowedHandled
  <2> SUFFICES ASSUME NEW h \in handled
               PROVE  LET q == asked[h.who] IN
                      IF q.via = "app" THEN h.user = SessionOf[q.cookie]
                      ELSE /\ q.path \notin Disabled /\ ~ q.large
                           /\ q.method = "POST" /\ q.cookie # None => OriginOf(q) \in Trusted
                           /\ q.method = "POST" /\ q.path = "sign_in" /\ q.cookie = None
                              /\ q.fetch # "none" =>
                                   q.fetch = "same_site" /\ OriginOf(q) \in Trusted
                           /\ q.method = "POST" => q.target
                           /\ h.user # None => h.user = UserOf(q)
    BY DEF OnlyAllowedHandled, UserOf
  <2> DEFINE q == asked[h.who]
  <2>1. RanFor(h) /\ Typed
    BY <1>1 DEF IInv
  <2>2. q \in RequestSet /\ Entitled(q, h.user)
    BY <2>1 DEF RanFor, Typed
  <2>3. q.fetch \in {"none", "same_site", "cross_site"}
    BY <2>2 DEF RequestSet
  <2>4. CASE q.via = "app"
    BY <2>2, <2>4 DEF Entitled
  <2>5. CASE q.via # "app"
    <3>1. Checked(q) /\ (h.user # None => h.user = UserOf(q))
      BY <2>2, <2>5 DEF Entitled
    <3>2. CsrfOk(q) /\ q.path \notin Disabled /\ ~ q.large
      BY <3>1 DEF Checked
    <3> QED BY <3>1, <3>2, <2>3, <2>5 DEF CsrfOk, FormOk, ValidOrigin
  <2> QED BY <2>4, <2>5
<1> QED BY <1>1, Inductive, PTL

\* Every answer of handle_request carries the headers that let a page of an allowed
\* origin read it, and no answer lets another page: after_request of CorsMiddleware.
THEOREM AnswersReadable == Spec => []Readable
<1>1. IInv => Readable
  BY DEF IInv, AnswerOK, Readable
<1> QED BY <1>1, Inductive, PTL

\* A step of the server is one of a boot, a crash, or leaves the schema alone.
LEMMA SchemaSteps ==
    ASSUME [Next]_vars PROVE BootStep \/ Crash \/ UNCHANGED schemaVars
<1>1. CASE UNCHANGED vars
  BY <1>1 DEF vars
<1>2. CASE Start \/ Stop
  BY <1>2 DEF Start, Stop
<1>3. CASE Tick
  BY <1>3 DEF Tick
<1>4. ASSUME NEW r \in Requests, Arrive(r) PROVE UNCHANGED schemaVars
  BY <1>4 DEF Arrive
<1>5. ASSUME NEW r \in Requests, Step(r) PROVE UNCHANGED schemaVars
  BY <1>5 DEF Step, ReadClock, Count, Dispatch, FindUser, CheckName, WriteName, Extract
<1> QED BY <1>1, <1>2, <1>3, <1>4, <1>5 DEF Next

THEOREM SchemaInductive == Spec => [](KeysInv /\ CurrentInv /\ FreedInv)
<1>1. Init => KeysInv /\ CurrentInv /\ FreedInv
  BY SchemaInitOK, SchemaInitCurrent, SchemaInitFreed DEF Init
<1>2. KeysInv /\ CurrentInv /\ FreedInv /\ [Next]_vars => (KeysInv /\ CurrentInv /\ FreedInv)'
  BY SchemaSteps, BootStepKeeps, BootStepCurrent, BootStepFreed
<1> QED BY <1>1, <1>2, PTL DEF Spec

\* However often the server crashes, at whatever statement of a migration: an API key of
\* an old installation is in api_keys, or in the copy rebuild_sqlite_api_keys made.
THEOREM NoKeyLost == Spec => []KeysKept
  BY SchemaInductive, InvKeepsKeys, PTL

\* A server that is up, when no crash ever cut a migration short, has every table, column
\* and index its stores name, and every key it had: run_migrations, on a database that is
\* empty, old or current, and after crashes between migrations or while it served.
THEOREM ServesOnCurrentSchema == Spec => []ServesCurrent
  BY SchemaInductive, InvServesCurrent, PTL

\* However often the server crashes, at whatever statement of a migration: it does not serve
\* with a foreign key from API keys to users, which ApiKeyReferenceOwnership drops.
THEOREM OrganizationsOwnKeys == Spec => []OrganizationsCanOwn
<1>1. FreedInv => OrganizationsCanOwn
  BY DEF FreedInv, OrganizationsCanOwn
<1> QED BY <1>1, SchemaInductive, PTL

-----------------------------------------------------------------------------
(* The rate limiter.                                                       *)

Paths == BOOLEAN \X (DOMAIN Routes \cup {"missing"})
Entries == [who : Requests, at : Nat]
Admissions == [who : Requests, path : Paths, from : Nat, to : Nat]

\* The requests of path x that count for the window that begins at t.
Counting(x, t) == {a \in admitted : a.path = x /\ t <= a.from /\ a.to < t + Window}
\* As long as an admission may be in a window that is not over, its entry is there.
Remembered(a) ==
    /\ a.from <= now /\ a.to <= now
    /\ stage[a.who] \notin {"idle", "limit", "lock"}
    /\ now < a.from + Window => [who |-> a.who, at |-> a.from] \in buckets[a.path]

Clocked ==
    /\ now \in Nat
    /\ stamp \in [Requests -> Nat] /\ \A r \in Requests : stamp[r] <= now
    /\ buckets \in [Paths -> SUBSET Entries]
    /\ admitted \subseteq Admissions
Bounded(x) == IsFiniteSet(buckets[x]) /\ Cardinality(buckets[x]) <= LimitFor(x)
Kept(x, t) == IsFiniteSet(Counting(x, t)) /\ Cardinality(Counting(x, t)) <= LimitFor(x)

RateInv ==
    /\ Clocked
    /\ \A x \in Paths : Bounded(x)
    /\ \A a \in admitted : Remembered(a)
    /\ \A a \in admitted : \A b \in admitted : a.who = b.who => a = b
    /\ \A x \in Paths : \A t \in Nat : Kept(x, t)

\* A request is under way in a server that is up only.
UpInv ==
    /\ phase \in {"down", "booting", "up"}
    /\ phase # "up" => \A r \in Requests : stage[r] \in {"idle", "answered", "lost"}

LEMMA Limits == \A x : LimitFor(x) \in Nat
  BY ServerAssumption DEF LimitFor

LEMMA PathsOf == ASSUME NEW q \in RequestSet PROVE Spelled(q) \in Paths
  BY DEF RequestSet, Spelled, Paths

\* The clock that a request read before the lock drops no entry of an admission that is
\* in a window with the present.
LEMMA StillWithin ==
    ASSUME NEW s \in Nat, NEW n \in Nat, NEW f \in Nat, s <= n, n < f + Window
    PROVE  Within(s, f)
  BY ServerAssumption DEF Within

\* Those of a window that has not ended have an entry each.
LEMMA Injects ==
    ASSUME RateInv, NEW x \in Paths, NEW t \in Nat, now < t + Window, NEW s \in Nat, s <= now
    PROVE  Cardinality(Counting(x, t)) <= Cardinality(InWindow(s, buckets[x]))
<1> DEFINE recent == InWindow(s, buckets[x])
           f == [a \in Counting(x, t) |-> [who |-> a.who, at |-> a.from]]
<1>1. ASSUME NEW a \in Counting(x, t) PROVE f[a] \in recent
  <2>1. a \in admitted /\ a.path = x /\ t <= a.from
    BY DEF Counting
  <2>2. a.from \in Nat /\ now \in Nat
    BY <2>1 DEF RateInv, Clocked, Admissions
  <2>3. now < a.from + Window
    BY <2>1, <2>2, ServerAssumption
  <2>4. [who |-> a.who, at |-> a.from] \in buckets[x]
    BY <2>1, <2>3 DEF RateInv, Remembered
  <2>5. Within(s, a.from)
    BY <2>2, <2>3, StillWithin
  <2> QED BY <2>4, <2>5 DEF InWindow
<1>2. ASSUME NEW a \in Counting(x, t), NEW b \in Counting(x, t), f[a] = f[b]
      PROVE  a = b
  <2>1. a.who = b.who
    BY <1>2
  <2>2. a \in admitted /\ b \in admitted
    BY DEF Counting
  <2> QED BY <2>1, <2>2 DEF RateInv
<1>3. f \in Injection(Counting(x, t), recent)
  <2>1. f \in [Counting(x, t) -> recent]
    BY <1>1
  <2>2. DOMAIN f = Counting(x, t)
    OBVIOUS
  <2>3. IsInjective(f)
    BY <2>2, <1>2 DEF IsInjective
  <2> QED BY <2>1, <2>3 DEF Injection
<1>4. IsFiniteSet(recent)
  <2>1. IsFiniteSet(buckets[x]) /\ recent \in SUBSET buckets[x]
    BY DEF RateInv, Bounded, InWindow
  <2> QED BY <2>1, FS_Subset
<1> QED BY <1>3, <1>4, FS_Injection

\* The clock passing, other requests and other stages leave the rate limiter alone.
LEMMA RateUntouched ==
    ASSUME RateInv, now' \in Nat, now <= now',
           stamp' \in [Requests -> Nat], \A r \in Requests : stamp'[r] <= now',
           UNCHANGED <<buckets, admitted>>,
           \A r \in Requests : stage'[r] \in {"idle", "limit", "lock"} =>
                                   stage[r] \in {"idle", "limit", "lock"}
    PROVE  RateInv'
<1>1. Clocked'
  BY DEF RateInv, Clocked
<1>2. \A x \in Paths : Bounded(x)'
  BY DEF RateInv, Bounded
<1>3. ASSUME NEW a \in admitted PROVE Remembered(a)'
  <2>1. /\ a.who \in Requests /\ a.from \in Nat /\ a.to \in Nat /\ now \in Nat
        /\ Remembered(a)
    BY DEF RateInv, Clocked, Admissions
  <2>2. stage'[a.who] \notin {"idle", "limit", "lock"}
    BY <2>1 DEF Remembered
  <2>3. a.from <= now' /\ a.to <= now' /\ (now' < a.from + Window => now < a.from + Window)
    BY <2>1, ServerAssumption DEF Remembered
  <2> QED BY <2>1, <2>2, <2>3 DEF Remembered
<1>4. \A x \in Paths : \A t \in Nat : Kept(x, t)'
  BY DEF RateInv, Kept, Counting
<1>5. \A a \in admitted' : \A b \in admitted' : a.who = b.who => a = b
  BY DEF RateInv
<1> QED BY <1>1, <1>2, <1>3, <1>4, <1>5 DEF RateInv

LEMMA AddsOne ==
    ASSUME NEW S, NEW x, IsFiniteSet(S)
    PROVE  /\ IsFiniteSet(S \cup {x})
           /\ Cardinality(S) \in Nat /\ Cardinality(S \cup {x}) \in Nat
           /\ Cardinality(S \cup {x}) <= Cardinality(S) + 1
<1>1. IsFiniteSet(S \cup {x}) /\ Cardinality(S) \in Nat
  BY FS_AddElement, FS_CardinalityType
<1>2. Cardinality(S \cup {x}) = IF x \in S THEN Cardinality(S) ELSE Cardinality(S) + 1
  BY FS_AddElement
<1> QED BY <1>1, <1>2

\* The turn of a request at the lock.
LEMMA CountBounds ==
    ASSUME RateInv, IInv, NEW r \in Requests, Count(r)
    PROVE  RateInv'
<1>0. Typed /\ Clocked /\ stage[r] = "lock"
  BY DEF IInv, RateInv, Count
<1>a. PICK x \in Paths : x = Spelled(asked[r])
  BY <1>0, PathsOf DEF Typed
<1>b. PICK s \in Nat : s = stamp[r]
  BY <1>0 DEF Clocked
<1>c. PICK n \in Nat : n = now
  BY <1>0 DEF Clocked
<1>d. PICK recent \in SUBSET Entries : recent = InWindow(s, buckets[x])
  BY <1>0 DEF Clocked, InWindow
<1> DEFINE e == [who |-> r, at |-> s]
           b == [who |-> r, path |-> x, from |-> s, to |-> n]
           full == Cardinality(recent) >= LimitFor(x)
<1>e. s <= n /\ LimitFor(x) \in Nat
  BY <1>0, <1>b, <1>c, Limits DEF Clocked
<1>1. /\ recent \in SUBSET buckets[x] /\ IsFiniteSet(buckets[x])
      /\ Cardinality(buckets[x]) <= LimitFor(x)
  BY <1>d DEF RateInv, Bounded, InWindow
<1>2. /\ IsFiniteSet(recent) /\ Cardinality(recent) \in Nat
      /\ Cardinality(recent) <= LimitFor(x)
  <2>1. /\ IsFiniteSet(recent) /\ Cardinality(recent) <= Cardinality(buckets[x])
        /\ Cardinality(buckets[x]) \in Nat
    BY <1>1, FS_Subset, FS_CardinalityType
  <2>2. Cardinality(recent) \in Nat
    BY <2>1, FS_CardinalityType
  <2> QED BY <1>1, <1>e, <2>1, <2>2
<1>3. /\ UNCHANGED <<now, stamp>>
      /\ buckets' = [buckets EXCEPT ![x] = IF full THEN recent ELSE recent \cup {e}]
      /\ admitted' = IF full THEN admitted ELSE admitted \cup {b}
      /\ stage' \in [Requests -> Stages]
      /\ \A p \in Requests \ {r} : stage'[p] = stage[p]
      /\ stage'[r] \notin {"idle", "limit", "lock"}
  <2>1. /\ UNCHANGED <<now, stamp>>
        /\ buckets' = [buckets EXCEPT ![x] = IF full THEN recent ELSE recent \cup {e}]
        /\ admitted' = IF full THEN admitted ELSE admitted \cup {b}
    BY <1>a, <1>b, <1>c, <1>d DEF Count, Counted
  <2>2. PICK to \in {"answered", "hooks"} : Goto(r, to)
    BY DEF Count, Answer
  <2>3. stage' = [stage EXCEPT ![r] = to] /\ to \in Stages
    BY <2>2 DEF Goto, Stages
  <2> QED BY <2>1, <2>3, <1>0 DEF Typed
<1>4. e \in Entries /\ b \in Admissions
  BY DEF Entries, Admissions
<1> HIDE DEF e, b, full
<1>5. /\ buckets'[x] = IF full THEN recent ELSE recent \cup {e}
      /\ \A y \in Paths \ {x} : buckets'[y] = buckets[y]
      /\ buckets' \in [Paths -> SUBSET Entries]
  BY <1>0, <1>3, <1>4 DEF Clocked
<1>6. Clocked'
  BY <1>0, <1>3, <1>4, <1>5, <1>c DEF Clocked
<1>7. ASSUME NEW y \in Paths PROVE Bounded(y)'
  <2>1. CASE y # x
    BY <2>1, <1>5 DEF RateInv, Bounded
  <2>2. CASE y = x /\ full
    BY <2>2, <1>2, <1>5 DEF Bounded
  <2>3. CASE y = x /\ ~ full
    <3>1. /\ IsFiniteSet(recent \cup {e})
          /\ Cardinality(recent \cup {e}) \in Nat
          /\ Cardinality(recent \cup {e}) <= Cardinality(recent) + 1
      BY <1>2, AddsOne
    <3>2. Cardinality(recent) + 1 <= LimitFor(x)
      BY <2>3, <1>2, <1>e DEF full
    <3>3. Cardinality(recent \cup {e}) <= LimitFor(x)
      BY <3>1, <3>2, <1>2, <1>e
    <3> QED BY <2>3, <3>1, <3>3, <1>5 DEF Bounded
  <2> QED BY <2>1, <2>2, <2>3
<1>8. ASSUME NEW a \in admitted PROVE Remembered(a)' /\ a.who # r
  <2>1. /\ a.who \in Requests /\ a.path \in Paths /\ a.from \in Nat /\ a.to \in Nat
        /\ Remembered(a)
    BY DEF RateInv, Clocked, Admissions
  <2>2. a.who # r
    BY <2>1, <1>0 DEF Remembered
  <2>3. ASSUME n < a.from + Window
        PROVE  [who |-> a.who, at |-> a.from] \in buckets'[a.path]
    <3>1. [who |-> a.who, at |-> a.from] \in buckets[a.path]
      BY <2>1, <2>3, <1>c DEF Remembered
    <3>2. CASE a.path # x
      BY <2>1, <3>1, <3>2, <1>5
    <3>3. CASE a.path = x
      <4>1. Within(s, a.from)
        BY <2>1, <2>3, <1>e, StillWithin
      <4>2. [who |-> a.who, at |-> a.from] \in recent
        BY <3>1, <3>3, <4>1, <1>d DEF InWindow
      <4> QED BY <3>3, <4>2, <1>5
    <3> QED BY <3>2, <3>3
  <2>4. stage'[a.who] = stage[a.who]
    BY <2>1, <2>2, <1>3
  <2> QED BY <2>1, <2>2, <2>3, <2>4, <1>3, <1>c DEF Remembered
<1>9. Remembered(b)' \/ full
  <2>1. ASSUME ~ full PROVE Remembered(b)'
    <3>1. b.who = r /\ b.path = x /\ b.from = s /\ b.to = n
      BY DEF b
    <3>2. [who |-> r, at |-> s] \in buckets'[x]
      BY <2>1, <1>5 DEF e
    <3> QED BY <3>1, <3>2, <1>e, <1>c, <1>3 DEF Remembered
  <2> QED BY <2>1
<1>10. \A a \in admitted' : Remembered(a)'
  <2>1. \A a \in admitted' : a \in admitted \/ (a = b /\ ~ full)
    BY <1>3
  <2> QED BY <2>1, <1>8, <1>9
<1>11. \A a \in admitted' : \A c \in admitted' : a.who = c.who => a = c
  <2>1. b.who = r
    BY DEF b
  <2> QED BY <2>1, <1>3, <1>8 DEF RateInv
<1>12. ASSUME NEW y \in Paths, NEW t \in Nat PROVE Kept(y, t)'
  <2>1. Kept(y, t)
    BY DEF RateInv
  <2>2. CASE Counting(y, t)' = Counting(y, t)
    BY <2>1, <2>2 DEF Kept
  <2>3. CASE Counting(y, t)' # Counting(y, t)
    <3>1. ~ full /\ admitted' = admitted \cup {b}
      BY <2>3, <1>3 DEF Counting
    <3>2. b.path = y /\ b.to < t + Window
      BY <2>3, <3>1 DEF Counting
    <3>3. y = x /\ n < t + Window
      BY <3>2 DEF b
    <3>4. Counting(y, t)' \subseteq Counting(y, t) \cup {b}
      BY <3>1 DEF Counting
    <3>5. Cardinality(Counting(y, t)) <= Cardinality(recent)
      BY <3>3, <1>b, <1>c, <1>d, <1>e, Injects
    <3>6. /\ IsFiniteSet(Counting(y, t) \cup {b})
          /\ Cardinality(Counting(y, t) \cup {b}) <= Cardinality(Counting(y, t)) + 1
          /\ Cardinality(Counting(y, t)) \in Nat
          /\ Cardinality(Counting(y, t) \cup {b}) \in Nat
      BY <2>1, AddsOne DEF Kept
    <3>7. /\ IsFiniteSet(Counting(y, t)')
          /\ Cardinality(Counting(y, t)') <= Cardinality(Counting(y, t) \cup {b})
          /\ Cardinality(Counting(y, t)') \in Nat
      BY <3>4, <3>6, FS_Subset, FS_CardinalityType
    <3>8. Cardinality(recent) + 1 <= LimitFor(x)
      BY <3>1, <1>2, <1>e DEF full
    <3>9. Cardinality(Counting(y, t)') <= LimitFor(y)
      BY <3>3, <3>5, <3>6, <3>7, <3>8, <1>2, <1>e
    <3> QED BY <3>7, <3>9 DEF Kept
  <2> QED BY <2>2, <2>3
<1> QED BY <1>6, <1>7, <1>10, <1>11, <1>12 DEF RateInv

\* A request that goes on, by any other step, leaves the rate limiter as it is.
LEMMA RequestStep ==
    ASSUME Typed, Typed', NEW r \in Requests, (Arrive(r) \/ Step(r)) /\ ~ Count(r)
    PROVE  /\ UNCHANGED <<now, buckets, admitted>>
           /\ \A p \in Requests : stage'[p] \in {"idle", "limit", "lock"} =>
                                      stage[p] \in {"idle", "limit", "lock"}
           /\ UNCHANGED stamp \/ stamp' = [stamp EXCEPT ![r] = now]
<1>1. UNCHANGED <<now, buckets, admitted>>
  BY DEF Arrive, Step, ReadClock, Dispatch, FindUser, CheckName, WriteName, Extract,
         shared, watch
<1>2. UNCHANGED stamp \/ stamp' = [stamp EXCEPT ![r] = now]
  BY DEF Arrive, Step, ReadClock, Dispatch, FindUser, CheckName, WriteName, Extract
<1>3. PICK s \in {"limit", "lock", "who", "name", "write", "extract", "answered"} :
          /\ Goto(r, s)
          /\ s = "limit" => stage[r] = "idle"
          /\ s = "lock" => stage[r] = "limit"
  <2>1. CASE Arrive(r)
    BY <2>1 DEF Arrive, AnswerBare
  <2>2. CASE ReadClock(r)
    BY <2>2 DEF ReadClock, Answer
  <2>3. CASE Dispatch(r)
    BY <2>3 DEF Dispatch, Answer
  <2>4. CASE FindUser(r)
    BY <2>4 DEF FindUser, Answer
  <2>5. CASE CheckName(r)
    BY <2>5 DEF CheckName, Answer
  <2>6. CASE WriteName(r)
    BY <2>6 DEF WriteName, Answer
  <2>7. CASE Extract(r)
    BY <2>7 DEF Extract, AnswerBare
  <2> QED BY <2>1, <2>2, <2>3, <2>4, <2>5, <2>6, <2>7 DEF Step
<1>4. stage'[r] = s /\ \A p \in Requests \ {r} : stage'[p] = stage[p]
  BY <1>3 DEF Goto, Typed
<1> QED BY <1>1, <1>2, <1>3, <1>4

LEMMA RateInit == Init => RateInv /\ UpInv
<1> SUFFICES ASSUME Init PROVE RateInv /\ UpInv
  OBVIOUS
<1>1. Clocked
  BY DEF Init, Clocked, Paths
<1>2. IsFiniteSet({}) /\ Cardinality({}) = 0
  BY FS_EmptySet
<1>3. \A x \in Paths : buckets[x] = {}
  BY DEF Init, Paths
<1>4. \A x \in Paths : Bounded(x)
  BY <1>2, <1>3, Limits DEF Bounded
<1>5. \A x \in Paths : \A t \in Nat : Kept(x, t)
  <2>1. \A x \in Paths : \A t \in Nat : Counting(x, t) = {}
    BY DEF Init, Counting
  <2> QED BY <2>1, <1>2, Limits DEF Kept
<1>6. UpInv
  BY DEF Init, SchemaInit, UpInv
<1> QED BY <1>1, <1>4, <1>5, <1>6 DEF RateInv, Init

\* A crash leaves the limiter with nothing, and nothing it let past.
LEMMA StopForgets ==
    ASSUME RateInv, Stop PROVE RateInv'
<1>1. /\ UNCHANGED <<now, stamp>> /\ admitted' = {}
      /\ buckets' = [x \in DOMAIN buckets |-> {}]
  BY DEF Stop
<1>2. Clocked'
  BY <1>1 DEF RateInv, Clocked
<1>3. IsFiniteSet({}) /\ Cardinality({}) = 0
  BY FS_EmptySet
<1>4. \A x \in Paths : buckets'[x] = {}
  BY <1>1 DEF RateInv, Clocked
<1>5. \A x \in Paths : Bounded(x)'
  BY <1>3, <1>4, Limits DEF Bounded
<1>6. \A x \in Paths : \A t \in Nat : Kept(x, t)'
  <2>1. \A x \in Paths : \A t \in Nat : Counting(x, t)' = {}
    BY <1>1 DEF Counting
  <2> QED BY <2>1, <1>3, Limits DEF Kept
<1> QED BY <1>1, <1>2, <1>5, <1>6 DEF RateInv

LEMMA RateKept ==
    ASSUME RateInv, IInv, IInv', [Next]_vars PROVE RateInv'
<1>1. /\ now \in Nat /\ stamp \in [Requests -> Nat] /\ \A p \in Requests : stamp[p] <= now
      /\ Typed /\ Typed'
  BY DEF RateInv, Clocked, IInv
<1>2. CASE UNCHANGED serverVars
  BY <1>1, <1>2, RateUntouched DEF serverVars, requestVars, shared, watch
<1>3. CASE Stop
  BY <1>3, StopForgets
<1>4. CASE Tick
  <2>1. /\ now' = now + 1
        /\ UNCHANGED <<stage, stamp, buckets, admitted>>
    BY <1>4 DEF Tick, requestVars, shared, watch
  <2>2. now' \in Nat /\ now <= now' /\ \A p \in Requests : stamp'[p] <= now'
    BY <2>1, <1>1
  <2> QED BY <1>1, <2>1, <2>2, RateUntouched
<1>5. ASSUME NEW r \in Requests, Arrive(r) \/ Step(r) PROVE RateInv'
  <2>1. CASE Count(r)
    BY <2>1, CountBounds
  <2>2. CASE ~ Count(r)
    <3>1. /\ UNCHANGED <<now, buckets, admitted>>
          /\ \A p \in Requests : stage'[p] \in {"idle", "limit", "lock"} =>
                                     stage[p] \in {"idle", "limit", "lock"}
          /\ UNCHANGED stamp \/ stamp' = [stamp EXCEPT ![r] = now]
      BY <2>2, <1>1, <1>5, RequestStep
    <3>2. stamp' \in [Requests -> Nat] /\ \A p \in Requests : stamp'[p] <= now'
      BY <3>1, <1>1
    <3>3. now' \in Nat /\ now <= now'
      BY <3>1, <1>1
    <3> QED BY <3>1, <3>2, <3>3, RateUntouched
  <2> QED BY <2>1, <2>2
<1> QED BY <1>2, <1>3, <1>4, <1>5 DEF Next, Start, vars

LEMMA UpKept ==
    ASSUME UpInv, IInv, [Next]_vars PROVE UpInv'
<1>1. CASE UNCHANGED <<phase, stage>>
  BY <1>1 DEF UpInv
<1>2. CASE Start
  BY <1>2 DEF Start, BootStep, Boot, SendStatement, RecordMigration, Serve, UpInv,
              serverVars, requestVars
<1>3. CASE Stop
  <2>1. phase' = "down" /\ \A r \in Requests : stage'[r] \in {"idle", "answered", "lost"}
    BY <1>3 DEF Stop, Crash
  <2> QED BY <2>1 DEF UpInv
<1>4. ASSUME NEW r \in Requests, Arrive(r) \/ Step(r) PROVE UpInv'
  <2>1. UNCHANGED phase
    BY <1>4 DEF Arrive, Step, ReadClock, Count, Dispatch, FindUser, CheckName, WriteName,
                Extract, schemaVars
  <2>2. phase = "up"
    BY <1>4 DEF Arrive, Step, ReadClock, Count, Dispatch, FindUser, CheckName, WriteName,
                Extract, UpInv
  <2> QED BY <2>1, <2>2 DEF UpInv
<1>5. CASE Tick
  BY <1>5, <1>1 DEF Tick, schemaVars, requestVars
<1>6. CASE UNCHANGED vars
  BY <1>6, <1>1 DEF vars, schemaVars, serverVars, requestVars
<1> QED BY <1>2, <1>3, <1>4, <1>5, <1>6 DEF Next

\* What the limiter's memory holds of what it let past, in every reachable state.
THEOREM RateInductive == Spec => [](IInv /\ RateInv /\ UpInv)
<1>1. RateInv /\ UpInv /\ IInv /\ IInv' /\ [Next]_vars => (RateInv /\ UpInv)'
  BY RateKept, UpKept
<1> QED BY <1>1, RateInit, Inductive, PTL DEF Spec

\* In no window of time does the rate limiter let past more requests of a path than its
\* maximum, however many there are, however late each gets the lock after it read the
\* clock, and whatever the windows and limits: check_rate_limit.
THEOREM RateIsLimited == Spec => []RateHolds
<1>1. RateInv => RateHolds
  <2> SUFFICES ASSUME RateInv PROVE RateHolds
    OBVIOUS
  <2>1. DOMAIN buckets = Paths /\ \A t \in 0 .. now : t \in Nat
    BY DEF RateInv, Clocked
  <2>2. \A x \in DOMAIN buckets : \A t \in 0 .. now : Cardinality(Counting(x, t)) <= LimitFor(x)
    BY <2>1 DEF RateInv, Kept
  <2> QED BY <2>2 DEF RateHolds, Counting
<1> QED BY <1>1, RateInductive, PTL

\* Every request is at a stage the program has and is what a request may be; it is under
\* way only in a server that is up; and no bucket outgrows the limit of its path, so the
\* limiter's memory is bounded by the paths.
THEOREM TypeCorrect == Spec => []TypeOK
<1>1. IInv /\ RateInv /\ UpInv => TypeOK
  <2> SUFFICES ASSUME IInv, RateInv, UpInv PROVE TypeOK
    OBVIOUS
  <2>1. DOMAIN buckets = Paths
    BY DEF RateInv, Clocked
  <2>2. \A x \in DOMAIN buckets : Cardinality(buckets[x]) <= LimitFor(x)
    BY <2>1 DEF RateInv, Bounded
  <2> QED BY <2>2 DEF IInv, Typed, UpInv, TypeOK
<1> QED BY <1>1, RateInductive, PTL
=============================================================================
