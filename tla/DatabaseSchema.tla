--------------------------- MODULE DatabaseSchema ---------------------------
(***************************************************************************)
(* Opening the database (app/service/src/db/mod.rs): the choice between    *)
(* the configured database and the SQLite fallback, the schema ledger, the *)
(* creation and migration of the schema statement by statement, and the    *)
(* seeding of defaults.  No statement shares a transaction with another,   *)
(* so a start that ends anywhere leaves what it had written; a statement   *)
(* that fails and a process that dies are the same here.  The plates that  *)
(* STEEL_SEED_DEMO_DATA inserts for demonstrations are left out.           *)
(***************************************************************************)
EXTENDS Naturals, Sequences, FiniteSets, SequencesExt

CONSTANTS ScConfigs,      \* the default configuration rows, "capture" among them
          ScCameras,      \* the default cameras
          ScTypes,        \* the default defect types
          ScInitial,      \* the databases the service may find at its primary address
          MaxScStarts     \* starts of the service

VARIABLES scDb,       \* "primary" and "fallback" -> database
          scRun,      \* the start in progress, or the service
          scStarts

scVars == <<scDb, scRun, scStarts>>

SchemaVersion == 6        \* DATABASE_SCHEMA_VERSION
ScTables == {"base", "inspection", "work", "defect", "accounts", "flow", "region"}
ScColumns == {3, 5, 6} \X {1, 2}    \* the columns a migration adds, in two statements
ScIndexes == 2..6

\* The columns that a table of this release has from its creation.
ColumnsOf(table) ==
  CASE table = "inspection" -> {6} \X {1, 2}
    [] table = "defect" -> {3, 5} \X {1, 2}
    [] OTHER -> {}

NoLedger == [state |-> FALSE, log |-> FALSE, row |-> FALSE, version |-> 0, active |-> 0]

ScEmpty == [tables |-> {}, columns |-> {}, indexes |-> {}, ledger |-> NoLedger, logged |-> {},
            rows |-> {}, roles |-> {}, users |-> {}]

\* A row and what is in it: the default, somebody's own, or, in "capture", an
\* earlier set of camera addresses.
ScRow(id, value) == [id |-> id, value |-> value]

\* A database that a release of version v left behind, with accounts of
\* either kind and settings, under the ledger or from before it.
ScReleased(v, ledger, users, rows) ==
  [tables |-> {"base", "inspection", "work", "defect", "accounts"} \cup (IF v >= 2 THEN {"flow"} ELSE {})
               \cup (IF v >= 4 THEN {"region"} ELSE {}),
   columns |-> {c \in ScColumns : c[1] <= v},
   indexes |-> {i \in ScIndexes : i <= v},
   ledger |-> IF ledger THEN [state |-> TRUE, log |-> TRUE, row |-> TRUE, version |-> v, active |-> 0]
              ELSE NoLedger,
   logged |-> {}, rows |-> rows, roles |-> {"administrator", "engineer", "operator"},
   users |-> users]

ScDown == [phase |-> "down"]

ScInit ==
  /\ \E db \in ScInitial : scDb = [d \in {"primary", "fallback"} |-> IF d = "primary" THEN db ELSE ScEmpty]
  /\ scRun = ScDown /\ scStarts = 0

-----------------------------------------------------------------------------
(* Statements. *)

Stm(do, at) == [do |-> do, at |-> at]

\* The statements of a plan that the database refuses.  DDL of something that
\* is there already passes (IF NOT EXISTS, execute_compatible_migration); the
\* record of a migration has a primary key.
Refuses(db, s) ==
  \/ s.do = "log" /\ s.at \in db.logged
  \/ s.do = "columns" /\ (IF s.at[1] = 6 THEN "inspection" ELSE "defect") \notin db.tables
  \/ s.do = "index" /\ s.at \in {3, 5, 6} /\ ~({s.at} \X {1, 2} \subseteq db.columns)

Executed(db, s) ==
  CASE s.do = "table" ->
         IF s.at \in db.tables THEN db
         ELSE [db EXCEPT !.tables = @ \cup {s.at}, !.columns = @ \cup ColumnsOf(s.at)]
    [] s.do = "columns" -> [db EXCEPT !.columns = @ \cup {s.at}]
    [] s.do = "index" -> [db EXCEPT !.indexes = @ \cup {s.at}]
    [] s.do = "log" -> [db EXCEPT !.logged = @ \cup {s.at}]
    [] s.do = "applied" -> db
    [] s.do = "dirty" -> [db EXCEPT !.ledger.active = s.at]
    [] s.do = "clean" -> [db EXCEPT !.ledger.version = s.at, !.ledger.active = 0]
    [] s.do = "ledger-state" -> [db EXCEPT !.ledger.state = TRUE]
    [] s.do = "ledger-log" -> [db EXCEPT !.ledger.log = TRUE]
    [] s.do = "ledger-row" -> [db EXCEPT !.ledger.row = TRUE, !.ledger.version = SchemaVersion]

AddColumns(v) == <<Stm("columns", <<v, 1>>), Stm("columns", <<v, 2>>)>>

\* create_steel_flow_region_schema, create_steel_flow_schema
RegionSchema == <<Stm("table", "region"), Stm("index", 4)>>
FlowSchema == <<Stm("table", "flow"), Stm("index", 2)>> \o RegionSchema

\* What each migration changes: v1_to_v2 ... v5_to_v6.
MigrationBody(v) ==
  CASE v = 2 -> FlowSchema
    [] v = 3 -> AddColumns(3) \o <<Stm("index", 3)>>
    [] v = 4 -> RegionSchema
    [] v = 5 -> AddColumns(5) \o <<Stm("index", 5)>>
    [] v = 6 -> AddColumns(6) \o <<Stm("index", 6)>>

\* Around it: the record of the migration, the dirty mark, and their end.
MigrationVersionFirst(v) ==
  <<Stm("log", v), Stm("clean", v)>> \o MigrationBody(v) \o <<Stm("applied", v)>>

Migration(v) ==
  <<Stm("log", v), Stm("dirty", v)>> \o MigrationBody(v) \o <<Stm("applied", v), Stm("clean", v)>>

\* create_schema: configuration, plates, sessions and triggers; inspections;
\* tasks, calibrations and captured files; cleanups and defects; alarms,
\* accounts and the audit; and the indexes of them all.
BaseTables == <<Stm("table", "base")>>
InspectionTables == <<Stm("table", "inspection")>> \o AddColumns(6)
WorkTables == <<Stm("table", "work")>>
DefectTables == <<Stm("table", "defect")>> \o AddColumns(3) \o AddColumns(5)
AccountTables == <<Stm("table", "accounts")>>
SchemaIndexes == <<Stm("index", 6), Stm("index", 3), Stm("index", 5)>>

CreateSchema ==
  BaseTables \o InspectionTables \o WorkTables \o FlowSchema \o DefectTables \o AccountTables \o SchemaIndexes

\* create_schema_ledger: its row comes last.
CreateLedger == <<Stm("ledger-state", 0), Stm("ledger-log", 0), Stm("ledger-row", 0)>>

\* A new schema is complete before it has a ledger.
Creation == CreateSchema \o CreateLedger

-----------------------------------------------------------------------------
(* Starting. *)

\* configured_database_request and open_database_request: production forbids
\* the fallback, and a database that answers is used whatever its state.
ScStart(production, fallback, reachable) ==
  /\ scRun = ScDown /\ scStarts < MaxScStarts /\ scStarts' = scStarts + 1
  /\ production => ~fallback
  /\ reachable \/ fallback
  /\ scRun' = [phase |-> "prepare", on |-> IF reachable THEN "primary" ELSE "fallback",
               production |-> production, left |-> <<>>, todo |-> {}]
  /\ UNCHANGED scDb

\* read_schema_ledger_version: one row, and no migration under way.
LedgerReadable(l) == l.row /\ l.active = 0

\* One migration after another, from the version that was found.
MigrationsFrom(v) == FlattenSeq([k \in 1..(IF v < SchemaVersion THEN SchemaVersion - v ELSE 0) |-> Migration(v + k)])

\* prepare_schema: the ledger decides between migration, creation and refusal.
ScPrepare ==
  LET db == scDb[scRun.on]
      ledger == db.ledger
      both == ledger.state /\ ledger.log
  IN  /\ scRun.phase = "prepare"
      /\ scRun' =
           IF both
           THEN IF LedgerReadable(ledger)
                THEN [scRun EXCEPT !.phase = "schema", !.left = MigrationsFrom(ledger.version)]
                ELSE ScDown
           ELSE IF ledger.state \/ ledger.log THEN ScDown
           ELSE IF scRun.production /\ db.tables # {} THEN ScDown
           ELSE [scRun EXCEPT !.phase = "schema", !.left = Creation]
      /\ UNCHANGED <<scDb, scStarts>>

ScStatement ==
  /\ scRun.phase = "schema" /\ scRun.left # <<>>
  /\ LET s == Head(scRun.left) IN
     IF Refuses(scDb[scRun.on], s)
     THEN scRun' = ScDown /\ UNCHANGED scDb
     ELSE /\ scDb' = [scDb EXCEPT ![scRun.on] = Executed(@, s)]
          /\ scRun' = [scRun EXCEPT !.left = Tail(@)]
  /\ UNCHANGED scStarts

VersionReadable(v) == v = SchemaVersion

MissingDefaults(defaults, rows) == {d \in defaults : \A x \in rows : x.id # d}

\* ensure_default_configs: rows that are missing; "capture" also when it lacks
\* the addresses of the cameras (capture_config_matches_current_cameras); and
\* every default camera when there are fewer cameras than defaults.
UnsetDefaults(rows) ==
  MissingDefaults(ScConfigs, rows)
    \cup {x.id : x \in {y \in rows : y.id = "capture" /\ y.value = "outdated"}}
    \cup IF Cardinality({x \in rows : x.id \notin ScConfigs \cup ScTypes}) < Cardinality(ScCameras)
         THEN ScCameras ELSE MissingDefaults(ScCameras, rows)

\* validate_schema_ledger, then seed_database begins.
ScValidate ==
  LET db == scDb[scRun.on] IN
  /\ scRun.phase = "schema" /\ scRun.left = <<>>
  /\ scRun' = IF LedgerReadable(db.ledger) /\ VersionReadable(db.ledger.version)
              THEN [scRun EXCEPT !.phase = "configs", !.todo = UnsetDefaults(db.rows)]
              ELSE ScDown
  /\ UNCHANGED <<scDb, scStarts>>

\* ensure_default_configs and ensure_default_defect_types write row by row.
InsertDefault(phase) ==
  /\ scRun.phase = phase
  /\ \E r \in scRun.todo :
       /\ scDb' = [scDb EXCEPT ![scRun.on].rows = {x \in @ : x.id # r} \cup {ScRow(r, "default")}]
       /\ scRun' = [scRun EXCEPT !.todo = @ \ {r}]
  /\ UNCHANGED scStarts

ScConfig == InsertDefault("configs")
ScDefectType == InsertDefault("types")

RoleOrder == <<"administrator", "engineer", "operator">>

ScConfigsDone ==
  LET db == scDb[scRun.on] IN
  /\ scRun.phase = "configs" /\ scRun.todo = {}
  /\ scRun' = [scRun EXCEPT !.phase = "roles", !.left = IF db.roles = {} THEN RoleOrder ELSE <<>>]
  /\ UNCHANGED <<scDb, scStarts>>

ScRole ==
  /\ scRun.phase = "roles" /\ scRun.left # <<>>
  /\ scDb' = [scDb EXCEPT ![scRun.on].roles = @ \cup {Head(scRun.left)}]
  /\ scRun' = [scRun EXCEPT !.left = Tail(@)]
  /\ UNCHANGED scStarts

\* Then the accounts, if there is none: in production the administrator
\* alone, with a bootstrap password that validate_bootstrap_admin_password
\* accepts; otherwise one for each role, with the development password.
SeedUsers(production) ==
  IF production THEN <<[id |-> "admin", role |-> "administrator", password |-> "own"]>>
  ELSE <<[id |-> "admin", role |-> "administrator", password |-> "development"],
         [id |-> "engineer", role |-> "engineer", password |-> "development"],
         [id |-> "operator", role |-> "operator", password |-> "development"]>>

ScRolesDone(valid) ==
  LET db == scDb[scRun.on] IN
  /\ scRun.phase = "roles" /\ scRun.left = <<>>
  /\ scRun' = IF db.users # {} THEN [scRun EXCEPT !.phase = "users"]
              ELSE IF scRun.production /\ ~valid THEN ScDown
              ELSE [scRun EXCEPT !.phase = "users", !.left = SeedUsers(scRun.production)]
  /\ UNCHANGED <<scDb, scStarts>>

ScUser ==
  /\ scRun.phase = "users" /\ scRun.left # <<>>
  /\ scDb' = [scDb EXCEPT ![scRun.on].users = @ \cup {Head(scRun.left)}]
  /\ scRun' = [scRun EXCEPT !.left = Tail(@)]
  /\ UNCHANGED scStarts

AccountsPass(users, production) == production => \A u \in users : u.password = "own"

FilledIn(users) == {[u EXCEPT !.password = IF @ = "" THEN "development" ELSE @] : u \in users}

ScUsersDone ==
  LET db == scDb[scRun.on] IN
  /\ scRun.phase = "users" /\ scRun.left = <<>>
  /\ IF AccountsPass(db.users, scRun.production)
     THEN /\ scRun' = [scRun EXCEPT !.phase = "types", !.todo = MissingDefaults(ScTypes, db.rows)]
          /\ scDb' = [scDb EXCEPT ![scRun.on].users = IF scRun.production THEN @ ELSE FilledIn(@)]
     ELSE scRun' = ScDown /\ UNCHANGED scDb
  /\ UNCHANGED scStarts

\* initialize_database returns: the service goes on to serve.
ScServe ==
  /\ scRun.phase = "types" /\ scRun.todo = {}
  /\ scRun' = [scRun EXCEPT !.phase = "up"]
  /\ UNCHANGED <<scDb, scStarts>>

\* The process ends, at any point.
ScStop ==
  /\ scRun # ScDown
  /\ scRun' = ScDown
  /\ UNCHANGED <<scDb, scStarts>>

ScNext ==
  \/ \E production, fallback, reachable \in BOOLEAN : ScStart(production, fallback, reachable)
  \/ ScPrepare \/ ScStatement \/ ScValidate
  \/ ScConfig \/ ScConfigsDone \/ ScRole
  \/ \E valid \in BOOLEAN : ScRolesDone(valid)
  \/ ScUser \/ ScUsersDone \/ ScDefectType \/ ScServe \/ ScStop

-----------------------------------------------------------------------------
(* Properties. *)

ScLive == scRun.phase = "up"

ServedDb == scDb[scRun.on]

\* Whatever starts were cut short before, in whatever release and under
\* whichever policy they ran, a service that is up has every table, column
\* and index of its own schema version and a clean ledger that says so
\* (prepare_schema refuses all else).
ServedIsWhole ==
  ScLive => /\ ServedDb.tables = ScTables /\ ServedDb.columns = ScColumns
            /\ ServedDb.indexes = ScIndexes
            /\ LedgerReadable(ServedDb.ledger) /\ ServedDb.ledger.version = SchemaVersion

\* A ledger that is clean never claims more than the database holds, at any
\* instant of a creation or a migration (the ledger's row is written after
\* the schema, its version after the migration's statements).
CleanLedgerTellsTruth ==
  \A d \in DOMAIN scDb :
    LET db == scDb[d] IN
    (db.ledger.row /\ db.ledger.active = 0) =>
      \A v \in 2..db.ledger.version :
        /\ v \in ScIndexes => v \in db.indexes
        /\ \A k \in {1, 2} : <<v, k>> \in ScColumns => <<v, k>> \in db.columns

\* A service that is up can be administered: there is an account whose role
\* exists, though a start that died while seeding never repeats the roles or
\* the accounts it had not reached (both are seeded only into empty tables,
\* the administrator's first).
ServedHasAdministrator ==
  ScLive => /\ "administrator" \in ServedDb.roles
            /\ \E u \in ServedDb.users : u.role = "administrator"

\* A service that is up has all default configuration, cameras and defect
\* types, each once, and the camera addresses of its own release: a start that
\* died while seeding them is made good by the next.
ServedHasDefaults ==
  ScLive => /\ ScConfigs \cup ScCameras \cup ScTypes \subseteq {x.id : x \in ServedDb.rows}
            /\ \A x, y \in ServedDb.rows : x.id = y.id => x = y
            /\ \A x \in ServedDb.rows : x.value # "outdated"

\* Under the production policy no account is left with an empty password or
\* the development one, whichever policy created it and whenever.
ProductionAccountsOwn ==
  (ScLive /\ scRun.production) => \A u \in ServedDb.users : u.password = "own"

\* A service that is up has the whole schema and can be administered, whatever
\* creations, migrations and seedings were cut short before.
SchemaSafety ==
  /\ ServedIsWhole
  /\ CleanLedgerTellsTruth
  /\ ServedHasAdministrator
  /\ ServedHasDefaults
  /\ ProductionAccountsOwn

=============================================================================
