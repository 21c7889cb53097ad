------------------------------- MODULE Migrations -------------------------------
(***************************************************************************)
(* The database schema.  db.migrations.create_database creates the         *)
(* database and upgrades it to the last revision, one transaction for each *)
(* revision.  Kubernetes runs it as a hook after install and upgrade,      *)
(* restarts it when it fails, and starts the API beside it; an operator    *)
(* may run it too (make stock-trader-migrate), or take revisions back with *)
(* alembic.                                                                *)
(*                                                                         *)
(* Revisions are numbered in the order of their down_revision.  The schema *)
(* is a set of objects: a column with its type and default, an index, the  *)
(* schema itself.  Enum types are apart: dropping a table leaves them.     *)
(***************************************************************************)
EXTENDS Integers, FiniteSets

CONSTANTS Migrators,       \* processes that run create_database
          Rows,            \* jobs that may be stored
          MaxCrashes,      \* migrators that die between two steps (bound)
          MaxDowngrades    \* revisions that are taken back (bound)

ASSUME MigrationBounds == MaxCrashes \in Nat /\ MaxDowngrades \in Nat

VARIABLES database,        \* whether the database exists
          objects,         \* columns, indexes and the schema
          types,           \* enum types
          version_num,     \* the rows of alembic_version: numbers of revisions
          jobs,            \* jobs[r]: the error of a row, or "absent"
          migrator,        \* migrator[m]: its step, and the revision it is at
          crashes, downgrades

vars == <<database, objects, types, version_num, jobs, migrator, crashes, downgrades>>

Head == 5

\* the revision the database is at; no row is the state before the first
Newest == CHOOSE k \in version_num \cup {0} : \A v \in version_num : v <= k

-------------------------------------------------------------------------------
(* What the revisions create.                                              *)

\* columns: from name to type and default
table(t, columns) ==
    {[table |-> t, name |-> c, kind |-> columns[c]] : c \in DOMAIN columns}
index(t, n) == [table |-> t, name |-> n, kind |-> "index"]

schema == [table |-> "", name |-> "stock_trader", kind |-> "schema"]

error_type(type) == [table |-> "backtest_jobs", name |-> "error", kind |-> type]

initial_tables ==
    table("backtest_jobs",
          [uuid |-> "uuid not null", status |-> "backtest_job_status not null",
           strategy_name |-> "varchar(50) not null", symbols |-> "jsonb not null",
           parameters |-> "jsonb", error |-> "varchar(255)",
           create_time |-> "timestamptz not null default now()",
           start_time |-> "timestamptz", end_time |-> "timestamptz"])
    \cup {index("backtest_jobs", "ix_backtest_jobs_created"),
          index("backtest_jobs", "ix_backtest_jobs_status")}
    \cup table("backtest_results",
          [uuid |-> "uuid not null", job_id |-> "uuid not null on delete cascade",
           symbol |-> "varchar(10) not null", summary |-> "jsonb", raw |-> "jsonb",
           create_time |-> "timestamptz not null default now()"])
    \cup table("job_events",
          [uuid |-> "uuid not null", job_id |-> "uuid not null on delete cascade",
           event |-> "text not null", payload |-> "jsonb not null",
           create_time |-> "timestamptz not null default now()"])
    \cup {index("job_events", "ix_job_events_job_id_created")}

market_data_table ==
    table("market_data",
          [uuid |-> "uuid not null default gen_random_uuid()",
           symbol |-> "varchar(10) not null", interval |-> "interval_enum not null",
           timestamp |-> "timestamptz not null",
           open |-> "numeric(12, 4) not null", high |-> "numeric(12, 4) not null",
           low |-> "numeric(12, 4) not null", close |-> "numeric(12, 4) not null",
           volume |-> "bigint not null",
           created_at |-> "timestamptz not null default now()"])
    \cup {index("market_data", "uq_market_data_symbol_interval_timestamp"),
          index("market_data", "ix_market_data_symbol_interval_ts")}

date_columns ==
    table("backtest_jobs", [start_date |-> "date not null", end_date |-> "date not null"])

-------------------------------------------------------------------------------
(* The revisions.                                                          *)

Absent(t) == \A o \in objects : o.table # t
NoJobs == \A r \in Rows : jobs[r] = "absent"

\* CREATE TYPE is part of the first table that has the type, and fails if a
\* downgrade left the type behind; NOT NULL without a default needs an empty table
Applies(k) ==
    /\ k = 2 => /\ schema \in objects /\ "backtest_job_status" \notin types
                /\ \A t \in {"backtest_jobs", "backtest_results", "job_events"} : Absent(t)
    /\ k = 3 => schema \in objects /\ "interval_enum" \notin types /\ Absent("market_data")
    /\ k = 4 => NoJobs /\ date_columns \cap objects = {}
    /\ k = 5 => \E type \in {"varchar(255)", "text"} : error_type(type) \in objects

\* alter_column on error, up and down
retyped(from, to) == (objects \ {error_type(from)}) \cup {error_type(to)}

\* mutant: the change of type is not generated
Bug_upgraded(k) ==
    CASE k = 1 -> objects \cup {schema}
      [] k = 2 -> objects \cup initial_tables
      [] k = 3 -> objects \cup market_data_table
      [] k = 4 -> objects \cup date_columns
      [] OTHER -> objects

\* upgrade() of revision k
upgraded(k) ==
    CASE k = 1 -> objects \cup {schema}
      [] k = 2 -> objects \cup initial_tables
      [] k = 3 -> objects \cup market_data_table
      [] k = 4 -> objects \cup date_columns
      [] k = 5 -> retyped("varchar(255)", "text")

\* mutant: the type gets the default name, that of the Python class
Bug_new_types(k) == CASE k = 2 -> {"backteststatusenum"}
                      [] k = 3 -> {"interval_enum"}
                      [] OTHER -> {}

new_types(k) == CASE k = 2 -> {"backtest_job_status"}
                  [] k = 3 -> {"interval_enum"}
                  [] OTHER -> {}

drop_initial_tables ==
    {o \in objects : o.table \notin {"backtest_jobs", "backtest_results", "job_events"}}

drop_market_data == {o \in objects : o.table # "market_data"}

\* mutant: one of the two columns is forgotten
Bug_drop_dates == {o \in objects : o.table = "backtest_jobs" => o.name # "start_date"}

drop_dates ==
    {o \in objects : o.table = "backtest_jobs" => o.name \notin {"start_date", "end_date"}}

\* downgrade() of revision k: the schema goes with all that is in it
downgraded(k) ==
    CASE k = 1 -> {}
      [] k = 2 -> drop_initial_tables
      [] k = 3 -> drop_market_data
      [] k = 4 -> drop_dates
      [] k = 5 -> retyped("text", "varchar(255)")

-------------------------------------------------------------------------------
(* create_database and apply_migrations                                    *)

Move(m, pc, at) == migrator' = [migrator EXCEPT ![m] = [pc |-> pc, at |-> at]]
SchemaStays == UNCHANGED <<objects, types, version_num, jobs>>

\* mutant: the database is created without a look
Bug_database_exists(m) ==
    /\ migrator[m].pc = "start"
    /\ Move(m, "create", 0)
    /\ SchemaStays /\ UNCHANGED <<database, crashes, downgrades>>

\* create_database: look whether the database is there
database_exists(m) ==
    /\ migrator[m].pc = "start"
    /\ Move(m, IF database THEN "plan" ELSE "create", 0)
    /\ SchemaStays /\ UNCHANGED <<database, crashes, downgrades>>

\* CREATE DATABASE, which fails if somebody else was faster
create_database(m) ==
    /\ migrator[m].pc = "create"
    /\ IF database THEN Move(m, "failed", 0) ELSE Move(m, "plan", 0)
    /\ database' = TRUE
    /\ SchemaStays /\ UNCHANGED <<crashes, downgrades>>

\* command.upgrade reads the version, and decides on the revisions to run
apply_migrations(m) ==
    /\ migrator[m].pc = "plan" /\ Cardinality(version_num) <= 1
    /\ Move(m, "migrating", Newest)
    /\ SchemaStays /\ UNCHANGED <<database, crashes, downgrades>>

\* alembic refuses versions that overlap
apply_migrations_raises(m) ==
    /\ migrator[m].pc = "plan" /\ Cardinality(version_num) > 1
    /\ Move(m, "failed", 0)
    /\ SchemaStays /\ UNCHANGED <<database, crashes, downgrades>>

\* the new number is a primary key; the old one has to be there
version_ok(at) == at + 1 \notin version_num /\ (at > 0 => at \in version_num)

\* one revision and its number, in one transaction
upgrade(m) ==
    LET at == migrator[m].at
        k  == at + 1 IN
    /\ migrator[m].pc = "migrating" /\ k <= Head
    /\ Applies(k) /\ version_ok(at)
    /\ objects' = upgraded(k)
    /\ types' = types \cup new_types(k)
    /\ version_num' = (version_num \ {at}) \cup {k}
    /\ Move(m, "migrating", k)
    /\ UNCHANGED <<database, jobs, crashes, downgrades>>

\* it is rolled back, and the process exits
upgrade_fails(m) ==
    LET at == migrator[m].at IN
    /\ migrator[m].pc = "migrating" /\ at < Head
    /\ ~(Applies(at + 1) /\ version_ok(at))
    /\ Move(m, "failed", 0)
    /\ SchemaStays /\ UNCHANGED <<database, crashes, downgrades>>

\* alembic creates its version table in the first transaction, if it saw none: that
\* fails when another migrator's first transaction has committed meanwhile
version_table_exists(m) ==
    /\ migrator[m].pc = "migrating" /\ migrator[m].at = 0
    /\ version_num # {}
    /\ Move(m, "failed", 0)
    /\ SchemaStays /\ UNCHANGED <<database, crashes, downgrades>>

finish(m) ==
    /\ migrator[m].pc = "migrating" /\ migrator[m].at = Head
    /\ Move(m, "done", 0)
    /\ SchemaStays /\ UNCHANGED <<database, crashes, downgrades>>

\* restartPolicy: OnFailure
run_again(m) ==
    /\ migrator[m].pc = "failed"
    /\ Move(m, "start", 0)
    /\ SchemaStays /\ UNCHANGED <<database, crashes, downgrades>>

\* the next release, or an operator
run_anew(m) ==
    /\ migrator[m].pc = "done"
    /\ Move(m, "start", 0)
    /\ SchemaStays /\ UNCHANGED <<database, crashes, downgrades>>

\* the process dies between two transactions
crash(m) ==
    /\ crashes < MaxCrashes
    /\ migrator[m].pc \notin {"done", "failed"}
    /\ crashes' = crashes + 1
    /\ Move(m, "failed", 0)
    /\ SchemaStays /\ UNCHANGED <<database, downgrades>>

\* alembic downgrade -1; a long error does not fit the old type
downgrade ==
    LET k == Newest IN
    /\ downgrades < MaxDowngrades /\ version_num = {k}
    /\ k = Head => \A r \in Rows : jobs[r] # "long"
    /\ downgrades' = downgrades + 1
    /\ objects' = downgraded(k)
    /\ types' = IF k = 1 THEN {} ELSE types
    /\ version_num' = {k - 1} \ {0}
    /\ jobs' = IF k <= 2 THEN [r \in Rows |-> "absent"] ELSE jobs
    /\ UNCHANGED <<database, migrator, crashes>>

-------------------------------------------------------------------------------
(* The API and the workers, which run before, beside and after.            *)

\* from_request names every column it sets
create_backtest_job(r) ==
    /\ jobs[r] = "absent"
    /\ date_columns \subseteq objects
    /\ jobs' = [jobs EXCEPT ![r] = "short"]
    /\ UNCHANGED <<database, objects, types, version_num, migrator, crashes, downgrades>>

\* a stack of symbol errors may be longer than 255 characters
update_error(r, length) ==
    /\ jobs[r] # "absent"
    /\ date_columns \subseteq objects
    /\ length = "long" => error_type("text") \in objects
    /\ jobs' = [jobs EXCEPT ![r] = length]
    /\ UNCHANGED <<database, objects, types, version_num, migrator, crashes, downgrades>>

-------------------------------------------------------------------------------

\* what the revisions up to k create on an empty database
SchemaAt(k) ==
    LET error == IF k = 5 THEN {error_type("text")} ELSE {error_type("varchar(255)")} IN
    (IF k >= 1 THEN {schema} ELSE {})
    \cup (IF k >= 2 THEN (initial_tables \ {error_type("varchar(255)")}) \cup error ELSE {})
    \cup (IF k >= 3 THEN market_data_table ELSE {})
    \cup (IF k >= 4 THEN date_columns ELSE {})

TypesAt(k) == (IF k >= 2 THEN {"backtest_job_status"} ELSE {})
              \cup (IF k >= 3 THEN {"interval_enum"} ELSE {})

\* nothing yet, or what a release left whose last revision was k
Init == \E k \in 0 .. Head :
    /\ version_num = {k} \ {0}
    /\ objects = SchemaAt(k) /\ types = TypesAt(k)
    /\ database \in {k > 0, TRUE}
    /\ jobs \in [Rows -> IF k < 2 THEN {"absent"}
                         ELSE {"absent", "short"} \cup (IF k = Head THEN {"long"} ELSE {})]
    /\ migrator = [m \in Migrators |-> [pc |-> "start", at |-> 0]]
    /\ crashes = 0 /\ downgrades = 0

Step(m) == \/ database_exists(m) \/ create_database(m)
           \/ apply_migrations(m) \/ apply_migrations_raises(m)
           \/ upgrade(m) \/ upgrade_fails(m) \/ version_table_exists(m)
           \/ finish(m) \/ run_again(m)

Next == \/ \E m \in Migrators : Step(m) \/ run_anew(m) \/ crash(m)
        \/ downgrade
        \/ \E r \in Rows : \/ create_backtest_job(r)
                           \/ \E length \in {"short", "long"} : update_error(r, length)

Spec == Init /\ [][Next]_vars

\* a migrator that was started goes on, and is started again when it fails
FairSpec == Spec /\ \A m \in Migrators : WF_vars(Step(m))

-------------------------------------------------------------------------------
(* What the code expects: the columns and indexes of db/models.            *)

BacktestJobTableSchema ==
    table("backtest_jobs",
          [uuid |-> "uuid not null", status |-> "backtest_job_status not null",
           strategy_name |-> "varchar(50) not null", symbols |-> "jsonb not null",
           parameters |-> "jsonb", start_date |-> "date not null",
           end_date |-> "date not null", error |-> "text",
           create_time |-> "timestamptz not null default now()",
           start_time |-> "timestamptz", end_time |-> "timestamptz",
           ix_backtest_jobs_status |-> "index", ix_backtest_jobs_created |-> "index"])

BacktestResultTableSchema ==
    table("backtest_results",
          [uuid |-> "uuid not null", job_id |-> "uuid not null on delete cascade",
           symbol |-> "varchar(10) not null", summary |-> "jsonb", raw |-> "jsonb",
           create_time |-> "timestamptz not null default now()"])

JobEventTableSchema ==
    table("job_events",
          [uuid |-> "uuid not null", job_id |-> "uuid not null on delete cascade",
           event |-> "text not null", payload |-> "jsonb not null",
           create_time |-> "timestamptz not null default now()",
           ix_job_events_job_id_created |-> "index"])

MarketDataTableSchema ==
    table("market_data",
          [uuid |-> "uuid not null default gen_random_uuid()",
           symbol |-> "varchar(10) not null", interval |-> "interval_enum not null",
           timestamp |-> "timestamptz not null",
           open |-> "numeric(12, 4) not null", high |-> "numeric(12, 4) not null",
           low |-> "numeric(12, 4) not null", close |-> "numeric(12, 4) not null",
           volume |-> "bigint not null", created_at |-> "timestamptz not null default now()",
           uq_market_data_symbol_interval_timestamp |-> "index",
           ix_market_data_symbol_interval_ts |-> "index"])

models == {schema} \cup BacktestJobTableSchema \cup BacktestResultTableSchema
                   \cup JobEventTableSchema \cup MarketDataTableSchema

-------------------------------------------------------------------------------
(* Properties.                                                             *)

TypeOK ==
    /\ database \in BOOLEAN
    /\ types \subseteq {"backtest_job_status", "interval_enum"}
    /\ \E k \in 1 .. Head : version_num \subseteq {1, k}
    /\ jobs \in [Rows -> {"absent", "short", "long"}]
    /\ migrator \in [Migrators -> [pc : {"start", "create", "plan", "migrating", "failed", "done"},
                                   at : 0 .. Head]]
    /\ crashes \in 0 .. MaxCrashes /\ downgrades \in 0 .. MaxDowngrades

(* Whatever races, dies or is taken back, the highest version number says  *)
(* which revisions are in the schema, and a downgrade undoes its upgrade.  *)
VersionMatchesSchema == objects = SchemaAt(Newest)

(* An upgraded database is the one the models are written for: the         *)
(* revisions that were generated add up to db/models.                      *)
HeadMatchesModels == Newest = Head => objects = models

(* What a later start cannot get past: two versions, which remain when two *)
(* migrators raced on an empty schema; an enum type that a downgrade left; *)
(* jobs without the dates that revision 8bb6b5de95e4 adds.                 *)
Blocked == \/ Cardinality(version_num) > 1
           \/ Newest = 1 /\ "backtest_job_status" \in types
           \/ Newest = 2 /\ "interval_enum" \in types
           \/ Newest = 3 /\ ~NoJobs

(* Two migrators that race do no harm but to each other: the one whose     *)
(* version nobody moved fails only where every later start would.          *)
Fails(m) == /\ migrator[m].pc = "migrating" /\ migrator'[m].pc = "failed"
            /\ version_num = {migrator[m].at} \ {0} /\ crashes' = crashes
FailsOnlyWhenBlocked == [][\A m \in Migrators : Fails(m) => Blocked]_vars

(* A migrator that was started brings the database to its last revision,   *)
(* after crashes and lost races too, unless it is blocked.                 *)
UpgradeEnds ==
    \A m \in Migrators :
        migrator[m].pc # "done" /\ migrator[m].at < Head ~> Newest = Head \/ Blocked
===============================================================================
