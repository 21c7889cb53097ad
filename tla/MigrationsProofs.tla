---------------------------- MODULE MigrationsProofs ----------------------------
(* Theorems about Migrations, for any number of migrators and jobs, and any *)
(* number of crashes and downgrades.                                        *)
EXTENDS Migrations, TLAPS

JobTables == {"backtest_jobs", "backtest_results", "job_events"}
DateNames == {"start_date", "end_date"}

-------------------------------------------------------------------------------
(* What tells the objects of the revisions apart.                           *)

(* A column belongs to its table and has one of the names.                  *)
LEMMA Column == ASSUME NEW t, NEW columns, NEW o \in table(t, columns)
                PROVE  o.table = t /\ o.name \in DOMAIN columns
BY DEF table

(* Those of revision 8bb6b5de95e4 are the two dates.                        *)
LEMMA DateColumns ==
    /\ \A o \in date_columns : o.table = "backtest_jobs" /\ o.name \in DateNames
    /\ date_columns # {}
<1> DEFINE dates == [start_date |-> "date not null", end_date |-> "date not null"]
<1>1. DOMAIN dates = DateNames
  BY DEF DateNames
<1>2. date_columns = table("backtest_jobs", dates)
  BY DEF date_columns
<1> HIDE DEF dates
<1>3. \A o \in date_columns : o.table = "backtest_jobs" /\ o.name \in DateNames
  BY <1>1, <1>2, Column
<1>4. date_columns # {}
  BY <1>1, <1>2 DEF table, DateNames
<1> QED
  BY <1>3, <1>4

(* Those of revision 4b19bd66b772 are in one table.                         *)
LEMMA MarketDataTable ==
    /\ \A o \in market_data_table : o.table = "market_data"
    /\ market_data_table # {}
<1>1. PICK columns : market_data_table =
        table("market_data", columns)
        \cup {index("market_data", "uq_market_data_symbol_interval_timestamp"),
              index("market_data", "ix_market_data_symbol_interval_ts")}
  BY Zenon DEF market_data_table
<1>2. \A n : index("market_data", n).table = "market_data"
  BY DEF index
<1> QED
  BY <1>1, <1>2, Column

(* Those of revision bcdd27605b96 are in its three tables, and none of them *)
(* is a date or an error of the later type.                                 *)
LEMMA InitialTables ==
    /\ \A o \in initial_tables : /\ o.table \in JobTables
                                 /\ o.table = "backtest_jobs" => o.name \notin DateNames
                                 /\ o # error_type("text")
    /\ error_type("varchar(255)") \in initial_tables
<1> DEFINE jobs_columns ==
          [uuid |-> "uuid not null", status |-> "backtest_job_status not null",
           strategy_name |-> "varchar(50) not null", symbols |-> "jsonb not null",
           parameters |-> "jsonb", error |-> "varchar(255)",
           create_time |-> "timestamptz not null default now()",
           start_time |-> "timestamptz", end_time |-> "timestamptz"]
<1>1. PICK results, events : initial_tables =
        table("backtest_jobs", jobs_columns)
        \cup {index("backtest_jobs", "ix_backtest_jobs_created"),
              index("backtest_jobs", "ix_backtest_jobs_status")}
        \cup table("backtest_results", results)
        \cup table("job_events", events)
        \cup {index("job_events", "ix_job_events_job_id_created")}
  BY Zenon DEF initial_tables
<1>2. /\ DOMAIN jobs_columns \cap DateNames = {} /\ "error" \in DOMAIN jobs_columns
      /\ jobs_columns["error"] = "varchar(255)"
  BY DEF DateNames
<1> HIDE DEF jobs_columns
<1>3. \A t, n : index(t, n).table = t /\ index(t, n).name = n /\ index(t, n).kind = "index"
  BY DEF index
<1>4. \A type : /\ error_type(type).table = "backtest_jobs" /\ error_type(type).name = "error"
                /\ error_type(type).kind = type
  BY DEF error_type
<1>5. ASSUME NEW o \in table("backtest_jobs", jobs_columns)
      PROVE  /\ o.table = "backtest_jobs" /\ o.name \notin DateNames
             /\ o # error_type("text")
  <2>1. o.name = "error" => o.kind = "varchar(255)"
    BY <1>2 DEF table
  <2> QED
    BY <1>2, <1>4, <2>1, Column
<1>6. ASSUME NEW o \in {index("backtest_jobs", "ix_backtest_jobs_created"),
                        index("backtest_jobs", "ix_backtest_jobs_status"),
                        index("job_events", "ix_job_events_job_id_created")}
      PROVE  /\ o.table \in JobTables /\ o.name \notin DateNames
             /\ o # error_type("text")
  BY <1>3, <1>4 DEF JobTables, DateNames
<1>7. ASSUME NEW t \in {"backtest_results", "job_events"}, NEW columns, NEW o \in table(t, columns)
      PROVE  o.table = t /\ o.table # "backtest_jobs" /\ o # error_type("text")
  BY <1>4, Column
<1>8. error_type("varchar(255)") \in table("backtest_jobs", jobs_columns)
  BY <1>2 DEF table, error_type
<1> QED
  BY <1>1, <1>5, <1>6, <1>7, <1>8 DEF JobTables

-------------------------------------------------------------------------------
(* The schema at a version.                                                 *)

USE DEF Head

(* The schema at each version.                                              *)
LEMMA Schemas ==
    /\ SchemaAt(0) = {} /\ SchemaAt(1) = {schema}
    /\ SchemaAt(2) = {schema} \cup initial_tables
    /\ SchemaAt(3) = {schema} \cup initial_tables \cup market_data_table
    /\ SchemaAt(4) = {schema} \cup initial_tables \cup market_data_table \cup date_columns
    /\ SchemaAt(5) = {schema} \cup (initial_tables \ {error_type("varchar(255)")})
                     \cup {error_type("text")} \cup market_data_table \cup date_columns
<1>1. (initial_tables \ {error_type("varchar(255)")}) \cup {error_type("varchar(255)")} = initial_tables
  BY InitialTables
<1>2. SchemaAt(0) = {} /\ SchemaAt(1) = {schema}
  BY DEF SchemaAt
<1>3. SchemaAt(2) = {schema} \cup initial_tables
  BY <1>1 DEF SchemaAt
<1>4. SchemaAt(3) = {schema} \cup initial_tables \cup market_data_table
  BY <1>1 DEF SchemaAt
<1>5. SchemaAt(4) = {schema} \cup initial_tables \cup market_data_table \cup date_columns
  BY <1>1 DEF SchemaAt
<1>6. SchemaAt(5) = {schema} \cup (initial_tables \ {error_type("varchar(255)")})
                   \cup {error_type("text")} \cup market_data_table \cup date_columns
  BY DEF SchemaAt
<1> QED
  BY <1>2, <1>3, <1>4, <1>5, <1>6

(* The guards of the revisions tell how far the schema is.                  *)
LEMMA SchemaTells ==
    ASSUME NEW n \in 0 .. Head, objects = SchemaAt(n)
    PROVE  /\ schema \in objects <=> n >= 1
           /\ (\A t \in JobTables : Absent(t)) => n < 2
           /\ Absent("market_data") => n < 3
           /\ date_columns \cap objects = {} => n < 4
<1>1. schema.table = "" /\ \A type : error_type(type).table = "backtest_jobs"
  BY DEF schema, error_type
<1>2. schema \in objects <=> n >= 1
  BY <1>1, InitialTables, MarketDataTable, DateColumns DEF SchemaAt, JobTables
<1>3. (\A t \in JobTables : Absent(t)) => n < 2
  <2>1. n >= 2 => \E o \in objects : o.table = "backtest_jobs"
    BY <1>1 DEF SchemaAt
  <2>2. "backtest_jobs" \in JobTables
    BY DEF JobTables
  <2> QED
    BY <2>1, <2>2 DEF Absent
<1>4. Absent("market_data") => n < 3
  BY MarketDataTable DEF SchemaAt, Absent
<1>5. date_columns \cap objects = {} => n < 4
  BY DateColumns DEF SchemaAt
<1> QED
  BY <1>2, <1>3, <1>4, <1>5

(* Each revision brings the schema one version on.                          *)
LEMMA Upgraded ==
    ASSUME NEW k \in 1 .. Head, objects = SchemaAt(k - 1)
    PROVE  upgraded(k) = SchemaAt(k)
<1>1. schema # error_type("varchar(255)") /\ schema.table = ""
      /\ error_type("varchar(255)").table = "backtest_jobs"
      /\ error_type("varchar(255)").name \notin DateNames
  BY DEF schema, error_type, DateNames
<1>2. CASE k = 1 BY <1>2 DEF upgraded, SchemaAt
<1>3. CASE k = 2 BY <1>3, InitialTables DEF upgraded, SchemaAt
<1>4. CASE k = 3 BY <1>4 DEF upgraded, SchemaAt
<1>5. CASE k = 4 BY <1>5 DEF upgraded, SchemaAt
<1>6. CASE k = 5
  <2>1. error_type("varchar(255)") \notin market_data_table
    BY <1>1, MarketDataTable
  <2>2. error_type("varchar(255)") \notin date_columns
    BY <1>1, DateColumns
  <2>3. upgraded(k) = (objects \ {error_type("varchar(255)")}) \cup {error_type("text")}
    BY <1>6 DEF upgraded, retyped
  <2>4. objects = SchemaAt(4)
    BY <1>6
  <2>5. upgraded(k) = SchemaAt(5)
    BY <1>1, <2>1, <2>2, <2>3, <2>4, Schemas
  <2> QED
    BY <1>6, <2>5
<1> QED
  BY <1>2, <1>3, <1>4, <1>5, <1>6

(* Each downgrade takes it back to where it was.                            *)
LEMMA Downgraded ==
    ASSUME NEW k \in 1 .. Head, objects = SchemaAt(k)
    PROVE  downgraded(k) = SchemaAt(k - 1)
<1>1. /\ schema.table = "" /\ schema # error_type("text")
      /\ \A type : /\ error_type(type).table = "backtest_jobs"
                   /\ error_type(type).name \notin DateNames
      /\ error_type("varchar(255)") # error_type("text")
  BY DEF schema, error_type, DateNames
<1>2. CASE k = 1 BY <1>2 DEF downgraded, SchemaAt
<1>3. CASE k = 2
  <2>1. downgraded(k) = {o \in objects : o.table \notin JobTables}
    BY <1>3 DEF downgraded, drop_initial_tables, JobTables
  <2>2. schema.table \notin JobTables
    BY <1>1 DEF JobTables
  <2> QED
    BY <1>3, <2>1, <2>2, InitialTables, Schemas
<1>4. CASE k = 3
  <2>1. downgraded(k) = {o \in objects : o.table # "market_data"}
    BY <1>4 DEF downgraded, drop_market_data
  <2>2. schema.table # "market_data" /\ "market_data" \notin JobTables
    BY <1>1 DEF JobTables
  <2>3. objects = {schema} \cup initial_tables \cup market_data_table
    BY <1>4, Schemas
  <2>4. downgraded(k) = {schema} \cup initial_tables
    BY <2>1, <2>2, <2>3, InitialTables, MarketDataTable
  <2> QED
    BY <1>4, <2>4, Schemas
<1>5. CASE k = 4
  <2>1. downgraded(k) = {o \in objects : o.table = "backtest_jobs" => o.name \notin DateNames}
    BY <1>5 DEF downgraded, drop_dates, DateNames
  <2>2. objects = SchemaAt(3) \cup date_columns
    BY <1>5 DEF SchemaAt
  <2>3. \A o \in SchemaAt(3) : o.table = "backtest_jobs" => o.name \notin DateNames
    BY <1>1, InitialTables, MarketDataTable, Schemas
  <2> QED
    BY <1>5, <2>1, <2>2, <2>3, DateColumns
<1>6. CASE k = 5
  <2>1. error_type("text") \notin market_data_table
    BY <1>1, MarketDataTable
  <2>2. error_type("text") \notin date_columns
    BY <1>1, DateColumns
  <2>3. downgraded(k) = (objects \ {error_type("text")}) \cup {error_type("varchar(255)")}
    BY <1>6 DEF downgraded, retyped
  <2>4. objects = SchemaAt(5)
    BY <1>6
  <2>5. error_type("text") \notin initial_tables /\ error_type("text") # schema
    BY <1>1, InitialTables
  <2>6. objects \ {error_type("text")} = {schema} \cup (initial_tables \ {error_type("varchar(255)")})
                                        \cup market_data_table \cup date_columns
    BY <2>1, <2>2, <2>4, <2>5, Schemas
  <2>7. downgraded(k) = SchemaAt(4)
    BY <2>3, <2>6, InitialTables, Schemas
  <2> QED
    BY <1>6, <2>7
<1> QED
  BY <1>2, <1>3, <1>4, <1>5, <1>6

(* The newest version is the greatest.                                      *)
LEMMA NewestOf ==
    ASSUME NEW V, V \subseteq Nat, NEW k \in V \cup {0}, \A v \in V : v <= k
    PROVE  (CHOOSE j \in V \cup {0} : \A v \in V : v <= j) = k
<1>1. ASSUME NEW j \in V \cup {0}, \A v \in V : v <= j
      PROVE  j = k
  BY <1>1
<1> QED
  BY <1>1, Zenon

-------------------------------------------------------------------------------
(* The invariant and its steps.                                             *)

Inv == TypeOK /\ VersionMatchesSchema

(* The versions, and the schema with them, as one fact.                     *)
AtVersion(n) == /\ n \in 0 .. Head /\ Newest = n /\ objects = SchemaAt(n)
                /\ version_num \subseteq 1 .. Head
                /\ n \in version_num \cup {0} /\ \A v \in version_num : v <= n

LEMMA SomeVersion == Inv => \E n : AtVersion(n)
<1> SUFFICES ASSUME Inv PROVE \E n : AtVersion(n)
  OBVIOUS
<1>1. PICK k \in 1 .. Head : version_num \subseteq {1, k}
  BY DEF Inv, TypeOK
<1> DEFINE n == IF k \in version_num THEN k ELSE IF 1 \in version_num THEN 1 ELSE 0
<1>2. /\ n \in 0 .. Head /\ version_num \subseteq 1 .. Head
      /\ n \in version_num \cup {0} /\ \A v \in version_num : v <= n
  BY <1>1
<1>3. Newest = n
  <2> HIDE DEF n
  <2>1. version_num \subseteq Nat /\ n \in version_num \cup {0} /\ \A v \in version_num : v <= n
    BY <1>2
  <2> QED
    BY <2>1, NewestOf DEF Newest
<1> QED
  BY <1>2, <1>3 DEF Inv, VersionMatchesSchema, AtVersion

(* A step that leaves the schema alone and moves one migrator.              *)
LEMMA MoveOnly ==
    ASSUME Inv, NEW m \in Migrators, SchemaStays,
           NEW pc \in {"start", "create", "plan", "migrating", "failed", "done"},
           NEW at \in 0 .. Head, Move(m, pc, at),
           database' \in BOOLEAN, crashes' \in 0 .. MaxCrashes, UNCHANGED downgrades
    PROVE  Inv'
<1>1. migrator' \in [Migrators -> [pc : {"start", "create", "plan", "migrating", "failed", "done"},
                                   at : 0 .. Head]]
  BY DEF Inv, TypeOK, Move
<1>2. Newest' = Newest
  BY DEF SchemaStays, Newest
<1>3. SchemaAt(Newest)' = SchemaAt(Newest)
  BY <1>2 DEF SchemaAt
<1> QED
  BY <1>1, <1>2, <1>3 DEF Inv, TypeOK, VersionMatchesSchema, SchemaStays

(* A revision that applies, and whose number fits, is the next one of the   *)
(* schema; only the first may also find its work done.                      *)
LEMMA UpgradeStep == ASSUME Inv, NEW m \in Migrators, upgrade(m) PROVE Inv'
<1> DEFINE at == migrator[m].at
           k  == at + 1
<1>1. PICK n : AtVersion(n)
  BY SomeVersion
<1>2. at \in 0 .. Head /\ k \in 1 .. Head /\ Applies(k) /\ version_ok(at)
  BY DEF Inv, TypeOK, upgrade
<1>3. /\ objects' = upgraded(k) /\ types' = types \cup new_types(k)
      /\ version_num' = (version_num \ {at}) \cup {k} /\ Move(m, "migrating", k)
      /\ UNCHANGED <<database, jobs, crashes, downgrades>>
  BY DEF upgrade
<1> HIDE DEF at, k
<1>4. k = at + 1
  BY DEF k
<1>5. /\ database' \in BOOLEAN /\ jobs' \in [Rows -> {"absent", "short", "long"}]
      /\ crashes' \in 0 .. MaxCrashes /\ downgrades' \in 0 .. MaxDowngrades
      /\ types' \subseteq {"backtest_job_status", "interval_enum"}
      /\ migrator' \in [Migrators -> [pc : {"start", "create", "plan", "migrating", "failed", "done"},
                                      at : 0 .. Head]]
  BY <1>2, <1>3 DEF Inv, TypeOK, Move, new_types
<1>6. CASE k > 1 \/ n = 0
  <2>1. n = at
    BY <1>1, <1>2, <1>4, <1>6, SchemaTells DEF AtVersion, Applies, version_ok, JobTables
  <2>2. version_num \subseteq {1, at}
    BY <1>1, <2>1 DEF Inv, TypeOK, AtVersion
  <2>3. version_num' \subseteq {1, k} /\ k \in version_num'
    BY <1>2, <1>3, <2>2
  <2>4. Newest' = k
    <3>1. version_num' \subseteq Nat /\ k \in version_num' \cup {0} /\ \A v \in version_num' : v <= k
      BY <1>2, <2>3
    <3> QED
      BY <3>1, NewestOf DEF Newest
  <2>5. objects' = SchemaAt(k)
    BY <1>1, <1>2, <1>3, <1>4, <2>1, Upgraded DEF AtVersion
  <2> QED
    BY <1>2, <1>5, <2>3, <2>4, <2>5 DEF Inv, TypeOK, VersionMatchesSchema, SchemaAt
<1>7. CASE k = 1 /\ n > 0
  <2>1. version_num' = version_num \cup {1} /\ at = 0
    BY <1>1, <1>2, <1>3, <1>4, <1>7 DEF AtVersion
  <2>2. Newest' = n
    BY <1>1, <1>7, <2>1, NewestOf DEF AtVersion, Newest
  <2>3. objects' = objects
    BY <1>1, <1>3, <1>7, SchemaTells DEF AtVersion, upgraded
  <2>4. \E l \in 1 .. Head : version_num' \subseteq {1, l}
    BY <2>1 DEF Inv, TypeOK
  <2> QED
    BY <1>1, <1>5, <2>2, <2>3, <2>4 DEF Inv, TypeOK, VersionMatchesSchema, SchemaAt, AtVersion
<1> QED
  BY <1>1, <1>2, <1>6, <1>7 DEF AtVersion

(* A downgrade takes schema and number back together.                       *)
LEMMA DowngradeStep == ASSUME Inv, downgrade PROVE Inv'
<1>1. PICK n : AtVersion(n)
  BY SomeVersion
<1>2. version_num = {n} /\ n \in 1 .. Head
  BY <1>1 DEF downgrade, AtVersion
<1>3. objects' = SchemaAt(n - 1)
  BY <1>1, <1>2, Downgraded DEF downgrade, AtVersion
<1>4. version_num' = {n - 1} \ {0}
  BY <1>1 DEF downgrade, AtVersion
<1>5. Newest' = n - 1
  BY <1>2, <1>4, NewestOf DEF Newest
<1>6. /\ types' \subseteq types /\ downgrades' \in 0 .. MaxDowngrades
      /\ jobs' \in [Rows -> {"absent", "short", "long"}]
      /\ UNCHANGED <<database, migrator, crashes>>
  BY MigrationBounds DEF downgrade, Inv, TypeOK
<1>7. \E k \in 1 .. Head : version_num' \subseteq {1, k}
  BY <1>2, <1>4
<1> QED
  BY <1>2, <1>3, <1>5, <1>6, <1>7 DEF Inv, TypeOK, VersionMatchesSchema, SchemaAt

(* Jobs that are written change nothing of the schema.                      *)
LEMMA JobStep ==
    ASSUME Inv, NEW r \in Rows, NEW length \in {"short", "long"},
           create_backtest_job(r) \/ update_error(r, length)
    PROVE  Inv'
<1>1. /\ jobs' \in [Rows -> {"absent", "short", "long"}]
      /\ UNCHANGED <<database, objects, types, version_num, migrator, crashes, downgrades>>
  BY DEF create_backtest_job, update_error, Inv, TypeOK
<1>2. Newest' = Newest
  BY <1>1 DEF Newest
<1> QED
  BY <1>1, <1>2 DEF Inv, TypeOK, VersionMatchesSchema, SchemaAt

(* The first state is that of some release.                                 *)
LEMMA InitInv == Init => Inv
<1> SUFFICES ASSUME NEW k \in 0 .. Head,
                    version_num = {k} \ {0}, objects = SchemaAt(k), types = TypesAt(k),
                    database \in {k > 0, TRUE},
                    jobs \in [Rows -> IF k < 2 THEN {"absent"}
                                      ELSE {"absent", "short"} \cup (IF k = Head THEN {"long"} ELSE {})],
                    migrator = [m \in Migrators |-> [pc |-> "start", at |-> 0]],
                    crashes = 0, downgrades = 0
             PROVE  Inv
  BY DEF Init
<1>1. Newest = k
  BY NewestOf DEF Newest
<1>2. /\ types \subseteq {"backtest_job_status", "interval_enum"}
      /\ jobs \in [Rows -> {"absent", "short", "long"}]
  BY DEF TypesAt
<1>3. \E l \in 1 .. Head : version_num \subseteq {1, l}
  <2>1. CASE k = 0 BY <2>1
  <2>2. CASE k > 0 BY <2>2
  <2> QED
    BY <2>1, <2>2
<1>4. database \in BOOLEAN
  <2>1. (k > 0) \in BOOLEAN
    OBVIOUS
  <2> QED
    BY <2>1, Zenon
<1>5. /\ migrator \in [Migrators -> [pc : {"start", "create", "plan", "migrating", "failed", "done"},
                                      at : 0 .. Head]]
      /\ crashes \in 0 .. MaxCrashes /\ downgrades \in 0 .. MaxDowngrades
  BY MigrationBounds
<1> QED
  BY <1>1, <1>2, <1>3, <1>4, <1>5 DEF Inv, TypeOK, VersionMatchesSchema

(* Every step keeps the invariant.                                          *)
LEMMA NextInv == Inv /\ [Next]_vars => Inv'
<1> SUFFICES ASSUME Inv, [Next]_vars PROVE Inv'
  OBVIOUS
<1>1. ASSUME NEW m \in Migrators, Step(m) \/ run_anew(m) \/ crash(m)
      PROVE  Inv'
  <2>1. CASE upgrade(m)
    BY <2>1, UpgradeStep
  <2>2. CASE \/ database_exists(m) \/ create_database(m) \/ apply_migrations_raises(m)
             \/ upgrade_fails(m) \/ version_table_exists(m)
             \/ finish(m) \/ run_again(m) \/ run_anew(m)
    <3>1. /\ \E pc \in {"start", "create", "plan", "migrating", "failed", "done"} : Move(m, pc, 0)
          /\ SchemaStays /\ UNCHANGED <<crashes, downgrades>> /\ database' \in {TRUE, database}
      BY <2>2 DEF database_exists, create_database, apply_migrations_raises,
                  upgrade_fails, version_table_exists, finish, run_again, run_anew
    <3>2. database' \in BOOLEAN
      BY <3>1, Zenon DEF Inv, TypeOK
    <3>3. crashes' \in 0 .. MaxCrashes
      BY <3>1 DEF Inv, TypeOK
    <3>4. 0 \in 0 .. Head
      OBVIOUS
    <3> QED
      BY <1>1, <3>1, <3>2, <3>3, <3>4, MoveOnly
  <2>3. CASE apply_migrations(m)
    <3>1. PICK n : AtVersion(n)
      BY SomeVersion
    <3>2. Move(m, "migrating", n) /\ n \in 0 .. Head
      BY <2>3, <3>1 DEF apply_migrations, AtVersion
    <3> QED
      BY <2>3, <3>2, MoveOnly DEF apply_migrations, Inv, TypeOK
  <2>4. CASE crash(m)
    <3>1. crashes' \in 0 .. MaxCrashes
      BY <2>4, MigrationBounds DEF crash, Inv, TypeOK
    <3>2. database' \in BOOLEAN
      BY <2>4, Zenon DEF crash, Inv, TypeOK
    <3>3. Move(m, "failed", 0) /\ SchemaStays /\ UNCHANGED downgrades /\ 0 \in 0 .. Head
      BY <2>4 DEF crash
    <3> QED
      BY <1>1, <3>1, <3>2, <3>3, MoveOnly
  <2> QED
    BY <1>1, <2>1, <2>2, <2>3, <2>4 DEF Step
<1>2. CASE downgrade
  BY <1>2, DowngradeStep
<1>3. ASSUME NEW r \in Rows, NEW length \in {"short", "long"},
             create_backtest_job(r) \/ update_error(r, length)
      PROVE  Inv'
  BY <1>3, JobStep
<1>4. CASE UNCHANGED vars
  <2>1. Newest' = Newest
    BY <1>4 DEF vars, Newest
  <2> QED
    BY <1>4, <2>1 DEF vars, Inv, TypeOK, VersionMatchesSchema, SchemaAt
<1> QED
  BY <1>1, <1>2, <1>3, <1>4 DEF Next

(* The tables of alembic and of the application keep their types; two       *)
(* versions can only be the first one and another.                          *)
THEOREM TypeCorrect == Spec => []TypeOK
<1>1. Inv => TypeOK
  BY DEF Inv
<1> QED
  BY <1>1, InitInv, NextInv, PTL DEF Spec

(* Whatever races, dies or is taken back, the highest version number says   *)
(* which revisions are in the schema.                                       *)
THEOREM SchemaIsVersioned == Spec => []VersionMatchesSchema
<1>1. Inv => VersionMatchesSchema
  BY DEF Inv
<1> QED
  BY <1>1, InitInv, NextInv, PTL DEF Spec

-------------------------------------------------------------------------------
(* Why an upgrade fails.                                                    *)

(* A revision that does not apply where its number fits is a blocked one.   *)
LEMMA NotApplicable ==
    ASSUME Inv, NEW at \in 0 .. Head, at < Head, version_num = {at} \ {0}, ~Applies(at + 1)
    PROVE  Blocked
<1>1. Newest = at
  BY NewestOf DEF Newest
<1>2. objects = SchemaAt(at)
  BY <1>1 DEF Inv, VersionMatchesSchema
<1>3. schema.table = "" /\ schema.name = "stock_trader"
  BY DEF schema
<1>4. CASE at = 0
  BY <1>4 DEF Applies
<1>5. CASE at = 1
  <2>1. objects = {schema}
    BY <1>2, <1>5, Schemas
  <2>2. schema \in objects /\ \A t \in {"backtest_jobs", "backtest_results", "job_events"} : Absent(t)
    BY <1>3, <2>1 DEF Absent
  <2> QED
    BY <1>1, <1>5, <2>2 DEF Applies, Blocked
<1>6. CASE at = 2
  <2>1. objects = {schema} \cup initial_tables
    BY <1>2, <1>6, Schemas
  <2>2. schema \in objects /\ Absent("market_data")
    BY <1>3, <2>1, InitialTables DEF Absent, JobTables
  <2> QED
    BY <1>1, <1>6, <2>2 DEF Applies, Blocked
<1>7. CASE at = 3
  <2>1. objects = {schema} \cup initial_tables \cup market_data_table
    BY <1>2, <1>7, Schemas
  <2>2. schema \notin date_columns
    BY <1>3, DateColumns
  <2>3. \A o \in initial_tables \cup market_data_table : o \notin date_columns
    BY InitialTables, MarketDataTable, DateColumns
  <2>4. date_columns \cap objects = {}
    BY <2>1, <2>2, <2>3
  <2> QED
    BY <1>1, <1>7, <2>4 DEF Applies, Blocked
<1>8. CASE at = 4
  BY <1>2, <1>8, Schemas, InitialTables DEF Applies
<1> QED
  BY <1>4, <1>5, <1>6, <1>7, <1>8

(* Only upgrade_fails takes a migrator from its revisions to its failure    *)
(* without a crash.                                                         *)
LEMMA FailsByUpgrade ==
    ASSUME Inv, [Next]_vars, NEW m \in Migrators, Fails(m)
    PROVE  upgrade_fails(m)
<1>1. /\ migrator[m].pc = "migrating" /\ migrator'[m] # migrator[m]
      /\ migrator'[m].pc = "failed" /\ crashes' = crashes
  BY DEF Fails
<1>2. ASSUME NEW n \in Migrators, Step(n) \/ run_anew(n) \/ crash(n), n # m
      PROVE  migrator'[m] = migrator[m]
  BY <1>2 DEF Step, database_exists, create_database, apply_migrations, apply_migrations_raises,
              upgrade, upgrade_fails, version_table_exists, finish, run_again, run_anew, crash,
              Move, Inv, TypeOK
<1>3. ~crash(m)
  BY <1>1 DEF crash, Inv, TypeOK
<1>4. \A pc, at : Move(m, pc, at) => migrator'[m].pc = pc
  BY DEF Move, Inv, TypeOK
<1>5. ~upgrade(m) /\ ~finish(m) /\ ~version_table_exists(m)
  BY <1>1, <1>4 DEF upgrade, finish, version_table_exists, Fails
<1>6. Step(m) \/ run_anew(m) => upgrade_fails(m)
  BY <1>1, <1>5 DEF Step, database_exists, create_database, apply_migrations,
                    apply_migrations_raises, run_again, run_anew
<1>7. ~downgrade /\ ~UNCHANGED vars
      /\ \A r \in Rows : ~create_backtest_job(r) /\ \A l \in {"short", "long"} : ~update_error(r, l)
  BY <1>1 DEF downgrade, vars, create_backtest_job, update_error
<1> QED
  BY <1>2, <1>1, <1>3, <1>6, <1>7 DEF Next

(* Migrators that race or die, and downgrades under them, do no harm but to *)
(* each other: the one whose version nobody moved fails only where every    *)
(* later start would (create_database, upgrade of each revision).           *)
THEOREM FailuresAreBlocked == Spec => FailsOnlyWhenBlocked
<1>1. ASSUME Inv, [Next]_vars, NEW m \in Migrators, Fails(m)
      PROVE  Blocked
  <2>1. upgrade_fails(m)
    BY <1>1, FailsByUpgrade
  <2>2. migrator[m].at \in 0 .. Head /\ migrator[m].at < Head
        /\ version_num = {migrator[m].at} \ {0}
    BY <1>1, <2>1 DEF upgrade_fails, Fails, Inv, TypeOK
  <2>3. version_ok(migrator[m].at)
    BY <2>2 DEF version_ok
  <2> QED
    BY <1>1, <2>1, <2>2, <2>3, NotApplicable DEF upgrade_fails
<1>2. Inv /\ [Next]_vars => [\A m \in Migrators : Fails(m) => Blocked]_vars
  BY <1>1
<1> QED
  BY InitInv, NextInv, <1>2, PTL DEF Spec, FailsOnlyWhenBlocked

-------------------------------------------------------------------------------
(* What the revisions add up to.                                            *)

object(t, n, kind) == [table |-> t, name |-> n, kind |-> kind]

(* A column, an index and the error column are objects, and an object says  *)
(* which table, name and kind it has.                                       *)
LEMMA Objects ==
    /\ \A t, columns : table(t, columns) = {object(t, c, columns[c]) : c \in DOMAIN columns}
    /\ \A t, n : index(t, n) = object(t, n, "index")
    /\ \A type : error_type(type) = object("backtest_jobs", "error", type)
    /\ \A t, n, k, u, o, l : object(t, n, k) = object(u, o, l) => t = u /\ n = o /\ k = l
BY DEF object, table, index, error_type

(* Columns that are added to a table are added to its objects.              *)
LEMMA TableAdds ==
    ASSUME NEW t, NEW f, NEW g, NEW N, DOMAIN g = (DOMAIN f) \cup N,
           \A c \in DOMAIN f : g[c] = f[c]
    PROVE  table(t, g) = table(t, f) \cup {object(t, n, g[n]) : n \in N}
BY Objects

(* The events table and its index, whatever the types of its columns.       *)
LEMMA EventColumns ==
    ASSUME NEW t, NEW a, NEW b, NEW c, NEW d, NEW e
    PROVE  table(t, [uuid |-> a, job_id |-> b, event |-> c, payload |-> d, create_time |-> e,
                     ix_job_events_job_id_created |-> "index"])
             = table(t, [uuid |-> a, job_id |-> b, event |-> c, payload |-> d, create_time |-> e])
               \cup {index(t, "ix_job_events_job_id_created")}
<1> DEFINE f == [uuid |-> a, job_id |-> b, event |-> c, payload |-> d, create_time |-> e]
           g == [uuid |-> a, job_id |-> b, event |-> c, payload |-> d, create_time |-> e,
                 ix_job_events_job_id_created |-> "index"]
           N == {"ix_job_events_job_id_created"}
<1>1. DOMAIN g = (DOMAIN f) \cup N /\ \A n \in DOMAIN f : g[n] = f[n]
  OBVIOUS
<1>2. \A n \in N : g[n] = "index"
  OBVIOUS
<1> HIDE DEF f, g
<1>3. table(t, g) = table(t, f) \cup {object(t, n, g[n]) : n \in N}
  BY <1>1, TableAdds
<1>4. {object(t, n, g[n]) : n \in N} = {index(t, "ix_job_events_job_id_created")}
  BY <1>2, Objects
<1> QED
  BY <1>3, <1>4 DEF f, g

(* The market data table and its indexes.                                   *)
LEMMA MarketDataColumns ==
    ASSUME NEW t, NEW a, NEW b, NEW c, NEW d, NEW e, NEW h, NEW i, NEW j, NEW k, NEW l
    PROVE  table(t, [uuid |-> a, symbol |-> b, interval |-> c, timestamp |-> d, open |-> e,
                     high |-> h, low |-> i, close |-> j, volume |-> k, created_at |-> l,
                     uq_market_data_symbol_interval_timestamp |-> "index",
                     ix_market_data_symbol_interval_ts |-> "index"])
             = table(t, [uuid |-> a, symbol |-> b, interval |-> c, timestamp |-> d, open |-> e,
                         high |-> h, low |-> i, close |-> j, volume |-> k, created_at |-> l])
               \cup {index(t, "uq_market_data_symbol_interval_timestamp"),
                     index(t, "ix_market_data_symbol_interval_ts")}
<1> DEFINE f == [uuid |-> a, symbol |-> b, interval |-> c, timestamp |-> d, open |-> e,
                 high |-> h, low |-> i, close |-> j, volume |-> k, created_at |-> l]
           g == [uuid |-> a, symbol |-> b, interval |-> c, timestamp |-> d, open |-> e,
                 high |-> h, low |-> i, close |-> j, volume |-> k, created_at |-> l,
                 uq_market_data_symbol_interval_timestamp |-> "index",
                 ix_market_data_symbol_interval_ts |-> "index"]
           N == {"uq_market_data_symbol_interval_timestamp", "ix_market_data_symbol_interval_ts"}
<1>1. DOMAIN g = (DOMAIN f) \cup N /\ \A n \in DOMAIN f : g[n] = f[n]
  OBVIOUS
<1>2. \A n \in N : g[n] = "index"
  OBVIOUS
<1> HIDE DEF f, g
<1>3. table(t, g) = table(t, f) \cup {object(t, n, g[n]) : n \in N}
  BY <1>1, TableAdds
<1>4. {object(t, n, g[n]) : n \in N} = {index(t, "uq_market_data_symbol_interval_timestamp"),
                                        index(t, "ix_market_data_symbol_interval_ts")}
  BY <1>2, Objects
<1> QED
  BY <1>3, <1>4 DEF f, g

(* The jobs table: the dates and the indexes come to it, and the error      *)
(* column leaves it for one of another type.                                *)
LEMMA JobColumns ==
    ASSUME NEW t, NEW a, NEW b, NEW c, NEW d, NEW e, NEW h, NEW i, NEW j, NEW k,
           NEW from, NEW to, NEW X, object(t, "error", from) \notin X
    PROVE  table(t, [uuid |-> a, status |-> b, strategy_name |-> c, symbols |-> d,
                     parameters |-> e, start_date |-> k, end_date |-> k, error |-> to,
                     create_time |-> h, start_time |-> i, end_time |-> j,
                     ix_backtest_jobs_status |-> "index", ix_backtest_jobs_created |-> "index"])
             \cup X
             = (((table(t, [uuid |-> a, status |-> b, strategy_name |-> c, symbols |-> d,
                            parameters |-> e, error |-> from,
                            create_time |-> h, start_time |-> i, end_time |-> j])
                  \cup {index(t, "ix_backtest_jobs_created"), index(t, "ix_backtest_jobs_status")}
                  \cup X)
                 \ {object(t, "error", from)})
                \cup {object(t, "error", to)})
               \cup table(t, [start_date |-> k, end_date |-> k])
<1> DEFINE M == [uuid |-> a, status |-> b, strategy_name |-> c, symbols |-> d,
                 parameters |-> e, start_date |-> k, end_date |-> k, error |-> to,
                 create_time |-> h, start_time |-> i, end_time |-> j,
                 ix_backtest_jobs_status |-> "index", ix_backtest_jobs_created |-> "index"]
           J == [uuid |-> a, status |-> b, strategy_name |-> c, symbols |-> d,
                 parameters |-> e, error |-> from,
                 create_time |-> h, start_time |-> i, end_time |-> j]
           D == [start_date |-> k, end_date |-> k]
           N == {"ix_backtest_jobs_created", "ix_backtest_jobs_status"}
<1>1. /\ DOMAIN M = (DOMAIN J) \cup (DOMAIN D) \cup N
      /\ \A n \in DOMAIN J : n # "error" => M[n] = J[n]
  OBVIOUS
<1>2. \A n \in DOMAIN D : M[n] = D[n] /\ n # "error"
  OBVIOUS
<1>3. "error" \in DOMAIN J /\ J["error"] = from /\ M["error"] = to /\ "error" \notin N
  OBVIOUS
<1>4. \A n \in N : M[n] = "index"
  OBVIOUS
<1> HIDE DEF M, J, D
<1>5. table(t, J) \ {object(t, "error", from)} = {object(t, n, J[n]) : n \in (DOMAIN J) \ {"error"}}
  BY <1>3, Objects
<1>6. {object(t, n, M[n]) : n \in N} = {index(t, "ix_backtest_jobs_created"),
                                        index(t, "ix_backtest_jobs_status")}
  BY <1>4, Objects
<1>7. table(t, M) = {object(t, n, J[n]) : n \in (DOMAIN J) \ {"error"}} \cup {object(t, "error", to)}
                    \cup table(t, D) \cup {object(t, n, M[n]) : n \in N}
  BY <1>1, <1>2, <1>3, Objects
<1>8. \A n \in N : object(t, "error", from) # index(t, n)
  BY <1>3, Objects
<1> QED
  BY <1>5, <1>6, <1>7, <1>8 DEF M, J, D

(* The revisions, one after the other, make the tables of db/models.        *)
LEMMA HeadIsModels == SchemaAt(Head) = models
<1> DEFINE a == "uuid not null"
           b == "backtest_job_status not null"
           c == "varchar(50) not null"
           d == "jsonb not null"
           e == "jsonb"
           h == "timestamptz not null default now()"
           i == "timestamptz"
           k == "date not null"
           from == "varchar(255)"
           to == "text"
           p == "uuid not null on delete cascade"
           r == "text not null"
           u == "uuid not null default gen_random_uuid()"
           v == "varchar(10) not null"
           w == "interval_enum not null"
           h0 == "timestamptz not null"
           n == "numeric(12, 4) not null"
           l == "bigint not null"
           J == "backtest_jobs"
           R == "backtest_results"
           E == "job_events"
           M == "market_data"
           Events == table(E, [uuid |-> a, job_id |-> p, event |-> r, payload |-> d, create_time |-> h])
                     \cup {index(E, "ix_job_events_job_id_created")}
           X == BacktestResultTableSchema \cup Events
           jobs_columns == table(J, [uuid |-> a, status |-> b, strategy_name |-> c, symbols |-> d,
                                     parameters |-> e, error |-> from,
                                     create_time |-> h, start_time |-> i, end_time |-> i])
           Indexes == {index(J, "ix_backtest_jobs_created"), index(J, "ix_backtest_jobs_status")}
<1>1. initial_tables = (jobs_columns \cup Indexes) \cup X
  <2>1. initial_tables = jobs_columns \cup Indexes \cup BacktestResultTableSchema
          \cup table(E, [uuid |-> a, job_id |-> p, event |-> r, payload |-> d, create_time |-> h])
          \cup {index(E, "ix_job_events_job_id_created")}
    BY Zenon DEF initial_tables, BacktestResultTableSchema
  <2> HIDE DEF jobs_columns, Indexes
  <2> QED
    BY <2>1, Zenon
<1>2. BacktestJobTableSchema
        = table(J, [uuid |-> a, status |-> b, strategy_name |-> c, symbols |-> d,
                    parameters |-> e, start_date |-> k, end_date |-> k, error |-> to,
                    create_time |-> h, start_time |-> i, end_time |-> i,
                    ix_backtest_jobs_status |-> "index", ix_backtest_jobs_created |-> "index"])
  BY Zenon DEF BacktestJobTableSchema
<1>3. date_columns = table(J, [start_date |-> k, end_date |-> k])
  BY Zenon DEF date_columns
<1>4. JobEventTableSchema
        = table(E, [uuid |-> a, job_id |-> p, event |-> r, payload |-> d, create_time |-> h,
                    ix_job_events_job_id_created |-> "index"])
  BY Zenon DEF JobEventTableSchema
<1>5. /\ MarketDataTableSchema
           = table(M, [uuid |-> u, symbol |-> v, interval |-> w, timestamp |-> h0, open |-> n,
                       high |-> n, low |-> n, close |-> n, volume |-> l, created_at |-> h,
                       uq_market_data_symbol_interval_timestamp |-> "index",
                       ix_market_data_symbol_interval_ts |-> "index"])
      /\ market_data_table
           = table(M, [uuid |-> u, symbol |-> v, interval |-> w, timestamp |-> h0, open |-> n,
                       high |-> n, low |-> n, close |-> n, volume |-> l, created_at |-> h])
             \cup {index(M, "uq_market_data_symbol_interval_timestamp"),
                   index(M, "ix_market_data_symbol_interval_ts")}
  BY Zenon DEF MarketDataTableSchema, market_data_table
<1>6. error_type(from) \notin X
  <2>1. \A o \in X : o.table # J
    <3>1. \A o \in BacktestResultTableSchema : o.table = R
      BY Zenon, Column DEF BacktestResultTableSchema
    <3>2. \A o \in Events : o.table = E
      <4>1. index(E, "ix_job_events_job_id_created").table = E
        BY DEF index
      <4> QED
        BY <4>1, Zenon, Column
    <3>3. R # J /\ E # J
      OBVIOUS
    <3> QED
      BY <3>1, <3>2, <3>3, Zenon
  <2>2. error_type(from).table = J
    BY Zenon, Objects DEF error_type, object
  <2> QED
    BY <2>1, <2>2, Zenon
<1>7. error_type(from) = object(J, "error", from) /\ error_type(to) = object(J, "error", to)
  BY Objects, Zenon
<1> HIDE DEF a, b, c, d, e, h, i, k, from, to, p, r, u, v, w, h0, n, l, J, R, E, M, X
<1>8. BacktestJobTableSchema \cup X
        = ((initial_tables \ {error_type(from)}) \cup {error_type(to)}) \cup date_columns
  <2>1. object(J, "error", from) \notin X
    BY <1>6, <1>7
  <2>2. table(J, [uuid |-> a, status |-> b, strategy_name |-> c, symbols |-> d,
                  parameters |-> e, start_date |-> k, end_date |-> k, error |-> to,
                  create_time |-> h, start_time |-> i, end_time |-> i,
                  ix_backtest_jobs_status |-> "index", ix_backtest_jobs_created |-> "index"])
          \cup X
        = (((jobs_columns \cup Indexes \cup X) \ {object(J, "error", from)})
             \cup {object(J, "error", to)})
            \cup table(J, [start_date |-> k, end_date |-> k])
    BY <2>1, JobColumns, SMT
  <2> HIDE DEF jobs_columns, Indexes
  <2> QED
    BY <1>1, <1>2, <1>3, <1>7, <2>2, Zenon
<1>9. SchemaAt(Head) = {schema} \cup (initial_tables \ {error_type(from)})
                       \cup {error_type(to)} \cup market_data_table \cup date_columns
  BY Schemas, Zenon DEF from, to
<1>10. models = {schema} \cup BacktestJobTableSchema \cup BacktestResultTableSchema
                \cup Events \cup market_data_table
  <2>1. JobEventTableSchema = Events
    BY <1>4, EventColumns, SMT
  <2>2. MarketDataTableSchema = market_data_table
    BY <1>5, MarketDataColumns, SMT
  <2> HIDE DEF Events
  <2> QED
    BY <2>1, <2>2, Zenon DEF models
<1> HIDE DEF jobs_columns, Indexes, Events
<1>11. models = {schema} \cup (BacktestJobTableSchema \cup X) \cup market_data_table
  BY <1>10 DEF X
<1> QED
  BY <1>8, <1>9, <1>11

(* An upgraded database is the one the models are written for, whoever      *)
(* brought it there and whatever was taken back in between: the generated   *)
(* revisions add up to db/models.                                           *)
THEOREM HeadMatches == Spec => []HeadMatchesModels
<1>1. Inv => HeadMatchesModels
  BY HeadIsModels DEF Inv, VersionMatchesSchema, HeadMatchesModels
<1> QED
  BY <1>1, InitInv, NextInv, PTL DEF Spec
===============================================================================
