--------------------------- MODULE SchemaMigrations ---------------------------
(***************************************************************************)
(* The migration runners of both backends, and what each migration file    *)
(* does to the schema.                                                     *)
(*                                                                         *)
(* A runner is started by the first connection of every repository object  *)
(* and by the migrate command, so several may work on one store at once.   *)
(* It reads the history once, then goes through the files in order.  The   *)
(* SQLite runner commits a file's script and its history row apart, the    *)
(* Postgres runner together; that, and the scripts, is all they differ in. *)
(***************************************************************************)
EXTENDS Naturals

CONSTANTS
    Backends,       \* the kinds of store: "sqlite", "postgres"
    Runners,        \* connections that run migrations
    Active(_),      \* those of them that run on a store of a kind
    MaxCrashes(_),  \* bound on how often one of them stops half-way
    MayEdit         \* whether a deploy may change a migration file

ASSUME BackendAssumption == Backends \subseteq {"sqlite", "postgres"}
ASSUME BoundAssumption ==
    /\ \A b \in Backends : Active(b) \subseteq Runners /\ MaxCrashes(b) \in Nat
    /\ MayEdit \in BOOLEAN

VARIABLES
    backend,    \* MUNNIN_DB_BACKEND
    schema,     \* what the tables look like
    history,    \* migration_history: the checksum recorded for a version, or "none"
    files,      \* the checksum of the version's file on disk
    summaries,  \* whether the store holds a shared record with a content_summary
    runner,     \* the connections
    crashes,    \* crashes so far
    runs        \* history: how often a script was committed, counted up to 2

vars == <<backend, schema, history, files, summaries, runner, crashes, runs>>

Versions  == IF backend = "sqlite" THEN 1..5 ELSE 1..4
Last      == IF backend = "sqlite" THEN 5 ELSE 4
Checksums == {"original", "edited"}

\* tables: the base tables; memory and shared: the content_summary columns;
\* check: the widest type shared_record admits; tenancy: the sharing columns.
Schemas == [tables : BOOLEAN, memory : BOOLEAN, shared : BOOLEAN,
            check  : {"none", "base", "ras", "coding"}, tenancy : BOOLEAN]

NoTables == [tables |-> FALSE, memory |-> FALSE, shared |-> FALSE,
             check |-> "none", tenancy |-> FALSE]

-----------------------------------------------------------------------------
(* The scripts: the schemas a version may leave, none where it fails.       *)

\* 0001 says IF NOT EXISTS; its CHECK admits the first three shared types.
SqliteInit(s) == {IF s.tables THEN s ELSE [NoTables EXCEPT !.tables = TRUE, !.check = "base"]}

\* 0002 rebuilds shared_record with the columns it names, which are those of 0001.
SqliteRas(s) == IF s.tables THEN {[s EXCEPT !.check = "ras", !.shared = FALSE]} ELSE {}

\* 0003 adds a column to both tables, which SQLite cannot do twice.
SqliteSummary(s) ==
    IF s.tables /\ ~s.memory /\ ~s.shared
    THEN {[s EXCEPT !.memory = TRUE, !.shared = TRUE]} ELSE {}

BugSqliteCodingForgetsSummary(s) ==
    IF s.shared THEN {[s EXCEPT !.check = "coding", !.shared = FALSE]} ELSE {}

\* 0004 rebuilds shared_record again and copies content_summary over.
SqliteCoding(s) == IF s.shared THEN {[s EXCEPT !.check = "coding"]} ELSE {}

\* 0005 adds a column to account, once.
SqliteSharing(s) == IF s.tables /\ ~s.tenancy THEN {[s EXCEPT !.tenancy = TRUE]} ELSE {}

SqliteScript(v, s) ==
    CASE v = 1 -> SqliteInit(s)
      [] v = 2 -> SqliteRas(s)
      [] v = 3 -> SqliteSummary(s)
      [] v = 4 -> SqliteCoding(s)
      [] v = 5 -> SqliteSharing(s)

\* Postgres starts where SQLite is after 0002.
PostgresInit(s) == {IF s.tables THEN s ELSE [NoTables EXCEPT !.tables = TRUE, !.check = "ras"]}

\* ALTER TABLE IF EXISTS ... ADD COLUMN IF NOT EXISTS, on both tables.
PostgresSummary(s) == {[s EXCEPT !.memory = s.tables, !.shared = s.tables]}

BugPostgresCodingRebuilds(s) ==
    IF s.tables THEN {[s EXCEPT !.check = "coding", !.shared = FALSE]} ELSE {}

\* The CHECK is replaced in place.
PostgresCoding(s) == IF s.tables THEN {[s EXCEPT !.check = "coding"]} ELSE {}

PostgresSharing(s) == IF s.tables THEN {[s EXCEPT !.tenancy = TRUE]} ELSE {}

PostgresScript(v, s) ==
    CASE v = 1 -> PostgresInit(s)
      [] v = 2 -> PostgresSummary(s)
      [] v = 3 -> PostgresCoding(s)
      [] v = 4 -> PostgresSharing(s)

Script(v, s) == IF backend = "sqlite" THEN SqliteScript(v, s) ELSE PostgresScript(v, s)

\* What a recorded version promises of the schema.
Holds(v, s) ==
    LET step == IF backend = "sqlite" THEN v ELSE IF v = 1 THEN 2 ELSE v + 1
    IN  /\ s.tables
        /\ step = 2 => s.check \in {"ras", "coding"}
        /\ step = 3 => s.memory /\ s.shared
        /\ step = 4 => s.check = "coding"
        /\ step = 5 => s.tenancy

\* A store that was migrated up to a version by a runner that finished.
Migrated[n \in 0..Last] ==
    IF n = 0 THEN NoTables ELSE CHOOSE s \in Script(n, Migrated[n - 1]) : TRUE

Off == [pc |-> "off", seen |-> {}, at |-> 1]

Pcs == {"off", "connected", "next", "run", "record", "ready", "failed"}

Init ==
    /\ backend \in Backends
    /\ \E n \in 0..Last :
        /\ schema    = Migrated[n]
        /\ history   = [v \in Versions |-> IF v <= n THEN "original" ELSE "none"]
        /\ files     = [v \in Versions |-> "original"]
        /\ summaries \in {FALSE, schema.shared}
        /\ runner    = [r \in Runners |-> Off]
        /\ crashes   = 0
        /\ runs      = [v \in Versions |-> IF v <= n THEN 1 ELSE 0]

-----------------------------------------------------------------------------
(* apply_migrations.                                                        *)

Go(r, pc) == runner' = [runner EXCEPT ![r].pc = pc]

\* A repository that failed to migrate tries again on its next connection.
Connect(r) ==
    /\ runner[r].pc \in {"off", "failed"}
    /\ runner' = [runner EXCEPT ![r] = [Off EXCEPT !.pc = "connected"]]
    /\ UNCHANGED <<schema, history, files, summaries, crashes, runs>>

ReadHistory(r) ==
    /\ runner[r].pc = "connected"
    /\ runner' = [runner EXCEPT ![r].seen = {v \in Versions : history[v] # "none"},
                                ![r].pc = "next"]
    /\ UNCHANGED <<schema, history, files, summaries, crashes, runs>>

BugSkipNeverCompares(r) ==
    /\ runner[r].pc = "next" /\ runner[r].at \in runner[r].seen
    /\ runner' = [runner EXCEPT ![r].at = @ + 1]
    /\ UNCHANGED <<schema, history, files, summaries, crashes, runs>>

\* A version that was applied is skipped, or refused if its file has changed.
Skip(r) ==
    /\ runner[r].pc = "next" /\ runner[r].at \in runner[r].seen
    /\ IF history[runner[r].at] = files[runner[r].at]
       THEN runner' = [runner EXCEPT ![r].at = @ + 1]
       ELSE Go(r, "failed")
    /\ UNCHANGED <<schema, history, files, summaries, crashes, runs>>

Pending(r) ==
    /\ runner[r].pc = "next" /\ runner[r].at \in Versions \ runner[r].seen
    /\ Go(r, "run")
    /\ UNCHANGED <<schema, history, files, summaries, crashes, runs>>

Finish(r) ==
    /\ runner[r].pc = "next" /\ runner[r].at > Last
    /\ Go(r, "ready")
    /\ UNCHANGED <<schema, history, files, summaries, crashes, runs>>

\* A script that dropped the column has dropped what was in it.
Commit(v, s) ==
    /\ schema' = s
    /\ summaries' = (summaries /\ s.shared)
    /\ runs' = [runs EXCEPT ![v] = IF @ < 2 THEN @ + 1 ELSE @]

\* executescript(BEGIN; ...; COMMIT): the history row is not in this transaction.
RunScript(r) ==
    /\ backend = "sqlite" /\ runner[r].pc = "run"
    /\ LET v == runner[r].at
       IN  \/ \E s \in Script(v, schema) : Commit(v, s) /\ Go(r, "record")
           \/ /\ Script(v, schema) = {}
              /\ Go(r, "failed")
              /\ UNCHANGED <<schema, summaries, runs>>
    /\ UNCHANGED <<history, files, crashes>>

\* The version is the primary key of the history.
Record(r) ==
    /\ runner[r].pc = "record"
    /\ LET v == runner[r].at
       IN  IF history[v] = "none"
           THEN /\ history' = [history EXCEPT ![v] = files[v]]
                /\ runner' = [runner EXCEPT ![r].at = @ + 1, ![r].pc = "next"]
           ELSE Go(r, "failed") /\ UNCHANGED history
    /\ UNCHANGED <<schema, files, summaries, crashes, runs>>

BugRunAndRecordAnyway(r) ==
    /\ backend = "postgres" /\ runner[r].pc = "run"
    /\ LET v == runner[r].at
       IN  \E s \in PostgresScript(v, schema) :
              /\ Commit(v, s)
              /\ history' = [history EXCEPT ![v] = files[v]]
              /\ runner' = [runner EXCEPT ![r].at = @ + 1, ![r].pc = "next"]
    /\ UNCHANGED <<files, crashes>>

BugRunAndRecordApart(r) ==
    /\ backend = "postgres" /\ runner[r].pc = "run"
    /\ LET v == runner[r].at
       IN  \E s \in PostgresScript(v, schema) : Commit(v, s) /\ Go(r, "record")
    /\ UNCHANGED <<history, files, crashes>>

\* The Postgres runner: script and history row commit together or not at all.
RunAndRecord(r) ==
    /\ backend = "postgres" /\ runner[r].pc = "run"
    /\ LET v == runner[r].at
       IN  IF history[v] = "none" /\ Script(v, schema) # {}
           THEN /\ \E s \in Script(v, schema) : Commit(v, s)
                /\ history' = [history EXCEPT ![v] = files[v]]
                /\ runner' = [runner EXCEPT ![r].at = @ + 1, ![r].pc = "next"]
           ELSE Go(r, "failed") /\ UNCHANGED <<schema, summaries, runs, history>>
    /\ UNCHANGED <<files, crashes>>

\* The process stops; what was committed stays.
Crash(r) ==
    /\ runner[r].pc \in {"connected", "next", "run", "record"}
    /\ crashes < MaxCrashes(backend)
    /\ crashes' = crashes + 1
    /\ runner' = [runner EXCEPT ![r] = Off]
    /\ UNCHANGED <<schema, history, files, summaries, runs>>

\* The server is stopped in good order.
Stop(r) ==
    /\ runner[r].pc = "ready"
    /\ runner' = [runner EXCEPT ![r] = Off]
    /\ UNCHANGED <<schema, history, files, summaries, crashes, runs>>

\* A server that is up stores a shared record with a summary.
StoreSummary(r) ==
    /\ runner[r].pc = "ready" /\ schema.shared
    /\ summaries' = TRUE
    /\ UNCHANGED <<schema, history, files, runner, crashes, runs>>

\* A deploy replaces the files while no server runs.
EditFile(v) ==
    /\ MayEdit
    /\ \A r \in Runners : runner[r].pc \in {"off", "failed"}
    /\ files' = [files EXCEPT ![v] = "edited"]
    /\ UNCHANGED <<schema, history, summaries, runner, crashes, runs>>

Migrate(r) ==
    /\ r \in Active(backend)
    /\ UNCHANGED backend
    /\ \/ Connect(r) \/ ReadHistory(r) \/ Skip(r) \/ Pending(r) \/ Finish(r)
       \/ RunScript(r) \/ Record(r) \/ RunAndRecord(r)

Next ==
    \/ \E r \in Runners : Migrate(r)
    \/ /\ UNCHANGED backend
       /\ \/ \E r \in Runners : Crash(r) \/ Stop(r) \/ StoreSummary(r)
          \/ \E v \in Versions : EditFile(v)

\* A runner goes on, and a failed one is tried again by the next request.
Spec == Init /\ [][Next]_vars /\ \A r \in Runners : WF_vars(Migrate(r))

-----------------------------------------------------------------------------
(* Properties.                                                              *)

Connections == [pc : Pcs, seen : SUBSET Versions, at : 1..(Last + 1)]

TypeOK ==
    /\ backend   \in Backends
    /\ schema    \in Schemas
    /\ history   \in [Versions -> Checksums \cup {"none"}]
    /\ files     \in [Versions -> Checksums]
    /\ summaries \in BOOLEAN
    /\ runner    \in [Runners -> Connections]
    /\ crashes   \in 0..MaxCrashes(backend)
    /\ runs      \in [Versions -> 0..2]

\* "A schema change actually reaches a database": what the history records as
\* applied is in the schema, whoever else was migrating.
HistoryTellsSchema == \A v \in Versions : history[v] # "none" => Holds(v, schema)

\* "Each migration runs exactly once": no script changes the store twice.
EachRunsOnce == \A v \in Versions : runs[v] <= 1

\* No migration costs the store what a server wrote into it.
SummariesSurvive == [][summaries => summaries']_vars

\* A server that came up finds the whole schema, and no file that was edited
\* after it had been applied.
ReadyMeansCurrent ==
    \A r \in Runners : runner[r].pc = "ready" =>
        \A v \in Versions : Holds(v, schema) /\ history[v] = files[v]

\* "A failure leaves nothing half-applied": a script that has changed the store
\* is on record, or its runner is about to record it.
NothingHalfApplied ==
    \A v \in Versions : (runs[v] > 0 /\ history[v] = "none") =>
        \E r \in Runners : runner[r].pc = "record" /\ runner[r].at = v

\* All of it: a script runs once, and as a whole with its line in the history.
ScriptsRunOnceAndWhole == TypeOK /\ EachRunsOnce /\ NothingHalfApplied

\* Every runner comes up, whatever stopped or raced before.
StoreComesUp == \A r \in Runners : <>(runner[r].pc = "ready" \/ r \notin Active(backend))
=============================================================================
