----------------------- MODULE SchemaMigrationsProofs -----------------------
(***************************************************************************)
(* What TLAPS proves of SchemaMigrations: on Postgres for any number of    *)
(* runners and of stops, on SQLite for one runner that is not stopped.     *)
(* The SQLite runner commits a script and its history row apart, so more   *)
(* than that is not true of it.                                            *)
(***************************************************************************)
EXTENDS SchemaMigrations, TLAPS

\* The premise of the theorems: a SQLite store has one process that migrates it,
\* and it is not killed between a script and its history row.
AloneOnSqlite ==
    "sqlite" \in Backends =>
        MaxCrashes("sqlite") = 0 /\ \A r, s \in Active("sqlite") : r = s

-----------------------------------------------------------------------------
(* The inductive invariant.                                                 *)

\* The schema after version n of the chain; Postgres joins it after the second.
Stage(n) == IF backend = "sqlite" \/ n = 0 THEN n ELSE n + 1

StageSchema(k) ==
    [tables  |-> k >= 1,
     memory  |-> k >= 3,
     shared  |-> k >= 3,
     check   |-> IF k = 0 THEN "none" ELSE IF k = 1 THEN "base"
                 ELSE IF k <= 3 THEN "ras" ELSE "coding",
     tenancy |-> k >= 5]

SchemaAt(n) == StageSchema(Stage(n))

\* The versions on record are the first n, and k scripts have been committed.
Recorded(n) == \A v \in Versions : history[v] # "none" <=> v <= n
Applied(k)  == schema = SchemaAt(k) /\ \A v \in Versions : runs[v] = IF v <= k THEN 1 ELSE 0

\* A script is one ahead of the record only while its runner is about to record it.
Recording(r, n) == runner[r].pc = "record" /\ runner[r].at = n + 1

Chain ==
    \E n \in 0..Last :
        /\ Recorded(n)
        /\ \/ Applied(n) /\ \A r \in Runners : runner[r].pc # "record"
           \/ n < Last /\ Applied(n + 1) /\ \E r \in Runners : Recording(r, n)

\* What a runner has passed is on record under the file it saw.
Passed(r) ==
    runner[r].pc \in {"next", "run", "record", "ready"} =>
        \A v \in Versions : v < runner[r].at => history[v] = files[v]

\* What it read of the history was there.
SeenThere(r) ==
    runner[r].pc \in {"next", "run", "record"} => \A v \in runner[r].seen : history[v] # "none"

\* Alone, it has read all there is, but for what it has recorded itself.
Alone(r) ==
    backend = "sqlite" =>
        /\ runner[r].pc # "off" => r \in Active("sqlite")
        /\ runner[r].pc \in {"next", "run", "record"} =>
              \A v \in Versions : (history[v] # "none" /\ v >= runner[r].at) => v \in runner[r].seen
        /\ runner[r].pc \in {"run", "record"} =>
              runner[r].at \in Versions \ runner[r].seen

RunnerOK(r) ==
    /\ Passed(r) /\ SeenThere(r) /\ Alone(r)
    /\ runner[r].pc = "connected" => runner[r].at = 1
    /\ runner[r].pc = "run" => runner[r].at \in Versions
    /\ runner[r].pc = "record" => backend = "sqlite"
    /\ runner[r].pc = "ready" => runner[r].at = Last + 1

MigrationInv ==
    /\ TypeOK
    /\ Chain
    /\ \A r \in Runners : RunnerOK(r)
    /\ summaries => schema.shared

-----------------------------------------------------------------------------
(* The scripts.                                                             *)

Fields(s, tables, columns, check, tenancy) ==
    /\ s \in Schemas
    /\ s.tables = tables /\ s.memory = columns /\ s.shared = columns
    /\ s.check = check /\ s.tenancy = tenancy

\* Two schemas with the same fields are one.
LEMMA SameSchema ==
    ASSUME NEW s, NEW t, NEW a, NEW b, NEW c, NEW d,
           Fields(s, a, b, c, d), Fields(t, a, b, c, d)
    PROVE  s = t
BY DEF Fields, Schemas

\* The stages of the chain, field by field.
LEMMA Stages ==
    ASSUME NEW n \in Nat
    PROVE  /\ Stage(n) = 0 => Fields(SchemaAt(n), FALSE, FALSE, "none", FALSE)
           /\ Stage(n) = 1 => Fields(SchemaAt(n), TRUE, FALSE, "base", FALSE)
           /\ Stage(n) = 2 => Fields(SchemaAt(n), TRUE, FALSE, "ras", FALSE)
           /\ Stage(n) = 3 => Fields(SchemaAt(n), TRUE, TRUE, "ras", FALSE)
           /\ Stage(n) = 4 => Fields(SchemaAt(n), TRUE, TRUE, "coding", FALSE)
           /\ Stage(n) = 5 => Fields(SchemaAt(n), TRUE, TRUE, "coding", TRUE)
<1> DEFINE k == Stage(n)
<1> DEFINE s == StageSchema(k)
<1>1. s = SchemaAt(n)
  BY DEF SchemaAt
<1>2. k \in Nat
  BY DEF Stage
<1> HIDE DEF k
<1>3. /\ s \in Schemas
      /\ s.tables = (k >= 1) /\ s.memory = (k >= 3)
      /\ s.shared = (k >= 3) /\ s.tenancy = (k >= 5)
      /\ k = 0 => s.check = "none"
      /\ k = 1 => s.check = "base"
      /\ k \in {2, 3} => s.check = "ras"
      /\ k \in {4, 5} => s.check = "coding"
  BY <1>2 DEF Schemas, StageSchema
<1> HIDE DEF s
<1>4. k = 0 => Fields(s, FALSE, FALSE, "none", FALSE)
  BY <1>2, <1>3 DEF Fields, Schemas
<1>5. k = 1 => Fields(s, TRUE, FALSE, "base", FALSE)
  BY <1>2, <1>3 DEF Fields, Schemas
<1>6. k = 2 => Fields(s, TRUE, FALSE, "ras", FALSE)
  BY <1>2, <1>3 DEF Fields, Schemas
<1>7. k = 3 => Fields(s, TRUE, TRUE, "ras", FALSE)
  BY <1>2, <1>3 DEF Fields, Schemas
<1>8. k = 4 => Fields(s, TRUE, TRUE, "coding", FALSE)
  BY <1>2, <1>3 DEF Fields, Schemas
<1>9. k = 5 => Fields(s, TRUE, TRUE, "coding", TRUE)
  BY <1>2, <1>3 DEF Fields, Schemas
<1>10. QED
  BY <1>1, <1>4, <1>5, <1>6, <1>7, <1>8, <1>9 DEF k

\* What each script makes of the schema it is written for.
LEMMA SqliteScripts ==
    ASSUME NEW s, NEW t
    PROVE  /\ Fields(s, FALSE, FALSE, "none", FALSE) /\ Fields(t, TRUE, FALSE, "base", FALSE)
                => SqliteInit(s) = {t}
           /\ Fields(s, TRUE, FALSE, "base", FALSE) /\ Fields(t, TRUE, FALSE, "ras", FALSE)
                => SqliteRas(s) = {t}
           /\ Fields(s, TRUE, FALSE, "ras", FALSE) /\ Fields(t, TRUE, TRUE, "ras", FALSE)
                => SqliteSummary(s) = {t}
           /\ Fields(s, TRUE, TRUE, "ras", FALSE) /\ Fields(t, TRUE, TRUE, "coding", FALSE)
                => SqliteCoding(s) = {t}
           /\ Fields(s, TRUE, TRUE, "coding", FALSE) /\ Fields(t, TRUE, TRUE, "coding", TRUE)
                => SqliteSharing(s) = {t}
<1>1. ASSUME Fields(s, FALSE, FALSE, "none", FALSE), Fields(t, TRUE, FALSE, "base", FALSE)
      PROVE  SqliteInit(s) = {t}
  <2>1. Fields([NoTables EXCEPT !.tables = TRUE, !.check = "base"], TRUE, FALSE, "base", FALSE)
    BY DEF NoTables, Fields, Schemas
  <2>2. [NoTables EXCEPT !.tables = TRUE, !.check = "base"] = t
    BY <1>1, <2>1, SameSchema
  <2>3. ~s.tables
    BY <1>1 DEF Fields
  <2>4. QED
    BY <2>2, <2>3 DEF SqliteInit
<1>2. ASSUME Fields(s, TRUE, FALSE, "base", FALSE), Fields(t, TRUE, FALSE, "ras", FALSE)
      PROVE  SqliteRas(s) = {t}
  <2>1. Fields([s EXCEPT !.check = "ras", !.shared = FALSE], TRUE, FALSE, "ras", FALSE)
    BY <1>2 DEF Fields, Schemas
  <2>2. [s EXCEPT !.check = "ras", !.shared = FALSE] = t
    BY <1>2, <2>1, SameSchema
  <2>3. s.tables
    BY <1>2 DEF Fields
  <2>4. QED
    BY <2>2, <2>3 DEF SqliteRas
<1>3. ASSUME Fields(s, TRUE, FALSE, "ras", FALSE), Fields(t, TRUE, TRUE, "ras", FALSE)
      PROVE  SqliteSummary(s) = {t}
  <2>1. Fields([s EXCEPT !.memory = TRUE, !.shared = TRUE], TRUE, TRUE, "ras", FALSE)
    BY <1>3 DEF Fields, Schemas
  <2>2. [s EXCEPT !.memory = TRUE, !.shared = TRUE] = t
    BY <1>3, <2>1, SameSchema
  <2>3. s.tables /\ ~s.memory /\ ~s.shared
    BY <1>3 DEF Fields
  <2>4. QED
    BY <2>2, <2>3 DEF SqliteSummary
<1>4. ASSUME Fields(s, TRUE, TRUE, "ras", FALSE), Fields(t, TRUE, TRUE, "coding", FALSE)
      PROVE  SqliteCoding(s) = {t}
  <2>1. Fields([s EXCEPT !.check = "coding"], TRUE, TRUE, "coding", FALSE)
    BY <1>4 DEF Fields, Schemas
  <2>2. [s EXCEPT !.check = "coding"] = t
    BY <1>4, <2>1, SameSchema
  <2>3. s.shared
    BY <1>4 DEF Fields
  <2>4. QED
    BY <2>2, <2>3 DEF SqliteCoding
<1>5. ASSUME Fields(s, TRUE, TRUE, "coding", FALSE), Fields(t, TRUE, TRUE, "coding", TRUE)
      PROVE  SqliteSharing(s) = {t}
  <2>1. Fields([s EXCEPT !.tenancy = TRUE], TRUE, TRUE, "coding", TRUE)
    BY <1>5 DEF Fields, Schemas
  <2>2. [s EXCEPT !.tenancy = TRUE] = t
    BY <1>5, <2>1, SameSchema
  <2>3. s.tables /\ ~s.tenancy
    BY <1>5 DEF Fields
  <2>4. QED
    BY <2>2, <2>3 DEF SqliteSharing
<1>6. QED
  BY <1>1, <1>2, <1>3, <1>4, <1>5

\* The same of the Postgres scripts.
LEMMA PostgresScripts ==
    ASSUME NEW s, NEW t
    PROVE  /\ Fields(s, FALSE, FALSE, "none", FALSE) /\ Fields(t, TRUE, FALSE, "ras", FALSE)
                => PostgresInit(s) = {t}
           /\ Fields(s, TRUE, FALSE, "ras", FALSE) /\ Fields(t, TRUE, TRUE, "ras", FALSE)
                => PostgresSummary(s) = {t}
           /\ Fields(s, TRUE, TRUE, "ras", FALSE) /\ Fields(t, TRUE, TRUE, "coding", FALSE)
                => PostgresCoding(s) = {t}
           /\ Fields(s, TRUE, TRUE, "coding", FALSE) /\ Fields(t, TRUE, TRUE, "coding", TRUE)
                => PostgresSharing(s) = {t}
<1>1. ASSUME Fields(s, FALSE, FALSE, "none", FALSE), Fields(t, TRUE, FALSE, "ras", FALSE)
      PROVE  PostgresInit(s) = {t}
  <2>1. Fields([NoTables EXCEPT !.tables = TRUE, !.check = "ras"], TRUE, FALSE, "ras", FALSE)
    BY DEF NoTables, Fields, Schemas
  <2>2. [NoTables EXCEPT !.tables = TRUE, !.check = "ras"] = t
    BY <1>1, <2>1, SameSchema
  <2>3. ~s.tables
    BY <1>1 DEF Fields
  <2>4. QED
    BY <2>2, <2>3 DEF PostgresInit
<1>2. ASSUME Fields(s, TRUE, FALSE, "ras", FALSE), Fields(t, TRUE, TRUE, "ras", FALSE)
      PROVE  PostgresSummary(s) = {t}
  <2>1. Fields([s EXCEPT !.memory = s.tables, !.shared = s.tables], TRUE, TRUE, "ras", FALSE)
    BY <1>2 DEF Fields, Schemas
  <2>2. [s EXCEPT !.memory = s.tables, !.shared = s.tables] = t
    BY <1>2, <2>1, SameSchema
  <2>3. QED
    BY <2>2 DEF PostgresSummary
<1>3. ASSUME Fields(s, TRUE, TRUE, "ras", FALSE), Fields(t, TRUE, TRUE, "coding", FALSE)
      PROVE  PostgresCoding(s) = {t}
  <2>1. Fields([s EXCEPT !.check = "coding"], TRUE, TRUE, "coding", FALSE)
    BY <1>3 DEF Fields, Schemas
  <2>2. [s EXCEPT !.check = "coding"] = t
    BY <1>3, <2>1, SameSchema
  <2>3. s.tables
    BY <1>3 DEF Fields
  <2>4. QED
    BY <2>2, <2>3 DEF PostgresCoding
<1>4. ASSUME Fields(s, TRUE, TRUE, "coding", FALSE), Fields(t, TRUE, TRUE, "coding", TRUE)
      PROVE  PostgresSharing(s) = {t}
  <2>1. Fields([s EXCEPT !.tenancy = TRUE], TRUE, TRUE, "coding", TRUE)
    BY <1>4 DEF Fields, Schemas
  <2>2. [s EXCEPT !.tenancy = TRUE] = t
    BY <1>4, <2>1, SameSchema
  <2>3. s.tables
    BY <1>4 DEF Fields
  <2>4. QED
    BY <2>2, <2>3 DEF PostgresSharing
<1>5. QED
  BY <1>1, <1>2, <1>3, <1>4

\* Each script takes the schema of the version before to that of its own.
LEMMA ScriptStep ==
    ASSUME backend \in {"sqlite", "postgres"}, NEW n \in 0..Last, n < Last
    PROVE  Script(n + 1, SchemaAt(n)) = {SchemaAt(n + 1)}
<1> DEFINE S(k) == SchemaAt(k)
<1>1. CASE backend = "sqlite"
  <2>1. /\ Fields(S(0), FALSE, FALSE, "none", FALSE)
        /\ Fields(S(1), TRUE, FALSE, "base", FALSE)
        /\ Fields(S(2), TRUE, FALSE, "ras", FALSE)
        /\ Fields(S(3), TRUE, TRUE, "ras", FALSE)
        /\ Fields(S(4), TRUE, TRUE, "coding", FALSE)
        /\ Fields(S(5), TRUE, TRUE, "coding", TRUE)
    <3>1. /\ Stage(0) = 0 /\ Stage(1) = 1 /\ Stage(2) = 2
          /\ Stage(3) = 3 /\ Stage(4) = 4 /\ Stage(5) = 5
      BY <1>1 DEF Stage
    <3>2. QED
      BY <3>1, Stages DEF Fields
  <2> HIDE DEF S
  <2>2. /\ SqliteInit(S(0)) = {S(1)} /\ SqliteRas(S(1)) = {S(2)}
        /\ SqliteSummary(S(2)) = {S(3)} /\ SqliteCoding(S(3)) = {S(4)}
        /\ SqliteSharing(S(4)) = {S(5)}
    BY <2>1, SqliteScripts
  <2>3. /\ Script(1, S(0)) = {S(1)} /\ Script(2, S(1)) = {S(2)} /\ Script(3, S(2)) = {S(3)}
        /\ Script(4, S(3)) = {S(4)} /\ Script(5, S(4)) = {S(5)}
    BY <1>1, <2>2 DEF Script, SqliteScript
  <2>4. n \in {0, 1, 2, 3, 4}
    BY <1>1 DEF Last
  <2>5. QED
    BY <2>3, <2>4 DEF S
<1>2. CASE backend = "postgres"
  <2>0. backend # "sqlite"
    BY <1>2
  <2>1. /\ Fields(S(0), FALSE, FALSE, "none", FALSE)
        /\ Fields(S(1), TRUE, FALSE, "ras", FALSE)
        /\ Fields(S(2), TRUE, TRUE, "ras", FALSE)
        /\ Fields(S(3), TRUE, TRUE, "coding", FALSE)
        /\ Fields(S(4), TRUE, TRUE, "coding", TRUE)
    <3>1. /\ Stage(0) = 0 /\ Stage(1) = 2 /\ Stage(2) = 3
          /\ Stage(3) = 4 /\ Stage(4) = 5
      BY <2>0 DEF Stage
    <3>2. QED
      BY <3>1, Stages DEF Fields
  <2> HIDE DEF S
  <2>2. /\ PostgresInit(S(0)) = {S(1)} /\ PostgresSummary(S(1)) = {S(2)}
        /\ PostgresCoding(S(2)) = {S(3)} /\ PostgresSharing(S(3)) = {S(4)}
    BY <2>1, PostgresScripts
  <2>3. /\ Script(1, S(0)) = {S(1)} /\ Script(2, S(1)) = {S(2)}
        /\ Script(3, S(2)) = {S(3)} /\ Script(4, S(3)) = {S(4)}
    BY <2>0, <2>2 DEF Script, PostgresScript
  <2>4. n \in {0, 1, 2, 3}
    BY <2>0 DEF Last
  <2>5. QED
    BY <2>3, <2>4 DEF S
<1>3. QED
  BY <1>1, <1>2

\* No tables is stage 0.
LEMMA StartStage == SchemaAt(0) = NoTables
<1>1. Fields(NoTables, FALSE, FALSE, "none", FALSE)
  BY DEF Fields, NoTables, Schemas
<1>2. Fields(SchemaAt(0), FALSE, FALSE, "none", FALSE)
  BY Stages DEF Stage
<1>3. QED
  BY <1>1, <1>2, SameSchema

\* A store migrated up to version n has the schema of stage n.
LEMMA MigratedIs ==
    ASSUME backend \in {"sqlite", "postgres"}, NEW n \in 0..Last
    PROVE  Migrated[n] = SchemaAt(n)
<1> DEFINE Body(f) == [m \in 0..Last |->
                         IF m = 0 THEN NoTables ELSE CHOOSE s \in Script(m, f[m - 1]) : TRUE]
<1> DEFINE g == [m \in 0..Last |-> SchemaAt(m)]
<1>0. Last \in {4, 5}
  BY DEF Last
<1>1. ASSUME NEW m \in 0..Last, m # 0
      PROVE  (CHOOSE s \in Script(m, SchemaAt(m - 1)) : TRUE) = SchemaAt(m)
  <2>1. Script(m, SchemaAt(m - 1)) = {SchemaAt(m)}
    <3>1. m - 1 \in 0..Last /\ m - 1 < Last /\ (m - 1) + 1 = m
      BY <1>0, <1>1
    <3>2. Script((m - 1) + 1, SchemaAt(m - 1)) = {SchemaAt((m - 1) + 1)}
      BY <3>1, ScriptStep
    <3>3. QED
      BY <3>1, <3>2
  <2>2. QED
    BY <2>1
<1>2. g = Body(g)
  <2>1. ASSUME NEW m \in 0..Last
        PROVE  g[m] = IF m = 0 THEN NoTables ELSE CHOOSE s \in Script(m, g[m - 1]) : TRUE
    <3>1. CASE m = 0
      BY <3>1, StartStage
    <3>2. CASE m # 0
      <4>1. m - 1 \in 0..Last
        BY <3>2, <1>0
      <4>2. g[m - 1] = SchemaAt(m - 1) /\ g[m] = SchemaAt(m)
        BY <4>1
      <4>3. QED
        BY <1>1, <3>2, <4>2
    <3>3. QED
      BY <3>1, <3>2
  <2>2. QED
    BY <2>1
<1>3. Migrated = Body(Migrated)
  <2>1. Migrated = CHOOSE f : f = Body(f)
    BY DEF Migrated
  <2> HIDE DEF Body
  <2>2. QED
    BY <1>2, <2>1
<1>4. Migrated[0] = SchemaAt(0)
  BY <1>0, <1>3, StartStage
<1>5. ASSUME NEW m \in 0..Last, m # 0, Migrated[m - 1] = SchemaAt(m - 1)
      PROVE  Migrated[m] = SchemaAt(m)
  BY <1>1, <1>3, <1>5
<1> HIDE DEF Body
<1>6. Migrated[1] = SchemaAt(1)
  BY <1>0, <1>4, <1>5
<1>7. Migrated[2] = SchemaAt(2)
  BY <1>0, <1>5, <1>6
<1>8. Migrated[3] = SchemaAt(3)
  BY <1>0, <1>5, <1>7
<1>9. Migrated[4] = SchemaAt(4)
  BY <1>0, <1>5, <1>8
<1>10. Last = 5 => Migrated[5] = SchemaAt(5)
  BY <1>5, <1>9
<1>11. QED
  <2>1. n \in {0, 1, 2, 3, 4} \/ (n = 5 /\ Last = 5)
    BY <1>0
  <2>2. QED
    BY <2>1, <1>4, <1>6, <1>7, <1>8, <1>9, <1>10

\* The schema of a stage keeps the promise of every version up to it, and a
\* later stage has the summary columns if an earlier one has.
LEMMA StagesHold ==
    ASSUME backend \in {"sqlite", "postgres"}, NEW n \in 0..Last
    PROVE  /\ SchemaAt(n) \in Schemas
           /\ \A v \in Versions : v <= n => Holds(v, SchemaAt(n))
           /\ n < Last /\ SchemaAt(n).shared => SchemaAt(n + 1).shared
<1>1. /\ Stage(n) \in 0..5
      /\ n < Last => n + 1 \in Nat /\ Stage(n + 1) \in 0..5 /\ Stage(n + 1) > Stage(n)
  BY DEF Stage, Last
<1>2. ASSUME NEW m \in Nat, Stage(m) \in 0..5
      PROVE  /\ SchemaAt(m) \in Schemas
             /\ SchemaAt(m).shared <=> Stage(m) >= 3
             /\ SchemaAt(m).memory <=> Stage(m) >= 3
             /\ SchemaAt(m).tables <=> Stage(m) >= 1
             /\ SchemaAt(m).tenancy <=> Stage(m) >= 5
             /\ Stage(m) \in {2, 3} => SchemaAt(m).check = "ras"
             /\ Stage(m) \in {4, 5} => SchemaAt(m).check = "coding"
  <2>1. Stage(m) \in {0, 1, 2, 3, 4, 5}
    BY <1>2
  <2>2. CASE Stage(m) = 0
    <3>1. Fields(SchemaAt(m), FALSE, FALSE, "none", FALSE)
      BY <2>2, Stages
    <3>2. QED
      BY <3>1, <2>2 DEF Fields
  <2>3. CASE Stage(m) = 1
    <3>1. Fields(SchemaAt(m), TRUE, FALSE, "base", FALSE)
      BY <2>3, Stages
    <3>2. QED
      BY <3>1, <2>3 DEF Fields
  <2>4. CASE Stage(m) = 2
    <3>1. Fields(SchemaAt(m), TRUE, FALSE, "ras", FALSE)
      BY <2>4, Stages
    <3>2. QED
      BY <3>1, <2>4 DEF Fields
  <2>5. CASE Stage(m) = 3
    <3>1. Fields(SchemaAt(m), TRUE, TRUE, "ras", FALSE)
      BY <2>5, Stages
    <3>2. QED
      BY <3>1, <2>5 DEF Fields
  <2>6. CASE Stage(m) = 4
    <3>1. Fields(SchemaAt(m), TRUE, TRUE, "coding", FALSE)
      BY <2>6, Stages
    <3>2. QED
      BY <3>1, <2>6 DEF Fields
  <2>7. CASE Stage(m) = 5
    <3>1. Fields(SchemaAt(m), TRUE, TRUE, "coding", TRUE)
      BY <2>7, Stages
    <3>2. QED
      BY <3>1, <2>7 DEF Fields
  <2>8. QED
    BY <2>1, <2>2, <2>3, <2>4, <2>5, <2>6, <2>7
<1>3. ASSUME NEW v \in Versions, v <= n
      PROVE  Holds(v, SchemaAt(n))
  <2> DEFINE step == IF backend = "sqlite" THEN v ELSE IF v = 1 THEN 2 ELSE v + 1
  <2>1. step \in 1..5 /\ step <= Stage(n)
    BY <1>3 DEF Stage, Versions, Last
  <2> HIDE DEF step
  <2>2. /\ SchemaAt(n).tables
        /\ step = 2 => SchemaAt(n).check \in {"ras", "coding"}
        /\ step = 3 => SchemaAt(n).memory /\ SchemaAt(n).shared
        /\ step = 4 => SchemaAt(n).check = "coding"
        /\ step = 5 => SchemaAt(n).tenancy
    BY <1>1, <1>2, <2>1
  <2>3. QED
    BY <2>2 DEF Holds, step
<1>4. QED
  BY <1>1, <1>2, <1>3

-----------------------------------------------------------------------------
(* What a step does to the runners.                                         *)

Moved(r, pc, at, seen) ==
    /\ runner' \in [Runners -> Connections]
    /\ runner'[r].pc = pc /\ runner'[r].at = at /\ runner'[r].seen = seen
    /\ \A s \in Runners : s # r => runner'[s] = runner[s]

\* One connection is replaced, the others are left alone.
LEMMA Replaced ==
    ASSUME runner \in [Runners -> Connections], NEW r \in Runners, NEW w \in Connections,
           runner' = [runner EXCEPT ![r] = w]
    PROVE  Moved(r, w.pc, w.at, w.seen)
BY DEF Moved

\* Go moves the program counter alone.
LEMMA GoMoves ==
    ASSUME runner \in [Runners -> Connections], NEW r \in Runners, NEW pc \in Pcs, Go(r, pc)
    PROVE  Moved(r, pc, runner[r].at, runner[r].seen)
<1> DEFINE w == [runner[r] EXCEPT !.pc = pc]
<1>1. w \in Connections /\ w.pc = pc /\ w.at = runner[r].at /\ w.seen = runner[r].seen
  BY DEF Connections
<1>2. runner' = [runner EXCEPT ![r] = w]
  BY DEF Go
<1> HIDE DEF w
<1>3. QED
  BY <1>1, <1>2, Replaced

\* A connection that is switched off or made anew has seen nothing.
LEMMA OffMoves ==
    ASSUME runner \in [Runners -> Connections], NEW r \in Runners, NEW pc \in Pcs,
           runner' = [runner EXCEPT ![r] = [Off EXCEPT !.pc = pc]]
    PROVE  Moved(r, pc, 1, {})
<1> DEFINE w == [Off EXCEPT !.pc = pc]
<1>1. w \in Connections /\ w.pc = pc /\ w.at = 1 /\ w.seen = {}
  BY DEF Connections, Off, Last, Versions
<1> HIDE DEF w
<1>2. QED
  BY <1>1, Replaced DEF w

Advance(r) == runner' = [runner EXCEPT ![r].at = @ + 1, ![r].pc = "next"]

\* A runner that is done with a version turns to the next.
LEMMA AdvanceMoves ==
    ASSUME runner \in [Runners -> Connections], NEW r \in Runners,
           runner[r].at \in Versions, Advance(r)
    PROVE  Moved(r, "next", runner[r].at + 1, runner[r].seen)
<1> DEFINE u == [runner[r] EXCEPT !.at = runner[r].at + 1]
<1> DEFINE w == [u EXCEPT !.pc = "next"]
<1>1. u \in Connections /\ u.at = runner[r].at + 1 /\ u.seen = runner[r].seen
  BY DEF Connections, Last, Versions
<1>2. runner' = [runner EXCEPT ![r] = w]
  BY DEF Advance
<1> HIDE DEF u
<1>3. w \in Connections /\ w.pc = "next" /\ w.at = u.at /\ w.seen = u.seen
  BY <1>1 DEF Connections, Pcs
<1> HIDE DEF w
<1>4. QED
  BY <1>1, <1>2, <1>3, Replaced

-----------------------------------------------------------------------------
(* Steps that leave the store alone.                                        *)

StoreStays == UNCHANGED <<backend, schema, history, files, summaries, runs>>

\* The shape of the chain does not change with the backend given.
LEMMA SameShape ==
    ASSUME backend' = backend
    PROVE  /\ Versions' = Versions /\ Last' = Last /\ Connections' = Connections
           /\ \A k : SchemaAt(k)' = SchemaAt(k)
           /\ Last \in Nat /\ Versions = 1..Last
BY DEF Versions, Last, Connections, SchemaAt, Stage

\* What holds of a runner that did not move holds as long as the store stays.
LEMMA OthersStay ==
    ASSUME NEW s \in Runners, RunnerOK(s), runner'[s] = runner[s],
           UNCHANGED <<backend, history, files>>
    PROVE  RunnerOK(s)'
<1>1. Versions' = Versions /\ Last' = Last
  BY SameShape
<1>2. Passed(s)' /\ SeenThere(s)' /\ Alone(s)'
  BY <1>1 DEF RunnerOK, Passed, SeenThere, Alone
<1>3. QED
  BY <1>1, <1>2 DEF RunnerOK

\* A step of one runner that neither starts nor ends the recording of a version.
LEMMA QuietStep ==
    ASSUME MigrationInv, NEW r \in Runners, NEW pc, NEW at, NEW seen, Moved(r, pc, at, seen),
           runner[r].pc # "record", pc # "record",
           StoreStays, crashes' \in 0..MaxCrashes(backend), RunnerOK(r)'
    PROVE  MigrationInv'
<1>0. UNCHANGED <<backend, schema, history, files, summaries, runs>>
  BY DEF StoreStays
<1>1. /\ Versions' = Versions /\ Last' = Last /\ Connections' = Connections
      /\ \A k : SchemaAt(k)' = SchemaAt(k)
  BY <1>0, SameShape
<1>2. TypeOK'
  BY <1>0, <1>1 DEF MigrationInv, TypeOK, Moved
<1>3. Chain'
  <2>1. PICK n \in 0..Last :
          /\ Recorded(n)
          /\ \/ Applied(n) /\ \A s \in Runners : runner[s].pc # "record"
             \/ n < Last /\ Applied(n + 1) /\ \E s \in Runners : Recording(s, n)
    BY DEF MigrationInv, Chain
  <2>2. Recorded(n)'
    BY <1>0, <1>1, <2>1 DEF Recorded
  <2>3. \A k : Applied(k) => Applied(k)'
    BY <1>0, <1>1 DEF Applied
  <2>4. /\ \A s \in Runners : runner[s].pc # "record" => runner'[s].pc # "record"
        /\ \A s \in Runners : Recording(s, n) => Recording(s, n)'
    BY DEF Moved, Recording
  <2>5. QED
    BY <1>1, <2>1, <2>2, <2>3, <2>4 DEF Chain
<1>4. ASSUME NEW s \in Runners
      PROVE  RunnerOK(s)'
  <2>1. CASE s = r
    BY <2>1
  <2>2. CASE s # r
    <3>1. runner'[s] = runner[s] /\ RunnerOK(s)
      BY <2>2 DEF Moved, MigrationInv
    <3>2. QED
      BY <1>0, <3>1, OthersStay
  <2>3. QED
    BY <2>1, <2>2
<1>5. QED
  BY <1>0, <1>2, <1>3, <1>4 DEF MigrationInv

\* A runner that failed, or was stopped, is in no one's way.
LEMMA ResetStep ==
    ASSUME MigrationInv, NEW r \in Runners, NEW pc \in {"off", "failed"}, NEW at, NEW seen,
           Moved(r, pc, at, seen), runner[r].pc \notin {"off", "record"},
           StoreStays, crashes' \in 0..MaxCrashes(backend)
    PROVE  MigrationInv'
<1>1. RunnerOK(r) /\ backend' = backend
  BY DEF MigrationInv, StoreStays
<1>2. runner'[r].pc = pc
  BY DEF Moved
<1>3. Passed(r)' /\ SeenThere(r)'
  BY <1>2 DEF Passed, SeenThere
<1>4. Alone(r)'
  BY <1>1, <1>2 DEF RunnerOK, Alone
<1>5. RunnerOK(r)'
  BY <1>2, <1>3, <1>4 DEF RunnerOK
<1>6. QED
  BY <1>5, QuietStep

\* Connecting anew.
LEMMA ConnectKeeps ==
    ASSUME MigrationInv, NEW r \in Runners, r \in Active(backend), backend' = backend, Connect(r)
    PROVE  MigrationInv'
<1>1. Moved(r, "connected", 1, {})
  <2>1. "connected" \in Pcs /\ runner \in [Runners -> Connections]
    BY DEF Pcs, MigrationInv, TypeOK
  <2>2. QED
    BY <2>1, OffMoves DEF Connect
<1>2. StoreStays /\ crashes' \in 0..MaxCrashes(backend) /\ runner[r].pc # "record"
  BY DEF Connect, StoreStays, MigrationInv, TypeOK
<1>3. RunnerOK(r)'
  BY <1>1 DEF Moved, RunnerOK, Passed, SeenThere, Alone
<1>4. QED
  BY <1>1, <1>2, <1>3, QuietStep

\* The history is read once.
LEMMA ReadHistoryKeeps ==
    ASSUME MigrationInv, NEW r \in Runners, r \in Active(backend), backend' = backend,
           ReadHistory(r)
    PROVE  MigrationInv'
<1> DEFINE there == {v \in Versions : history[v] # "none"}
<1>1. Moved(r, "next", 1, there)
  <2>1. runner \in [Runners -> Connections] /\ runner[r].at = 1
    BY DEF MigrationInv, TypeOK, RunnerOK, ReadHistory
  <2> DEFINE u == [runner[r] EXCEPT !.seen = there]
  <2> DEFINE w == [u EXCEPT !.pc = "next"]
  <2>2. runner' = [runner EXCEPT ![r] = w]
    BY DEF ReadHistory
  <2>3. u \in Connections /\ u.at = 1 /\ u.seen = there
    BY <2>1 DEF Connections
  <2> HIDE DEF u
  <2>4. w \in Connections /\ w.pc = "next" /\ w.at = 1 /\ w.seen = there
    BY <2>3 DEF Connections, Pcs
  <2> HIDE DEF w, there
  <2>5. QED
    BY <2>1, <2>2, <2>4, Replaced
<1>2. /\ StoreStays /\ crashes' \in 0..MaxCrashes(backend)
      /\ runner[r].pc # "record" /\ history' = history
  BY DEF ReadHistory, StoreStays, MigrationInv, TypeOK
<1>3. RunnerOK(r)'
  <2>1. /\ runner'[r].pc = "next" /\ runner'[r].at = 1
        /\ runner'[r].seen = {v \in Versions : history[v] # "none"}
    BY <1>1 DEF Moved
  <2>2. Versions' = Versions /\ Versions = 1..Last /\ Last \in Nat
    BY SameShape
  <2>3. Passed(r)' /\ SeenThere(r)' /\ Alone(r)'
    BY <1>2, <2>1, <2>2 DEF Passed, SeenThere, Alone
  <2>4. QED
    BY <2>1, <2>3 DEF RunnerOK
<1>4. QED
  BY <1>1, <1>2, <1>3, QuietStep

\* A version on record is passed over, or its runner fails.
LEMMA SkipKeeps ==
    ASSUME MigrationInv, NEW r \in Runners, backend' = backend, Skip(r)
    PROVE  MigrationInv'
<1>0. /\ runner \in [Runners -> Connections] /\ runner[r] \in Connections
      /\ history \in [Versions -> Checksums \cup {"none"}]
      /\ RunnerOK(r) /\ runner[r].pc = "next" /\ runner[r].at \in runner[r].seen
  BY DEF MigrationInv, TypeOK, Skip
<1>1. StoreStays /\ crashes' \in 0..MaxCrashes(backend) /\ UNCHANGED <<history, files>>
  BY DEF Skip, StoreStays, MigrationInv, TypeOK
<1>2. runner[r].at \in Versions
  BY <1>0 DEF Connections
<1>3. CASE history[runner[r].at] = files[runner[r].at]
  <2>1. Moved(r, "next", runner[r].at + 1, runner[r].seen)
    <3>1. Advance(r)
      <4>1. runner' = [runner EXCEPT ![r].at = @ + 1]
        BY <1>3 DEF Skip
      <4> DEFINE u == [runner[r] EXCEPT !.at = runner[r].at + 1]
      <4> DEFINE w == [u EXCEPT !.pc = "next"]
      <4>2. u \in Connections /\ u.pc = "next"
        BY <1>0, <1>2 DEF Connections, Last, Versions
      <4>3. runner' = [runner EXCEPT ![r] = u]
        BY <4>1
      <4>4. u = w
        <5> HIDE DEF u
        <5>1. QED
          BY <4>2 DEF Connections
      <4>5. QED
        BY <4>3, <4>4 DEF Advance
    <3>2. QED
      BY <1>0, <1>2, <3>1, AdvanceMoves
  <2>2. RunnerOK(r)'
    <3>1. /\ runner'[r].pc = "next" /\ runner'[r].at = runner[r].at + 1
          /\ runner'[r].seen = runner[r].seen
      BY <2>1 DEF Moved
    <3>2. Versions' = Versions /\ Versions = 1..Last /\ Last \in Nat
      BY SameShape
    <3>3. Passed(r)' /\ SeenThere(r)' /\ Alone(r)'
      BY <1>0, <1>1, <1>2, <1>3, <3>1, <3>2 DEF RunnerOK, Passed, SeenThere, Alone
    <3>4. QED
      BY <3>1, <3>3 DEF RunnerOK
  <2>3. QED
    BY <1>0, <1>1, <2>1, <2>2, QuietStep
<1>4. CASE history[runner[r].at] # files[runner[r].at]
  <2>1. Moved(r, "failed", runner[r].at, runner[r].seen)
    BY <1>0, <1>4, GoMoves DEF Skip, Pcs
  <2>2. QED
    BY <1>0, <1>1, <2>1, ResetStep
<1>5. QED
  BY <1>3, <1>4

\* A version that is not on record is to be run.
LEMMA PendingKeeps ==
    ASSUME MigrationInv, NEW r \in Runners, backend' = backend, Pending(r)
    PROVE  MigrationInv'
<1>0. /\ runner \in [Runners -> Connections]
      /\ RunnerOK(r) /\ runner[r].pc = "next" /\ runner[r].at \in Versions \ runner[r].seen
  BY DEF MigrationInv, TypeOK, Pending
<1>1. StoreStays /\ crashes' \in 0..MaxCrashes(backend) /\ UNCHANGED <<history, files>>
  BY DEF Pending, StoreStays, MigrationInv, TypeOK
<1>2. Moved(r, "run", runner[r].at, runner[r].seen)
  BY <1>0, GoMoves DEF Pending, Pcs
<1>3. RunnerOK(r)'
  <2>1. /\ runner'[r].pc = "run" /\ runner'[r].at = runner[r].at
        /\ runner'[r].seen = runner[r].seen
    BY <1>2 DEF Moved
  <2>2. Versions' = Versions
    BY SameShape
  <2>3. Passed(r)' /\ SeenThere(r)' /\ Alone(r)'
    BY <1>0, <1>1, <2>1, <2>2 DEF RunnerOK, Passed, SeenThere, Alone
  <2>4. QED
    BY <1>0, <2>1, <2>2, <2>3 DEF RunnerOK
<1>4. QED
  BY <1>0, <1>1, <1>2, <1>3, QuietStep

\* Past the last version a runner is ready.
LEMMA FinishKeeps ==
    ASSUME MigrationInv, NEW r \in Runners, backend' = backend, Finish(r)
    PROVE  MigrationInv'
<1>0. /\ runner \in [Runners -> Connections] /\ runner[r] \in Connections
      /\ RunnerOK(r) /\ runner[r].pc = "next" /\ runner[r].at > Last
  BY DEF MigrationInv, TypeOK, Finish
<1>1. StoreStays /\ crashes' \in 0..MaxCrashes(backend) /\ UNCHANGED <<history, files>>
  BY DEF Finish, StoreStays, MigrationInv, TypeOK
<1>2. Moved(r, "ready", runner[r].at, runner[r].seen)
  BY <1>0, GoMoves DEF Finish, Pcs
<1>3. RunnerOK(r)'
  <2>1. /\ runner'[r].pc = "ready" /\ runner'[r].at = runner[r].at
        /\ runner'[r].seen = runner[r].seen
    BY <1>2 DEF Moved
  <2>2. Versions' = Versions /\ Last' = Last /\ Last \in Nat
    BY SameShape
  <2>3. Passed(r)' /\ SeenThere(r)' /\ Alone(r)'
    BY <1>0, <1>1, <2>1, <2>2 DEF RunnerOK, Passed, SeenThere, Alone
  <2>4. runner[r].at = Last + 1
    BY <1>0, <2>2 DEF Connections
  <2>5. QED
    BY <2>1, <2>2, <2>3, <2>4 DEF RunnerOK
<1>4. QED
  BY <1>0, <1>1, <1>2, <1>3, QuietStep

\* A runner that is stopped half-way had no script unrecorded: on Postgres there
\* is none, and on SQLite it is not stopped.
LEMMA CrashKeeps ==
    ASSUME AloneOnSqlite, MigrationInv, NEW r \in Runners, backend' = backend, Crash(r)
    PROVE  MigrationInv'
<1>0. /\ runner \in [Runners -> Connections]
      /\ RunnerOK(r) /\ runner[r].pc \in {"connected", "next", "run", "record"}
      /\ backend \in Backends /\ crashes \in 0..MaxCrashes(backend)
      /\ crashes < MaxCrashes(backend) /\ crashes' = crashes + 1
  BY DEF MigrationInv, TypeOK, Crash
<1>1. backend # "sqlite"
  BY <1>0 DEF AloneOnSqlite
<1>2. runner[r].pc # "record"
  BY <1>0, <1>1 DEF RunnerOK
<1>3. StoreStays
  BY DEF Crash, StoreStays
<1>4. MaxCrashes(backend) \in Nat
  BY <1>0, BoundAssumption
<1>5. Moved(r, "off", 1, {})
  <2>1. [Off EXCEPT !.pc = "off"] = Off
    BY DEF Off
  <2>2. "off" \in Pcs
    BY DEF Pcs
  <2>3. QED
    BY <1>0, <2>1, <2>2, OffMoves DEF Crash
<1>6. QED
  BY <1>0, <1>2, <1>3, <1>4, <1>5, ResetStep

\* A server that is stopped in good order had nothing to record.
LEMMA StopKeeps ==
    ASSUME MigrationInv, NEW r \in Runners, backend' = backend, Stop(r)
    PROVE  MigrationInv'
<1>1. /\ runner \in [Runners -> Connections] /\ runner[r].pc = "ready"
      /\ StoreStays /\ crashes' \in 0..MaxCrashes(backend)
  BY DEF MigrationInv, TypeOK, Stop, StoreStays
<1>2. Moved(r, "off", 1, {})
  <2>1. [Off EXCEPT !.pc = "off"] = Off
    BY DEF Off
  <2>2. "off" \in Pcs
    BY DEF Pcs
  <2>3. QED
    BY <1>1, <2>1, <2>2, OffMoves DEF Stop
<1>3. QED
  BY <1>1, <1>2, ResetStep

-----------------------------------------------------------------------------
(* Steps that change the store.                                             *)

\* A server stores a summary where the schema has a column for it.
LEMMA StoreSummaryKeeps ==
    ASSUME MigrationInv, NEW r \in Runners, backend' = backend, StoreSummary(r)
    PROVE  MigrationInv'
<1>0. /\ UNCHANGED <<backend, schema, history, files, runner, crashes, runs>>
      /\ schema.shared /\ summaries' = TRUE
  BY DEF StoreSummary
<1>1. /\ Versions' = Versions /\ Last' = Last /\ Connections' = Connections
      /\ \A k : SchemaAt(k)' = SchemaAt(k)
  BY <1>0, SameShape
<1>2. TypeOK'
  BY <1>0, <1>1 DEF MigrationInv, TypeOK
<1>3. Chain'
  BY <1>0, <1>1 DEF MigrationInv, Chain, Recorded, Applied, Recording
<1>4. \A s \in Runners : RunnerOK(s)'
  BY <1>0, OthersStay DEF MigrationInv
<1>5. (summaries => schema.shared)'
  BY <1>0
<1>6. QED
  BY <1>2, <1>3, <1>4, <1>5 DEF MigrationInv

\* A deploy replaces a file while no runner is under way.
LEMMA EditFileKeeps ==
    ASSUME MigrationInv, NEW v \in Versions, backend' = backend, EditFile(v)
    PROVE  MigrationInv'
<1>0. /\ UNCHANGED <<backend, schema, history, summaries, runner, crashes, runs>>
      /\ files' = [files EXCEPT ![v] = "edited"]
      /\ \A r \in Runners : runner[r].pc \in {"off", "failed"}
  BY DEF EditFile
<1>1. /\ Versions' = Versions /\ Last' = Last /\ Connections' = Connections
      /\ \A k : SchemaAt(k)' = SchemaAt(k)
  BY <1>0, SameShape
<1>2. TypeOK'
  BY <1>0, <1>1 DEF MigrationInv, TypeOK, Checksums
<1>3. Chain'
  BY <1>0, <1>1 DEF MigrationInv, Chain, Recorded, Applied, Recording
<1>4. ASSUME NEW s \in Runners
      PROVE  RunnerOK(s)'
  <2>1. RunnerOK(s) /\ runner'[s] = runner[s] /\ runner[s].pc \in {"off", "failed"}
    BY <1>0 DEF MigrationInv
  <2>2. Passed(s)' /\ SeenThere(s)' /\ Alone(s)'
    BY <1>0, <1>1, <2>1 DEF RunnerOK, Passed, SeenThere, Alone
  <2>3. QED
    BY <1>0, <1>1, <2>1, <2>2 DEF RunnerOK
<1>5. QED
  BY <1>0, <1>2, <1>3, <1>4 DEF MigrationInv

\* A runner turns to a version when all before it are on record: if the version
\* itself is not, it is the next of the chain.
LEMMA Turn ==
    ASSUME MigrationInv, NEW r \in Runners, runner[r].pc \in {"run", "record"},
           runner[r].at \in Versions, history[runner[r].at] = "none",
           NEW n \in 0..Last, Recorded(n)
    PROVE  runner[r].at = n + 1 /\ n < Last
<1>1. Versions = 1..Last /\ Last \in Nat
  BY DEF Versions, Last
<1>2. \A v \in Versions : v < runner[r].at => history[v] # "none"
  BY DEF MigrationInv, RunnerOK, Passed, TypeOK, Checksums
<1>3. ~(runner[r].at <= n)
  BY DEF Recorded
<1>4. ~(n + 1 < runner[r].at)
  <2>1. SUFFICES ASSUME n + 1 < runner[r].at PROVE FALSE
    OBVIOUS
  <2>2. n + 1 \in Versions /\ history[n + 1] # "none"
    BY <1>1, <1>2, <2>1
  <2>3. QED
    BY <2>2 DEF Recorded
<1>5. QED
  BY <1>1, <1>3, <1>4

\* Committing the next script of the chain.
LEMMA CommitApplies ==
    ASSUME MigrationInv, NEW n \in 0..Last, n < Last, Applied(n), backend' = backend,
           Commit(n + 1, SchemaAt(n + 1))
    PROVE  /\ Applied(n + 1)'
           /\ schema' \in Schemas /\ runs' \in [Versions -> 0..2] /\ summaries' \in BOOLEAN
           /\ summaries' => schema'.shared
           /\ summaries => summaries'
<1>0. backend \in {"sqlite", "postgres"}
  BY BackendAssumption DEF MigrationInv, TypeOK
<1>1. /\ Versions' = Versions /\ Versions = 1..Last /\ Last \in Nat
      /\ \A k : SchemaAt(k)' = SchemaAt(k)
  BY SameShape
<1>2. n + 1 \in 0..Last /\ n + 1 \in Versions
  BY <1>1
<1>3. /\ schema' = SchemaAt(n + 1) /\ summaries' = (summaries /\ SchemaAt(n + 1).shared)
      /\ runs' = [runs EXCEPT ![n + 1] = IF @ < 2 THEN @ + 1 ELSE @]
  BY DEF Commit
<1>4. /\ runs \in [Versions -> 0..2] /\ summaries \in BOOLEAN
      /\ schema = SchemaAt(n) /\ (summaries => schema.shared)
      /\ \A v \in Versions : runs[v] = IF v <= n THEN 1 ELSE 0
  BY DEF MigrationInv, TypeOK, Applied
<1>5. SchemaAt(n + 1) \in Schemas /\ (SchemaAt(n).shared => SchemaAt(n + 1).shared)
  BY <1>0, <1>2, StagesHold
<1>6. runs' \in [Versions -> 0..2] /\ \A v \in Versions : runs'[v] = IF v <= n + 1 THEN 1 ELSE 0
  BY <1>1, <1>2, <1>3, <1>4
<1>7. Applied(n + 1)'
  BY <1>1, <1>3, <1>6 DEF Applied
<1>8. summaries' \in BOOLEAN
  BY <1>3
<1>9. summaries' => schema'.shared
  BY <1>3, Zenon
<1>10. summaries => summaries'
  <2>1. summaries => SchemaAt(n).shared
    BY <1>4, Zenon
  <2>2. QED
    BY <1>3, <1>5, <2>1, Zenon
<1>11. schema' \in Schemas
  BY <1>3, <1>5
<1>12. QED
  BY <1>6, <1>7, <1>8, <1>9, <1>10, <1>11

\* The SQLite runner commits the script of the version after those on record.
LEMMA RunScriptKeeps ==
    ASSUME AloneOnSqlite, MigrationInv, NEW r \in Runners, backend' = backend, RunScript(r)
    PROVE  MigrationInv' /\ (summaries => summaries')
<1>0. /\ backend = "sqlite" /\ backend \in {"sqlite", "postgres"}
      /\ runner[r].pc = "run" /\ UNCHANGED <<history, files, crashes>>
      /\ runner \in [Runners -> Connections] /\ RunnerOK(r)
      /\ backend \in Backends
  BY BackendAssumption DEF RunScript, MigrationInv, TypeOK
<1>1. /\ Versions' = Versions /\ Last' = Last /\ Connections' = Connections
      /\ Versions = 1..Last /\ Last \in Nat
  BY SameShape
<1>2. \A s \in Runners : runner[s].pc # "off" => s = r
  <2>1. \A s \in Runners : runner[s].pc # "off" => s \in Active("sqlite")
    BY <1>0 DEF MigrationInv, RunnerOK, Alone
  <2>2. QED
    BY <1>0, <2>1 DEF AloneOnSqlite
<1>3. /\ runner[r].at \in Versions /\ history[runner[r].at] = "none"
  <2>1. runner[r].at \in Versions \ runner[r].seen
    BY <1>0 DEF RunnerOK, Alone
  <2>2. runner[r].at >= runner[r].at
    BY <1>1, <2>1
  <2>3. QED
    BY <1>0, <2>1, <2>2 DEF RunnerOK, Alone
<1>4. PICK n \in 0..Last :
        /\ Recorded(n)
        /\ \/ Applied(n) /\ \A s \in Runners : runner[s].pc # "record"
           \/ n < Last /\ Applied(n + 1) /\ \E s \in Runners : Recording(s, n)
  BY DEF MigrationInv, Chain
<1>5. Applied(n)
  <2>1. ASSUME NEW s \in Runners
        PROVE  runner[s].pc # "record"
    <3>1. runner[s].pc = "record" => s = r
      BY <1>2
    <3>2. QED
      BY <1>0, <3>1
  <2>2. QED
    BY <1>4, <2>1 DEF Recording
<1>6. runner[r].at = n + 1 /\ n < Last
  BY <1>0, <1>3, <1>4, Turn
<1>7. Script(n + 1, schema) = {SchemaAt(n + 1)}
  BY <1>0, <1>5, <1>6, ScriptStep DEF Applied
<1>8. Commit(n + 1, SchemaAt(n + 1)) /\ Go(r, "record")
  <2>1. \/ \E s \in Script(n + 1, schema) : Commit(n + 1, s) /\ Go(r, "record")
        \/ Script(n + 1, schema) = {}
    BY <1>6 DEF RunScript
  <2>2. QED
    BY <1>7, <2>1
<1>9. Moved(r, "record", runner[r].at, runner[r].seen)
  BY <1>0, <1>8, GoMoves DEF Pcs
<1>10. /\ Applied(n + 1)'
       /\ schema' \in Schemas /\ runs' \in [Versions -> 0..2] /\ summaries' \in BOOLEAN
       /\ summaries' => schema'.shared
       /\ summaries => summaries'
  BY <1>5, <1>6, <1>8, CommitApplies
<1>11. TypeOK'
  BY <1>0, <1>1, <1>9, <1>10 DEF MigrationInv, TypeOK, Moved
<1>12. Chain'
  <2>1. Recorded(n)'
    BY <1>0, <1>1, <1>4 DEF Recorded
  <2>2. Recording(r, n)'
    BY <1>6, <1>9 DEF Moved, Recording
  <2>3. QED
    BY <1>1, <1>6, <1>10, <2>1, <2>2 DEF Chain
<1>13. ASSUME NEW s \in Runners
       PROVE  RunnerOK(s)'
  <2>1. CASE s = r
    <3>1. /\ runner'[r].pc = "record" /\ runner'[r].at = runner[r].at
          /\ runner'[r].seen = runner[r].seen
      BY <1>9 DEF Moved
    <3>2. Passed(r)' /\ SeenThere(r)' /\ Alone(r)'
      BY <1>0, <1>1, <3>1 DEF RunnerOK, Passed, SeenThere, Alone
    <3>3. QED
      BY <1>0, <2>1, <3>1, <3>2 DEF RunnerOK
  <2>2. CASE s # r
    BY <1>0, <1>9, <2>2, OthersStay DEF Moved, MigrationInv
  <2>3. QED
    BY <2>1, <2>2
<1>14. QED
  BY <1>10, <1>11, <1>12, <1>13 DEF MigrationInv

\* The history after one more version is recorded.
LEMMA RecordsNext ==
    ASSUME MigrationInv, backend' = backend, NEW n \in 0..Last, n < Last, Recorded(n),
           history' = [history EXCEPT ![n + 1] = files[n + 1]]
    PROVE  /\ Recorded(n + 1)'
           /\ history' \in [Versions -> Checksums \cup {"none"}]
           /\ history'[n + 1] = files[n + 1]
           /\ \A v \in Versions : history[v] # "none" => history'[v] = history[v]
<1>1. Versions' = Versions /\ Versions = 1..Last /\ Last \in Nat
  BY SameShape
<1>2. /\ n + 1 \in Versions /\ history \in [Versions -> Checksums \cup {"none"}]
      /\ files[n + 1] \in Checksums
  BY <1>1 DEF MigrationInv, TypeOK
<1>3. files[n + 1] # "none" /\ history[n + 1] = "none"
  BY <1>1, <1>2 DEF Checksums, Recorded
<1>4. Recorded(n + 1)'
  BY <1>1, <1>2, <1>3 DEF Recorded
<1>5. QED
  BY <1>1, <1>2, <1>3, <1>4

\* What was recorded stays recorded: the runners that did not move are as before.
LEMMA OthersAgree ==
    ASSUME MigrationInv, NEW s \in Runners, RunnerOK(s), runner'[s] = runner[s],
           backend' = backend, files' = files,
           \A v \in Versions : history[v] # "none" => history'[v] = history[v],
           backend = "sqlite" => runner[s].pc = "off"
    PROVE  RunnerOK(s)'
<1>1. Versions' = Versions /\ Last' = Last
  BY SameShape
<1>2. files \in [Versions -> Checksums] /\ runner[s] \in Connections
  BY DEF MigrationInv, TypeOK
<1>3. Passed(s)'
  BY <1>1, <1>2 DEF RunnerOK, Passed, Checksums
<1>4. SeenThere(s)'
  BY <1>1, <1>2 DEF RunnerOK, SeenThere, Connections
<1>5. Alone(s)'
  BY <1>1 DEF Alone
<1>6. QED
  BY <1>1, <1>3, <1>4, <1>5 DEF RunnerOK

\* The SQLite runner that has committed a script puts it on record.
LEMMA RecordKeeps ==
    ASSUME AloneOnSqlite, MigrationInv, NEW r \in Runners, backend' = backend, Record(r)
    PROVE  MigrationInv'
<1>0. /\ runner[r].pc = "record" /\ UNCHANGED <<schema, files, summaries, crashes, runs>>
      /\ runner \in [Runners -> Connections] /\ RunnerOK(r)
      /\ backend = "sqlite" /\ backend \in Backends
  BY DEF Record, MigrationInv, TypeOK, RunnerOK
<1>1. /\ Versions' = Versions /\ Last' = Last /\ Connections' = Connections
      /\ Versions = 1..Last /\ Last \in Nat /\ \A k : SchemaAt(k)' = SchemaAt(k)
  BY SameShape
<1>2. \A s \in Runners : runner[s].pc # "off" => s = r
  <2>1. \A s \in Runners : runner[s].pc # "off" => s \in Active("sqlite")
    BY <1>0 DEF MigrationInv, RunnerOK, Alone
  <2>2. QED
    BY <1>0, <2>1 DEF AloneOnSqlite
<1>3. PICK n \in 0..Last :
        /\ Recorded(n)
        /\ \/ Applied(n) /\ \A s \in Runners : runner[s].pc # "record"
           \/ n < Last /\ Applied(n + 1) /\ \E s \in Runners : Recording(s, n)
  BY DEF MigrationInv, Chain
<1>4. n < Last /\ Applied(n + 1) /\ runner[r].at = n + 1
  <2>1. PICK s \in Runners : Recording(s, n)
    BY <1>0, <1>3
  <2>2. s = r
    BY <1>2, <2>1 DEF Recording
  <2>3. QED
    BY <1>0, <1>3, <2>1, <2>2 DEF Recording
<1>5. n + 1 \in Versions /\ history[n + 1] = "none"
  BY <1>1, <1>3, <1>4 DEF Recorded
<1>6. history' = [history EXCEPT ![n + 1] = files[n + 1]] /\ Advance(r)
  BY <1>4, <1>5 DEF Record, Advance
<1>7. Moved(r, "next", n + 2, runner[r].seen)
  <2>1. Moved(r, "next", runner[r].at + 1, runner[r].seen)
    BY <1>0, <1>4, <1>5, <1>6, AdvanceMoves
  <2>2. runner[r].at + 1 = n + 2
    BY <1>4
  <2>3. QED
    BY <2>1, <2>2
<1>8. /\ Recorded(n + 1)'
      /\ history' \in [Versions -> Checksums \cup {"none"}]
      /\ history'[n + 1] = files[n + 1]
      /\ \A v \in Versions : history[v] # "none" => history'[v] = history[v]
  BY <1>3, <1>4, <1>6, RecordsNext
<1>9. TypeOK'
  BY <1>0, <1>1, <1>7, <1>8 DEF MigrationInv, TypeOK, Moved
<1>10. Chain'
  <2>1. Applied(n + 1)'
    BY <1>0, <1>1, <1>4 DEF Applied
  <2>2. ASSUME NEW s \in Runners
        PROVE  runner'[s].pc # "record"
    <3>1. CASE s = r
      BY <1>7, <3>1 DEF Moved
    <3>2. CASE s # r
      BY <1>2, <1>7, <3>2 DEF Moved
    <3>3. QED
      BY <3>1, <3>2
  <2>3. n + 1 \in 0..Last'
    BY <1>1, <1>4
  <2>4. QED
    BY <1>8, <2>1, <2>2, <2>3 DEF Chain
<1>11. ASSUME NEW s \in Runners
       PROVE  RunnerOK(s)'
  <2>1. CASE s = r
    <3>1. /\ runner'[r].pc = "next" /\ runner'[r].at = n + 2
          /\ runner'[r].seen = runner[r].seen
      BY <1>7 DEF Moved
    <3>2. Passed(r)'
      <4>1. \A v \in Versions : v < n + 1 => history[v] = files[v] /\ history[v] # "none"
        BY <1>0, <1>1, <1>3, <1>4 DEF RunnerOK, Passed, Recorded
      <4>2. \A v \in Versions : v < n + 2 => history'[v] = files[v]
        BY <1>1, <1>8, <4>1
      <4>3. QED
        BY <1>0, <1>1, <3>1, <4>2 DEF Passed
    <3>3. SeenThere(r)'
      <4>1. runner[r].seen \subseteq Versions /\ \A v \in runner[r].seen : history[v] # "none"
        BY <1>0 DEF Connections, RunnerOK, SeenThere
      <4>2. QED
        BY <1>8, <3>1, <4>1 DEF SeenThere
    <3>4. Alone(r)'
      <4>1. \A v \in Versions : history'[v] # "none" => v <= n + 1
        BY <1>1, <1>8 DEF Recorded
      <4>2. r \in Active("sqlite")
        BY <1>0 DEF RunnerOK, Alone
      <4>3. QED
        BY <1>1, <3>1, <4>1, <4>2 DEF Alone
    <3>5. QED
      BY <2>1, <3>1, <3>2, <3>3, <3>4 DEF RunnerOK
  <2>2. CASE s # r
    <3>1. runner[s].pc = "off" /\ runner'[s] = runner[s] /\ RunnerOK(s)
      BY <1>2, <1>7, <2>2 DEF Moved, MigrationInv
    <3>2. QED
      BY <1>0, <1>8, <3>1, OthersAgree
  <2>3. QED
    BY <2>1, <2>2
<1>12. QED
  BY <1>0, <1>9, <1>10, <1>11 DEF MigrationInv

\* The Postgres runner commits a script and its record together, or fails.
LEMMA RunAndRecordKeeps ==
    ASSUME MigrationInv, NEW r \in Runners, backend' = backend, RunAndRecord(r)
    PROVE  MigrationInv' /\ (summaries => summaries')
<1>0. /\ backend = "postgres" /\ backend \in {"sqlite", "postgres"} /\ backend # "sqlite"
      /\ runner[r].pc = "run" /\ UNCHANGED <<files, crashes>>
      /\ runner \in [Runners -> Connections] /\ RunnerOK(r)
      /\ runner[r].at \in Versions
  BY BackendAssumption DEF RunAndRecord, MigrationInv, TypeOK, RunnerOK
<1>1. /\ Versions' = Versions /\ Last' = Last /\ Connections' = Connections
      /\ Versions = 1..Last /\ Last \in Nat /\ \A k : SchemaAt(k)' = SchemaAt(k)
  BY SameShape
<1>2. \A s \in Runners : runner[s].pc # "record"
  BY <1>0 DEF MigrationInv, RunnerOK
<1>3. CASE /\ Go(r, "failed") /\ UNCHANGED <<schema, summaries, runs, history>>
  <2>1. Moved(r, "failed", runner[r].at, runner[r].seen)
    BY <1>0, <1>3, GoMoves DEF Pcs
  <2>2. StoreStays /\ crashes' \in 0..MaxCrashes(backend)
    BY <1>0, <1>3 DEF StoreStays, MigrationInv, TypeOK
  <2>3. QED
    BY <1>0, <1>3, <2>1, <2>2, ResetStep
<1>4. CASE /\ history[runner[r].at] = "none"
           /\ \E s \in Script(runner[r].at, schema) : Commit(runner[r].at, s)
           /\ history' = [history EXCEPT ![runner[r].at] = files[runner[r].at]]
           /\ Advance(r)
  <2>1. PICK n \in 0..Last : Recorded(n) /\ Applied(n)
    BY <1>2 DEF MigrationInv, Chain, Recording
  <2>2. runner[r].at = n + 1 /\ n < Last
    BY <1>0, <1>4, <2>1, Turn
  <2>3. Commit(n + 1, SchemaAt(n + 1))
    <3>1. Script(n + 1, schema) = {SchemaAt(n + 1)}
      BY <1>0, <2>1, <2>2, ScriptStep DEF Applied
    <3>2. QED
      BY <1>4, <2>2, <3>1
  <2>4. /\ Applied(n + 1)'
        /\ schema' \in Schemas /\ runs' \in [Versions -> 0..2] /\ summaries' \in BOOLEAN
        /\ summaries' => schema'.shared
        /\ summaries => summaries'
    BY <2>1, <2>2, <2>3, CommitApplies
  <2>5. /\ Recorded(n + 1)'
        /\ history' \in [Versions -> Checksums \cup {"none"}]
        /\ history'[n + 1] = files[n + 1]
        /\ \A v \in Versions : history[v] # "none" => history'[v] = history[v]
    BY <1>4, <2>1, <2>2, RecordsNext
  <2>6. Moved(r, "next", n + 2, runner[r].seen)
    <3>1. Moved(r, "next", runner[r].at + 1, runner[r].seen)
      BY <1>0, <1>4, AdvanceMoves
    <3>2. runner[r].at + 1 = n + 2
      BY <2>2
    <3>3. QED
      BY <3>1, <3>2
  <2>7. TypeOK'
    BY <1>0, <1>1, <2>4, <2>5, <2>6 DEF MigrationInv, TypeOK, Moved
  <2>8. Chain'
    <3>1. \A s \in Runners : runner'[s].pc # "record"
      BY <1>2, <2>6 DEF Moved
    <3>2. n + 1 \in 0..Last'
      BY <1>1, <2>2
    <3>3. QED
      BY <2>4, <2>5, <3>1, <3>2 DEF Chain
  <2>9. ASSUME NEW s \in Runners
        PROVE  RunnerOK(s)'
    <3>1. CASE s = r
      <4>1. /\ runner'[r].pc = "next" /\ runner'[r].at = n + 2
            /\ runner'[r].seen = runner[r].seen
        BY <2>6 DEF Moved
      <4>2. Passed(r)'
        <5>1. \A v \in Versions : v < n + 1 => history[v] = files[v] /\ history[v] # "none"
          BY <1>0, <1>1, <2>1, <2>2 DEF RunnerOK, Passed, Recorded
        <5>2. \A v \in Versions : v < n + 2 => history'[v] = files[v]
          BY <1>1, <2>5, <5>1
        <5>3. QED
          BY <1>0, <1>1, <4>1, <5>2 DEF Passed
      <4>3. SeenThere(r)'
        <5>1. runner[r].seen \subseteq Versions /\ \A v \in runner[r].seen : history[v] # "none"
          BY <1>0 DEF Connections, RunnerOK, SeenThere
        <5>2. QED
          BY <2>5, <4>1, <5>1 DEF SeenThere
      <4>4. Alone(r)'
        BY <1>0 DEF Alone
      <4>5. QED
        BY <3>1, <4>1, <4>2, <4>3, <4>4 DEF RunnerOK
    <3>2. CASE s # r
      <4>1. runner'[s] = runner[s] /\ RunnerOK(s)
        BY <2>6, <3>2 DEF Moved, MigrationInv
      <4>2. QED
        BY <1>0, <2>5, <4>1, OthersAgree
    <3>3. QED
      BY <3>1, <3>2
  <2>10. QED
    BY <2>4, <2>7, <2>8, <2>9 DEF MigrationInv
<1>5. QED
  BY <1>3, <1>4 DEF RunAndRecord, Advance

-----------------------------------------------------------------------------
(* The theorems.                                                            *)

\* A store that was migrated up to some version, and no runner yet.
LEMMA InitInv == Init => MigrationInv
<1> SUFFICES ASSUME Init PROVE MigrationInv
  OBVIOUS
<1>0. /\ backend \in Backends /\ backend \in {"sqlite", "postgres"}
      /\ MaxCrashes(backend) \in Nat /\ Versions = 1..Last /\ Last \in Nat
  BY BackendAssumption, BoundAssumption DEF Init, Versions, Last
<1>1. PICK n \in 0..Last :
        /\ schema    = Migrated[n]
        /\ history   = [v \in Versions |-> IF v <= n THEN "original" ELSE "none"]
        /\ files     = [v \in Versions |-> "original"]
        /\ summaries \in {FALSE, schema.shared}
        /\ runner    = [r \in Runners |-> Off]
        /\ crashes   = 0
        /\ runs      = [v \in Versions |-> IF v <= n THEN 1 ELSE 0]
  BY DEF Init
<1>2. schema = SchemaAt(n) /\ schema \in Schemas
  BY <1>0, <1>1, MigratedIs, StagesHold
<1>3. \A r \in Runners : runner[r] = Off /\ runner[r].pc = "off"
  BY <1>1 DEF Off
<1>4. runner \in [Runners -> Connections]
  <2>1. Off \in Connections
    BY <1>0 DEF Off, Connections, Pcs
  <2>2. QED
    BY <1>1, <2>1
<1>5. summaries \in BOOLEAN /\ (summaries => schema.shared)
  <2>1. schema.shared \in BOOLEAN
    BY <1>2 DEF Schemas
  <2>2. summaries = FALSE \/ summaries = schema.shared
    BY <1>1
  <2>3. QED
    BY <2>1, <2>2
<1>6. TypeOK
  <2>1. /\ history \in [Versions -> Checksums \cup {"none"}]
        /\ files \in [Versions -> Checksums]
        /\ runs \in [Versions -> 0..2] /\ crashes \in 0..MaxCrashes(backend)
    BY <1>0, <1>1 DEF Checksums
  <2>2. QED
    BY <1>0, <1>2, <1>4, <1>5, <2>1 DEF TypeOK
<1>7. Chain
  <2>1. Recorded(n)
    BY <1>1 DEF Recorded
  <2>2. Applied(n)
    BY <1>1, <1>2 DEF Applied
  <2>3. \A r \in Runners : runner[r].pc # "record"
    BY <1>3
  <2>4. QED
    BY <2>1, <2>2, <2>3 DEF Chain
<1>8. ASSUME NEW r \in Runners
      PROVE  RunnerOK(r)
  <2>1. runner[r].pc = "off"
    BY <1>3
  <2>2. Passed(r) /\ SeenThere(r) /\ Alone(r)
    BY <2>1 DEF Passed, SeenThere, Alone
  <2>3. QED
    BY <2>1, <2>2 DEF RunnerOK
<1>9. QED
  BY <1>5, <1>6, <1>7, <1>8 DEF MigrationInv

\* Every step keeps the invariant, and no step costs the store its summaries.
LEMMA Step ==
    ASSUME AloneOnSqlite, MigrationInv, [Next]_vars
    PROVE  MigrationInv' /\ (summaries => summaries')
<1>1. CASE UNCHANGED vars
  <2>1. UNCHANGED <<backend, schema, history, files, summaries, runner, crashes, runs>>
    BY <1>1 DEF vars
  <2>2. /\ Versions' = Versions /\ Last' = Last /\ Connections' = Connections
        /\ \A k : SchemaAt(k)' = SchemaAt(k)
    BY <2>1, SameShape
  <2>3. TypeOK'
    BY <2>1, <2>2 DEF MigrationInv, TypeOK
  <2>4. Chain'
    BY <2>1, <2>2 DEF MigrationInv, Chain, Recorded, Applied, Recording
  <2>5. \A s \in Runners : RunnerOK(s)'
    BY <2>1, OthersStay DEF MigrationInv
  <2>6. QED
    BY <2>1, <2>3, <2>4, <2>5 DEF MigrationInv
<1>2. ASSUME NEW r \in Runners, Migrate(r)
      PROVE  MigrationInv' /\ (summaries => summaries')
  <2>1. r \in Active(backend) /\ backend' = backend
    BY <1>2 DEF Migrate
  <2>2. CASE Connect(r)
    BY <2>1, <2>2, ConnectKeeps DEF Connect
  <2>3. CASE ReadHistory(r)
    BY <2>1, <2>3, ReadHistoryKeeps DEF ReadHistory
  <2>4. CASE Skip(r)
    BY <2>1, <2>4, SkipKeeps DEF Skip
  <2>5. CASE Pending(r)
    BY <2>1, <2>5, PendingKeeps DEF Pending
  <2>6. CASE Finish(r)
    BY <2>1, <2>6, FinishKeeps DEF Finish
  <2>7. CASE RunScript(r)
    BY <2>1, <2>7, RunScriptKeeps
  <2>8. CASE Record(r)
    BY <2>1, <2>8, RecordKeeps DEF Record
  <2>9. CASE RunAndRecord(r)
    BY <2>1, <2>9, RunAndRecordKeeps
  <2>10. QED
    BY <1>2, <2>2, <2>3, <2>4, <2>5, <2>6, <2>7, <2>8, <2>9 DEF Migrate
<1>3. ASSUME NEW r \in Runners, backend' = backend, Crash(r) \/ Stop(r) \/ StoreSummary(r)
      PROVE  MigrationInv' /\ (summaries => summaries')
  <2>1. CASE Crash(r)
    BY <1>3, <2>1, CrashKeeps DEF Crash
  <2>2. CASE Stop(r)
    BY <1>3, <2>2, StopKeeps DEF Stop
  <2>3. CASE StoreSummary(r)
    BY <1>3, <2>3, StoreSummaryKeeps DEF StoreSummary
  <2>4. QED
    BY <1>3, <2>1, <2>2, <2>3
<1>4. ASSUME NEW v \in Versions, backend' = backend, EditFile(v)
      PROVE  MigrationInv' /\ (summaries => summaries')
  BY <1>4, EditFileKeeps DEF EditFile
<1>5. QED
  BY <1>1, <1>2, <1>3, <1>4 DEF Next

\* The invariant is one of the specification.
THEOREM Invariance == AloneOnSqlite /\ Spec => []MigrationInv
<1> SUFFICES ASSUME AloneOnSqlite PROVE Spec => []MigrationInv
  OBVIOUS
<1>1. MigrationInv /\ [Next]_vars => MigrationInv'
  BY Step
<1>2. QED
  BY InitInv, <1>1, PTL DEF Spec

\* What the history records as applied is in the schema.
THEOREM HistoryIsTrue == AloneOnSqlite /\ Spec => []HistoryTellsSchema
<1>1. MigrationInv => HistoryTellsSchema
  <2> SUFFICES ASSUME MigrationInv, NEW v \in Versions, history[v] # "none"
               PROVE  Holds(v, schema)
    BY DEF HistoryTellsSchema
  <2>0. backend \in {"sqlite", "postgres"} /\ Versions = 1..Last /\ Last \in Nat
    BY BackendAssumption DEF MigrationInv, TypeOK, Versions, Last
  <2>1. PICK n \in 0..Last : Recorded(n) /\ (Applied(n) \/ (n < Last /\ Applied(n + 1)))
    BY DEF MigrationInv, Chain
  <2>2. PICK k \in 0..Last : v <= k /\ schema = SchemaAt(k)
    <3>1. v <= n
      BY <2>1 DEF Recorded
    <3>2. CASE Applied(n)
      BY <3>1, <3>2 DEF Applied
    <3>3. CASE n < Last /\ Applied(n + 1)
      BY <2>0, <3>1, <3>3 DEF Applied
    <3>4. QED
      BY <2>1, <3>2, <3>3
  <2>3. QED
    BY <2>0, <2>2, StagesHold
<1>2. QED
  BY <1>1, Invariance, PTL

\* Each migration runs once, and leaves the store with the script and its line in
\* the history, or with its runner about to write that line.
THEOREM OnceAndWhole == AloneOnSqlite /\ Spec => []ScriptsRunOnceAndWhole
<1>1. MigrationInv => ScriptsRunOnceAndWhole
  <2> SUFFICES ASSUME MigrationInv PROVE TypeOK /\ EachRunsOnce /\ NothingHalfApplied
    BY DEF ScriptsRunOnceAndWhole
  <2>0. Versions = 1..Last /\ Last \in Nat /\ TypeOK
    BY DEF MigrationInv, Versions, Last
  <2>1. PICK n \in 0..Last :
          /\ Recorded(n)
          /\ Applied(n) \/ (Applied(n + 1) /\ \E r \in Runners : Recording(r, n))
    BY DEF MigrationInv, Chain
  <2>2. EachRunsOnce
    BY <2>0, <2>1 DEF EachRunsOnce, Applied
  <2>3. ASSUME NEW v \in Versions, runs[v] > 0, history[v] = "none"
        PROVE  \E r \in Runners : runner[r].pc = "record" /\ runner[r].at = v
    <3>1. ~(v <= n)
      BY <2>1, <2>3 DEF Recorded
    <3>2. ~Applied(n)
      BY <2>3, <3>1 DEF Applied
    <3>3. v <= n + 1
      BY <2>1, <2>3, <3>2 DEF Applied
    <3>4. v = n + 1
      BY <2>0, <3>1, <3>3
    <3>5. QED
      BY <2>1, <3>2, <3>4 DEF Recording
  <2>4. QED
    BY <2>0, <2>2, <2>3 DEF NothingHalfApplied
<1>2. QED
  BY <1>1, Invariance, PTL

\* A server that came up finds the whole schema and unedited files.
THEOREM ReadyIsCurrent == AloneOnSqlite /\ Spec => []ReadyMeansCurrent
<1>1. MigrationInv /\ HistoryTellsSchema => ReadyMeansCurrent
  <2> SUFFICES ASSUME MigrationInv, HistoryTellsSchema,
                      NEW r \in Runners, runner[r].pc = "ready", NEW v \in Versions
               PROVE  Holds(v, schema) /\ history[v] = files[v]
    BY DEF ReadyMeansCurrent
  <2>1. v < runner[r].at
    BY DEF MigrationInv, RunnerOK, Versions, Last
  <2>2. history[v] = files[v] /\ files[v] # "none"
    BY <2>1 DEF MigrationInv, RunnerOK, Passed, TypeOK, Checksums
  <2>3. QED
    BY <2>2 DEF HistoryTellsSchema
<1>2. QED
  BY <1>1, Invariance, HistoryIsTrue, PTL

\* No migration costs the store the summaries a server has written.
THEOREM NoSummaryLost == AloneOnSqlite /\ Spec => SummariesSurvive
<1> SUFFICES ASSUME AloneOnSqlite PROVE Spec => SummariesSurvive
  OBVIOUS
<1>1. MigrationInv /\ [Next]_vars => [summaries => summaries']_vars
  BY Step
<1>2. Spec => []MigrationInv
  BY Invariance
<1>3. QED
  BY <1>1, <1>2, PTL DEF Spec, SummariesSurvive
=============================================================================
