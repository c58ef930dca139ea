------------------------------- MODULE Cutover -------------------------------
(***************************************************************************)
(* The move of a store from SQLite to Postgres, as docs/postgres-cutover   *)
(* runs it: the tool may be tried on a store that is still served, the     *)
(* store is then frozen, the target reset, copied and verified, and the    *)
(* server starts on the target.                                            *)
(*                                                                         *)
(* The tool reads the source table by table, each on a connection of its   *)
(* own, writes the target in one transaction, and verifies by counting.    *)
(* Source and target are functions from a table to its rows.               *)
(***************************************************************************)
EXTENDS Naturals, FiniteSets, Sequences, FiniteSetsExt

CONSTANTS
    Tools,      \* processes of the tool
    People,     \* account ids; also the keys of their identity and agent rows
    Codes,      \* invitation codes
    Starts,     \* the sources a move may begin from, with the writes they may see
    Written,    \* tables the served source is written in
    MaxId,      \* bound on record ids
    MaxWrites,  \* bound on those writes
    MaxStops,   \* bound on how often a tool dies
    MaxResets   \* bound on how often the target is dropped

BugTables == <<"account", "user_identity", "agent", "shared_record", "memory_record",
               "tenant_access">>

BugTablesOrder == <<"account", "user_identity", "memory_record", "agent", "shared_record",
                    "tenant_access", "tenant_invite">>

\* Parents before children.
Tables == <<"account", "user_identity", "agent", "shared_record", "memory_record",
            "tenant_access", "tenant_invite">>

StoreTables == {"account", "user_identity", "agent", "shared_record", "memory_record",
                "tenant_access", "tenant_invite"}

RecordTables == {"memory_record", "shared_record"}

Keys(t) == CASE t \in RecordTables     -> 1..MaxId
             [] t = "tenant_invite"    -> Codes
             [] OTHER                  -> People

\* owner: user_id or tenant_user_id; key: the rest of the primary key; text:
\* the version of every other column the copy names; summary: content_summary.
Rows(t) == [owner : People, key : Keys(t), text : 0..MaxWrites, summary : BOOLEAN]

Stores == {store \in [StoreTables -> SUBSET UNION {Rows(t) : t \in StoreTables}] :
              \A t \in StoreTables : store[t] \subseteq Rows(t)}

Empty == [t \in StoreTables |-> {}]

\* The primary key of a row.
Pk(t, r) == IF t = "tenant_access" THEN <<r.owner, r.key>> ELSE <<r.key>>

PksOf(t, S) == {Pk(t, r) : r \in S}

\* The rows a row's foreign keys point to.
Parents(t, r) ==
    CASE t \in {"account", "shared_record"}                -> {}
      [] t \in {"user_identity", "agent", "tenant_invite"} -> {<<"account", <<r.owner>>>>}
      [] t = "memory_record"                               -> {<<"agent", <<r.owner>>>>}
      [] t = "tenant_access" -> {<<"account", <<r.owner>>>>, <<"account", <<r.key>>>>}

HasParents(t, r, store) == \A p \in Parents(t, r) : p[2] \in PksOf(p[1], store[p[1]])

\* Keys are keys, no row lacks its parents, and an identity or an agent is known
\* by its account.
Sound(store) ==
    \A t \in StoreTables :
        /\ IsFiniteSet(store[t])
        /\ \A r \in store[t] :
              HasParents(t, r, store) /\ (t \in {"account", "user_identity", "agent"} => r.owner = r.key)
        /\ \A r, s \in store[t] : Pk(t, r) = Pk(t, s) => r = s

ASSUME StartsAssumption ==
    \A start \in Starts :
        /\ start.writes \in 0..MaxWrites
        /\ start.store \in Stores /\ Sound(start.store)
        /\ \A t \in StoreTables : \A r \in start.store[t] : r.text = 0

ASSUME WrittenAssumption == Written \subseteq StoreTables

ASSUME BoundAssumption == {MaxId, MaxWrites, MaxStops, MaxResets} \subseteq Nat

\* What the column lists name: everything but content_summary.
Carried(r) == [r EXCEPT !.summary = FALSE]

Copied(store) == [t \in StoreTables |-> {Carried(r) : r \in store[t]}]

VARIABLES
    source, target,     \* the two stores
    targetId,           \* the highest id its sequences have given out
    ready,              \* whether the target has its schema
    frozen,             \* the SQLite server has been stopped
    serving,            \* the server runs on the target
    tool,               \* the tool's processes
    purged,             \* history: the importer has purged the served source
    left,               \* writes the source may still see
    stops, resets

vars == <<source, target, targetId, ready, frozen, serving, tool, purged, left,
          stops, resets>>

\* full: copy and verify, or --verify-only; at: the table in hand; rows: what
\* was read; todo: what is left to compare;
\* bad: problems were found.  For the properties: cold, the source was frozen
\* when the tool began; clean, nothing else has touched the target since it
\* began on one that was right for it; had, the source as verification began.
Off == [pc |-> "off", full |-> FALSE, at |-> 1, rows |-> Empty, todo |-> {},
        bad |-> FALSE, cold |-> FALSE, clean |-> FALSE, had |-> Empty]

Idle(t) == tool[t].pc \in {"off", "green", "red"}

Init ==
    /\ \E start \in Starts : source = start.store /\ left = start.writes
    /\ target = Empty
    /\ targetId = [t \in RecordTables |-> 0]
    /\ ready = FALSE /\ frozen = FALSE /\ serving = FALSE
    /\ tool = [t \in Tools |-> Off]
    /\ purged = FALSE /\ stops = 0 /\ resets = 0

-----------------------------------------------------------------------------
(* The server on SQLite, until it is frozen.                                *)

Write ==
    /\ ~frozen /\ left > 0
    /\ left' = left - 1
    /\ UNCHANGED <<target, targetId, ready, frozen, serving, tool, stops, resets>>

\* A row is stored where its parents are; a record takes the id after the highest
\* one its table holds.
SourceInsert(t) ==
    /\ Write
    /\ \E r \in Rows(t) :
          /\ r.text = 0
          /\ HasParents(t, r, source)
          /\ Pk(t, r) \notin PksOf(t, source[t])
          /\ IF t \in RecordTables THEN r.key = 1 + Max({s.key : s \in source[t]} \cup {0})
                                 ELSE ~r.summary
          /\ t \in {"account", "user_identity", "agent"} => r.owner = r.key
          /\ t = "tenant_access" => r.owner # r.key
          /\ source' = [source EXCEPT ![t] = @ \cup {r}]
    /\ UNCHANGED purged

\* An edit, an archival, a use of a code, a selection: a row changes in place.
SourceEdit(t) ==
    /\ Write
    /\ t # "user_identity"
    /\ \E r \in source[t] :
          source' = [source EXCEPT ![t] = (@ \ {r}) \cup {[r EXCEPT !.text = @ + 1]}]
    /\ UNCHANGED purged

\* The importer's purge deletes a tenant's records and agents.
SourcePurge(p) ==
    /\ Write
    /\ purged' = TRUE
    /\ source' = [t \in StoreTables |->
                    IF t \in RecordTables \cup {"agent"}
                    THEN {r \in source[t] : r.owner # p} ELSE source[t]]

-----------------------------------------------------------------------------
(* The operator.                                                            *)

Freeze ==
    /\ ~frozen /\ frozen' = TRUE
    /\ UNCHANGED <<source, target, targetId, ready, serving, tool, purged, left,
                   stops, resets>>

\* DROP SCHEMA public CASCADE: what was verified before is no longer there.
Reset ==
    /\ ~serving /\ resets < MaxResets
    /\ \A t \in Tools : Idle(t)
    /\ target' = Empty /\ targetId' = [t \in RecordTables |-> 0] /\ ready' = FALSE
    /\ tool' = [t \in Tools |-> Off]
    /\ resets' = resets + 1
    /\ UNCHANGED <<source, frozen, serving, purged, left, stops>>

\* The gate: a copy made and found green inside the cold window.
CutOver ==
    /\ ~serving
    /\ \A t \in Tools : Idle(t)
    /\ \E t \in Tools : tool[t].pc = "green" /\ tool[t].full /\ tool[t].cold
    /\ serving' = TRUE
    /\ UNCHANGED <<source, target, targetId, ready, frozen, tool, purged, left,
                   stops, resets>>

\* The target is right for the tool, the source stands still, and no other runs.
Undisturbed(full) ==
    /\ frozen /\ \A t \in Tools : Idle(t)
    /\ IF full THEN target = Empty ELSE ready /\ target = Copied(source)

Start(t, full) ==
    /\ Idle(t) /\ ~serving
    /\ tool' = [u \in Tools |->
                  IF u # t THEN [tool[u] EXCEPT !.clean = FALSE]
                  ELSE [pc |-> IF full THEN "read" ELSE "count", full |-> full, at |-> 1,
                        rows |-> Empty, todo |-> {}, bad |-> FALSE, cold |-> frozen,
                        clean |-> Undisturbed(full), had |-> IF full THEN Empty ELSE source]]
    /\ UNCHANGED <<source, target, targetId, ready, frozen, serving, purged, left,
                   stops, resets>>

-----------------------------------------------------------------------------
(* migrate.                                                                 *)

ToolStep(t) == UNCHANGED <<source, frozen, serving, purged, left, stops, resets>>

\* _read_sqlite, one connection for each table.
ReadTable(t) ==
    /\ tool[t].pc = "read"
    /\ LET table == Tables[tool[t].at]
       IN  tool' = [tool EXCEPT ![t].rows = [@ EXCEPT ![table] = Copied(source)[table]],
                                ![t].at = @ + 1,
                                ![t].pc = IF tool[t].at = Len(Tables) THEN "open" ELSE @]
    /\ UNCHANGED <<target, targetId, ready>>
    /\ ToolStep(t)

EnsureSchema(t) ==
    /\ tool[t].pc = "open"
    /\ ready' = TRUE
    /\ tool' = [tool EXCEPT ![t].pc = "check"]
    /\ UNCHANGED <<target, targetId>>
    /\ ToolStep(t)

\* The counts and the inserts share a transaction, but under READ COMMITTED
\* another tool's copy may be committed between them.
CheckTarget(t) ==
    /\ tool[t].pc = "check"
    /\ LET empty == \A k \in 1..Len(Tables) : target[Tables[k]] = {}
       IN  tool' = [tool EXCEPT ![t].pc = IF empty THEN "copy" ELSE "red"]
    /\ UNCHANGED <<target, targetId, ready>>
    /\ ToolStep(t)

\* The inserts succeed: no key is taken, and every parent is there already.
Insertable(rows) ==
    \A k \in 1..Len(Tables) :
        LET table  == Tables[k]
            before == [s \in StoreTables |->
                         target[s] \cup (IF \E j \in 1..(k - 1) : Tables[j] = s
                                         THEN rows[s] ELSE {})]
        IN  /\ PksOf(table, rows[table]) \cap PksOf(table, target[table]) = {}
            /\ \A r \in rows[table] : HasParents(table, r, before)

BugSetvals(store) ==
    [t \in RecordTables |-> IF store[t] = {} THEN targetId[t] ELSE Cardinality(store[t])]

\* setval: the sequence of each record table goes on from its highest id.
Setvals(store) ==
    [t \in RecordTables |-> IF store[t] = {} THEN targetId[t] ELSE Max({r.key : r \in store[t]})]

BugCopyOnTop(t) ==
    /\ tool[t].pc = "copy"
    /\ LET rows == tool[t].rows
           new  == [s \in StoreTables |->
                      target[s] \cup {r \in rows[s] : Pk(s, r) \notin PksOf(s, target[s])}]
       IN  /\ target' = new
           /\ targetId' = Setvals(new)
           /\ tool' = [tool EXCEPT ![t].pc = "count", ![t].at = 1, ![t].had = source]
    /\ UNCHANGED ready
    /\ ToolStep(t)

\* One transaction for every table; a refused row takes all of it back.
Copy(t) ==
    /\ tool[t].pc = "copy"
    /\ LET rows == tool[t].rows
           new  == [s \in StoreTables |-> target[s] \cup rows[s]]
       IN  IF Insertable(rows)
           THEN /\ target' = new
                /\ targetId' = Setvals(new)
                /\ tool' = [tool EXCEPT ![t].pc = "count", ![t].at = 1, ![t].had = source]
           ELSE /\ tool' = [tool EXCEPT ![t].pc = "red"]
                /\ UNCHANGED <<target, targetId>>
    /\ UNCHANGED ready
    /\ ToolStep(t)

-----------------------------------------------------------------------------
(* verify.  The source is counted before the target, in one step: between    *)
(* the two counts the target could only change by the commit of another      *)
(* tool's copy, and the source only by a write of its server, and either     *)
(* may as well come before or after both.                                    *)

Verifying(t, pc) ==
    /\ tool[t].pc = pc
    /\ UNCHANGED <<target, targetId, ready>>
    /\ ToolStep(t)

BugCompareTable(t) ==
    /\ Verifying(t, "count")
    /\ LET table == Tables[tool[t].at]
           less  == Cardinality(source[table]) < Cardinality(target[table])
       IN  tool' = [tool EXCEPT ![t].bad = @ \/ less, ![t].at = @ + 1,
                                ![t].pc = IF tool[t].at = Len(Tables) THEN "tenants" ELSE @]

\* Without its schema the target cannot be counted.
CompareTable(t) ==
    /\ Verifying(t, "count")
    /\ LET table  == Tables[tool[t].at]
           differ == Cardinality(source[table]) # Cardinality(target[table])
       IN  tool' = IF ~ready THEN [tool EXCEPT ![t].pc = "red"]
                   ELSE [tool EXCEPT
                           ![t].bad = @ \/ differ, ![t].at = @ + 1,
                           ![t].pc = IF tool[t].at = Len(Tables) THEN "tenants" ELSE @]

\* The accounts are read once; each is counted in both record tables.
ListTenants(t) ==
    /\ Verifying(t, "tenants")
    /\ tool' = [tool EXCEPT ![t].todo = {r.key : r \in source["account"]} \X RecordTables,
                            ![t].pc = "tenant"]

OwnedBy(p, S) == Cardinality({r \in S : r.owner = p})

\* The order of the accounts is that of the rows.
CompareTenant(t) ==
    /\ Verifying(t, "tenant") /\ tool[t].todo # {}
    /\ LET pair   == CHOOSE x \in tool[t].todo : TRUE
           differ == OwnedBy(pair[1], source[pair[2]]) # OwnedBy(pair[1], target[pair[2]])
       IN  tool' = [tool EXCEPT ![t].bad = @ \/ differ, ![t].todo = @ \ {pair}]

ListIdentities(t) ==
    /\ Verifying(t, "tenant") /\ tool[t].todo = {}
    /\ tool' = [tool EXCEPT ![t].todo = {<<r.key, r.owner>> : r \in source["user_identity"]},
                            ![t].pc = "identities"]

\* Every identity resolves to the tenant it was read with; then the verdict.
CheckIdentities(t) ==
    /\ Verifying(t, "identities")
    /\ LET resolves == \A pair \in tool[t].todo :
                          \E r \in target["user_identity"] : r.key = pair[1] /\ r.owner = pair[2]
       IN  tool' = [tool EXCEPT ![t].todo = {},
                                ![t].pc = IF tool[t].bad \/ ~resolves THEN "red" ELSE "green"]

\* The tool dies, or its connection does; an open transaction is rolled back.
Stop(t) ==
    /\ ~Idle(t) /\ stops < MaxStops
    /\ stops' = stops + 1
    /\ tool' = [tool EXCEPT ![t] = Off]
    /\ UNCHANGED <<source, target, targetId, ready, frozen, serving, purged, left, resets>>

\* A record stored by the server on the target takes the sequence's next id.
ServeInsert(t) ==
    /\ serving /\ targetId[t] < MaxId
    /\ targetId' = [targetId EXCEPT ![t] = @ + 1]
    /\ \E p \in People :
          LET r == [owner |-> p, key |-> targetId[t] + 1, text |-> 0, summary |-> FALSE]
          IN  /\ HasParents(t, r, target)
              /\ target' = IF Pk(t, r) \in PksOf(t, target[t]) THEN target
                           ELSE [target EXCEPT ![t] = @ \cup {r}]
    /\ UNCHANGED <<source, ready, frozen, serving, tool, purged, left, stops, resets>>

Migrate(t) == ReadTable(t) \/ EnsureSchema(t) \/ CheckTarget(t) \/ Copy(t)

Verify(t) ==
    \/ CompareTable(t) \/ ListTenants(t) \/ CompareTenant(t)
    \/ ListIdentities(t) \/ CheckIdentities(t)

Next ==
    \/ \E t \in Written : SourceInsert(t) \/ SourceEdit(t)
    \/ \E p \in People : SourcePurge(p)
    \/ Freeze \/ Reset \/ CutOver
    \/ \E t \in Tools : Migrate(t) \/ Verify(t) \/ Stop(t)
    \/ \E t \in Tools, full \in BOOLEAN : Start(t, full)
    \/ \E t \in RecordTables : ServeInsert(t)

Spec == Init /\ [][Next]_vars

-----------------------------------------------------------------------------
(* Properties.                                                              *)

Pcs == {"off", "read", "open", "check", "copy", "count", "tenants", "tenant", "identities",
        "green", "red"}

Agendas == SUBSET (People \X (RecordTables \cup People))

Processes == [pc : Pcs, full : BOOLEAN, at : 1..(Len(Tables) + 1), rows : Stores,
              todo : Agendas, bad : BOOLEAN, cold : BOOLEAN, clean : BOOLEAN,
              had : Stores]

TypeOK ==
    /\ source \in Stores /\ target \in Stores
    /\ tool \in [Tools -> Processes]
    /\ targetId \in [RecordTables -> 0..MaxId]
    /\ {ready, frozen, serving, purged} \subseteq BOOLEAN
    /\ left \in 0..MaxWrites /\ stops \in 0..MaxStops /\ resets \in 0..MaxResets

\* "Makes a partial or duplicate migration impossible": the tool writes a
\* target that holds nothing, and whatever dies or is started twice, what it
\* leaves there is everything that one run has read.
OneCopyLands ==
    [][(target' # target /\ target' # Empty /\ ~serving) =>
        /\ target = Empty
        /\ \E t \in Tools : target' = tool[t].rows]_vars

\* "A green verification is the gate": once the server runs on the target,
\* every row of the source is there, as far as the copy names its columns.
NothingLeftBehind ==
    serving => \A t \in StoreTables : Copied(source)[t] \subseteq target[t]

\* "Lets verify treat a count match as proof of a complete copy": a green run
\* has every row in the target that the source had as its verification began.
CountsProveTheCopy ==
    \A t \in Tools : tool[t].pc = "green" =>
        \A s \in StoreTables : PksOf(s, tool[t].had[s]) \subseteq PksOf(s, target[s])

\* That holds even of a source that is served, as long as it only grows.
GreenMissesNothing == ~purged => CountsProveTheCopy

\* A run in the cold window that nobody disturbs ends green, so a red one
\* always says something: the inserts find their parents, and what is counted
\* is what was copied.
NoFalseAlarm == \A t \in Tools : tool[t].clean => tool[t].pc # "red"

\* Together: green and red both mean what they say.
VerdictIsRight == GreenMissesNothing /\ NoFalseAlarm

\* The server's next record id is one no copied record holds.
IdsGoOn == \A t \in RecordTables : \A r \in target[t] : r.key <= targetId[t]

\* The target holds rows of its tables and can be written on.
TargetIsSound == TypeOK /\ IdsGoOn

\* "A faithful copy": a green run over a frozen source has left all of every
\* row in the target.
FaithfulCopy ==
    \A t \in Tools : (tool[t].pc = "green" /\ tool[t].full /\ tool[t].cold) =>
        \A s \in StoreTables : source[s] \subseteq target[s]

\* Also --verify-only tells a copy that has fallen behind from one that has not.
VerifyOnlySuffices ==
    \A t \in Tools : (tool[t].pc = "green" /\ tool[t].cold) =>
        \A s \in StoreTables : Copied(source)[s] \subseteq target[s]
=============================================================================
