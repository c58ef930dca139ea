----------------------------- MODULE MemoryStore -----------------------------
(***************************************************************************)
(* The two memory tables, shared by every tenant of the server.            *)
(*                                                                         *)
(* memory_record holds the memory of an agent, shared_record the memory    *)
(* that belongs to a tenant's whole fleet.  Each write of the repository   *)
(* is one transaction here (RecordEdits takes the writes apart).  A call   *)
(* that is refused rolls back and is a stuttering step, so an action below *)
(* is a call that writes.  Bodies, titles, tags and summaries decide       *)
(* nothing in this module and are left out.                                *)
(***************************************************************************)
EXTENDS Integers, FiniteSets

CONSTANTS
    Tenants,    \* user_id values
    Agents,     \* agent domains; tenants use the same short names
    Uuids,      \* record uuids
    Projects,   \* project scopes
    Types,      \* the record types callers insert
    Reuse,      \* how callers choose a uuid for an insert: "own" or "any"
    MaxTime,    \* bound on the clock
    Nil         \* SQL NULL

AllTypes == {"episode", "knowledge", "identity", "reasoning", "emotional",
             "user_profile", "ras", "coding_reasoning"}

\* The CHECK constraint of shared_record.
SharedTypes == {"reasoning", "coding_reasoning", "knowledge", "ras", "user_profile"}

ASSUME TypesAssumption == Types \subseteq AllTypes
ASSUME ReuseAssumption == Reuse \in {"own", "any"}
ASSUME ClockAssumption == MaxTime \in Nat /\ Nil \notin Nat
ASSUME NilAssumption   == Nil \notin Tenants \cup Agents \cup Uuids \cup Projects

VARIABLES
    agents,     \* agents[t]: the domains of tenant t that have an agent row
    store,      \* store[table][uuid]: the row, or NoRow; uuid is UNIQUE in each table
    clock

vars == <<agents, store, clock>>

Tables == {"memory_record", "shared_record"}
Times  == 0..MaxTime

NoRow == [user |-> Nil, agent |-> Nil, type |-> Nil, project |-> Nil,
          created |-> Nil, archived |-> Nil, deleted |-> Nil]

Rows == [user     : Tenants,
         agent    : Agents \cup {Nil},
         type     : AllTypes,
         project  : Projects \cup {Nil},
         created  : Times,
         archived : Times \cup {Nil},
         deleted  : Times \cup {Nil}]

Init ==
    /\ agents = [t \in Tenants |-> {}]
    /\ store  = [table \in Tables |-> [u \in Uuids |-> NoRow]]
    /\ clock  = 0

-----------------------------------------------------------------------------
(* Reads.                                                                   *)

BugHoldsForAnyone(t, table, u, deletedToo) ==
    /\ store[table][u] # NoRow
    /\ deletedToo \/ store[table][u].deleted = Nil

\* SELECT 1 FROM table WHERE uuid=? AND user_id=? [AND deleted_date IS NULL]
Holds(t, table, u, deletedToo) ==
    /\ store[table][u] # NoRow
    /\ store[table][u].user = t
    /\ deletedToo \/ store[table][u].deleted = Nil

\* _locate: the agent table is asked first.
Locate(t, u, deletedToo) ==
    IF Holds(t, "memory_record", u, deletedToo) THEN {"memory_record"}
    ELSE {table \in {"shared_record"} : Holds(t, table, u, deletedToo)}

\* get: what the caller is handed for a uuid, if anything.
Get(t, u) == {store[table][u] : table \in Locate(t, u, FALSE)}

BugListedWithTombstones(t, table, u, archivedToo) ==
    LET row == store[table][u]
    IN  /\ row # NoRow /\ row.user = t
        /\ row.type # "knowledge" \/ row.project = Nil
        /\ archivedToo \/ row.archived = Nil

\* The predicate every listing applies (_filtered_sql, _search_rows).
Listed(t, table, u, archivedToo) ==
    LET row == store[table][u]
    IN  /\ row # NoRow /\ row.user = t /\ row.deleted = Nil
        /\ row.type # "knowledge" \/ row.project = Nil
        /\ archivedToo \/ row.archived = Nil

\* query, query_shared, search and search_shared: the rows they hand out.
Listing(t, archivedToo) ==
    {entry \in Tables \X Uuids : Listed(t, entry[1], entry[2], archivedToo)}

\* awaken: the profile is whichever hot shared row has that type.
AwakenProfile(t) ==
    {u \in Uuids : /\ Listed(t, "shared_record", u, FALSE)
                   /\ store["shared_record"][u].type = "user_profile"}

-----------------------------------------------------------------------------
(* Writes.                                                                  *)

CreateAgent(t, a) ==
    /\ a \notin agents[t]
    /\ agents' = [agents EXCEPT ![t] = @ \cup {a}]
    /\ UNCHANGED <<store, clock>>

\* A uuid is minted, or it names a record its caller put in that table before
\* (an import repeated).  "any" lets the caller pass whatever uuid they know of.
MayName(t, table, u) ==
    \/ Reuse = "any"
    \/ \A x \in Tables : \/ store[x][u] = NoRow
                         \/ x = table /\ store[x][u].user = t

\* INSERT ... ON CONFLICT(uuid) DO UPDATE: the owner and the creation date of a
\* row that exists are kept, everything else is written, tombstones included.
Upserted(t, table, u, a, type, project) ==
    LET old   == store[table][u]
        fresh == [user |-> t, agent |-> a, type |-> type, project |-> project,
                  created |-> clock, archived |-> Nil, deleted |-> Nil]
    IN  IF old = NoRow THEN fresh
        ELSE [fresh EXCEPT !.user = old.user, !.created = old.created]

BugHasAgentAnywhere(row) == \E t \in Tenants : row.agent \in agents[t]

\* The composite foreign key (user_id, agent_id).
HasAgent(row) == row.agent \in agents[row.user]

BugProfileIsFreeWhenArchived(u, row) ==
    row.type = "user_profile" =>
        \A v \in Uuids \ {u} : LET other == store["shared_record"][v]
                               IN ~(/\ other.user = row.user /\ other.type = "user_profile"
                                    /\ other.archived = Nil /\ other.deleted = Nil)

\* idx_one_user_profile_per_tenant; archived profiles count.
ProfileIsFree(u, row) ==
    row.type = "user_profile" =>
        \A v \in Uuids \ {u} : LET other == store["shared_record"][v]
                               IN ~(/\ other.user = row.user /\ other.type = "user_profile"
                                    /\ other.deleted = Nil)

Insert(t, u, a, type, project) ==
    LET row == Upserted(t, "memory_record", u, a, type, project)
    IN  /\ MayName(t, "memory_record", u)
        /\ HasAgent(row)
        /\ store' = [store EXCEPT !["memory_record"][u] = row]
        /\ UNCHANGED <<agents, clock>>

InsertShared(t, u, type, project) ==
    LET row == Upserted(t, "shared_record", u, Nil, type, project)
    IN  /\ MayName(t, "shared_record", u)
        /\ type \in SharedTypes
        /\ ProfileIsFree(u, row)
        /\ store' = [store EXCEPT !["shared_record"][u] = row]
        /\ UNCHANGED <<agents, clock>>

\* edit_metadata sets the project, or clears it to NULL.
SetProject(t, u, project) ==
    \E table \in Locate(t, u, FALSE) :
        /\ store' = [store EXCEPT ![table][u].project = project]
        /\ UNCHANGED <<agents, clock>>

\* COALESCE(column, now): the first timestamp is kept.
Stamp(date) == IF date = Nil THEN clock ELSE date

BugArchiveRevives(t, u) ==
    \E table \in Locate(t, u, TRUE) :
        /\ store' = [store EXCEPT ![table][u].archived = Stamp(@), ![table][u].deleted = Nil]
        /\ UNCHANGED <<agents, clock>>

\* A deleted row stays addressable to archive and soft_delete.
Archive(t, u) ==
    \E table \in Locate(t, u, TRUE) :
        /\ store' = [store EXCEPT ![table][u].archived = Stamp(@)]
        /\ UNCHANGED <<agents, clock>>

SoftDelete(t, u) ==
    \E table \in Locate(t, u, TRUE) :
        /\ store' = [store EXCEPT ![table][u].deleted = Stamp(@)]
        /\ UNCHANGED <<agents, clock>>

Tick == clock < MaxTime /\ clock' = clock + 1 /\ UNCHANGED <<agents, store>>

\* The calls of one tenant.
CallBy(t) ==
    \/ \E a \in Agents : CreateAgent(t, a)
    \/ \E u \in Uuids, a \in Agents, type \in Types, project \in Projects \cup {Nil} :
          Insert(t, u, a, type, project)
    \/ \E u \in Uuids, type \in Types, project \in Projects \cup {Nil} :
          InsertShared(t, u, type, project)
    \/ \E u \in Uuids, project \in Projects \cup {Nil} : SetProject(t, u, project)
    \/ \E u \in Uuids : Archive(t, u)
    \/ \E u \in Uuids : SoftDelete(t, u)

Next == (\E t \in Tenants : CallBy(t)) \/ Tick

Spec == Init /\ [][Next]_vars

-----------------------------------------------------------------------------
(* Properties.                                                              *)

TypeOK ==
    /\ agents \in [Tenants -> SUBSET Agents]
    /\ store  \in [Tables -> [Uuids -> Rows \cup {NoRow}]]
    /\ clock  \in Times

\* At most one profile that is not deleted for each tenant, through upserts,
\* changes of type, deletions and revivals: awaken reads whichever it finds.
OneProfile ==
    \A u, v \in Uuids :
        LET p == store["shared_record"][u]
            q == store["shared_record"][v]
        IN  (/\ p # NoRow /\ p.type = "user_profile" /\ p.deleted = Nil
             /\ q # NoRow /\ q.type = "user_profile" /\ q.deleted = Nil
             /\ p.user = q.user) => u = v

\* Agent memory always names an agent of its own tenant, also when another
\* tenant has an agent of that name.
OwnersExist ==
    \A u \in Uuids : LET row == store["memory_record"][u]
                     IN row # NoRow => row.agent \in agents[row.user]

\* Whatever a listing or a search hands out can be loaded by its uuid, and
\* loading it hands out the same row: a browse never shows what get cannot see.
ListedIsLoadable ==
    \A t \in Tenants : \A entry \in Listing(t, TRUE) :
        Get(t, entry[2]) = {store[entry[1]][entry[2]]}

\* All of it: every row belongs to an agent that is there and can be reached.
RowsAreReachable == TypeOK /\ OwnersExist /\ ListedIsLoadable

\* A call of one tenant changes no row of another: a service built for a tenant
\* reaches that tenant's records and no others.
TenantsApart ==
    [][\A t \in Tenants : CallBy(t) =>
          \A table \in Tables, u \in Uuids :
              (store[table][u] # NoRow /\ store[table][u].user # t) =>
                  store'[table][u] = store[table][u]]_vars

\* After a soft_delete that succeeded the uuid reads as absent to its caller.
DeleteIsFinal ==
    [][\A t \in Tenants, u \in Uuids : SoftDelete(t, u) => Get(t, u)' = {}]_vars

(* What the documentation says and the code does not do.                    *)

\* "None is a real answer meaning nobody has been asked yet": where awaken shows
\* no profile, a profile can be stored.
NoProfileMeansNobodyAsked ==
    \A t \in Tenants, u \in Uuids :
        LET row == Upserted(t, "shared_record", u, Nil, "user_profile", Nil)
        IN  (AwakenProfile(t) = {} /\ store["shared_record"][u] = NoRow) =>
                ProfileIsFree(u, row)

\* The record types the schema lists for agent memory.
AgentMemoryTypes ==
    \A u \in Uuids : LET row == store["memory_record"][u]
                     IN row # NoRow => row.type \in {"episode", "knowledge", "identity",
                                                     "reasoning", "emotional"}
=============================================================================
