--------------------------- MODULE MemoryStoreProofs ---------------------------
(***************************************************************************)
(* Proofs about MemoryStore and its refinement of TenantVaults, for any    *)
(* number of tenants, agents, uuids and projects and any bound on the      *)
(* clock.                                                                  *)
(*                                                                         *)
(* TableInv holds whatever uuids callers pass.  That a uuid is in one      *)
(* table only (OneTable) needs callers that name their own uuids, and so   *)
(* does all that follows from it: get finds what a listing shows, tenants  *)
(* stay apart, and both tables together behave as separate vaults.         *)
(***************************************************************************)
EXTENDS MemoryStoreRefinement, TLAPS

TableInv == TypeOK /\ OneProfile /\ OwnersExist

\* No uuid has a row in both tables.
OneTable ==
    \A u \in Uuids : \/ store["memory_record"][u] = NoRow
                     \/ store["shared_record"][u] = NoRow

StoreInv == TableInv /\ (Reuse = "own" => OneTable)

-----------------------------------------------------------------------------
(* Rows.                                                                    *)

\* A row has an owner, which no row has not.
LEMMA RowFacts ==
    /\ NoRow \notin Rows
    /\ \A row \in Rows : row # NoRow /\ row.user \in Tenants
BY NilAssumption DEF NoRow, Rows

\* What an upsert writes is a row of the caller or of the owner it had; it is
\* hot, and it carries the type it was given.
LEMMA UpsertedRow ==
    ASSUME TypeOK, NEW t \in Tenants, NEW table \in Tables, NEW u \in Uuids,
           NEW a \in Agents \cup {Nil}, NEW type \in AllTypes,
           NEW project \in Projects \cup {Nil}
    PROVE  LET row == Upserted(t, table, u, a, type, project)
           IN  /\ row \in Rows
               /\ row.agent = a /\ row.type = type
               /\ row.archived = Nil /\ row.deleted = Nil
               /\ store[table][u] = NoRow => row.user = t
               /\ store[table][u] # NoRow => row.user = store[table][u].user
<1> DEFINE old   == store[table][u]
           fresh == [user |-> t, agent |-> a, type |-> type, project |-> project,
                     created |-> clock, archived |-> Nil, deleted |-> Nil]
<1>1. fresh \in Rows
  BY DEF Rows, TypeOK
<1>2. old \in Rows \cup {NoRow}
  BY DEF TypeOK
<1>3. CASE old = NoRow
  <2>1. Upserted(t, table, u, a, type, project) = fresh
    BY <1>3 DEF Upserted
  <2>2. QED
    BY <1>1, <1>3, <2>1
<1>4. CASE old # NoRow
  <2>1. Upserted(t, table, u, a, type, project)
          = [fresh EXCEPT !.user = old.user, !.created = old.created]
    BY <1>4 DEF Upserted
  <2>2. old.user \in Tenants /\ old.created \in Times
    BY <1>2, <1>4 DEF Rows
  <2>3. QED
    BY <1>1, <1>4, <2>1, <2>2 DEF Rows
<1>5. QED
  BY <1>3, <1>4

Write(table, u, row) ==
    /\ store' = [store EXCEPT ![table][u] = row]
    /\ UNCHANGED <<agents, clock>>

\* A write of one row changes that row and nothing else.
LEMMA OneRowWritten ==
    ASSUME TypeOK, NEW table \in Tables, NEW u \in Uuids, NEW row \in Rows,
           Write(table, u, row)
    PROVE  /\ TypeOK'
           /\ agents' = agents
           /\ store'[table][u] = row
           /\ \A x \in Tables, v \in Uuids :
                 (x # table \/ v # u) => store'[x][v] = store[x][v]
BY DEF TypeOK, Write

\* The table a call addresses holds a row of its caller.
LEMMA LocatedRow ==
    ASSUME TypeOK, NEW t, NEW u \in Uuids, NEW deletedToo \in BOOLEAN,
           NEW table \in Locate(t, u, deletedToo)
    PROVE  /\ table \in Tables
           /\ store[table][u] \in Rows
           /\ store[table][u].user = t
           /\ deletedToo \/ store[table][u].deleted = Nil
<1>1. table \in Tables /\ Holds(t, table, u, deletedToo)
  BY DEF Locate, Tables
<1>2. QED
  BY <1>1 DEF Holds, TypeOK

\* A column of a row that is there can be written.
LEMMA EditedRow ==
    ASSUME TypeOK, NEW table \in Tables, NEW u \in Uuids, store[table][u] \in Rows
    PROVE  LET row == store[table][u]
           IN  /\ \A project \in Projects \cup {Nil} : [row EXCEPT !.project = project] \in Rows
               /\ [row EXCEPT !.archived = Stamp(@)] \in Rows
               /\ [row EXCEPT !.deleted = Stamp(@)] \in Rows
               /\ Stamp(row.archived) \in Times /\ Stamp(row.deleted) \in Times
<1>1. clock \in Times
  BY DEF TypeOK
<1>2. Stamp(store[table][u].archived) \in Times /\ Stamp(store[table][u].deleted) \in Times
  BY <1>1 DEF Stamp, Rows
<1>3. QED
  BY <1>2 DEF Rows

-----------------------------------------------------------------------------
(* What a call writes.                                                      *)

\* An upsert: the row is hot, it is its caller's or its former owner's, and it
\* passed the constraints of its table.
Stores(t, table, u, row) ==
    LET old == store[table][u]
    IN  /\ Write(table, u, row)
        /\ MayName(t, table, u)
        /\ row.user = IF old = NoRow THEN t ELSE old.user
        /\ row.archived = Nil /\ row.deleted = Nil
        /\ table = "memory_record" => HasAgent(row)
        /\ table = "shared_record" => ProfileIsFree(u, row)

\* A change of a row of the caller's: owner, agent and type stay, and either
\* both marks stay too or one of them is set.
Edits(t, table, u, row) ==
    LET old == store[table][u]
    IN  /\ Write(table, u, row)
        /\ old \in Rows /\ old.user = t
        /\ row.user = old.user /\ row.agent = old.agent /\ row.type = old.type
        /\ \/ row.archived = old.archived /\ row.deleted = old.deleted
           \/ row.archived # Nil /\ row.deleted = old.deleted
           \/ row.archived = old.archived /\ row.deleted # Nil

\* insert stores a row of agent memory whose agent is there.
LEMMA InsertWrites ==
    ASSUME TypeOK, NEW t \in Tenants, NEW u \in Uuids, NEW a \in Agents,
           NEW type \in Types, NEW project \in Projects \cup {Nil},
           Insert(t, u, a, type, project)
    PROVE  \E row \in Rows : Stores(t, "memory_record", u, row)
<1> DEFINE row == Upserted(t, "memory_record", u, a, type, project)
<1>1. /\ row \in Rows
      /\ row.user = IF store["memory_record"][u] = NoRow
                    THEN t ELSE store["memory_record"][u].user
      /\ row.archived = Nil /\ row.deleted = Nil
  BY UpsertedRow, TypesAssumption DEF Tables
<1>2. /\ Write("memory_record", u, row)
      /\ MayName(t, "memory_record", u)
      /\ HasAgent(row)
  BY DEF Insert, Write
<1> HIDE DEF row
<1>3. QED
  BY <1>1, <1>2 DEF Stores

\* insert_shared stores a shared row, unless it would be a second profile.
LEMMA InsertSharedWrites ==
    ASSUME TypeOK, NEW t \in Tenants, NEW u \in Uuids, NEW type \in Types,
           NEW project \in Projects \cup {Nil}, InsertShared(t, u, type, project)
    PROVE  \E row \in Rows : Stores(t, "shared_record", u, row)
<1> DEFINE row == Upserted(t, "shared_record", u, Nil, type, project)
<1>1. /\ row \in Rows
      /\ row.user = IF store["shared_record"][u] = NoRow
                    THEN t ELSE store["shared_record"][u].user
      /\ row.archived = Nil /\ row.deleted = Nil
  BY UpsertedRow, TypesAssumption DEF Tables
<1>2. /\ Write("shared_record", u, row)
      /\ MayName(t, "shared_record", u)
      /\ ProfileIsFree(u, row)
  BY DEF InsertShared, Write
<1> HIDE DEF row
<1>3. QED
  BY <1>1, <1>2 DEF Stores

\* edit_metadata leaves both marks of the row it finds.
LEMMA SetProjectWrites ==
    ASSUME TypeOK, NEW t \in Tenants, NEW u \in Uuids,
           NEW project \in Projects \cup {Nil}, SetProject(t, u, project)
    PROVE  \E table \in Tables, row \in Rows : Edits(t, table, u, row)
<1>1. PICK table \in Locate(t, u, FALSE) :
         /\ store' = [store EXCEPT ![table][u].project = project]
         /\ UNCHANGED <<agents, clock>>
  BY DEF SetProject
<1> DEFINE row == [store[table][u] EXCEPT !.project = project]
<1>2. table \in Tables /\ store[table][u] \in Rows /\ store[table][u].user = t
  BY LocatedRow
<1>3. /\ row \in Rows /\ row.user = store[table][u].user
      /\ row.agent = store[table][u].agent /\ row.type = store[table][u].type
      /\ row.archived = store[table][u].archived /\ row.deleted = store[table][u].deleted
  BY <1>2, EditedRow DEF Rows
<1>4. Write(table, u, row)
  BY <1>1 DEF Write
<1> HIDE DEF row
<1>5. QED
  BY <1>2, <1>3, <1>4 DEF Edits

\* archive sets one mark and keeps the other.
LEMMA ArchiveWrites ==
    ASSUME TypeOK, NEW t \in Tenants, NEW u \in Uuids, Archive(t, u)
    PROVE  \E table \in Tables, row \in Rows : Edits(t, table, u, row)
<1>1. PICK table \in Locate(t, u, TRUE) :
         /\ store' = [store EXCEPT ![table][u].archived = Stamp(@)]
         /\ UNCHANGED <<agents, clock>>
  BY DEF Archive
<1> DEFINE row == [store[table][u] EXCEPT !.archived = Stamp(@)]
<1>2. table \in Tables /\ store[table][u] \in Rows /\ store[table][u].user = t
  BY LocatedRow
<1>3. /\ row \in Rows /\ row.user = store[table][u].user
      /\ row.agent = store[table][u].agent /\ row.type = store[table][u].type
      /\ row.archived \in Times /\ row.deleted = store[table][u].deleted
  BY <1>2, EditedRow DEF Rows
<1>4. row.archived # Nil
  BY <1>3, ClockAssumption DEF Times
<1>5. Write(table, u, row)
  BY <1>1 DEF Write
<1> HIDE DEF row
<1>6. QED
  BY <1>2, <1>3, <1>4, <1>5 DEF Edits

\* soft_delete sets one mark and keeps the other.
LEMMA SoftDeleteWrites ==
    ASSUME TypeOK, NEW t \in Tenants, NEW u \in Uuids, SoftDelete(t, u)
    PROVE  \E table \in Tables, row \in Rows : Edits(t, table, u, row)
<1>1. PICK table \in Locate(t, u, TRUE) :
         /\ store' = [store EXCEPT ![table][u].deleted = Stamp(@)]
         /\ UNCHANGED <<agents, clock>>
  BY DEF SoftDelete
<1> DEFINE row == [store[table][u] EXCEPT !.deleted = Stamp(@)]
<1>2. table \in Tables /\ store[table][u] \in Rows /\ store[table][u].user = t
  BY LocatedRow
<1>3. /\ row \in Rows /\ row.user = store[table][u].user
      /\ row.agent = store[table][u].agent /\ row.type = store[table][u].type
      /\ row.archived = store[table][u].archived /\ row.deleted \in Times
  BY <1>2, EditedRow DEF Rows
<1>4. row.deleted # Nil
  BY <1>3, ClockAssumption DEF Times
<1>5. Write(table, u, row)
  BY <1>1 DEF Write
<1> HIDE DEF row
<1>6. QED
  BY <1>2, <1>3, <1>4, <1>5 DEF Edits

\* A call creates an agent, stores a row or edits a row of its caller's.
LEMMA CallWrites ==
    ASSUME TypeOK, NEW t \in Tenants, CallBy(t)
    PROVE  \/ \E a \in Agents : CreateAgent(t, a)
           \/ \E table \in Tables, u \in Uuids, row \in Rows :
                 Stores(t, table, u, row) \/ Edits(t, table, u, row)
<1>1. CASE \E a \in Agents : CreateAgent(t, a)
  BY <1>1
<1>2. CASE \E u \in Uuids, a \in Agents, type \in Types, project \in Projects \cup {Nil} :
              Insert(t, u, a, type, project)
  BY <1>2, InsertWrites DEF Tables
<1>3. CASE \E u \in Uuids, type \in Types, project \in Projects \cup {Nil} :
              InsertShared(t, u, type, project)
  BY <1>3, InsertSharedWrites DEF Tables
<1>4. CASE \E u \in Uuids, project \in Projects \cup {Nil} : SetProject(t, u, project)
  BY <1>4, SetProjectWrites
<1>5. CASE \E u \in Uuids : Archive(t, u)
  BY <1>5, ArchiveWrites
<1>6. CASE \E u \in Uuids : SoftDelete(t, u)
  BY <1>6, SoftDeleteWrites
<1>7. QED
  BY <1>1, <1>2, <1>3, <1>4, <1>5, <1>6 DEF CallBy

-----------------------------------------------------------------------------
(* The invariant is kept.                                                   *)

\* Where a write may go without breaking the invariant: the agent of an agent
\* row is there, no second profile comes to be, and the uuid is not in the
\* other table.
Harmless(table, u, row) ==
    /\ table = "memory_record" => HasAgent(row)
    /\ (table = "shared_record" /\ row.deleted = Nil) => ProfileIsFree(u, row)
    /\ Reuse = "own" => \A x \in Tables \ {table} : store[x][u] = NoRow

\* A harmless write of one row keeps the invariant.
LEMMA HarmlessWrite ==
    ASSUME StoreInv, NEW table \in Tables, NEW u \in Uuids, NEW row \in Rows,
           Write(table, u, row), Harmless(table, u, row)
    PROVE  StoreInv'
<1>1. /\ TypeOK'
      /\ agents' = agents
      /\ store'[table][u] = row
      /\ \A x \in Tables, v \in Uuids :
            (x # table \/ v # u) => store'[x][v] = store[x][v]
  BY OneRowWritten DEF StoreInv, TableInv
<1>2. OwnersExist'
  <2> SUFFICES ASSUME NEW v \in Uuids, store'["memory_record"][v] # NoRow
               PROVE  LET kept == store'["memory_record"][v]
                      IN  kept.agent \in agents'[kept.user]
    BY DEF OwnersExist
  <2>1. CASE table = "memory_record" /\ v = u
    BY <1>1, <2>1 DEF Harmless, HasAgent
  <2>2. CASE ~(table = "memory_record" /\ v = u)
    <3>1. store'["memory_record"][v] = store["memory_record"][v]
      BY <1>1, <2>2 DEF Tables
    <3>2. QED
      BY <1>1, <3>1 DEF StoreInv, TableInv, OwnersExist
  <2>3. QED
    BY <2>1, <2>2
<1>3. OneProfile'
  <2> DEFINE Live(r) == r # NoRow /\ r.type = "user_profile" /\ r.deleted = Nil
  <2> SUFFICES ASSUME NEW v \in Uuids, NEW w \in Uuids,
                      Live(store'["shared_record"][v]), Live(store'["shared_record"][w]),
                      store'["shared_record"][v].user = store'["shared_record"][w].user
               PROVE  v = w
    BY DEF OneProfile
  <2>1. CASE table = "shared_record" /\ v = u /\ w # u
    BY <1>1, <2>1 DEF Harmless, ProfileIsFree
  <2>2. CASE table = "shared_record" /\ w = u /\ v # u
    BY <1>1, <2>2 DEF Harmless, ProfileIsFree
  <2>3. CASE table # "shared_record" \/ (v # u /\ w # u)
    <3>1. /\ store'["shared_record"][v] = store["shared_record"][v]
          /\ store'["shared_record"][w] = store["shared_record"][w]
      BY <1>1, <2>3 DEF Tables
    <3>2. QED
      BY <3>1 DEF StoreInv, TableInv, OneProfile
  <2>4. QED
    BY <2>1, <2>2, <2>3
<1>4. (Reuse = "own" => OneTable)'
  BY <1>1 DEF StoreInv, OneTable, Harmless, Tables
<1>5. QED
  BY <1>1, <1>2, <1>3, <1>4 DEF StoreInv, TableInv

\* CreateAgent only adds agents, and rows keep theirs.
LEMMA CreateAgentStep ==
    ASSUME StoreInv, NEW t \in Tenants, NEW a \in Agents, CreateAgent(t, a)
    PROVE  StoreInv'
<1>1. TypeOK'
  BY DEF StoreInv, TableInv, TypeOK, CreateAgent
<1>2. \A s \in Tenants : agents[s] \subseteq agents'[s]
  BY DEF StoreInv, TableInv, TypeOK, CreateAgent
<1>3. \A u \in Uuids : store["memory_record"][u] # NoRow =>
                           store["memory_record"][u].user \in Tenants
  BY DEF StoreInv, TableInv, TypeOK, Tables, Rows
<1>4. store' = store
  BY DEF CreateAgent
<1>5. OwnersExist'
  BY <1>2, <1>3, <1>4 DEF StoreInv, TableInv, OwnersExist
<1>6. QED
  BY <1>1, <1>4, <1>5 DEF StoreInv, TableInv, OneProfile, OneTable

\* An upsert keeps the invariant.
LEMMA StoresStep ==
    ASSUME StoreInv, NEW t \in Tenants, NEW table \in Tables, NEW u \in Uuids,
           NEW row \in Rows, Stores(t, table, u, row)
    PROVE  StoreInv'
<1>1. Harmless(table, u, row)
  BY DEF Stores, Harmless, MayName
<1>2. QED
  BY <1>1, HarmlessWrite DEF Stores

\* An edit revives nothing, and keeps owner, agent and type: it is harmless.
LEMMA EditsStep ==
    ASSUME StoreInv, NEW t \in Tenants, NEW table \in Tables, NEW u \in Uuids,
           NEW row \in Rows, Edits(t, table, u, row)
    PROVE  StoreInv'
<1>1. /\ store[table][u] \in Rows /\ store[table][u] # NoRow
      /\ row.user = store[table][u].user /\ row.agent = store[table][u].agent
      /\ row.type = store[table][u].type
      /\ row.deleted = Nil => store[table][u].deleted = Nil
  BY RowFacts DEF Edits
<1>2. table = "memory_record" => HasAgent(row)
  BY <1>1 DEF StoreInv, TableInv, OwnersExist, HasAgent
<1>3. (table = "shared_record" /\ row.deleted = Nil) => ProfileIsFree(u, row)
  <2> SUFFICES ASSUME table = "shared_record", row.deleted = Nil,
                      row.type = "user_profile", NEW v \in Uuids \ {u},
                      store["shared_record"][v].user = row.user,
                      store["shared_record"][v].type = "user_profile",
                      store["shared_record"][v].deleted = Nil
               PROVE  FALSE
    BY DEF ProfileIsFree
  <2>1. row.user \in Tenants
    BY RowFacts
  <2>2. store["shared_record"][v] # NoRow
    BY <2>1, NilAssumption DEF NoRow
  <2>3. QED
    BY <1>1, <2>2 DEF StoreInv, TableInv, OneProfile
<1>4. Reuse = "own" => \A x \in Tables \ {table} : store[x][u] = NoRow
  BY <1>1 DEF StoreInv, OneTable, Tables
<1>5. Harmless(table, u, row)
  BY <1>2, <1>3, <1>4 DEF Harmless
<1>6. QED
  BY <1>5, HarmlessWrite DEF Edits

\* Every step keeps the invariant.
LEMMA StoreStep == StoreInv /\ [Next]_vars => StoreInv'
<1> SUFFICES ASSUME StoreInv, [Next]_vars
             PROVE  StoreInv'
  OBVIOUS
<1>1. ASSUME NEW t \in Tenants, CallBy(t)
      PROVE  StoreInv'
  <2>1. TypeOK
    BY DEF StoreInv, TableInv
  <2>2. CASE \E a \in Agents : CreateAgent(t, a)
    BY <2>2, CreateAgentStep
  <2>3. CASE \E table \in Tables, u \in Uuids, row \in Rows :
                Stores(t, table, u, row) \/ Edits(t, table, u, row)
    BY <2>3, StoresStep, EditsStep
  <2>4. QED
    BY <1>1, <2>1, <2>2, <2>3, CallWrites
<1>2. CASE Tick
  BY <1>2, ClockAssumption DEF Tick, StoreInv, TableInv, TypeOK, OneProfile, OwnersExist,
                               OneTable, Times
<1>3. CASE UNCHANGED vars
  BY <1>3 DEF vars, StoreInv, TableInv, TypeOK, OneProfile, OwnersExist, OneTable
<1>4. QED
  BY <1>1, <1>2, <1>3 DEF Next

-----------------------------------------------------------------------------
(* The theorems.                                                            *)

\* The inductive invariant of the two tables.
THEOREM Invariance == Spec => []StoreInv
<1>1. Init => StoreInv
  BY ClockAssumption
     DEF Init, StoreInv, TableInv, TypeOK, OneProfile, OwnersExist, OneTable, Tables, Times
<1>2. QED
  BY <1>1, StoreStep, PTL DEF Spec

\* However uuids are chosen, a tenant has at most one profile that is not
\* deleted: insert_shared leaves that to idx_one_user_profile_per_tenant, and
\* no other call makes a row into a profile or revives one.
THEOREM OneProfileEach == Spec => []OneProfile
<1>1. StoreInv => OneProfile
  BY DEF StoreInv, TableInv
<1>2. QED
  BY <1>1, Invariance, PTL

\* Under callers that name their own uuids, what a listing hands out is what
\* get hands out for its uuid, and every agent row has its agent.
THEOREM Reachable == Reuse = "own" => (Spec => []RowsAreReachable)
<1> SUFFICES ASSUME Reuse = "own"
             PROVE  Spec => []RowsAreReachable
  OBVIOUS
<1>1. StoreInv => ListedIsLoadable
  <2> SUFFICES ASSUME StoreInv, NEW t \in Tenants, NEW entry \in Listing(t, TRUE)
               PROVE  Get(t, entry[2]) = {store[entry[1]][entry[2]]}
    BY DEF ListedIsLoadable
  <2>1. PICK table \in Tables, u \in Uuids :
           entry[1] = table /\ entry[2] = u /\ Listed(t, table, u, TRUE)
    BY DEF Listing
  <2>2. Holds(t, table, u, FALSE)
    BY <2>1 DEF Listed, Holds
  <2>3. \A x \in Tables \ {table} : ~Holds(t, x, u, FALSE)
    BY <2>2 DEF Holds, StoreInv, OneTable, Tables
  <2>4. Locate(t, u, FALSE) = {table}
    BY <2>2, <2>3 DEF Locate, Tables
  <2>5. QED
    BY <2>1, <2>4 DEF Get
<1>2. StoreInv => RowsAreReachable
  BY <1>1 DEF RowsAreReachable, StoreInv, TableInv
<1>3. QED
  BY <1>2, Invariance, PTL

\* Under callers that name their own uuids, no call of a tenant changes a row
\* of another: inserts name free uuids or the caller's rows, and all else finds
\* its row by (uuid, user_id).
THEOREM Apart == Reuse = "own" => (Spec => TenantsApart)
<1> SUFFICES ASSUME Reuse = "own"
             PROVE  Spec => TenantsApart
  OBVIOUS
<1> DEFINE Untouched(t) ==
              \A table \in Tables, u \in Uuids :
                 (store[table][u] # NoRow /\ store[table][u].user # t) =>
                     store'[table][u] = store[table][u]
           Kept == \A t \in Tenants : CallBy(t) => Untouched(t)
<1>1. ASSUME TypeOK, NEW t \in Tenants, CallBy(t)
      PROVE  Untouched(t)
  <2> SUFFICES ASSUME NEW x \in Tables, NEW v \in Uuids,
                      store[x][v] # NoRow, store[x][v].user # t
               PROVE  store'[x][v] = store[x][v]
    OBVIOUS
  <2>1. CASE \E a \in Agents : CreateAgent(t, a)
    BY <2>1 DEF CreateAgent
  <2>2. ASSUME NEW table \in Tables, NEW u \in Uuids, NEW row \in Rows,
               Stores(t, table, u, row) \/ Edits(t, table, u, row)
        PROVE  store'[x][v] = store[x][v]
    <3>1. x # table \/ v # u
      BY <2>2 DEF Stores, MayName, Edits
    <3>2. QED
      BY <1>1, <2>2, <3>1, OneRowWritten DEF Stores, Edits
  <2>3. QED
    BY <1>1, <2>1, <2>2, CallWrites
<1>2. StoreInv => TypeOK
  BY DEF StoreInv, TableInv
<1>3. StoreInv /\ [Next]_vars => [Kept]_vars
  BY <1>1, <1>2
<1>4. QED
  BY <1>3, Invariance, PTL DEF Spec, TenantsApart

-----------------------------------------------------------------------------
(* The refinement of TenantVaults.                                          *)

\* The mapped variable.
Vault == [t \in Tenants |-> [u \in Uuids |-> VaultOf(t, u)]]

\* Where a uuid is in one table, its vault shows the status of that row to its
\* owner and nothing to anyone else.
VaultsShowRows ==
    \A table \in Tables, u \in Uuids :
       (\A x \in Tables \ {table} : store[x][u] = NoRow) =>
           \A s \in Tenants :
              VaultOf(s, u) = IF store[table][u] # NoRow /\ store[table][u].user = s
                              THEN Status(store[table][u]) ELSE "absent"

LEMMA VaultValue == VaultsShowRows
<1> SUFFICES ASSUME NEW table \in Tables, NEW u \in Uuids,
                    \A x \in Tables \ {table} : store[x][u] = NoRow, NEW s \in Tenants
             PROVE  VaultOf(s, u) = IF store[table][u] # NoRow /\ store[table][u].user = s
                                    THEN Status(store[table][u]) ELSE "absent"
  BY DEF VaultsShowRows
<1>1. \A x \in Tables : Holds(s, x, u, TRUE) <=> /\ x = table
                                                 /\ store[table][u] # NoRow
                                                 /\ store[table][u].user = s
  BY DEF Holds
<1>2. CASE store[table][u] # NoRow /\ store[table][u].user = s
  <2>1. (CHOOSE x \in Tables : Holds(s, x, u, TRUE)) = table
    BY <1>1, <1>2
  <2>2. QED
    BY <1>1, <1>2, <2>1 DEF VaultOf
<1>3. CASE ~(store[table][u] # NoRow /\ store[table][u].user = s)
  BY <1>1, <1>3 DEF VaultOf
<1>4. QED
  BY <1>2, <1>3

\* The status a row that is there shows.
LEMMA StatusFacts ==
    ASSUME NEW row
    PROVE  Status(row) = IF row.deleted # Nil THEN "deleted"
                         ELSE IF row.archived # Nil THEN "archived" ELSE "hot"
BY DEF Status

\* Where rows did not change, vaults did not either.
LEMMA VaultFrame ==
    ASSUME NEW u \in Uuids, \A x \in Tables : store'[x][u] = store[x][u]
    PROVE  \A s \in Tenants : VaultOf(s, u)' = VaultOf(s, u)
<1> SUFFICES ASSUME NEW s \in Tenants
             PROVE  VaultOf(s, u)' = VaultOf(s, u)
  OBVIOUS
<1>1. \A x \in Tables : Holds(s, x, u, TRUE)' <=> Holds(s, x, u, TRUE)
  BY DEF Holds
<1>2. (CHOOSE x \in Tables : Holds(s, x, u, TRUE)')
        = (CHOOSE x \in Tables : Holds(s, x, u, TRUE))
  BY <1>1
<1>3. (CHOOSE x \in Tables : Holds(s, x, u, TRUE)) \in Tables
        \/ ~\E x \in Tables : Holds(s, x, u, TRUE)
  OBVIOUS
<1>4. QED
  BY <1>1, <1>2, <1>3 DEF VaultOf, Status

\* A write under a uuid that is in no other table changes one entry of one
\* vault, to the status of what was written.
LEMMA VaultWrite ==
    ASSUME TypeOK, NEW t \in Tenants, NEW table \in Tables, NEW u \in Uuids,
           NEW row \in Rows, Write(table, u, row), row.user = t,
           \A x \in Tables \ {table} : store[x][u] = NoRow,
           store[table][u] # NoRow => store[table][u].user = t
    PROVE  /\ Vault' = [Vault EXCEPT ![t][u] = Status(row)]
           /\ \A s \in Tenants \ {t} : Vault[s][u] = "absent"
           /\ Vault[t][u] = IF store[table][u] = NoRow
                            THEN "absent" ELSE Status(store[table][u])
<1>1. /\ store'[table][u] = row
      /\ \A x \in Tables, v \in Uuids :
            (x # table \/ v # u) => store'[x][v] = store[x][v]
  BY OneRowWritten
<1>2. \A s \in Tenants :
         VaultOf(s, u) = IF store[table][u] # NoRow /\ store[table][u].user = s
                         THEN Status(store[table][u]) ELSE "absent"
  BY VaultValue DEF VaultsShowRows
<1>3. \A s \in Tenants :
         VaultOf(s, u)' = IF store'[table][u] # NoRow /\ store'[table][u].user = s
                          THEN Status(store'[table][u]) ELSE "absent"
  <2>1. VaultsShowRows'
    BY VaultValue, PTL
  <2>2. QED
    BY <1>1, <2>1 DEF VaultsShowRows
<1>4. \A s \in Tenants : VaultOf(s, u)' = IF s = t THEN Status(row) ELSE VaultOf(s, u)
  BY <1>1, <1>2, <1>3, RowFacts
<1>5. \A v \in Uuids \ {u} : \A s \in Tenants : VaultOf(s, v)' = VaultOf(s, v)
  BY <1>1, VaultFrame
<1>6. Vault' = [Vault EXCEPT ![t][u] = Status(row)]
  BY <1>4, <1>5 DEF Vault
<1>7. QED
  BY <1>2, <1>6 DEF Vault

\* An upsert puts the record in its caller's vault.
LEMMA StoresMaps ==
    ASSUME StoreInv, Reuse = "own", NEW t \in Tenants, NEW table \in Tables,
           NEW u \in Uuids, NEW row \in Rows, Stores(t, table, u, row)
    PROVE  Vaults!Put(t, u)
<1>1. /\ \A x \in Tables \ {table} : store[x][u] = NoRow
      /\ store[table][u] # NoRow => store[table][u].user = t
      /\ row.user = t /\ Write(table, u, row) /\ Status(row) = "hot"
  BY StatusFacts DEF Stores, MayName
<1>2. /\ Vault' = [Vault EXCEPT ![t][u] = "hot"]
      /\ \A s \in Tenants \ {t} : Vault[s][u] = "absent"
  BY <1>1, VaultWrite DEF StoreInv, TableInv
<1>3. QED
  BY <1>2 DEF Vaults!Put, Vault

\* An edit archives the record, deletes it, or shows in no vault.
LEMMA EditsMaps ==
    ASSUME StoreInv, Reuse = "own", NEW t \in Tenants, NEW table \in Tables,
           NEW u \in Uuids, NEW row \in Rows, Edits(t, table, u, row)
    PROVE  Vaults!Archive(t, u) \/ Vaults!Delete(t, u) \/ Vault' = Vault
<1> DEFINE old == store[table][u]
<1>1. /\ old # NoRow /\ old.user = t
      /\ row.user = t /\ Write(table, u, row)
  BY RowFacts DEF Edits
<1>2. \A x \in Tables \ {table} : store[x][u] = NoRow
  BY <1>1 DEF StoreInv, OneTable, Tables
<1>3. /\ Vault' = [Vault EXCEPT ![t][u] = Status(row)]
      /\ Vault[t][u] = Status(old)
  BY <1>1, <1>2, VaultWrite DEF StoreInv, TableInv
<1>4. \/ Status(row) = Status(old)
      \/ Status(old) = "hot" /\ Status(row) = "archived"
      \/ Status(old) \in {"hot", "archived"} /\ Status(row) = "deleted"
  BY StatusFacts DEF Edits
<1> HIDE DEF old
<1>5. CASE Status(row) = Status(old)
  <2>1. [Vault EXCEPT ![t][u] = Vault[t][u]] = Vault
    BY DEF Vault
  <2>2. QED
    BY <1>3, <1>5, <2>1
<1>6. CASE Status(old) = "hot" /\ Status(row) = "archived"
  BY <1>3, <1>6 DEF Vaults!Archive, Vault
<1>7. CASE Status(old) \in {"hot", "archived"} /\ Status(row) = "deleted"
  BY <1>3, <1>7 DEF Vaults!Delete, Vault
<1>8. QED
  BY <1>4, <1>5, <1>6, <1>7

\* Under callers that name their own uuids, the two tables implement one vault
\* for each tenant: a record enters only its caller's vault, and leaves the hot
\* listings and all reads in the order the vaults allow.
THEOREM Implementation == Reuse = "own" => (Spec => ImplementsVaults)
<1> SUFFICES ASSUME Reuse = "own"
             PROVE  Spec => ImplementsVaults
  OBVIOUS
<1>1. Init => Vaults!Init
  <2> SUFFICES ASSUME Init
               PROVE  \A t \in Tenants, u \in Uuids : VaultOf(t, u) = "absent"
    BY DEF Vaults!Init
  <2>1. \A t \in Tenants, u \in Uuids, table \in Tables : ~Holds(t, table, u, TRUE)
    BY DEF Init, Holds
  <2>2. QED
    BY <2>1 DEF VaultOf
<1>2. StoreInv /\ [Next]_vars => [Vaults!Next]_Vault
  <2> SUFFICES ASSUME StoreInv, [Next]_vars
               PROVE  Vaults!Next \/ Vault' = Vault
    OBVIOUS
  <2>1. ASSUME store' = store
        PROVE  Vault' = Vault
    BY <2>1, VaultFrame DEF Vault
  <2>2. ASSUME NEW t \in Tenants, CallBy(t)
        PROVE  Vaults!Next \/ Vault' = Vault
    <3>1. TypeOK
      BY DEF StoreInv, TableInv
    <3>2. CASE \E a \in Agents : CreateAgent(t, a)
      BY <2>1, <3>2 DEF CreateAgent
    <3>3. ASSUME NEW table \in Tables, NEW u \in Uuids, NEW row \in Rows,
                 Stores(t, table, u, row) \/ Edits(t, table, u, row)
          PROVE  Vaults!Next \/ Vault' = Vault
      BY <3>3, StoresMaps, EditsMaps DEF Vaults!Next
    <3>4. QED
      BY <2>2, <3>1, <3>2, <3>3, CallWrites
  <2>3. CASE Tick
    BY <2>1, <2>3 DEF Tick
  <2>4. CASE UNCHANGED vars
    BY <2>1, <2>4 DEF vars
  <2>5. QED
    BY <2>2, <2>3, <2>4 DEF Next
<1>3. QED
  BY <1>1, <1>2, Invariance, PTL DEF Spec, ImplementsVaults, Vaults!Spec, Vault
=============================================================================
