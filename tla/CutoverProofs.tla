---------------------------- MODULE CutoverProofs ----------------------------
(***************************************************************************)
(* What TLAPS proves of Cutover, for any number of processes of the tool,  *)
(* of people and codes, and any bounds.                                    *)
(***************************************************************************)
EXTENDS Cutover, FiniteSetTheorems, TLAPS

-----------------------------------------------------------------------------
(* The tables.                                                              *)

\* The seven tables in the order in which they are copied.
LEMMA TableOrder ==
    /\ Len(Tables) = 7
    /\ Tables[1] = "account" /\ Tables[2] = "user_identity" /\ Tables[3] = "agent"
    /\ Tables[4] = "shared_record" /\ Tables[5] = "memory_record"
    /\ Tables[6] = "tenant_access" /\ Tables[7] = "tenant_invite"
    /\ \A k \in 1..7 : Tables[k] \in StoreTables
    /\ \A t \in StoreTables : \E k \in 1..7 : Tables[k] = t
<1>1. /\ Len(Tables) = 7
      /\ Tables[1] = "account" /\ Tables[2] = "user_identity" /\ Tables[3] = "agent"
      /\ Tables[4] = "shared_record" /\ Tables[5] = "memory_record"
      /\ Tables[6] = "tenant_access" /\ Tables[7] = "tenant_invite"
  BY DEF Tables
<1>2. \A k \in 1..7 : k \in {1, 2, 3, 4, 5, 6, 7}
  OBVIOUS
<1>3. \A k \in 1..7 : Tables[k] \in StoreTables
  BY <1>1, <1>2 DEF StoreTables
<1>4. \A t \in StoreTables : \E k \in 1..7 : Tables[k] = t
  BY <1>1 DEF StoreTables
<1>5. QED
  BY <1>1, <1>3, <1>4

\* A record's key is an id; of the others only an invitation's is no person.
LEMMA KeysOfTables ==
    /\ \A t \in RecordTables : t \in StoreTables /\ Keys(t) = 1..MaxId
    /\ \A t \in StoreTables \ (RecordTables \cup {"tenant_invite"}) : Keys(t) = People
BY DEF Keys, RecordTables, StoreTables

\* A store is a function from tables to sets of their rows.
LEMMA StoreType ==
    ASSUME NEW S
    PROVE  S \in Stores <=>
              /\ S = [t \in StoreTables |-> S[t]]
              /\ \A t \in StoreTables : S[t] \subseteq Rows(t)
<1>1. ASSUME S \in Stores
      PROVE  S = [t \in StoreTables |-> S[t]] /\ \A t \in StoreTables : S[t] \subseteq Rows(t)
  BY <1>1 DEF Stores
<1>2. ASSUME S = [t \in StoreTables |-> S[t]], \A t \in StoreTables : S[t] \subseteq Rows(t)
      PROVE  S \in Stores
  BY <1>2 DEF Stores
<1>3. QED
  BY <1>1, <1>2

\* A row's copy has its keys and its text.
LEMMA CarriedRow ==
    ASSUME NEW t \in StoreTables, NEW r \in Rows(t)
    PROVE  /\ Carried(r) \in Rows(t)
           /\ Carried(r).owner = r.owner /\ Carried(r).key = r.key /\ Carried(r).text = r.text
           /\ Pk(t, Carried(r)) = Pk(t, r)
           /\ Parents(t, Carried(r)) = Parents(t, r)
<1>1. /\ Carried(r) \in Rows(t)
      /\ Carried(r).owner = r.owner /\ Carried(r).key = r.key /\ Carried(r).text = r.text
  BY DEF Carried, Rows
<1>2. Pk(t, Carried(r)) = Pk(t, r)
  BY <1>1 DEF Pk
<1>3. Parents(t, Carried(r)) = Parents(t, r)
  BY <1>1 DEF Parents
<1>4. QED
  BY <1>1, <1>2, <1>3

\* The copy of a store is a store with its keys.
LEMMA CopiedStore ==
    ASSUME NEW S \in Stores
    PROVE  /\ Copied(S) \in Stores
           /\ \A t \in StoreTables : /\ Copied(S)[t] = {Carried(r) : r \in S[t]}
                                     /\ PksOf(t, Copied(S)[t]) = PksOf(t, S[t])
<1>1. \A t \in StoreTables : Copied(S)[t] = {Carried(r) : r \in S[t]}
  BY DEF Copied
<1>2. \A t \in StoreTables : S[t] \subseteq Rows(t)
  BY StoreType
<1>3. ASSUME NEW t \in StoreTables
      PROVE  Copied(S)[t] \subseteq Rows(t) /\ PksOf(t, Copied(S)[t]) = PksOf(t, S[t])
  <2>1. \A r \in S[t] : Carried(r) \in Rows(t) /\ Pk(t, Carried(r)) = Pk(t, r)
    BY <1>2, CarriedRow
  <2>2. QED
    BY <1>1, <2>1 DEF PksOf
<1>4. Copied(S) = [t \in StoreTables |-> Copied(S)[t]]
  BY DEF Copied
<1>5. QED
  BY <1>1, <1>3, <1>4, StoreType

\* An empty store.
LEMMA EmptyStore == Empty \in Stores /\ \A t \in StoreTables : Empty[t] = {}
<1>1. \A t \in StoreTables : Empty[t] = {}
  BY DEF Empty
<1>2. Empty = [t \in StoreTables |-> Empty[t]]
  BY DEF Empty
<1>3. QED
  BY <1>1, <1>2, StoreType

\* One table of a store replaced.
LEMMA StoreExcept ==
    ASSUME NEW S \in Stores, NEW t \in StoreTables, NEW R, R \subseteq Rows(t)
    PROVE  /\ [S EXCEPT ![t] = R] \in Stores
           /\ [S EXCEPT ![t] = R][t] = R
           /\ \A s \in StoreTables : s # t => [S EXCEPT ![t] = R][s] = S[s]
<1> DEFINE T == [S EXCEPT ![t] = R]
<1>1. S = [s \in StoreTables |-> S[s]] /\ \A s \in StoreTables : S[s] \subseteq Rows(s)
  BY StoreType
<1>2. T = [s \in StoreTables |-> IF s = t THEN R ELSE S[s]]
  BY <1>1
<1>3. T[t] = R /\ \A s \in StoreTables : s # t => T[s] = S[s]
  BY <1>2
<1>4. T = [s \in StoreTables |-> T[s]]
  BY <1>2
<1> HIDE DEF T
<1>5. \A s \in StoreTables : T[s] \subseteq Rows(s)
  BY <1>1, <1>3
<1>6. T \in Stores
  BY <1>4, <1>5, StoreType
<1>7. QED
  BY <1>3, <1>6 DEF T

-----------------------------------------------------------------------------
(* What each step does to the tool's processes.                             *)

ProcessesOK == tool \in [Tools -> Processes]

\* A table is in hand while tables are read or compared.
InHand == \A t \in Tools : tool[t].pc \in {"read", "count"} => tool[t].at \in 1..Len(Tables)

\* A step of one process: it stays what kind of run it is.
Steps(t) ==
    /\ tool' \in [Tools -> Processes]
    /\ \A u \in Tools : u # t => tool'[u] = tool[u]
    /\ tool'[t].full = tool[t].full /\ tool'[t].cold = tool[t].cold
    /\ tool'[t].clean = tool[t].clean

LEMMA ReadTableFields ==
    ASSUME ProcessesOK, InHand, source \in Stores, NEW t \in Tools, ReadTable(t)
    PROVE  LET table == Tables[tool[t].at]
           IN  /\ Steps(t)
               /\ tool[t].pc = "read" /\ tool[t].at \in 1..7 /\ table \in StoreTables
               /\ tool'[t].pc = (IF tool[t].at = 7 THEN "open" ELSE "read")
               /\ tool'[t].at = tool[t].at + 1
               /\ tool'[t].rows[table] = Copied(source)[table]
               /\ \A s \in StoreTables : s # table => tool'[t].rows[s] = tool[t].rows[s]
               /\ tool'[t].todo = tool[t].todo /\ tool'[t].bad = tool[t].bad
               /\ tool'[t].had = tool[t].had
<1> DEFINE table == Tables[tool[t].at]
           got == Copied(source)[table]
           old == tool[t].rows
           new == [old EXCEPT ![table] = got]
<1>1. tool[t].pc = "read" /\ tool[t].at \in 1..7 /\ table \in StoreTables
  BY TableOrder DEF ReadTable, InHand
<1>2. old \in Stores
  BY DEF ProcessesOK, Processes
<1>3. got \subseteq Rows(table)
  BY <1>1, CopiedStore, StoreType
<1>4. /\ new \in Stores /\ new[table] = got
      /\ \A s \in StoreTables : s # table => new[s] = old[s]
  <2>1. table \in StoreTables
    BY <1>1
  <2> HIDE DEF table, got, old
  <2>2. QED
    BY <1>2, <1>3, <2>1, StoreExcept
<1>5. tool' = [tool EXCEPT ![t].rows = new, ![t].at = @ + 1,
                           ![t].pc = IF tool[t].at = Len(Tables) THEN "open" ELSE @]
  BY DEF ReadTable
<1> HIDE DEF new
<1>6. /\ Steps(t)
      /\ tool'[t].pc = (IF tool[t].at = 7 THEN "open" ELSE "read")
      /\ tool'[t].at = tool[t].at + 1
      /\ tool'[t].rows = new
      /\ tool'[t].todo = tool[t].todo /\ tool'[t].bad = tool[t].bad
      /\ tool'[t].had = tool[t].had
  BY <1>1, <1>4, <1>5, TableOrder DEF ProcessesOK, Processes, Pcs, Steps
<1>7. QED
  BY <1>1, <1>4, <1>6

LEMMA EnsureSchemaFields ==
    ASSUME ProcessesOK, NEW t \in Tools, EnsureSchema(t)
    PROVE  /\ Steps(t) /\ tool[t].pc = "open" /\ tool'[t].pc = "check"
           /\ tool'[t].at = tool[t].at /\ tool'[t].rows = tool[t].rows
           /\ tool'[t].todo = tool[t].todo /\ tool'[t].bad = tool[t].bad
           /\ tool'[t].had = tool[t].had
BY DEF EnsureSchema, ProcessesOK, Processes, Pcs, Steps

LEMMA CheckTargetFields ==
    ASSUME ProcessesOK, NEW t \in Tools, CheckTarget(t)
    PROVE  /\ Steps(t) /\ tool[t].pc = "check"
           /\ tool'[t].pc = (IF \A s \in StoreTables : target[s] = {} THEN "copy" ELSE "red")
           /\ tool'[t].at = tool[t].at /\ tool'[t].rows = tool[t].rows
           /\ tool'[t].todo = tool[t].todo /\ tool'[t].bad = tool[t].bad
           /\ tool'[t].had = tool[t].had
<1> DEFINE empty == \A s \in StoreTables : target[s] = {}
<1>1. (\A k \in 1..Len(Tables) : target[Tables[k]] = {}) <=> empty
  BY TableOrder
<1>2. /\ tool[t].pc = "check"
      /\ tool' = [tool EXCEPT ![t].pc = IF empty THEN "copy" ELSE "red"]
  BY <1>1 DEF CheckTarget
<1> HIDE DEF empty
<1>3. /\ Steps(t) /\ tool[t].pc = "check"
      /\ tool'[t].pc = (IF empty THEN "copy" ELSE "red")
      /\ tool'[t].at = tool[t].at /\ tool'[t].rows = tool[t].rows
      /\ tool'[t].todo = tool[t].todo /\ tool'[t].bad = tool[t].bad
      /\ tool'[t].had = tool[t].had
  BY <1>2 DEF ProcessesOK, Processes, Pcs, Steps
<1>4. QED
  BY <1>3 DEF empty

\* A copy either adds all the rows read or none.
LEMMA CopyFields ==
    ASSUME ProcessesOK, source \in Stores, NEW t \in Tools, Copy(t)
    PROVE  /\ Steps(t) /\ tool[t].pc = "copy"
           /\ tool'[t].rows = tool[t].rows
           /\ tool'[t].todo = tool[t].todo /\ tool'[t].bad = tool[t].bad
           /\ \/ /\ Insertable(tool[t].rows)
                 /\ target' = [s \in StoreTables |-> target[s] \cup tool[t].rows[s]]
                 /\ targetId' = Setvals(target')
                 /\ tool'[t].pc = "count" /\ tool'[t].at = 1 /\ tool'[t].had = source
              \/ /\ ~Insertable(tool[t].rows)
                 /\ UNCHANGED <<target, targetId>>
                 /\ tool'[t].pc = "red" /\ tool'[t].at = tool[t].at
                 /\ tool'[t].had = tool[t].had
<1> DEFINE rows == tool[t].rows
<1>1. CASE Insertable(rows)
  <2>1. /\ tool[t].pc = "copy"
        /\ target' = [s \in StoreTables |-> target[s] \cup tool[t].rows[s]]
        /\ targetId' = Setvals(target')
    BY <1>1 DEF Copy
  <2>2. tool' = [tool EXCEPT ![t].pc = "count", ![t].at = 1, ![t].had = source]
    BY <1>1 DEF Copy
  <2>3. /\ Steps(t) /\ tool'[t].rows = tool[t].rows
        /\ tool'[t].todo = tool[t].todo /\ tool'[t].bad = tool[t].bad
        /\ tool'[t].pc = "count" /\ tool'[t].at = 1 /\ tool'[t].had = source
    <3> DEFINE w == [tool[t] EXCEPT !.pc = "count", !.at = 1, !.had = source]
    <3>1. 1 \in 1..(Len(Tables) + 1)
      BY TableOrder
    <3>2. /\ w \in Processes /\ w.pc = "count" /\ w.at = 1 /\ w.had = source
          /\ w.rows = tool[t].rows /\ w.todo = tool[t].todo /\ w.bad = tool[t].bad
          /\ w.full = tool[t].full /\ w.cold = tool[t].cold /\ w.clean = tool[t].clean
      BY <3>1 DEF ProcessesOK, Processes, Pcs
    <3>3. tool' = [tool EXCEPT ![t] = w]
      BY <2>2 DEF ProcessesOK, Processes
    <3> HIDE DEF w
    <3>4. QED
      BY <3>2, <3>3 DEF ProcessesOK, Steps
  <2>4. QED
    BY <1>1, <2>1, <2>3
<1>2. CASE ~Insertable(rows)
  <2>1. /\ tool[t].pc = "copy" /\ UNCHANGED <<target, targetId>>
        /\ tool' = [tool EXCEPT ![t].pc = "red"]
    BY <1>2 DEF Copy
  <2>2. /\ Steps(t) /\ tool'[t].rows = tool[t].rows
        /\ tool'[t].todo = tool[t].todo /\ tool'[t].bad = tool[t].bad
        /\ tool'[t].pc = "red" /\ tool'[t].at = tool[t].at /\ tool'[t].had = tool[t].had
    BY <2>1 DEF ProcessesOK, Processes, Pcs, Steps
  <2>3. QED
    BY <1>2, <2>1, <2>2
<1>3. QED
  BY <1>1, <1>2

LEMMA CompareTableFields ==
    ASSUME ProcessesOK, InHand, ready \in BOOLEAN, NEW t \in Tools, CompareTable(t)
    PROVE  LET table == Tables[tool[t].at]
               same  == Cardinality(source[table]) = Cardinality(target[table])
           IN  /\ Steps(t) /\ tool[t].pc = "count"
               /\ tool[t].at \in 1..7 /\ table \in StoreTables
               /\ tool'[t].rows = tool[t].rows /\ tool'[t].todo = tool[t].todo
               /\ tool'[t].had = tool[t].had
               /\ ~ready => tool'[t].pc = "red" /\ tool'[t].at = tool[t].at
               /\ ready => /\ tool'[t].pc = (IF tool[t].at = 7 THEN "tenants" ELSE "count")
                           /\ tool'[t].at = tool[t].at + 1
                           /\ ~tool'[t].bad => ~tool[t].bad /\ same
                           /\ ~tool[t].bad /\ same => ~tool'[t].bad
<1> DEFINE table == Tables[tool[t].at]
           differ == Cardinality(source[table]) # Cardinality(target[table])
<1>1. tool[t].pc = "count" /\ tool[t].at \in 1..7 /\ table \in StoreTables
  BY TableOrder DEF CompareTable, Verifying, InHand
<1>2. CASE ~ready
  <2>1. tool' = [tool EXCEPT ![t].pc = "red"]
    BY <1>2 DEF CompareTable
  <2>2. /\ Steps(t) /\ tool'[t].rows = tool[t].rows /\ tool'[t].todo = tool[t].todo
        /\ tool'[t].had = tool[t].had /\ tool'[t].pc = "red" /\ tool'[t].at = tool[t].at
    BY <2>1 DEF ProcessesOK, Processes, Pcs, Steps
  <2>3. QED
    BY <1>1, <1>2, <2>2
<1>3. CASE ready
  <2>1. tool' = [tool EXCEPT ![t].bad = @ \/ differ, ![t].at = @ + 1,
                             ![t].pc = IF tool[t].at = Len(Tables) THEN "tenants" ELSE @]
    BY <1>3 DEF CompareTable
  <2>2. differ \in BOOLEAN
    OBVIOUS
  <2> HIDE DEF differ
  <2>3. /\ Steps(t) /\ tool'[t].rows = tool[t].rows /\ tool'[t].todo = tool[t].todo
        /\ tool'[t].had = tool[t].had /\ tool'[t].at = tool[t].at + 1
        /\ tool'[t].pc = (IF tool[t].at = 7 THEN "tenants" ELSE "count")
        /\ tool'[t].bad = (tool[t].bad \/ differ)
    BY <1>1, <2>1, <2>2, TableOrder DEF ProcessesOK, Processes, Pcs, Steps
  <2>4. QED
    BY <1>1, <1>3, <2>3 DEF differ
<1>4. QED
  BY <1>2, <1>3

LEMMA ListTenantsFields ==
    ASSUME ProcessesOK, source \in Stores, NEW t \in Tools, ListTenants(t)
    PROVE  /\ Steps(t) /\ tool[t].pc = "tenants" /\ tool'[t].pc = "tenant"
           /\ tool'[t].todo \subseteq People \X RecordTables
           /\ tool'[t].rows = tool[t].rows /\ tool'[t].bad = tool[t].bad
           /\ tool'[t].had = tool[t].had /\ tool'[t].at = tool[t].at
<1> DEFINE todo == {r.key : r \in source["account"]} \X RecordTables
<1>1. source["account"] \subseteq Rows("account")
  BY StoreType DEF StoreTables
<1>2. \A r \in source["account"] : r.key \in People
  BY <1>1 DEF Rows, Keys, RecordTables
<1>3. todo \subseteq People \X RecordTables
  BY <1>2
<1>4. tool[t].pc = "tenants" /\ tool' = [tool EXCEPT ![t].todo = todo, ![t].pc = "tenant"]
  BY DEF ListTenants, Verifying
<1>5. todo \in Agendas
  BY <1>3 DEF Agendas
<1> HIDE DEF todo
<1>6. /\ Steps(t) /\ tool'[t].pc = "tenant" /\ tool'[t].todo = todo
      /\ tool'[t].rows = tool[t].rows /\ tool'[t].bad = tool[t].bad
      /\ tool'[t].had = tool[t].had /\ tool'[t].at = tool[t].at
  BY <1>4, <1>5 DEF ProcessesOK, Processes, Pcs, Steps
<1>7. QED
  BY <1>3, <1>4, <1>6

LEMMA CompareTenantFields ==
    ASSUME ProcessesOK, NEW t \in Tools, CompareTenant(t)
    PROVE  /\ Steps(t) /\ tool[t].pc = "tenant" /\ tool'[t].pc = "tenant"
           /\ tool'[t].todo \subseteq tool[t].todo
           /\ tool'[t].rows = tool[t].rows
           /\ tool'[t].had = tool[t].had /\ tool'[t].at = tool[t].at
           /\ ~tool'[t].bad => ~tool[t].bad
           /\ /\ ~tool[t].bad /\ tool[t].todo \subseteq People \X RecordTables
              /\ \A p \in People, s \in RecordTables :
                    OwnedBy(p, source[s]) = OwnedBy(p, target[s])
              => ~tool'[t].bad
<1> DEFINE pair == CHOOSE x \in tool[t].todo : TRUE
           differ == OwnedBy(pair[1], source[pair[2]]) # OwnedBy(pair[1], target[pair[2]])
<1>1. tool[t].pc = "tenant" /\ tool[t].todo # {}
  BY DEF CompareTenant, Verifying
<1>2. tool[t].todo \subseteq People \X RecordTables => pair \in People \X RecordTables
  BY <1>1
<1>3. tool' = [tool EXCEPT ![t].bad = @ \/ differ, ![t].todo = @ \ {pair}]
  BY DEF CompareTenant
<1>5. /\ tool[t].todo \subseteq People \X RecordTables
      /\ \A p \in People, s \in RecordTables : OwnedBy(p, source[s]) = OwnedBy(p, target[s])
      => ~differ
  BY <1>2
<1> HIDE DEF pair, differ
<1> DEFINE rest  == tool[t].todo \ {pair}
           worse == tool[t].bad \/ differ
<1>6. /\ rest \in Agendas /\ worse \in BOOLEAN
      /\ tool' = [tool EXCEPT ![t].bad = worse, ![t].todo = rest]
  BY <1>3 DEF ProcessesOK, Processes, Agendas
<1> HIDE DEF rest, worse
<1> DEFINE w == [tool[t] EXCEPT !.bad = worse, !.todo = rest]
<1>7. /\ w \in Processes /\ w.pc = tool[t].pc /\ w.todo = rest /\ w.bad = worse
      /\ w.rows = tool[t].rows /\ w.had = tool[t].had /\ w.at = tool[t].at
      /\ w.full = tool[t].full /\ w.cold = tool[t].cold /\ w.clean = tool[t].clean
  BY <1>6 DEF ProcessesOK, Processes
<1>8. tool' = [tool EXCEPT ![t] = w]
  BY <1>6 DEF ProcessesOK, Processes
<1> HIDE DEF w
<1>9. /\ Steps(t) /\ tool'[t].pc = tool[t].pc /\ tool'[t].todo = rest
      /\ tool'[t].rows = tool[t].rows /\ tool'[t].bad = worse
      /\ tool'[t].had = tool[t].had /\ tool'[t].at = tool[t].at
  BY <1>7, <1>8 DEF ProcessesOK, Steps
<1>10. QED
  BY <1>1, <1>5, <1>9 DEF rest, worse

LEMMA ListIdentitiesFields ==
    ASSUME ProcessesOK, source \in Stores, NEW t \in Tools, ListIdentities(t)
    PROVE  /\ Steps(t) /\ tool[t].pc = "tenant" /\ tool'[t].pc = "identities"
           /\ tool'[t].todo = {<<r.key, r.owner>> : r \in source["user_identity"]}
           /\ tool'[t].rows = tool[t].rows /\ tool'[t].bad = tool[t].bad
           /\ tool'[t].had = tool[t].had /\ tool'[t].at = tool[t].at
<1> DEFINE todo == {<<r.key, r.owner>> : r \in source["user_identity"]}
<1>1. source["user_identity"] \subseteq Rows("user_identity")
  BY StoreType DEF StoreTables
<1>2. \A r \in source["user_identity"] : r.key \in People /\ r.owner \in People
  BY <1>1 DEF Rows, Keys, RecordTables
<1>3. todo \in Agendas
  BY <1>2 DEF Agendas
<1>4. tool[t].pc = "tenant" /\ tool' = [tool EXCEPT ![t].todo = todo, ![t].pc = "identities"]
  BY DEF ListIdentities, Verifying
<1> HIDE DEF todo
<1>6. /\ Steps(t) /\ tool'[t].pc = "identities" /\ tool'[t].todo = todo
      /\ tool'[t].rows = tool[t].rows /\ tool'[t].bad = tool[t].bad
      /\ tool'[t].had = tool[t].had /\ tool'[t].at = tool[t].at
  BY <1>3, <1>4 DEF ProcessesOK, Processes, Pcs, Steps
<1>7. QED
  BY <1>4, <1>6 DEF todo

LEMMA CheckIdentitiesFields ==
    ASSUME ProcessesOK, NEW t \in Tools, CheckIdentities(t)
    PROVE  /\ Steps(t) /\ tool[t].pc = "identities" /\ tool'[t].pc \in {"red", "green"}
           /\ tool'[t].rows = tool[t].rows /\ tool'[t].bad = tool[t].bad
           /\ tool'[t].had = tool[t].had /\ tool'[t].at = tool[t].at
           /\ tool'[t].pc = "green" => ~tool[t].bad
           /\ ~tool[t].bad /\ (\A pair \in tool[t].todo : \E r \in target["user_identity"] :
                                  r.key = pair[1] /\ r.owner = pair[2]) => tool'[t].pc = "green"
<1> DEFINE resolves == \A pair \in tool[t].todo :
                          \E r \in target["user_identity"] : r.key = pair[1] /\ r.owner = pair[2]
<1>1. /\ tool[t].pc = "identities"
      /\ tool' = [tool EXCEPT ![t].todo = {},
                              ![t].pc = IF tool[t].bad \/ ~resolves THEN "red" ELSE "green"]
  BY DEF CheckIdentities, Verifying
<1> HIDE DEF resolves
<1>2. /\ Steps(t) /\ tool'[t].pc = (IF tool[t].bad \/ ~resolves THEN "red" ELSE "green")
      /\ tool'[t].rows = tool[t].rows /\ tool'[t].bad = tool[t].bad
      /\ tool'[t].had = tool[t].had /\ tool'[t].at = tool[t].at
  BY <1>1 DEF ProcessesOK, Processes, Pcs, Steps
<1>3. QED
  BY <1>1, <1>2 DEF resolves

LEMMA OffProcess == Off \in Processes
BY EmptyStore, TableOrder DEF Off, Processes, Pcs, Agendas

LEMMA StopFields ==
    ASSUME ProcessesOK, NEW t \in Tools, Stop(t)
    PROVE  /\ tool' \in [Tools -> Processes] /\ tool'[t] = Off /\ ~Idle(t)
           /\ \A u \in Tools : u # t => tool'[u] = tool[u]
<1>1. tool' = [tool EXCEPT ![t] = Off] /\ ~Idle(t)
  BY DEF Stop
<1> HIDE DEF Off
<1>2. QED
  BY <1>1, OffProcess DEF ProcessesOK

LEMMA StartFields ==
    ASSUME ProcessesOK, source \in Stores, frozen \in BOOLEAN, NEW t \in Tools,
           NEW full \in BOOLEAN, Start(t, full)
    PROVE  /\ tool' \in [Tools -> Processes] /\ Idle(t) /\ ~serving
           /\ \A u \in Tools : u # t =>
                /\ ~tool'[u].clean
                /\ \A f \in {"pc", "full", "at", "rows", "todo", "bad", "cold", "had"} :
                      tool'[u][f] = tool[u][f]
           /\ tool'[t].pc = (IF full THEN "read" ELSE "count")
           /\ tool'[t].full = full /\ tool'[t].at = 1 /\ tool'[t].rows = Empty
           /\ ~tool'[t].bad /\ tool'[t].cold = frozen
           /\ tool'[t].clean => Undisturbed(full)
           /\ tool'[t].had = IF full THEN Empty ELSE source
<1> DEFINE undisturbed == Undisturbed(full)
           had == IF full THEN Empty ELSE source
<1>1. /\ Idle(t) /\ ~serving
      /\ tool' = [u \in Tools |->
                  IF u # t THEN [tool[u] EXCEPT !.clean = FALSE]
                  ELSE [pc |-> IF full THEN "read" ELSE "count", full |-> full, at |-> 1,
                        rows |-> Empty, todo |-> {}, bad |-> FALSE, cold |-> frozen,
                        clean |-> undisturbed, had |-> had]]
  BY DEF Start
<1>2. undisturbed \in BOOLEAN
  BY DEF Undisturbed
<1>3. had \in Stores
  BY EmptyStore
<1> HIDE DEF undisturbed, had
<1>4. ASSUME NEW u \in Tools, u # t
      PROVE  /\ tool'[u] \in Processes /\ ~tool'[u].clean
             /\ tool'[u].pc = tool[u].pc /\ tool'[u].full = tool[u].full
             /\ tool'[u].at = tool[u].at /\ tool'[u].rows = tool[u].rows
             /\ tool'[u].todo = tool[u].todo /\ tool'[u].bad = tool[u].bad
             /\ tool'[u].cold = tool[u].cold /\ tool'[u].had = tool[u].had
  BY <1>1, <1>4 DEF ProcessesOK, Processes
<1>5. /\ tool'[t] \in Processes
      /\ tool'[t].pc = (IF full THEN "read" ELSE "count")
      /\ tool'[t].full = full /\ tool'[t].at = 1 /\ tool'[t].rows = Empty
      /\ ~tool'[t].bad /\ tool'[t].cold = frozen
      /\ tool'[t].clean = undisturbed
      /\ tool'[t].had = had
  BY <1>1, <1>2, <1>3, EmptyStore, TableOrder DEF Processes, Pcs, Agendas
<1>6. tool' = [u \in Tools |-> tool'[u]]
  BY <1>1
<1>7. tool' \in [Tools -> Processes]
  BY <1>4, <1>5, <1>6
<1>8. QED
  BY <1>1, <1>4, <1>5, <1>7 DEF undisturbed, had

-----------------------------------------------------------------------------
(* What each step does to the source.                                       *)

\* The highest key of a table is one of its keys.
LEMMA HighestKey ==
    ASSUME NEW n \in Nat, NEW S, S \subseteq 1..n, S # {}
    PROVE  Max(S) \in S /\ \A k \in S : k <= Max(S)
<1> DEFINE Below == {n - k : k \in S}
           Less == OpToRel(<, Nat)
<1>2. IsWellFoundedOn(Less, Nat)
  BY NatLessThanWellFounded
<1> HIDE DEF Less
<1>1. Below \subseteq Nat /\ Below # {}
  <2>1. \A k \in S : n - k \in Nat
    OBVIOUS
  <2>2. QED
    BY <2>1
<1>3. PICK x \in Below : \A y \in Below : ~(<<y, x>> \in Less)
  <2> HIDE DEF Below
  <2>1. QED
    BY <1>1, <1>2, WFMin
<1>4. \A y \in Below : ~(y < x)
  BY <1>1, <1>3 DEF OpToRel, Less
<1>5. PICK m \in S : x = n - m
  BY <1>3
<1>6. \A k \in S : m >= k
  BY <1>4, <1>5
<1>7. QED
  BY <1>5, <1>6 DEF Max

\* One row more in a table of the source.
LEMMA InsertedRow ==
    ASSUME source \in Stores, left \in 0..MaxWrites, NEW t \in Written, SourceInsert(t)
    PROVE  \E r \in Rows(t) :
              /\ t \in StoreTables /\ source' \in Stores
              /\ r.text = 0 /\ HasParents(t, r, source) /\ Pk(t, r) \notin PksOf(t, source[t])
              /\ t \in {"account", "user_identity", "agent"} => r.owner = r.key
              /\ source'[t] = source[t] \cup {r}
              /\ \A s \in StoreTables : s # t => source'[s] = source[s]
<1>1. PICK r \in Rows(t) :
          /\ r.text = 0
          /\ HasParents(t, r, source)
          /\ Pk(t, r) \notin PksOf(t, source[t])
          /\ t \in {"account", "user_identity", "agent"} => r.owner = r.key
          /\ source' = [source EXCEPT ![t] = @ \cup {r}]
  BY DEF SourceInsert
<1>2. t \in StoreTables
  BY WrittenAssumption
<1>3. source[t] \cup {r} \subseteq Rows(t)
  BY <1>2, StoreType
<1> DEFINE R == source[t] \cup {r}
<1>4. /\ source' \in Stores /\ source'[t] = R
      /\ \A s \in StoreTables : s # t => source'[s] = source[s]
  <2>1. source' = [source EXCEPT ![t] = R]
    BY <1>1
  <2>0. R \subseteq Rows(t)
    BY <1>3
  <2> HIDE DEF R
  <2>2. /\ [source EXCEPT ![t] = R] \in Stores
        /\ [source EXCEPT ![t] = R][t] = R
        /\ \A s \in StoreTables : s # t => [source EXCEPT ![t] = R][s] = source[s]
    BY ONLY source \in Stores, <1>2, <2>0, StoreExcept
  <2>3. QED
    BY ONLY <2>1, <2>2
<1>5. QED
  BY <1>1, <1>2, <1>4

\* One row of the source changed in what is no key.
LEMMA EditedRow ==
    ASSUME source \in Stores, NEW t \in Written, SourceEdit(t),
           \A s \in StoreTables : \A r \in source[s] : r.text + left <= MaxWrites,
           left \in 0..MaxWrites
    PROVE  \E r \in source[t], q \in Rows(t) :
              /\ t \in StoreTables /\ source' \in Stores
              /\ q.owner = r.owner /\ q.key = r.key /\ q.text = r.text + 1
              /\ source'[t] = (source[t] \ {r}) \cup {q}
              /\ \A s \in StoreTables : s # t => source'[s] = source[s]
<1>0. left > 0 /\ MaxWrites \in Nat
  BY BoundAssumption DEF SourceEdit, Write
<1>1. PICK r \in source[t] :
          source' = [source EXCEPT ![t] = (@ \ {r}) \cup {[r EXCEPT !.text = @ + 1]}]
  BY DEF SourceEdit
<1>2. t \in StoreTables /\ source[t] \subseteq Rows(t)
  BY WrittenAssumption, StoreType
<1> DEFINE q == [r EXCEPT !.text = @ + 1]
           R == (source[t] \ {r}) \cup {q}
<1>3. r.text \in 0..MaxWrites /\ r.text + left <= MaxWrites
  BY <1>2 DEF Rows
<1>4. q \in Rows(t) /\ q.owner = r.owner /\ q.key = r.key /\ q.text = r.text + 1
  BY <1>0, <1>2, <1>3 DEF Rows
<1>5. /\ source' \in Stores /\ source'[t] = R
      /\ \A s \in StoreTables : s # t => source'[s] = source[s]
  <2>1. source' = [source EXCEPT ![t] = R]
    BY <1>1
  <2>0. R \subseteq Rows(t)
    BY <1>2, <1>4
  <2> HIDE DEF R
  <2>2. /\ [source EXCEPT ![t] = R] \in Stores
        /\ [source EXCEPT ![t] = R][t] = R
        /\ \A s \in StoreTables : s # t => [source EXCEPT ![t] = R][s] = source[s]
    BY ONLY source \in Stores, <1>2, <2>0, StoreExcept
  <2>3. QED
    BY ONLY <2>1, <2>2
<1>6. QED
  BY <1>2, <1>4, <1>5

\* A tenant's rows gone from three tables.
LEMMA PurgedRows ==
    ASSUME source \in Stores, NEW p \in People, SourcePurge(p)
    PROVE  /\ source' \in Stores
           /\ \A s \in StoreTables :
                source'[s] = IF s \in RecordTables \cup {"agent"}
                             THEN {r \in source[s] : r.owner # p} ELSE source[s]
<1>1. source' = [t \in StoreTables |->
                    IF t \in RecordTables \cup {"agent"}
                    THEN {r \in source[t] : r.owner # p} ELSE source[t]]
  BY DEF SourcePurge
<1>2. \A s \in StoreTables :
         source'[s] = IF s \in RecordTables \cup {"agent"}
                      THEN {r \in source[s] : r.owner # p} ELSE source[s]
  BY <1>1
<1>3. source' = [s \in StoreTables |-> source'[s]]
  BY <1>1
<1>4. \A s \in StoreTables : source'[s] \subseteq source[s]
  BY <1>2
<1>5. QED
  BY <1>2, <1>3, <1>4, StoreType

-----------------------------------------------------------------------------
(* What each step does to the target.                                       *)

\* What lands with a copy, and the sequences set from it.
LEMMA LandedStore ==
    ASSUME NEW S \in Stores, NEW R \in Stores, targetId \in [RecordTables -> 0..MaxId],
           \A t \in RecordTables : \A r \in S[t] : r.key <= targetId[t],
           NEW N, N = [s \in StoreTables |-> S[s] \cup R[s]]
    PROVE  /\ N \in Stores /\ Setvals(N) \in [RecordTables -> 0..MaxId]
           /\ \A t \in RecordTables : \A r \in N[t] : r.key <= Setvals(N)[t]
<1>1. \A s \in StoreTables : N[s] = S[s] \cup R[s]
  OBVIOUS
<1>2. N \in Stores
  <2>1. \A s \in StoreTables : N[s] \subseteq Rows(s)
    BY <1>1, StoreType
  <2>2. N = [s \in StoreTables |-> N[s]]
    BY <1>1
  <2>3. QED
    BY <2>1, <2>2, StoreType
<1>3. ASSUME NEW t \in RecordTables, N[t] # {}
      PROVE  LET high == Max({r.key : r \in N[t]})
             IN  high \in 0..MaxId /\ \A r \in N[t] : r.key <= high
  <2> DEFINE keys == {r.key : r \in N[t]}
  <2>1. N[t] \subseteq Rows(t)
    BY <1>2, StoreType, KeysOfTables
  <2>2. \A r \in N[t] : r.key \in 1..MaxId
    BY <2>1, KeysOfTables DEF Rows
  <2>3. keys \subseteq 1..MaxId /\ keys # {} /\ MaxId \in Nat
    BY <1>3, <2>2, BoundAssumption
  <2>4. \A r \in N[t] : r.key \in keys
    OBVIOUS
  <2> HIDE DEF keys
  <2>5. Max(keys) \in keys /\ \A k \in keys : k <= Max(keys)
    BY <2>3, HighestKey
  <2>6. Max(keys) \in 1..MaxId /\ \A r \in N[t] : r.key <= Max(keys)
    BY <2>3, <2>4, <2>5
  <2>7. Max(keys) \in 0..MaxId
    BY <2>3, <2>6
  <2>8. QED
    BY <2>6, <2>7 DEF keys
<1>4. ASSUME NEW t \in RecordTables
      PROVE  Setvals(N)[t] \in 0..MaxId /\ \A r \in N[t] : r.key <= Setvals(N)[t]
  <2>1. Setvals(N)[t] = IF N[t] = {} THEN targetId[t] ELSE Max({r.key : r \in N[t]})
    BY DEF Setvals
  <2>2. QED
    BY <1>3, <2>1
<1>5. Setvals(N) = [t \in RecordTables |-> Setvals(N)[t]]
  BY DEF Setvals
<1>6. QED
  BY <1>2, <1>4, <1>5

\* A record stored by the server has an id of its own.
LEMMA ServedRow ==
    ASSUME target \in Stores, targetId \in [RecordTables -> 0..MaxId],
           NEW t \in RecordTables, ServeInsert(t)
    PROVE  /\ serving /\ target' \in Stores /\ targetId' \in [RecordTables -> 0..MaxId]
           /\ targetId'[t] = targetId[t] + 1
           /\ \A s \in RecordTables : s # t => targetId'[s] = targetId[s]
           /\ \A s \in StoreTables : target[s] \subseteq target'[s]
           /\ \A s \in StoreTables : s # t => target'[s] = target[s]
           /\ \A r \in target'[t] : r \in target[t] \/ r.key = targetId'[t]
<1>1. /\ serving /\ targetId[t] < MaxId
      /\ targetId' = [targetId EXCEPT ![t] = @ + 1]
  BY DEF ServeInsert
<1>2. t \in StoreTables /\ MaxId \in Nat /\ MaxWrites \in Nat
  BY BoundAssumption, KeysOfTables
<1>3. /\ targetId' \in [RecordTables -> 0..MaxId] /\ targetId'[t] = targetId[t] + 1
      /\ \A s \in RecordTables : s # t => targetId'[s] = targetId[s]
  BY <1>1, <1>2
<1>4. PICK p \in People :
         LET r == [owner |-> p, key |-> targetId[t] + 1, text |-> 0, summary |-> FALSE]
         IN  target' = IF Pk(t, r) \in PksOf(t, target[t]) THEN target
                       ELSE [target EXCEPT ![t] = @ \cup {r}]
  BY DEF ServeInsert
<1> DEFINE r == [owner |-> p, key |-> targetId[t] + 1, text |-> 0, summary |-> FALSE]
           R == target[t] \cup {r}
<1>5. r \in Rows(t) /\ r.key = targetId'[t]
  <2>1. targetId[t] + 1 \in Keys(t)
    BY <1>1, <1>2, KeysOfTables
  <2>2. QED
    BY <1>2, <1>3, <2>1 DEF Rows
<1>6. R \subseteq Rows(t)
  BY <1>2, <1>5, StoreType
<1>7. target' = target \/ target' = [target EXCEPT ![t] = R]
  BY <1>4
<1>8. target[t] \subseteq R /\ \A q \in R : q \in target[t] \/ q.key = targetId'[t]
  BY <1>5
<1>9. CASE target' = target
  BY <1>1, <1>3, <1>9
<1>10. CASE target' = [target EXCEPT ![t] = R]
  <2> HIDE DEF R
  <2>1. /\ [target EXCEPT ![t] = R] \in Stores
        /\ [target EXCEPT ![t] = R][t] = R
        /\ \A s \in StoreTables : s # t => [target EXCEPT ![t] = R][s] = target[s]
    BY ONLY target \in Stores, <1>2, <1>6, StoreExcept
  <2>2. /\ target' \in Stores /\ target'[t] = R
        /\ \A s \in StoreTables : s # t => target'[s] = target[s]
    BY ONLY <1>10, <2>1
  <2>3. \A s \in StoreTables : target[s] \subseteq target'[s]
    BY <1>8, <2>2
  <2>4. QED
    BY <1>1, <1>3, <1>8, <2>2, <2>3
<1>11. QED
  BY <1>7, <1>9, <1>10

-----------------------------------------------------------------------------
(* The types, and the ids of the target.                                    *)

\* No text outruns the writes.
TextsLow == \A s \in StoreTables : \A r \in source[s] : r.text + left <= MaxWrites

TypeInv == TypeOK /\ InHand /\ TextsLow /\ IdsGoOn

LEMMA TypeInit == Init => TypeInv
<1> SUFFICES ASSUME Init PROVE TypeInv
  OBVIOUS
<1>1. PICK start \in Starts : source = start.store /\ left = start.writes
  BY DEF Init
<1>2. source \in Stores /\ left \in 0..MaxWrites
  BY <1>1, StartsAssumption
<1>3. MaxId \in Nat /\ MaxWrites \in Nat /\ MaxStops \in Nat /\ MaxResets \in Nat
  BY BoundAssumption
<1>4. tool \in [Tools -> Processes] /\ \A t \in Tools : tool[t].pc = "off"
  <2>1. tool = [t \in Tools |-> Off]
    BY DEF Init
  <2>2. Off.pc = "off"
    BY DEF Off
  <2> HIDE DEF Off
  <2>3. QED
    BY <2>1, <2>2, OffProcess
<1>5. targetId \in [RecordTables -> 0..MaxId] /\ target = Empty
  BY <1>3 DEF Init
<1>6. TypeOK
  <2>1. ready = FALSE /\ frozen = FALSE /\ serving = FALSE /\ purged = FALSE
        /\ stops = 0 /\ resets = 0
    BY DEF Init
  <2>2. {ready, frozen, serving, purged} \subseteq BOOLEAN
    BY <2>1
  <2>3. stops \in 0..MaxStops /\ resets \in 0..MaxResets
    BY <1>3, <2>1
  <2>4. target \in Stores /\ source \in Stores
    BY <1>2, <1>5, EmptyStore
  <2>5. QED
    BY <1>2, <1>4, <1>5, <2>2, <2>3, <2>4, Zenon DEF TypeOK
<1>7. InHand
  BY <1>4 DEF InHand
<1>8. TextsLow
  BY <1>1, <1>2, <1>3, StartsAssumption DEF TextsLow
<1>9. IdsGoOn
  BY <1>5, EmptyStore DEF IdsGoOn, RecordTables, StoreTables
<1>10. QED
  BY <1>6, <1>7, <1>8, <1>9 DEF TypeInv

\* A step of a process whose place is known.
LEMMA InHandSteps ==
    ASSUME InHand, NEW t \in Tools, \A u \in Tools : u # t => tool'[u] = tool[u],
           tool'[t].pc \in {"read", "count"} => tool'[t].at \in 1..7
    PROVE  InHand'
BY TableOrder DEF InHand

LEMMA TypeNext == TypeInv /\ [Next]_vars => TypeInv'
<1> SUFFICES ASSUME TypeInv, [Next]_vars PROVE TypeInv'
  OBVIOUS
<1>0. /\ source \in Stores /\ target \in Stores /\ tool \in [Tools -> Processes]
      /\ targetId \in [RecordTables -> 0..MaxId]
      /\ ready \in BOOLEAN /\ frozen \in BOOLEAN /\ serving \in BOOLEAN /\ purged \in BOOLEAN
      /\ left \in 0..MaxWrites /\ stops \in 0..MaxStops /\ resets \in 0..MaxResets
      /\ InHand /\ TextsLow /\ IdsGoOn /\ ProcessesOK
  BY DEF TypeInv, TypeOK, ProcessesOK
<1>b. MaxId \in Nat /\ MaxWrites \in Nat /\ MaxStops \in Nat /\ MaxResets \in Nat
  BY BoundAssumption
\* The parts of a state.
<1> DEFINE SourceOK  == source \in Stores /\ left \in 0..MaxWrites /\ TextsLow
           TargetOK  == target \in Stores /\ targetId \in [RecordTables -> 0..MaxId] /\ IdsGoOn
           FlagsOK   == /\ ready \in BOOLEAN /\ frozen \in BOOLEAN /\ serving \in BOOLEAN
                        /\ purged \in BOOLEAN /\ stops \in 0..MaxStops /\ resets \in 0..MaxResets
           ToolOK    == tool \in [Tools -> Processes] /\ InHand
<1>p. SourceOK' /\ TargetOK' /\ FlagsOK' /\ ToolOK' => TypeInv'
  BY DEF TypeInv, TypeOK
<1>q. SourceOK /\ TargetOK /\ FlagsOK /\ ToolOK
  BY <1>0
<1>s. UNCHANGED <<source, left>> => SourceOK'
  BY <1>0 DEF TextsLow
<1>t. UNCHANGED <<target, targetId>> => TargetOK'
  BY <1>0 DEF IdsGoOn
<1>u. UNCHANGED tool => ToolOK'
  BY <1>0 DEF InHand
<1>f. UNCHANGED <<frozen, serving, purged, stops, resets>> /\ ready' \in BOOLEAN => FlagsOK'
  BY <1>0
\* A step of the tool that writes nothing.
<1>v. ASSUME NEW t \in Tools, ToolStep(t), UNCHANGED <<target, targetId>>, ready' \in BOOLEAN,
             Steps(t), tool'[t].pc \in {"read", "count"} => tool'[t].at \in 1..7
      PROVE  TypeInv'
  <2>1. SourceOK' /\ TargetOK' /\ FlagsOK'
    BY <1>v, <1>s, <1>t, <1>f DEF ToolStep
  <2>2. ToolOK'
    BY <1>0, <1>v, InHandSteps DEF Steps
  <2>3. QED
    BY <2>1, <2>2, <1>p
<1>1. ASSUME NEW t \in Written, SourceInsert(t) PROVE TypeInv'
  <2>1. PICK r \in Rows(t) :
              /\ t \in StoreTables /\ source' \in Stores /\ r.text = 0
              /\ source'[t] = source[t] \cup {r}
              /\ \A s \in StoreTables : s # t => source'[s] = source[s]
    BY <1>0, <1>1, InsertedRow
  <2>2. left > 0 /\ left' = left - 1
        /\ UNCHANGED <<target, targetId, ready, frozen, serving, tool, stops, resets, purged>>
    BY <1>1 DEF SourceInsert, Write
  <2>3. \A s \in StoreTables : \A q \in source'[s] : q.text + left' <= MaxWrites
    <3>1. ASSUME NEW s \in StoreTables, NEW q \in source'[s]
          PROVE  q.text + left' <= MaxWrites
      <4>1. CASE q \in source[s]
        <5>1. source[s] \subseteq Rows(s)
          BY <1>0, StoreType
        <5>2. q.text \in Nat
          BY <4>1, <5>1, <1>b DEF Rows
        <5>3. q.text + left <= MaxWrites
          BY <1>0, <4>1 DEF TextsLow
        <5>4. QED
          BY <1>0, <1>b, <2>2, <5>2, <5>3
      <4>2. CASE q = r
        BY <1>0, <1>b, <2>1, <2>2, <4>2
      <4>3. q \in source[s] \/ q = r
        BY <2>1
      <4>4. QED
        BY <4>1, <4>2, <4>3
    <3>2. QED
      BY <3>1
  <2>4. SourceOK'
    BY <1>0, <1>b, <2>1, <2>2, <2>3 DEF TextsLow
  <2>5. QED
    BY <1>p, <1>t, <1>u, <1>f, <1>0, <2>2, <2>4
<1>2. ASSUME NEW t \in Written, SourceEdit(t) PROVE TypeInv'
  <2>0. \A s \in StoreTables : \A r \in source[s] : r.text + left <= MaxWrites
    BY <1>0 DEF TextsLow
  <2>1. PICK r \in source[t] : \E q \in Rows(t) :
              /\ t \in StoreTables /\ source' \in Stores
              /\ q.text = r.text + 1
              /\ source'[t] = (source[t] \ {r}) \cup {q}
              /\ \A s \in StoreTables : s # t => source'[s] = source[s]
    BY <1>0, <1>2, <2>0, EditedRow
  <2>a. PICK q \in Rows(t) :
              /\ t \in StoreTables /\ source' \in Stores
              /\ q.text = r.text + 1
              /\ source'[t] = (source[t] \ {r}) \cup {q}
              /\ \A s \in StoreTables : s # t => source'[s] = source[s]
    BY <2>1
  <2>2. left > 0 /\ left' = left - 1
        /\ UNCHANGED <<target, targetId, ready, frozen, serving, tool, stops, resets, purged>>
    BY <1>2 DEF SourceEdit, Write
  <2>3. \A s \in StoreTables : \A x \in source'[s] : x.text + left' <= MaxWrites
    <3>1. ASSUME NEW s \in StoreTables, NEW x \in source'[s]
          PROVE  x.text + left' <= MaxWrites
      <4>0. \A y \in source[s] : y.text \in Nat
        <5>1. source[s] \subseteq Rows(s)
          BY <1>0, StoreType
        <5>2. QED
          BY <5>1, <1>b DEF Rows
      <4>1. CASE x \in source[s]
        BY <1>0, <1>b, <2>0, <2>2, <4>0, <4>1
      <4>2. CASE x = q /\ s = t
        <5>1. r.text \in Nat /\ r.text + left <= MaxWrites
          BY <2>0, <2>a, <4>0, <4>2
        <5>2. QED
          BY <1>0, <1>b, <2>a, <2>2, <4>2, <5>1
      <4>3. x \in source[s] \/ (x = q /\ s = t)
        BY <2>a
      <4>4. QED
        BY <4>1, <4>2, <4>3
    <3>2. QED
      BY <3>1
  <2>4. SourceOK'
    BY <1>0, <1>b, <2>a, <2>2, <2>3 DEF TextsLow
  <2>5. QED
    BY <1>p, <1>t, <1>u, <1>f, <1>0, <2>2, <2>4
<1>3. ASSUME NEW p \in People, SourcePurge(p) PROVE TypeInv'
  <2>1. /\ source' \in Stores
        /\ \A s \in StoreTables : source'[s] \subseteq source[s]
    BY <1>0, <1>3, PurgedRows
  <2>2. left > 0 /\ left' = left - 1 /\ purged' = TRUE
        /\ UNCHANGED <<target, targetId, ready, frozen, serving, tool, stops, resets>>
    BY <1>3 DEF SourcePurge, Write
  <2>3. \A s \in StoreTables : \A x \in source'[s] : x.text + left' <= MaxWrites
    <3>1. ASSUME NEW s \in StoreTables, NEW x \in source'[s]
          PROVE  x.text + left' <= MaxWrites
      <4>1. x \in source[s] /\ x.text + left <= MaxWrites
        BY <1>0, <2>1 DEF TextsLow
      <4>2. x.text \in Nat
        <5>1. source[s] \subseteq Rows(s)
          BY <1>0, StoreType
        <5>2. QED
          BY <4>1, <5>1, <1>b DEF Rows
      <4>3. QED
        BY <1>0, <1>b, <2>2, <4>1, <4>2
    <3>2. QED
      BY <3>1
  <2>4. SourceOK'
    BY <1>0, <1>b, <2>1, <2>2, <2>3 DEF TextsLow
  <2>5. FlagsOK'
    BY <1>0, <2>2
  <2>6. QED
    BY <1>p, <1>t, <1>u, <2>2, <2>4, <2>5
<1>4. ASSUME Freeze PROVE TypeInv'
  BY <1>0, <1>4, <1>p, <1>s, <1>t, <1>u DEF Freeze
<1>5. ASSUME Reset PROVE TypeInv'
  <2>1. /\ target' = Empty /\ targetId' = [t \in RecordTables |-> 0] /\ ready' = FALSE
        /\ tool' = [t \in Tools |-> Off] /\ resets < MaxResets /\ resets' = resets + 1
        /\ UNCHANGED <<source, frozen, serving, purged, left, stops>>
    BY <1>5 DEF Reset
  <2>2. Off.pc = "off"
    BY DEF Off
  <2>3. ToolOK'
    <3> HIDE DEF Off
    <3>1. tool' \in [Tools -> Processes]
      BY <2>1, OffProcess
    <3>2. \A t \in Tools : tool'[t].pc = "off"
      BY <2>1, <2>2
    <3>3. QED
      BY <3>1, <3>2 DEF InHand
  <2>4. TargetOK'
    <3>1. target' \in Stores /\ \A t \in StoreTables : target'[t] = {}
      BY <2>1, EmptyStore
    <3>2. targetId' \in [RecordTables -> 0..MaxId]
      BY <1>b, <2>1
    <3>3. IdsGoOn'
      BY <3>1, KeysOfTables DEF IdsGoOn
    <3>4. QED
      BY <3>1, <3>2, <3>3
  <2>5. FlagsOK'
    <3>1. /\ ready' = FALSE /\ resets < MaxResets /\ resets' = resets + 1
          /\ UNCHANGED <<frozen, serving, purged, stops>>
      BY <2>1
    <3>2. resets' \in 0..MaxResets
      BY <1>0, <1>b, <3>1
    <3>3. QED
      BY <1>0, <3>1, <3>2
  <2>6. QED
    BY <1>p, <1>s, <2>1, <2>3, <2>4, <2>5
<1>6. ASSUME CutOver PROVE TypeInv'
  BY <1>0, <1>6, <1>p, <1>s, <1>t, <1>u DEF CutOver
<1>7. ASSUME NEW t \in Tools, NEW full \in BOOLEAN, Start(t, full) PROVE TypeInv'
  <2>1. UNCHANGED <<source, target, targetId, ready, frozen, serving, purged, left,
                    stops, resets>>
    BY <1>7 DEF Start
  <2>2. /\ tool' \in [Tools -> Processes] /\ tool'[t].at = 1
        /\ \A u \in Tools : u # t => tool'[u].pc = tool[u].pc /\ tool'[u].at = tool[u].at
    BY <1>0, <1>7, StartFields
  <2>3. ToolOK'
    <3>1. \A u \in Tools : tool'[u].pc \in {"read", "count"} => tool'[u].at \in 1..7
      BY <1>0, <2>2, TableOrder DEF InHand
    <3>2. QED
      BY <2>2, <3>1, TableOrder DEF InHand
  <2>4. QED
    BY <1>p, <1>s, <1>t, <1>f, <1>0, <2>1, <2>3
<1>8. ASSUME NEW t \in Tools, ReadTable(t) PROVE TypeInv'
  <2>1. Steps(t) /\ (tool'[t].pc \in {"read", "count"} => tool'[t].at \in 1..7)
    BY <1>0, <1>8, ReadTableFields
  <2>2. QED
    BY <1>0, <1>8, <1>v, <2>1 DEF ReadTable
<1>9. ASSUME NEW t \in Tools, EnsureSchema(t) PROVE TypeInv'
  <2>1. Steps(t) /\ tool'[t].pc = "check"
    BY <1>0, <1>9, EnsureSchemaFields
  <2>2. QED
    BY <1>0, <1>9, <1>v, <2>1 DEF EnsureSchema
<1>10. ASSUME NEW t \in Tools, CheckTarget(t) PROVE TypeInv'
  <2>1. Steps(t) /\ tool'[t].pc \in {"copy", "red"}
    BY <1>0, <1>10, CheckTargetFields
  <2>2. QED
    BY <1>0, <1>10, <1>v, <2>1 DEF CheckTarget
<1>11. ASSUME NEW t \in Tools, Copy(t) PROVE TypeInv'
  <2>1. Steps(t) /\ (tool'[t].pc \in {"read", "count"} => tool'[t].at \in 1..7)
    BY <1>0, <1>11, CopyFields
  <2>2. ToolStep(t) /\ ready' = ready
    BY <1>11 DEF Copy
  <2>3. CASE UNCHANGED <<target, targetId>>
    BY <1>0, <1>v, <2>1, <2>2, <2>3
  <2>4. CASE /\ target' = [s \in StoreTables |-> target[s] \cup tool[t].rows[s]]
             /\ targetId' = Setvals(target')
    <3>1. tool[t].rows \in Stores
      BY <1>0 DEF Processes
    <3>2. \A s \in RecordTables : \A r \in target[s] : r.key <= targetId[s]
      BY <1>0 DEF IdsGoOn
    <3>3. /\ target' \in Stores /\ Setvals(target') \in [RecordTables -> 0..MaxId]
          /\ \A s \in RecordTables : \A r \in target'[s] : r.key <= Setvals(target')[s]
      BY <1>0, <2>4, <3>1, <3>2, LandedStore
    <3>4. TargetOK'
      BY <2>4, <3>3 DEF IdsGoOn
    <3>5. ToolOK'
      BY <1>0, <2>1, InHandSteps DEF Steps
    <3>6. QED
      BY <1>0, <1>p, <1>s, <1>f, <2>2, <3>4, <3>5 DEF ToolStep
  <2>5. QED
    BY <1>0, <1>11, <2>3, <2>4, CopyFields
<1>12. ASSUME NEW t \in Tools, CompareTable(t) PROVE TypeInv'
  <2>1. Steps(t) /\ (tool'[t].pc \in {"read", "count"} => tool'[t].at \in 1..7)
    BY <1>0, <1>12, CompareTableFields
  <2>2. ToolStep(t) /\ UNCHANGED <<target, targetId, ready>>
    BY <1>12 DEF CompareTable, Verifying
  <2>3. QED
    BY <1>0, <1>v, <2>1, <2>2
<1>13. ASSUME NEW t \in Tools, ListTenants(t) PROVE TypeInv'
  <2>1. Steps(t) /\ tool'[t].pc = "tenant"
    BY <1>0, <1>13, ListTenantsFields
  <2>2. ToolStep(t) /\ UNCHANGED <<target, targetId, ready>>
    BY <1>13 DEF ListTenants, Verifying
  <2>3. QED
    BY <1>0, <1>v, <2>1, <2>2
<1>14. ASSUME NEW t \in Tools, CompareTenant(t) PROVE TypeInv'
  <2>1. Steps(t) /\ tool'[t].pc = "tenant"
    BY <1>0, <1>14, CompareTenantFields
  <2>2. ToolStep(t) /\ UNCHANGED <<target, targetId, ready>>
    BY <1>14 DEF CompareTenant, Verifying
  <2>3. QED
    BY <1>0, <1>v, <2>1, <2>2
<1>15. ASSUME NEW t \in Tools, ListIdentities(t) PROVE TypeInv'
  <2>1. Steps(t) /\ tool'[t].pc = "identities"
    BY <1>0, <1>15, ListIdentitiesFields
  <2>2. ToolStep(t) /\ UNCHANGED <<target, targetId, ready>>
    BY <1>15 DEF ListIdentities, Verifying
  <2>3. QED
    BY <1>0, <1>v, <2>1, <2>2
<1>16. ASSUME NEW t \in Tools, CheckIdentities(t) PROVE TypeInv'
  <2>1. Steps(t) /\ tool'[t].pc \in {"red", "green"}
    BY <1>0, <1>16, CheckIdentitiesFields
  <2>2. ToolStep(t) /\ UNCHANGED <<target, targetId, ready>>
    BY <1>16 DEF CheckIdentities, Verifying
  <2>3. QED
    BY <1>0, <1>v, <2>1, <2>2
<1>17. ASSUME NEW t \in Tools, Stop(t) PROVE TypeInv'
  <2>1. /\ tool' \in [Tools -> Processes] /\ tool'[t] = Off
        /\ \A u \in Tools : u # t => tool'[u] = tool[u]
    BY <1>0, <1>17, StopFields
  <2>2. Off.pc = "off"
    BY DEF Off
  <2>3. stops < MaxStops /\ stops' = stops + 1
        /\ UNCHANGED <<source, target, targetId, ready, frozen, serving, purged, left, resets>>
    BY <1>17 DEF Stop
  <2>4. ToolOK'
    <3> HIDE DEF Off
    <3>1. QED
      BY <1>0, <2>1, <2>2, InHandSteps
  <2>5. FlagsOK'
    BY <1>0, <1>b, <2>3
  <2>6. QED
    BY <1>p, <1>s, <1>t, <2>3, <2>4, <2>5
<1>18. ASSUME NEW t \in RecordTables, ServeInsert(t) PROVE TypeInv'
  <2>1. UNCHANGED <<source, ready, frozen, serving, tool, purged, left, stops, resets>>
    BY <1>18 DEF ServeInsert
  <2>2. /\ target' \in Stores /\ targetId' \in [RecordTables -> 0..MaxId]
        /\ targetId'[t] = targetId[t] + 1
        /\ \A s \in RecordTables : s # t => targetId'[s] = targetId[s]
        /\ \A s \in StoreTables : s # t => target'[s] = target[s]
        /\ \A r \in target'[t] : r \in target[t] \/ r.key = targetId'[t]
    BY <1>0, <1>18, ServedRow
  <2>3. \A s \in RecordTables : target'[s] \subseteq Rows(s)
    BY <2>2, StoreType, KeysOfTables
  <2>4. \A s \in RecordTables : \A r \in target'[s] : r.key \in 1..MaxId
    BY <2>3, KeysOfTables DEF Rows
  <2>5. IdsGoOn'
    <3>1. ASSUME NEW s \in RecordTables, NEW r \in target'[s] PROVE r.key <= targetId'[s]
      <4>0. r.key \in 1..MaxId /\ s \in StoreTables /\ targetId[s] \in 0..MaxId
        BY <1>0, <2>4, KeysOfTables
      <4>1. r \in target[s] => r.key <= targetId[s]
        BY <1>0 DEF IdsGoOn
      <4>2. CASE s # t
        BY <2>2, <4>0, <4>1, <4>2
      <4>3. CASE s = t
        BY <1>b, <2>2, <4>0, <4>1, <4>3
      <4>4. QED
        BY <4>2, <4>3
    <3>2. QED
      BY <3>1 DEF IdsGoOn
  <2>6. QED
    BY <1>p, <1>s, <1>u, <1>f, <1>0, <2>1, <2>2, <2>5
<1>19. ASSUME UNCHANGED vars PROVE TypeInv'
  BY <1>0, <1>19, <1>p, <1>s, <1>t, <1>u, <1>f DEF vars
<1>20. QED
  BY <1>1, <1>2, <1>3, <1>4, <1>5, <1>6, <1>7, <1>8, <1>9, <1>10, <1>11, <1>12, <1>13,
     <1>14, <1>15, <1>16, <1>17, <1>18, <1>19 DEF Next, Migrate, Verify

LEMMA TypeInvariant == Spec => []TypeInv
BY TypeInit, TypeNext, PTL DEF Spec

\* The target holds rows of its tables, and the ids its sequences give out next
\* are ones no copied record holds.
THEOREM TargetSound == Spec => []TargetIsSound
<1>1. TypeInv => TargetIsSound
  BY DEF TypeInv, TargetIsSound
<1>2. QED
  BY <1>1, TypeInvariant, PTL

-----------------------------------------------------------------------------
(* The source stays sound: its keys are keys and no row lacks its parents.  *)

\* Key and parents are made of the owner and the rest of the key.
LEMMA KeyAndParents ==
    ASSUME NEW t \in StoreTables, NEW r, NEW q, q.owner = r.owner, q.key = r.key
    PROVE  Pk(t, q) = Pk(t, r) /\ Parents(t, q) = Parents(t, r)
BY DEF Pk, Parents

\* A table's parents come before it.
LEMMA ParentsFirst ==
    ASSUME NEW k \in 1..7, NEW r, NEW p \in Parents(Tables[k], r)
    PROVE  p[1] \in StoreTables /\ \E j \in 1..(k - 1) : Tables[j] = p[1]
<1>1. k \in {1, 2, 3, 4, 5, 6, 7}
  OBVIOUS
<1>2. CASE Tables[k] \in {"account", "shared_record"}
  BY <1>2 DEF Parents
<1>3. CASE Tables[k] \in {"user_identity", "agent", "tenant_invite"}
  <2>1. p[1] = "account"
    BY <1>3 DEF Parents
  <2>2. k # 1
    BY <1>3, TableOrder
  <2>3. 1 \in 1..(k - 1)
    BY <2>2
  <2>4. QED
    BY <2>1, <2>3, TableOrder
<1>4. CASE Tables[k] = "memory_record"
  <2>1. p[1] = "agent"
    BY <1>4 DEF Parents
  <2>2. k = 5
    BY <1>1, <1>4, TableOrder
  <2>3. QED
    BY <2>1, <2>2, TableOrder
<1>5. CASE Tables[k] = "tenant_access"
  <2>1. p[1] = "account"
    BY <1>5 DEF Parents
  <2>2. k = 6
    BY <1>1, <1>5, TableOrder
  <2>3. QED
    BY <2>1, <2>2, TableOrder
<1>6. QED
  BY <1>1, <1>2, <1>3, <1>4, <1>5, TableOrder

LEMMA ParentTables ==
    ASSUME NEW t \in StoreTables, NEW r, NEW p \in Parents(t, r)
    PROVE  p[1] \in StoreTables
<1>1. PICK k \in 1..7 : Tables[k] = t
  BY TableOrder
<1>2. QED
  BY <1>1, ParentsFirst

\* A row keeps its parents where the keys stay.
LEMMA ParentsStay ==
    ASSUME NEW A, NEW B, \A s \in StoreTables : PksOf(s, A[s]) \subseteq PksOf(s, B[s]),
           NEW t \in StoreTables, NEW r, HasParents(t, r, A)
    PROVE  HasParents(t, r, B)
BY ParentTables DEF HasParents

\* Whoever is no writer of the source leaves it alone.
LEMMA SourceWriters ==
    [Next]_vars =>
        \/ \E t \in Written : SourceInsert(t) \/ SourceEdit(t)
        \/ \E p \in People : SourcePurge(p)
        \/ UNCHANGED <<source, left, purged>>
BY Zenon DEF Next, Freeze, Reset, CutOver, Migrate, Verify, ReadTable, EnsureSchema, CheckTarget,
       Copy, CompareTable, ListTenants, CompareTenant, ListIdentities, CheckIdentities,
       Verifying, ToolStep, Stop, Start, ServeInsert, vars

LEMMA SoundInit == Init => Sound(source)
BY StartsAssumption DEF Init

LEMMA SoundNext == TypeInv /\ Sound(source) /\ [Next]_vars => Sound(source)'
<1> SUFFICES ASSUME TypeInv, Sound(source), [Next]_vars PROVE Sound(source')
  BY DEF Sound, HasParents, Parents, PksOf, Pk
<1>0. source \in Stores /\ left \in 0..MaxWrites
      /\ \A s \in StoreTables : \A r \in source[s] : r.text + left <= MaxWrites
  BY DEF TypeInv, TypeOK, TextsLow
<1> DEFINE OwnKey(t, r) == t \in {"account", "user_identity", "agent"} => r.owner = r.key
<1>s. \A t \in StoreTables :
         /\ IsFiniteSet(source[t])
         /\ \A r \in source[t] : HasParents(t, r, source) /\ OwnKey(t, r)
         /\ \A r, q \in source[t] : Pk(t, r) = Pk(t, q) => r = q
  BY DEF Sound
<1>g. ASSUME \A t \in StoreTables :
                /\ IsFiniteSet(source'[t])
                /\ \A r \in source'[t] : HasParents(t, r, source') /\ OwnKey(t, r)
                /\ \A r, q \in source'[t] : Pk(t, r) = Pk(t, q) => r = q
      PROVE  Sound(source')
  BY <1>g DEF Sound
<1> HIDE DEF OwnKey
<1>1. ASSUME NEW t \in Written, SourceInsert(t) PROVE Sound(source')
  <2>1. PICK r \in Rows(t) :
              /\ t \in StoreTables
              /\ HasParents(t, r, source) /\ Pk(t, r) \notin PksOf(t, source[t])
              /\ OwnKey(t, r)
              /\ source'[t] = source[t] \cup {r}
              /\ \A s \in StoreTables : s # t => source'[s] = source[s]
    BY <1>0, <1>1, InsertedRow DEF OwnKey
  <2>2. \A s \in StoreTables : PksOf(s, source[s]) \subseteq PksOf(s, source'[s])
    BY <2>1 DEF PksOf
  <2>3. ASSUME NEW s \in StoreTables
        PROVE  /\ IsFiniteSet(source'[s])
               /\ \A x \in source'[s] : HasParents(s, x, source') /\ OwnKey(s, x)
               /\ \A x, y \in source'[s] : Pk(s, x) = Pk(s, y) => x = y
    <3>1. IsFiniteSet(source'[s])
      <4>1. IsFiniteSet(source[s])
        BY <1>s
      <4>2. IsFiniteSet(source[s] \cup {r})
        BY <4>1, FS_AddElement
      <4>3. source'[s] = source[s] \/ source'[s] = source[s] \cup {r}
        BY <2>1
      <4>4. QED
        BY <4>1, <4>2, <4>3
    <3>2. ASSUME NEW x \in source'[s]
          PROVE  HasParents(s, x, source') /\ OwnKey(s, x)
      <4>1. HasParents(s, x, source) /\ OwnKey(s, x)
        BY <1>s, <2>1
      <4>2. QED
        BY <2>2, <4>1, ParentsStay
    <3>3. ASSUME NEW x \in source'[s], NEW y \in source'[s], Pk(s, x) = Pk(s, y)
          PROVE  x = y
      <4>1. CASE s # t
        BY <1>s, <2>1, <3>3, <4>1
      <4>2. CASE s = t
        BY <1>s, <2>1, <3>3, <4>2 DEF PksOf
      <4>3. QED
        BY <4>1, <4>2
    <3>4. QED
      BY <3>1, <3>2, <3>3
  <2>4. QED
    BY <1>g, <2>3
<1>2. ASSUME NEW t \in Written, SourceEdit(t) PROVE Sound(source')
  <2>1. PICK r \in source[t] : \E q \in Rows(t) :
              /\ t \in StoreTables
              /\ q.owner = r.owner /\ q.key = r.key
              /\ source'[t] = (source[t] \ {r}) \cup {q}
              /\ \A s \in StoreTables : s # t => source'[s] = source[s]
    BY <1>0, <1>2, EditedRow
  <2>2. PICK q \in Rows(t) :
              /\ t \in StoreTables
              /\ q.owner = r.owner /\ q.key = r.key
              /\ source'[t] = (source[t] \ {r}) \cup {q}
              /\ \A s \in StoreTables : s # t => source'[s] = source[s]
    BY <2>1
  <2>3. Pk(t, q) = Pk(t, r) /\ Parents(t, q) = Parents(t, r)
    BY <2>2, KeyAndParents
  <2>4. \A s \in StoreTables : PksOf(s, source[s]) \subseteq PksOf(s, source'[s])
    BY <2>2, <2>3 DEF PksOf
  <2>5. ASSUME NEW s \in StoreTables
        PROVE  /\ IsFiniteSet(source'[s])
               /\ \A x \in source'[s] : HasParents(s, x, source') /\ OwnKey(s, x)
               /\ \A x, y \in source'[s] : Pk(s, x) = Pk(s, y) => x = y
    <3>1. IsFiniteSet(source'[s])
      <4>1. IsFiniteSet(source[s])
        BY <1>s
      <4>2. IsFiniteSet(source[s] \ {r})
        BY <4>1, FS_RemoveElement
      <4>3. IsFiniteSet((source[s] \ {r}) \cup {q})
        BY <4>2, FS_AddElement
      <4>4. source'[s] = source[s] \/ source'[s] = (source[s] \ {r}) \cup {q}
        BY <2>2
      <4>5. QED
        BY <4>1, <4>3, <4>4
    <3>2. ASSUME NEW x \in source'[s]
          PROVE  HasParents(s, x, source') /\ OwnKey(s, x)
      <4>1. HasParents(t, q, source) /\ OwnKey(t, q)
        BY <1>s, <2>2, <2>3 DEF HasParents, OwnKey
      <4>2. HasParents(s, x, source) /\ OwnKey(s, x)
        BY <1>s, <2>2, <4>1
      <4>3. QED
        BY <2>4, <4>2, ParentsStay
    <3>3. ASSUME NEW x \in source'[s], NEW y \in source'[s], Pk(s, x) = Pk(s, y)
          PROVE  x = y
      <4>1. CASE s # t
        BY <1>s, <2>2, <3>3, <4>1
      <4>2. CASE s = t
        BY <1>s, <2>2, <2>3, <3>3, <4>2
      <4>3. QED
        BY <4>1, <4>2
    <3>4. QED
      BY <3>1, <3>2, <3>3
  <2>6. QED
    BY <1>g, <2>5
<1>3. ASSUME NEW p \in People, SourcePurge(p) PROVE Sound(source')
  <2>1. \A s \in StoreTables :
           source'[s] = IF s \in RecordTables \cup {"agent"}
                        THEN {r \in source[s] : r.owner # p} ELSE source[s]
    BY <1>0, <1>3, PurgedRows
  <2>2. source'["account"] = source["account"]
        /\ source'["agent"] = {r \in source["agent"] : r.owner # p}
    BY <2>1 DEF RecordTables, StoreTables
  <2>3. ASSUME NEW s \in StoreTables
        PROVE  /\ IsFiniteSet(source'[s])
               /\ \A x \in source'[s] : HasParents(s, x, source') /\ OwnKey(s, x)
               /\ \A x, y \in source'[s] : Pk(s, x) = Pk(s, y) => x = y
    <3>0. source'[s] \subseteq source[s]
      BY <2>1
    <3>1. IsFiniteSet(source'[s])
      <4>1. IsFiniteSet(source[s])
        BY <1>s
      <4>2. QED
        BY <3>0, <4>1, FS_Subset
    <3>2. ASSUME NEW x \in source'[s]
          PROVE  HasParents(s, x, source') /\ OwnKey(s, x)
      <4>1. HasParents(s, x, source) /\ OwnKey(s, x)
        BY <1>s, <3>0
      <4>2. CASE s = "memory_record"
        <5>1. x.owner # p
          BY <2>1, <4>2 DEF RecordTables
        <5>2. Parents(s, x) = {<<"agent", <<x.owner>>>>}
          BY <4>2 DEF Parents
        <5>3. <<x.owner>> \in PksOf("agent", source["agent"])
          BY <4>1, <5>2 DEF HasParents
        <5>4. PICK a \in source["agent"] : Pk("agent", a) = <<x.owner>>
          BY <5>3 DEF PksOf
        <5>5. a.key = x.owner /\ a.owner = a.key
          BY <1>s, <5>4 DEF Pk, OwnKey, StoreTables
        <5>6. a \in source'["agent"]
          BY <2>2, <5>1, <5>5
        <5>7. <<x.owner>> \in PksOf("agent", source'["agent"])
          BY <5>4, <5>6 DEF PksOf
        <5>8. HasParents(s, x, source')
          BY <5>2, <5>7 DEF HasParents
        <5>9. QED
          BY <4>1, <5>8
      <4>3. CASE s # "memory_record"
        <5>1. \A y \in Parents(s, x) : y[1] = "account"
          BY <4>3 DEF Parents, StoreTables
        <5>2. HasParents(s, x, source')
          BY <2>2, <4>1, <5>1 DEF HasParents
        <5>3. QED
          BY <4>1, <5>2
      <4>4. QED
        BY <4>2, <4>3
    <3>3. \A x, y \in source'[s] : Pk(s, x) = Pk(s, y) => x = y
      BY <1>s, <3>0
    <3>4. QED
      BY <3>1, <3>2, <3>3
  <2>4. QED
    BY <1>g, <2>3
<1>4. ASSUME UNCHANGED source PROVE Sound(source')
  BY <1>4
<1>5. QED
  BY <1>1, <1>2, <1>3, <1>4, SourceWriters

\* The source keeps the keys of its accounts, and as long as nothing is purged
\* the keys of every table.
LEMMA KeysStay ==
    ASSUME TypeInv, [Next]_vars
    PROVE  /\ PksOf("account", source["account"]) \subseteq PksOf("account", source'["account"])
           /\ ~purged' => \A s \in StoreTables :
                 PksOf(s, source[s]) \subseteq PksOf(s, source'[s])
<1>0. source \in Stores /\ left \in 0..MaxWrites
      /\ \A s \in StoreTables : \A r \in source[s] : r.text + left <= MaxWrites
  BY DEF TypeInv, TypeOK, TextsLow
<1>1. ASSUME NEW t \in Written, SourceInsert(t)
      PROVE  \A s \in StoreTables : PksOf(s, source[s]) \subseteq PksOf(s, source'[s])
  <2>1. \A s \in StoreTables : source[s] \subseteq source'[s]
    BY <1>0, <1>1, InsertedRow
  <2>2. QED
    BY <2>1 DEF PksOf
<1>2. ASSUME NEW t \in Written, SourceEdit(t)
      PROVE  \A s \in StoreTables : PksOf(s, source[s]) \subseteq PksOf(s, source'[s])
  <2>1. PICK r \in source[t] : \E q \in Rows(t) :
              /\ t \in StoreTables
              /\ q.owner = r.owner /\ q.key = r.key
              /\ source'[t] = (source[t] \ {r}) \cup {q}
              /\ \A s \in StoreTables : s # t => source'[s] = source[s]
    BY <1>0, <1>2, EditedRow
  <2>2. PICK q \in Rows(t) :
              /\ t \in StoreTables
              /\ q.owner = r.owner /\ q.key = r.key
              /\ source'[t] = (source[t] \ {r}) \cup {q}
              /\ \A s \in StoreTables : s # t => source'[s] = source[s]
    BY <2>1
  <2>3. Pk(t, q) = Pk(t, r)
    BY <2>2, KeyAndParents
  <2>4. QED
    BY <2>2, <2>3 DEF PksOf
<1>3. ASSUME NEW p \in People, SourcePurge(p)
      PROVE  purged' = TRUE /\ source'["account"] = source["account"]
  BY <1>0, <1>3, PurgedRows DEF SourcePurge, RecordTables, StoreTables
<1>4. "account" \in StoreTables
  BY DEF StoreTables
<1>5. CASE UNCHANGED source
  BY <1>5
<1>6. QED
  BY <1>1, <1>2, <1>3, <1>4, <1>5, SourceWriters

-----------------------------------------------------------------------------
(* One copy lands.  A store in use has an account, whose key every run has   *)
(* read and every copy has written: a second copy meets it.                  *)

InUse == \A start \in Starts : start.store["account"] # {}

HoldsKey(k, S) == k \in PksOf("account", S["account"])

\* A process that has read the accounts and not written yet.
HasRead(t) ==
    \/ tool[t].pc = "read" /\ tool[t].at > 1
    \/ tool[t].pc \in {"open", "check", "copy"}

KeyEverywhere(k) ==
    /\ HoldsKey(k, source)
    /\ \A t \in Tools : HasRead(t) => HoldsKey(k, tool[t].rows)
    /\ ~serving => target = Empty \/ HoldsKey(k, target)

KeyInv == \E k : KeyEverywhere(k)

LEMMA KeyInit == InUse /\ Init => KeyInv
<1> SUFFICES ASSUME InUse, Init PROVE KeyInv
  OBVIOUS
<1>1. PICK r : r \in source["account"]
  BY DEF Init, InUse
<1>2. HoldsKey(Pk("account", r), source)
  BY <1>1 DEF HoldsKey, PksOf
<1>3. \A t \in Tools : tool[t].pc = "off"
  BY DEF Init, Off
<1>4. target = Empty
  BY DEF Init
<1>5. QED
  BY <1>2, <1>3, <1>4 DEF KeyInv, KeyEverywhere, HasRead

LEMMA KeyNext == TypeInv /\ KeyInv /\ [Next]_vars => KeyInv'
<1> SUFFICES ASSUME TypeInv, [Next]_vars, NEW k, KeyEverywhere(k) PROVE KeyEverywhere(k)'
  BY DEF KeyInv
<1>0. /\ source \in Stores /\ target \in Stores /\ ProcessesOK /\ InHand
      /\ ready \in BOOLEAN /\ frozen \in BOOLEAN /\ targetId \in [RecordTables -> 0..MaxId]
      /\ tool \in [Tools -> Processes]
  BY DEF TypeInv, TypeOK, ProcessesOK
<1>k. /\ HoldsKey(k, source)
      /\ \A t \in Tools : HasRead(t) => HoldsKey(k, tool[t].rows)
      /\ ~serving => target = Empty \/ HoldsKey(k, target)
  BY DEF KeyEverywhere
<1>s. HoldsKey(k, source')
  BY <1>k, KeysStay DEF HoldsKey
\* What there is to show of the processes and of the target.
<1>g. ASSUME \A t \in Tools : HasRead(t)' => HoldsKey(k, tool'[t].rows),
             ~serving' => target' = Empty \/ HoldsKey(k, target')
      PROVE  KeyEverywhere(k)'
  BY <1>s, <1>g DEF KeyEverywhere, HoldsKey
<1>t. UNCHANGED tool => \A t \in Tools : HasRead(t)' => HoldsKey(k, tool'[t].rows)
  BY <1>k DEF HasRead
<1>u. UNCHANGED target /\ (~serving' => ~serving)
      => (~serving' => target' = Empty \/ HoldsKey(k, target'))
  BY <1>k
<1>v. ASSUME NEW t \in Tools, \A u \in Tools : u # t => tool'[u] = tool[u],
             HasRead(t)' => HoldsKey(k, tool'[t].rows)
      PROVE  \A u \in Tools : HasRead(u)' => HoldsKey(k, tool'[u].rows)
  BY <1>k, <1>v DEF HasRead
\* A process whose rows and reading are as they were.
<1>w. ASSUME NEW t \in Tools, ToolStep(t), UNCHANGED target, Steps(t),
             HasRead(t)' => HoldsKey(k, tool'[t].rows)
      PROVE  KeyEverywhere(k)'
  BY <1>w, <1>v, <1>u, <1>g DEF Steps, ToolStep
<1>1. ASSUME NEW t \in Written, SourceInsert(t) \/ SourceEdit(t) PROVE KeyEverywhere(k)'
  BY <1>1, <1>g, <1>t, <1>u DEF SourceInsert, SourceEdit, Write
<1>2. ASSUME NEW p \in People, SourcePurge(p) PROVE KeyEverywhere(k)'
  BY <1>2, <1>g, <1>t, <1>u DEF SourcePurge, Write
<1>3. ASSUME Freeze PROVE KeyEverywhere(k)'
  BY <1>3, <1>g, <1>t, <1>u DEF Freeze
<1>4. ASSUME Reset PROVE KeyEverywhere(k)'
  <2>1. target' = Empty /\ \A t \in Tools : tool'[t].pc = "off"
    BY <1>4 DEF Reset, Off
  <2>2. QED
    BY <2>1, <1>g DEF HasRead
<1>5. ASSUME CutOver PROVE KeyEverywhere(k)'
  BY <1>5, <1>g, <1>t DEF CutOver
<1>6. ASSUME NEW t \in Tools, NEW full \in BOOLEAN, Start(t, full) PROVE KeyEverywhere(k)'
  <2>1. /\ tool'[t].pc = (IF full THEN "read" ELSE "count") /\ tool'[t].at = 1
        /\ \A u \in Tools : u # t => /\ tool'[u].pc = tool[u].pc /\ tool'[u].at = tool[u].at
                                     /\ tool'[u].rows = tool[u].rows
    BY <1>0, <1>6, StartFields
  <2>2. \A u \in Tools : HasRead(u)' => HoldsKey(k, tool'[u].rows)
    BY <1>k, <2>1 DEF HasRead
  <2>3. QED
    BY <1>6, <2>2, <1>g, <1>u DEF Start
<1>7. ASSUME NEW t \in Tools, ReadTable(t) PROVE KeyEverywhere(k)'
  <2> DEFINE table == Tables[tool[t].at]
  <2>1. /\ Steps(t) /\ tool[t].pc = "read" /\ tool[t].at \in 1..7
        /\ tool'[t].rows[table] = Copied(source)[table]
        /\ \A s \in StoreTables : s # table => tool'[t].rows[s] = tool[t].rows[s]
    BY <1>0, <1>7, ReadTableFields
  <2>2. HoldsKey(k, tool'[t].rows) => KeyEverywhere(k)'
    <3>1. ToolStep(t) /\ UNCHANGED target
      BY <1>7 DEF ReadTable
    <3>2. QED
      BY <2>1, <3>1, <1>w
  <2>3. HoldsKey(k, tool'[t].rows)
    <3>1. CASE tool[t].at = 1
      <4>1. tool'[t].rows["account"] = Copied(source)["account"]
        BY <2>1, <3>1, TableOrder
      <4>2. PksOf("account", Copied(source)["account"]) = PksOf("account", source["account"])
        BY <1>0, CopiedStore DEF StoreTables
      <4>3. QED
        BY <1>k, <4>1, <4>2 DEF HoldsKey
    <3>2. CASE tool[t].at # 1
      <4>1. tool[t].at \in {2, 3, 4, 5, 6, 7}
        BY <2>1, <3>2
      <4>2. table # "account" /\ "account" \in StoreTables
        BY <4>1, TableOrder
      <4>3. tool'[t].rows["account"] = tool[t].rows["account"]
        BY <2>1, <4>2
      <4>4. HasRead(t)
        BY <2>1, <3>2 DEF HasRead
      <4>5. QED
        BY <1>k, <4>3, <4>4 DEF HoldsKey
    <3>3. QED
      BY <3>1, <3>2
  <2>4. QED
    BY <2>2, <2>3
<1>8. ASSUME NEW t \in Tools, EnsureSchema(t) PROVE KeyEverywhere(k)'
  <2>1. Steps(t) /\ tool[t].pc = "open" /\ tool'[t].rows = tool[t].rows
    BY <1>0, <1>8, EnsureSchemaFields
  <2>2. QED
    BY <1>8, <2>1, <1>k, <1>w DEF EnsureSchema, HasRead
<1>9. ASSUME NEW t \in Tools, CheckTarget(t) PROVE KeyEverywhere(k)'
  <2>1. Steps(t) /\ tool[t].pc = "check" /\ tool'[t].rows = tool[t].rows
    BY <1>0, <1>9, CheckTargetFields
  <2>2. QED
    BY <1>9, <2>1, <1>k, <1>w DEF CheckTarget, HasRead
<1>10. ASSUME NEW t \in Tools, Copy(t) PROVE KeyEverywhere(k)'
  <2>1. Steps(t) /\ tool[t].pc = "copy" /\ tool'[t].pc \in {"count", "red"}
    BY <1>0, <1>10, CopyFields
  <2>2. ~HasRead(t)'
    BY <2>1 DEF HasRead
  <2>3. CASE UNCHANGED target
    BY <1>10, <2>1, <2>2, <2>3, <1>w DEF Copy
  <2>4. CASE target' = [s \in StoreTables |-> target[s] \cup tool[t].rows[s]]
    <3>1. HoldsKey(k, tool[t].rows)
      BY <1>k, <2>1 DEF HasRead
    <3>2. target'["account"] = target["account"] \cup tool[t].rows["account"]
      BY <2>4 DEF StoreTables
    <3>3. HoldsKey(k, target')
      BY <3>1, <3>2 DEF HoldsKey, PksOf
    <3>4. \A u \in Tools : HasRead(u)' => HoldsKey(k, tool'[u].rows)
      BY <2>1, <2>2, <1>v DEF Steps
    <3>5. QED
      BY <3>3, <3>4, <1>g
  <2>5. QED
    BY <1>0, <1>10, <2>3, <2>4, CopyFields
<1>11. ASSUME NEW t \in Tools, CompareTable(t) PROVE KeyEverywhere(k)'
  <2>1. Steps(t) /\ tool'[t].pc \in {"red", "tenants", "count"}
    BY <1>0, <1>11, CompareTableFields
  <2>2. ToolStep(t) /\ UNCHANGED target
    BY <1>11 DEF CompareTable, Verifying
  <2>3. QED
    BY <2>1, <2>2, <1>w DEF HasRead
<1>12. ASSUME NEW t \in Tools, ListTenants(t) PROVE KeyEverywhere(k)'
  <2>1. Steps(t) /\ tool'[t].pc = "tenant"
    BY <1>0, <1>12, ListTenantsFields
  <2>2. ToolStep(t) /\ UNCHANGED target
    BY <1>12 DEF ListTenants, Verifying
  <2>3. QED
    BY <2>1, <2>2, <1>w DEF HasRead
<1>13. ASSUME NEW t \in Tools, CompareTenant(t) PROVE KeyEverywhere(k)'
  <2>1. Steps(t) /\ tool'[t].pc = "tenant"
    BY <1>0, <1>13, CompareTenantFields
  <2>2. ToolStep(t) /\ UNCHANGED target
    BY <1>13 DEF CompareTenant, Verifying
  <2>3. QED
    BY <2>1, <2>2, <1>w DEF HasRead
<1>14. ASSUME NEW t \in Tools, ListIdentities(t) PROVE KeyEverywhere(k)'
  <2>1. Steps(t) /\ tool'[t].pc = "identities"
    BY <1>0, <1>14, ListIdentitiesFields
  <2>2. ToolStep(t) /\ UNCHANGED target
    BY <1>14 DEF ListIdentities, Verifying
  <2>3. QED
    BY <2>1, <2>2, <1>w DEF HasRead
<1>15. ASSUME NEW t \in Tools, CheckIdentities(t) PROVE KeyEverywhere(k)'
  <2>1. Steps(t) /\ tool'[t].pc \in {"red", "green"}
    BY <1>0, <1>15, CheckIdentitiesFields
  <2>2. ToolStep(t) /\ UNCHANGED target
    BY <1>15 DEF CheckIdentities, Verifying
  <2>3. QED
    BY <2>1, <2>2, <1>w DEF HasRead
<1>16. ASSUME NEW t \in Tools, Stop(t) PROVE KeyEverywhere(k)'
  <2>1. tool'[t].pc = "off" /\ \A u \in Tools : u # t => tool'[u] = tool[u]
    BY <1>0, <1>16, StopFields DEF Off
  <2>2. QED
    BY <1>16, <2>1, <1>v, <1>u, <1>g DEF Stop, HasRead
<1>17. ASSUME NEW t \in RecordTables, ServeInsert(t) PROVE KeyEverywhere(k)'
  BY <1>17, <1>g, <1>t DEF ServeInsert
<1>18. ASSUME UNCHANGED vars PROVE KeyEverywhere(k)'
  BY <1>18, <1>g, <1>t, <1>u DEF vars
<1>19. QED
  BY <1>1, <1>2, <1>3, <1>4, <1>5, <1>6, <1>7, <1>8, <1>9, <1>10, <1>11, <1>12, <1>13,
     <1>14, <1>15, <1>16, <1>17, <1>18 DEF Next, Migrate, Verify

\* A run's rows land on a target that holds nothing: from a store with an
\* account no target is ever written twice.
THEOREM OneCopy == InUse => (Spec => OneCopyLands)
<1> DEFINE Lands == (target' # target /\ target' # Empty /\ ~serving) =>
                        /\ target = Empty
                        /\ \E t \in Tools : target' = tool[t].rows
<1>1. TypeInv /\ KeyInv /\ [Next]_vars => [Lands]_vars
  <2> SUFFICES ASSUME TypeInv, KeyInv, Next, target' # target, target' # Empty, ~serving
               PROVE  target = Empty /\ \E t \in Tools : target' = tool[t].rows
    BY DEF vars
  <2>0. source \in Stores /\ target \in Stores /\ ProcessesOK
    BY DEF TypeInv, TypeOK, ProcessesOK
  <2>1. PICK t \in Tools : Copy(t)
    BY Zenon DEF Next, Freeze, Reset, CutOver, Migrate, Verify, ReadTable, EnsureSchema,
           CheckTarget, CompareTable, ListTenants, CompareTenant, ListIdentities,
           CheckIdentities, Verifying, Stop, Start, ServeInsert, SourceInsert, SourceEdit,
           SourcePurge, Write
  <2>2. /\ Insertable(tool[t].rows) /\ tool[t].pc = "copy"
        /\ target' = [s \in StoreTables |-> target[s] \cup tool[t].rows[s]]
    BY <2>0, <2>1, CopyFields
  <2>3. PICK k : KeyEverywhere(k)
    BY DEF KeyInv
  <2>4. HoldsKey(k, tool[t].rows) /\ (target = Empty \/ HoldsKey(k, target))
    BY <2>2, <2>3 DEF KeyEverywhere, HasRead
  <2>5. PksOf("account", tool[t].rows["account"]) \cap PksOf("account", target["account"]) = {}
    <3>1. 1 \in 1..Len(Tables) /\ Tables[1] = "account"
      BY TableOrder
    <3>2. QED
      BY <2>2, <3>1 DEF Insertable
  <2>6. target = Empty
    BY <2>4, <2>5 DEF HoldsKey
  <2>7. target' = tool[t].rows
    <3>1. tool[t].rows = [s \in StoreTables |-> tool[t].rows[s]]
      <4>1. tool[t].rows \in Stores
        BY <2>0 DEF ProcessesOK, Processes
      <4>2. QED
        BY <4>1, StoreType
    <3>2. \A s \in StoreTables : target[s] \cup tool[t].rows[s] = tool[t].rows[s]
      BY <2>6, EmptyStore
    <3>3. QED
      BY <2>2, <3>1, <3>2
  <2>8. QED
    BY <2>6, <2>7
<1>2. InUse => (Spec => [](TypeInv /\ KeyInv))
  BY TypeInit, TypeNext, KeyInit, KeyNext, PTL DEF Spec
<1>3. QED
  BY <1>1, <1>2, PTL DEF Spec, OneCopyLands, Lands

-----------------------------------------------------------------------------
(* Nothing is left behind.  A copy begun in the cold window reads a source  *)
(* that stands still, so what it has read is what the source holds, and so  *)
(* is what it has written; the server starts on such a copy alone.          *)

AllThere == \A s \in StoreTables : Copied(source)[s] \subseteq target[s]

\* What the process has read of a source that stands still, and then written.
ReadWhole(t) ==
    /\ tool[t].pc = "read" => \A j \in 1..7 :
          j < tool[t].at => tool[t].rows[Tables[j]] = Copied(source)[Tables[j]]
    /\ tool[t].pc \in {"open", "check", "copy"} =>
          \A s \in StoreTables : tool[t].rows[s] = Copied(source)[s]
    /\ tool[t].pc \in {"count", "tenants", "tenant", "identities", "green"} => AllThere

ColdInv ==
    /\ \A t \in Tools : tool[t].cold => frozen
    /\ \A t \in Tools : tool[t].full /\ tool[t].cold => ReadWhole(t)
    /\ serving => frozen /\ AllThere /\ \A t \in Tools : Idle(t)

LEMMA ColdInit == Init => ColdInv
<1> SUFFICES ASSUME Init PROVE ColdInv
  OBVIOUS
<1>1. ~serving /\ \A t \in Tools : tool[t].cold = FALSE
  BY DEF Init, Off
<1>2. QED
  BY <1>1 DEF ColdInv

LEMMA ColdNext == TypeInv /\ ColdInv /\ [Next]_vars => ColdInv'
<1> SUFFICES ASSUME TypeInv, ColdInv, [Next]_vars PROVE ColdInv'
  OBVIOUS
<1>0. /\ source \in Stores /\ target \in Stores /\ ProcessesOK /\ InHand
      /\ ready \in BOOLEAN /\ frozen \in BOOLEAN /\ serving \in BOOLEAN
      /\ targetId \in [RecordTables -> 0..MaxId]
  BY DEF TypeInv, TypeOK, ProcessesOK
<1>c. /\ \A t \in Tools : tool[t].cold => frozen
      /\ \A t \in Tools : tool[t].full /\ tool[t].cold => ReadWhole(t)
      /\ serving => frozen /\ AllThere /\ \A t \in Tools : Idle(t)
  BY DEF ColdInv
\* A write of the source: it is not frozen, so no process is cold.
<1>1. ASSUME ~frozen, UNCHANGED <<tool, frozen, serving>> PROVE ColdInv'
  BY <1>1, <1>c DEF ColdInv
\* Rows are added to the target, the rest stays.
<1>a. ASSUME UNCHANGED source, \A s \in StoreTables : target[s] \subseteq target'[s], AllThere
      PROVE  AllThere'
  BY <1>a DEF AllThere, Copied
<1>r. ASSUME NEW u \in Tools, tool'[u].pc = tool[u].pc, tool'[u].at = tool[u].at,
             tool'[u].rows = tool[u].rows, ReadWhole(u), UNCHANGED source,
             \A s \in StoreTables : target[s] \subseteq target'[s]
      PROVE  ReadWhole(u)'
  <2>1. Copied(source') = Copied(source)
    BY <1>r
  <2>2. AllThere => AllThere'
    BY <1>r, <1>a
  <2>3. QED
    BY <1>r, <2>1, <2>2 DEF ReadWhole
<1>2. ASSUME UNCHANGED <<source, tool>>, \A s \in StoreTables : target[s] \subseteq target'[s],
             frozen => frozen', serving' => serving
      PROVE  ColdInv'
  <2>1. \A t \in Tools : Idle(t) => Idle(t)'
    BY <1>2 DEF Idle
  <2>2. \A t \in Tools : ReadWhole(t) => ReadWhole(t)'
    BY <1>2, <1>r
  <2>3. AllThere => AllThere'
    BY <1>2, <1>a
  <2>4. QED
    BY <1>c, <1>2, <2>1, <2>2, <2>3 DEF ColdInv
\* A step of one process.
<1>3. ASSUME NEW t \in Tools, ToolStep(t), Steps(t), ~Idle(t),
             \A s \in StoreTables : target[s] \subseteq target'[s],
             tool[t].full /\ tool[t].cold => ReadWhole(t)'
      PROVE  ColdInv'
  <2>1. /\ UNCHANGED <<source, frozen, serving>> /\ ~serving
        /\ \A u \in Tools : u # t => tool'[u] = tool[u]
        /\ tool'[t].full = tool[t].full /\ tool'[t].cold = tool[t].cold
    BY <1>c, <1>3 DEF ToolStep, Steps
  <2>2. \A u \in Tools : tool'[u].full /\ tool'[u].cold => ReadWhole(u)'
    BY <1>c, <1>3, <1>r, <2>1
  <2>3. \A u \in Tools : tool'[u].cold => frozen'
    BY <1>c, <2>1
  <2>4. QED
    BY <2>1, <2>2, <2>3 DEF ColdInv
<1>4. ASSUME Reset PROVE ColdInv'
  <2>1. ~serving' /\ \A t \in Tools : tool'[t].cold = FALSE
    BY <1>4 DEF Reset, Off
  <2>2. QED
    BY <2>1 DEF ColdInv
<1>5. ASSUME CutOver PROVE ColdInv'
  <2>1. /\ \A t \in Tools : Idle(t)
        /\ UNCHANGED <<source, target, tool, frozen>>
    BY <1>5 DEF CutOver
  <2>2. PICK t \in Tools : tool[t].pc = "green" /\ tool[t].full /\ tool[t].cold
    BY <1>5 DEF CutOver
  <2>3. frozen /\ AllThere
    BY <1>c, <2>2 DEF ReadWhole
  <2>4. \A u \in Tools : (ReadWhole(u) => ReadWhole(u)') /\ Idle(u)'
    BY <2>1, <1>r DEF Idle
  <2>5. AllThere'
    BY <2>1, <2>3, <1>a
  <2>6. QED
    BY <1>c, <2>1, <2>3, <2>4, <2>5 DEF ColdInv
<1>6. ASSUME NEW t \in Tools, NEW full \in BOOLEAN, Start(t, full) PROVE ColdInv'
  <2>1. UNCHANGED <<source, target, frozen, serving>> /\ ~serving
    BY <1>6 DEF Start
  <2>2. /\ tool'[t].pc = (IF full THEN "read" ELSE "count")
        /\ tool'[t].full = full /\ tool'[t].at = 1 /\ tool'[t].cold = frozen
        /\ \A u \in Tools : u # t =>
              /\ tool'[u].pc = tool[u].pc /\ tool'[u].full = tool[u].full
              /\ tool'[u].at = tool[u].at /\ tool'[u].rows = tool[u].rows
              /\ tool'[u].cold = tool[u].cold
    BY <1>0, <1>6, StartFields
  <2>3. tool'[t].full => ReadWhole(t)'
    BY <2>2 DEF ReadWhole
  <2>4. \A u \in Tools : tool'[u].full /\ tool'[u].cold => ReadWhole(u)'
    BY <1>c, <1>r, <2>1, <2>2, <2>3
  <2>5. \A u \in Tools : tool'[u].cold => frozen'
    BY <1>c, <2>1, <2>2
  <2>6. QED
    BY <2>1, <2>4, <2>5 DEF ColdInv
<1>7. ASSUME NEW t \in Tools, ReadTable(t) PROVE ColdInv'
  <2> DEFINE table == Tables[tool[t].at]
  <2>1. /\ Steps(t) /\ tool[t].pc = "read" /\ tool[t].at \in 1..7 /\ table \in StoreTables
        /\ tool'[t].pc = (IF tool[t].at = 7 THEN "open" ELSE "read")
        /\ tool'[t].at = tool[t].at + 1
        /\ tool'[t].rows[table] = Copied(source)[table]
        /\ \A s \in StoreTables : s # table => tool'[t].rows[s] = tool[t].rows[s]
    BY <1>0, <1>7, ReadTableFields
  <2>2. /\ ToolStep(t) /\ UNCHANGED <<source, target>>
    BY <1>7 DEF ReadTable, ToolStep
  <2>3. ASSUME tool[t].full, tool[t].cold
        PROVE  ReadWhole(t)'
    <3>1. \A j \in 1..7 : j < tool[t].at => tool[t].rows[Tables[j]] = Copied(source)[Tables[j]]
      BY <1>c, <2>1, <2>3 DEF ReadWhole
    <3>2. ASSUME NEW j \in 1..7, j < tool'[t].at
          PROVE  tool'[t].rows[Tables[j]] = Copied(source)[Tables[j]]
      <4>1. Tables[j] \in StoreTables
        BY TableOrder
      <4>2. CASE Tables[j] = table
        BY <2>1, <4>2
      <4>3. CASE Tables[j] # table
        <5>1. j < tool[t].at
          BY <2>1, <3>2, <4>3
        <5>2. QED
          BY <2>1, <3>1, <4>1, <4>3, <5>1
      <4>4. QED
        BY <4>2, <4>3
    <3>3. Copied(source') = Copied(source)
      BY <2>2
    <3>4. ASSUME tool[t].at = 7
          PROVE  \A s \in StoreTables : tool'[t].rows[s] = Copied(source)[s]
      <4>1. \A j \in 1..7 : tool'[t].rows[Tables[j]] = Copied(source)[Tables[j]]
        BY <2>1, <3>2, <3>4
      <4>2. QED
        BY <4>1, TableOrder
    <3>5. QED
      BY <2>1, <3>2, <3>3, <3>4 DEF ReadWhole
  <2>4. QED
    BY <1>3, <2>1, <2>2, <2>3 DEF Idle
<1>8. ASSUME NEW t \in Tools, EnsureSchema(t) PROVE ColdInv'
  <2>1. /\ Steps(t) /\ tool[t].pc = "open" /\ tool'[t].pc = "check"
        /\ tool'[t].rows = tool[t].rows
    BY <1>0, <1>8, EnsureSchemaFields
  <2>2. ToolStep(t) /\ UNCHANGED <<source, target>>
    BY <1>8 DEF EnsureSchema, ToolStep
  <2>3. ReadWhole(t) => ReadWhole(t)'
    BY <2>1, <2>2 DEF ReadWhole
  <2>4. QED
    BY <1>c, <1>3, <2>1, <2>2, <2>3 DEF Idle
<1>9. ASSUME NEW t \in Tools, CheckTarget(t) PROVE ColdInv'
  <2>1. /\ Steps(t) /\ tool[t].pc = "check" /\ tool'[t].pc \in {"copy", "red"}
        /\ tool'[t].rows = tool[t].rows
    BY <1>0, <1>9, CheckTargetFields
  <2>2. ToolStep(t) /\ UNCHANGED <<source, target>>
    BY <1>9 DEF CheckTarget, ToolStep
  <2>3. ReadWhole(t) => ReadWhole(t)'
    BY <2>1, <2>2 DEF ReadWhole
  <2>4. QED
    BY <1>c, <1>3, <2>1, <2>2, <2>3 DEF Idle
<1>10. ASSUME NEW t \in Tools, Copy(t) PROVE ColdInv'
  <2>1. /\ Steps(t) /\ tool[t].pc = "copy" /\ tool'[t].pc \in {"count", "red"}
        /\ ToolStep(t) /\ UNCHANGED source
    <3>1. /\ Steps(t) /\ tool[t].pc = "copy" /\ tool'[t].pc \in {"count", "red"}
      BY <1>0, <1>10, CopyFields
    <3>2. ToolStep(t) /\ UNCHANGED source
      BY <1>10 DEF Copy, ToolStep
    <3>3. QED
      BY <3>1, <3>2
  <2>2. CASE UNCHANGED target /\ tool'[t].pc = "red"
    <3>1. ReadWhole(t)'
      BY <2>2 DEF ReadWhole
    <3>2. QED
      BY <1>3, <2>1, <2>2, <3>1 DEF Idle
  <2>3. CASE target' = [s \in StoreTables |-> target[s] \cup tool[t].rows[s]]
             /\ tool'[t].pc = "count"
    <3>1. \A s \in StoreTables : target'[s] = target[s] \cup tool[t].rows[s]
      BY <2>3
    <3>2. ASSUME tool[t].full, tool[t].cold
          PROVE  ReadWhole(t)'
      <4>1. \A s \in StoreTables : tool[t].rows[s] = Copied(source)[s]
        BY <1>c, <2>1, <3>2 DEF ReadWhole
      <4>2. Copied(source') = Copied(source)
        BY <2>1
      <4>3. AllThere'
        BY <3>1, <4>1, <4>2 DEF AllThere
      <4>4. QED
        BY <2>3, <4>3 DEF ReadWhole
    <3>3. QED
      BY <1>3, <2>1, <3>1, <3>2 DEF Idle
  <2>4. QED
    BY <1>0, <1>10, <2>2, <2>3, CopyFields
\* A step of verification: what the copy has written stays.
<1>v. ASSUME NEW t \in Tools, NEW pc, Verifying(t, pc), Steps(t),
             pc \in {"count", "tenants", "tenant", "identities"},
             tool'[t].pc \in {"count", "tenants", "tenant", "identities", "green", "red"}
      PROVE  ColdInv'
  <2>1. ToolStep(t) /\ tool[t].pc = pc /\ UNCHANGED <<source, target>>
    BY <1>v DEF Verifying, ToolStep
  <2>2. AllThere => AllThere'
    BY <2>1, <1>a
  <2>3. ReadWhole(t) => ReadWhole(t)'
    BY <1>v, <2>1, <2>2 DEF ReadWhole
  <2>4. ~Idle(t)
    BY ONLY <1>v, <2>1 DEF Idle
  <2>5. QED
    BY <1>c, <1>v, <1>3, <2>1, <2>3, <2>4
<1>11. ASSUME NEW t \in Tools, CompareTable(t) PROVE ColdInv'
  <2>1. Steps(t) /\ tool'[t].pc \in {"red", "tenants", "count"}
    BY <1>0, <1>11, CompareTableFields
  <2>2. Verifying(t, "count")
    BY <1>11 DEF CompareTable
  <2>3. QED
    BY <1>v, <2>1, <2>2
<1>12. ASSUME NEW t \in Tools, ListTenants(t) PROVE ColdInv'
  <2>1. Steps(t) /\ tool'[t].pc = "tenant"
    BY <1>0, <1>12, ListTenantsFields
  <2>2. Verifying(t, "tenants")
    BY <1>12 DEF ListTenants
  <2>3. QED
    BY <1>v, <2>1, <2>2
<1>13. ASSUME NEW t \in Tools, CompareTenant(t) PROVE ColdInv'
  <2>1. Steps(t) /\ tool'[t].pc = "tenant"
    BY <1>0, <1>13, CompareTenantFields
  <2>2. Verifying(t, "tenant")
    BY <1>13 DEF CompareTenant
  <2>3. QED
    BY <1>v, <2>1, <2>2
<1>14. ASSUME NEW t \in Tools, ListIdentities(t) PROVE ColdInv'
  <2>1. Steps(t) /\ tool'[t].pc = "identities"
    BY <1>0, <1>14, ListIdentitiesFields
  <2>2. Verifying(t, "tenant")
    BY <1>14 DEF ListIdentities
  <2>3. QED
    BY <1>v, <2>1, <2>2
<1>15. ASSUME NEW t \in Tools, CheckIdentities(t) PROVE ColdInv'
  <2>1. Steps(t) /\ tool'[t].pc \in {"red", "green"}
    BY <1>0, <1>15, CheckIdentitiesFields
  <2>2. Verifying(t, "identities")
    BY <1>15 DEF CheckIdentities
  <2>3. QED
    BY <1>v, <2>1, <2>2
<1>16. ASSUME NEW t \in Tools, Stop(t) PROVE ColdInv'
  <2>1. /\ tool'[t].cold = FALSE /\ ~Idle(t) /\ \A u \in Tools : u # t => tool'[u] = tool[u]
        /\ UNCHANGED <<source, target, frozen, serving>>
    BY <1>0, <1>16, StopFields DEF Off, Stop
  <2>2. ~serving
    BY <1>c, <2>1
  <2>3. \A u \in Tools : u # t => (ReadWhole(u) => ReadWhole(u)')
    BY <2>1, <1>r
  <2>4. QED
    BY <1>c, <2>1, <2>2, <2>3 DEF ColdInv
<1>17. ASSUME NEW t \in RecordTables, ServeInsert(t) PROVE ColdInv'
  <2>1. \A s \in StoreTables : target[s] \subseteq target'[s]
    BY <1>0, <1>17, ServedRow
  <2>2. QED
    BY <1>2, <1>17, <2>1 DEF ServeInsert
<1>18. ASSUME Freeze PROVE ColdInv'
  BY <1>2, <1>18 DEF Freeze
<1>19. ASSUME UNCHANGED vars PROVE ColdInv'
  BY <1>2, <1>19 DEF vars
<1>20. ASSUME NEW t \in Written, SourceInsert(t) \/ SourceEdit(t) PROVE ColdInv'
  BY <1>1, <1>20 DEF SourceInsert, SourceEdit, Write
<1>21. ASSUME NEW p \in People, SourcePurge(p) PROVE ColdInv'
  BY <1>1, <1>21 DEF SourcePurge, Write
<1>22. QED
  BY <1>4, <1>5, <1>6, <1>7, <1>8, <1>9, <1>10, <1>11, <1>12, <1>13, <1>14, <1>15, <1>16,
     <1>17, <1>18, <1>19, <1>20, <1>21 DEF Next, Migrate, Verify

LEMMA ColdInvariant == Spec => []ColdInv
BY TypeInit, TypeNext, ColdInit, ColdNext, PTL DEF Spec

\* The gate: whatever is tried on the store while it is served, and whatever
\* dies, the server starts on a target that holds every row of the source.
THEOREM NothingIsLeftBehind == Spec => []NothingLeftBehind
<1>1. ColdInv => NothingLeftBehind
  BY DEF ColdInv, NothingLeftBehind, AllThere
<1>2. QED
  BY <1>1, ColdInvariant, PTL

-----------------------------------------------------------------------------
(* Counting.  Sets of rows whose keys are keys have as many rows as keys.   *)

Keyed(t, S) == IsFiniteSet(S) /\ \A r, q \in S : Pk(t, r) = Pk(t, q) => r = q

KeyedStore(store) == \A t \in StoreTables : Keyed(t, store[t])

\* A function one to one and onto.
LEMMA SameNumber ==
    ASSUME NEW S, IsFiniteSet(S), NEW T, NEW f \in [S -> T],
           \A x, y \in S : f[x] = f[y] => x = y, \A z \in T : \E x \in S : f[x] = z
    PROVE  IsFiniteSet(T) /\ Cardinality(T) = Cardinality(S)
<1>1. f \in Injection(S, T)
  BY DEF Injection, IsInjective
<1>2. f \in Surjection(S, T)
  BY DEF Surjection
<1>3. ExistsBijection(S, T)
  BY <1>1, <1>2 DEF ExistsBijection, Bijection
<1>4. QED
  BY <1>3, FS_Bijection

LEMMA AsManyKeys ==
    ASSUME NEW t, NEW S, Keyed(t, S)
    PROVE  IsFiniteSet(PksOf(t, S)) /\ Cardinality(PksOf(t, S)) = Cardinality(S)
<1> DEFINE f == [r \in S |-> Pk(t, r)]
<1>1. f \in [S -> PksOf(t, S)] /\ \A r \in S : f[r] = Pk(t, r)
  BY DEF PksOf
<1>2. \A z \in PksOf(t, S) : \E r \in S : f[r] = z
  BY <1>1 DEF PksOf
<1>3. IsFiniteSet(S) /\ \A x, y \in S : f[x] = f[y] => x = y
  BY <1>1 DEF Keyed
<1> HIDE DEF f
<1>4. QED
  BY <1>1, <1>2, <1>3, SameNumber

\* Equal counts and keys of one among those of the other: the keys are the same.
LEMMA CountedKeys ==
    ASSUME NEW t, NEW S, NEW T, Keyed(t, S), Keyed(t, T),
           Cardinality(S) = Cardinality(T), PksOf(t, T) \subseteq PksOf(t, S)
    PROVE  PksOf(t, S) = PksOf(t, T)
<1>1. /\ IsFiniteSet(PksOf(t, S)) /\ Cardinality(PksOf(t, S)) = Cardinality(S)
      /\ Cardinality(PksOf(t, T)) = Cardinality(T)
  BY AsManyKeys
<1>2. Cardinality(PksOf(t, S)) = Cardinality(PksOf(t, T))
  BY <1>1
<1>3. QED
  BY <1>1, <1>2, FS_Subset

LEMMA KeyedUnion ==
    ASSUME NEW t, NEW S, NEW T, Keyed(t, S), Keyed(t, T), PksOf(t, S) \cap PksOf(t, T) = {}
    PROVE  Keyed(t, S \cup T)
<1>1. IsFiniteSet(S \cup T)
  BY FS_Union DEF Keyed
<1>2. ASSUME NEW r \in S \cup T, NEW q \in S \cup T, Pk(t, r) = Pk(t, q)
      PROVE  r = q
  <2>1. CASE r \in S /\ q \in S
    BY <1>2, <2>1 DEF Keyed
  <2>2. CASE r \in T /\ q \in T
    BY <1>2, <2>2 DEF Keyed
  <2>3. CASE r \in S /\ q \in T
    BY <1>2, <2>3 DEF PksOf
  <2>4. CASE r \in T /\ q \in S
    BY <1>2, <2>4 DEF PksOf
  <2>5. QED
    BY <1>2, <2>1, <2>2, <2>3, <2>4
<1>3. QED
  BY <1>1, <1>2 DEF Keyed

\* The copied rows are as many as the rows; so are those of one owner.
LEMMA CarriedRows ==
    ASSUME NEW t \in StoreTables, NEW S, S \subseteq Rows(t), Keyed(t, S)
    PROVE  LET T == {Carried(r) : r \in S}
           IN  Keyed(t, T) /\ Cardinality(T) = Cardinality(S)
<1> DEFINE T == {Carried(r) : r \in S}
           f == [r \in S |-> Carried(r)]
<1>1. \A r \in S : Pk(t, Carried(r)) = Pk(t, r)
  BY CarriedRow
<1>2. f \in [S -> T] /\ \A r \in S : f[r] = Carried(r)
  OBVIOUS
<1>3. \A z \in T : \E r \in S : f[r] = z
  BY <1>2
<1>4. IsFiniteSet(S) /\ \A x, y \in S : f[x] = f[y] => x = y
  BY <1>1, <1>2 DEF Keyed
<1>5. IsFiniteSet(T) /\ Cardinality(T) = Cardinality(S)
  <2> HIDE DEF f, T
  <2>1. QED
    BY <1>2, <1>3, <1>4, SameNumber
<1>6. \A r, q \in T : Pk(t, r) = Pk(t, q) => r = q
  BY <1>1 DEF Keyed
<1>7. QED
  BY <1>5, <1>6 DEF Keyed

LEMMA CopiedKeyed ==
    ASSUME NEW S \in Stores, KeyedStore(S)
    PROVE  /\ KeyedStore(Copied(S))
           /\ \A t \in StoreTables : Cardinality(Copied(S)[t]) = Cardinality(S[t])
<1>1. ASSUME NEW t \in StoreTables
      PROVE  Keyed(t, Copied(S)[t]) /\ Cardinality(Copied(S)[t]) = Cardinality(S[t])
  <2>1. S[t] \subseteq Rows(t) /\ Keyed(t, S[t])
    BY StoreType DEF KeyedStore
  <2>2. Copied(S)[t] = {Carried(r) : r \in S[t]}
    BY CopiedStore
  <2>3. QED
    BY <2>1, <2>2, CarriedRows
<1>2. QED
  BY <1>1 DEF KeyedStore

LEMMA EmptyKeyed == KeyedStore(Empty)
<1>1. \A t \in StoreTables : Keyed(t, {})
  BY FS_EmptySet DEF Keyed
<1>2. QED
  BY <1>1, EmptyStore DEF KeyedStore

LEMMA SoundIsKeyed == Sound(source) => KeyedStore(source)
BY DEF Sound, KeyedStore, Keyed

-----------------------------------------------------------------------------
(* A green run misses nothing.  Where nothing was purged, every key that has *)
(* been read or written is one of the source's, so a table with as many rows *)
(* in the target has them all; what comes later only adds to the target.     *)

\* The keys of one store are keys of another.
Within(A, B) == \A s \in StoreTables : PksOf(s, A[s]) \subseteq PksOf(s, B[s])

HadThere(t, s) == PksOf(s, tool[t].had[s]) \subseteq PksOf(s, target[s])

Counted(t) ==
    /\ tool[t].pc = "count" /\ ~tool[t].bad =>
          \A j \in 1..7 : j < tool[t].at => HadThere(t, Tables[j])
    /\ tool[t].pc \in {"tenants", "tenant", "identities"} /\ ~tool[t].bad =>
          \A s \in StoreTables : HadThere(t, s)
    /\ tool[t].pc = "green" => \A s \in StoreTables : HadThere(t, s)

Traced(t) == Within(tool[t].rows, source) /\ Within(tool[t].had, source) /\ Counted(t)

GreenInv ==
    /\ \A t \in Tools : KeyedStore(tool[t].rows)
    /\ ~serving => KeyedStore(target)
    /\ ~purged => /\ ~serving => Within(target, source)
                  /\ \A t \in Tools : Traced(t)

LEMMA EmptyWithin == ASSUME NEW B PROVE Within(Empty, B)
BY EmptyStore DEF Within, PksOf

LEMMA GreenInit == Init => GreenInv
<1> SUFFICES ASSUME Init PROVE GreenInv
  OBVIOUS
<1>1. target = Empty /\ \A t \in Tools : /\ tool[t].rows = Empty /\ tool[t].had = Empty
                                         /\ tool[t].pc = "off"
  BY DEF Init, Off
<1>2. QED
  BY <1>1, EmptyKeyed, EmptyWithin DEF GreenInv, Traced, Counted

LEMMA GreenNext ==
    TypeInv /\ Sound(source) /\ ColdInv /\ GreenInv /\ [Next]_vars => GreenInv'
<1> SUFFICES ASSUME TypeInv, Sound(source), ColdInv, GreenInv, [Next]_vars PROVE GreenInv'
  OBVIOUS
<1>0. /\ source \in Stores /\ target \in Stores /\ ProcessesOK /\ InHand
      /\ ready \in BOOLEAN /\ frozen \in BOOLEAN /\ serving \in BOOLEAN
      /\ purged \in BOOLEAN /\ targetId \in [RecordTables -> 0..MaxId]
  BY DEF TypeInv, TypeOK, ProcessesOK
<1>d. KeyedStore(source)
  BY SoundIsKeyed
<1>e. serving => \A t \in Tools : Idle(t)
  BY DEF ColdInv
<1>h. /\ \A t \in Tools : KeyedStore(tool[t].rows)
      /\ ~serving => KeyedStore(target)
      /\ ~purged => (~serving => Within(target, source)) /\ \A t \in Tools : Traced(t)
  BY DEF GreenInv
\* Keys of the source stay keys of the source.
<1>k. /\ ~purged' => ~purged
      /\ ~purged' => \A store : Within(store, source) => Within(store, source')
  <2>1. ~purged' => \A s \in StoreTables : PksOf(s, source[s]) \subseteq PksOf(s, source'[s])
    BY KeysStay
  <2>2. purged => purged'
    BY <1>0, SourceWriters DEF SourceInsert, SourceEdit, SourcePurge
  <2>3. QED
    BY <2>1, <2>2 DEF Within
\* What was there stays there while the target only grows.
<1>m. ASSUME NEW u \in Tools, tool'[u].pc = tool[u].pc, tool'[u].at = tool[u].at,
             tool'[u].had = tool[u].had, tool'[u].bad = tool[u].bad,
             tool'[u].rows = tool[u].rows,
             \A s \in StoreTables : target[s] \subseteq target'[s],
             ~purged', Traced(u)
      PROVE  Traced(u)'
  <2>1. \A s \in StoreTables : HadThere(u, s) => HadThere(u, s)'
    BY <1>m DEF HadThere, PksOf
  <2>2. Counted(u) => Counted(u)'
    BY <1>m, <2>1, TableOrder DEF Counted
  <2>3. Within(tool'[u].rows, source') /\ Within(tool'[u].had, source')
    BY <1>m, <1>k DEF Traced
  <2>4. QED
    BY <1>m, <2>2, <2>3 DEF Traced, Within
\* Writes of the source, and the operator's steps.
<1>1. ASSUME UNCHANGED <<tool, target>>, serving => serving' PROVE GreenInv'
  <2>1. \A u \in Tools : ~purged' /\ Traced(u) => Traced(u)'
    BY <1>1, <1>m
  <2>2. ~purged' => (Within(target, source) => Within(target', source'))
    BY <1>1, <1>k DEF Within
  <2>3. \A u \in Tools : KeyedStore(tool'[u].rows)
    BY <1>1, <1>h
  <2>4. ~serving' => KeyedStore(target')
    BY <1>1, <1>h
  <2>5. QED
    BY <1>1, <1>h, <1>k, <2>1, <2>2, <2>3, <2>4 DEF GreenInv, KeyedStore
\* A step of one process that writes nothing.
<1>2. ASSUME NEW t \in Tools, ToolStep(t), Steps(t), UNCHANGED target,
             KeyedStore(tool'[t].rows), ~purged => Traced(t)'
      PROVE  GreenInv'
  <2>1. /\ UNCHANGED <<source, serving, purged>>
        /\ \A u \in Tools : u # t => tool'[u] = tool[u]
    BY <1>2 DEF ToolStep, Steps
  <2>2. \A u \in Tools : ~purged' => Traced(u)'
    BY <1>2, <1>h, <1>m, <2>1
  <2>3. \A u \in Tools : KeyedStore(tool'[u].rows)
    BY <1>2, <1>h, <2>1
  <2>4. ~serving' => KeyedStore(target')
    BY <1>2, <1>h, <2>1
  <2>5. ~purged' /\ ~serving' => Within(target', source')
    BY <1>2, <1>h, <2>1 DEF Within
  <2>6. QED
    BY <2>2, <2>3, <2>4, <2>5 DEF GreenInv, KeyedStore
\* ... and keeps the rows it has read.
<1>3. ASSUME NEW t \in Tools, ToolStep(t), Steps(t), UNCHANGED target,
             tool'[t].rows = tool[t].rows, tool'[t].had = tool[t].had,
             ~purged => Counted(t)'
      PROVE  GreenInv'
  <2>1. KeyedStore(tool'[t].rows)
    BY <1>3, <1>h
  <2>2. UNCHANGED source
    BY <1>3 DEF ToolStep
  <2>3. ~purged => Traced(t)'
    BY <1>3, <1>h, <2>2 DEF Traced, Within
  <2>4. QED
    BY <1>2, <1>3, <2>1, <2>3
<1>4. ASSUME Reset PROVE GreenInv'
  <2>1. target' = Empty /\ source' = source
        /\ \A t \in Tools : /\ tool'[t].rows = Empty /\ tool'[t].had = Empty
                            /\ tool'[t].pc = "off"
    BY <1>4 DEF Reset, Off
  <2>2. Within(Empty, source')
    BY <2>1, EmptyWithin DEF Within
  <2>3. \A t \in Tools : Traced(t)' /\ KeyedStore(tool'[t].rows)
    BY <2>1, <2>2, EmptyKeyed DEF Traced, Counted, Within
  <2>4. KeyedStore(target') /\ Within(target', source')
    BY <2>1, <2>2, EmptyKeyed DEF Within
  <2>5. QED
    BY <2>3, <2>4 DEF GreenInv, KeyedStore
<1>5. ASSUME NEW t \in Tools, NEW full \in BOOLEAN, Start(t, full) PROVE GreenInv'
  <2>1. UNCHANGED <<source, target, serving, purged>>
    BY <1>5 DEF Start
  <2>2. /\ tool'[t].pc = (IF full THEN "read" ELSE "count")
        /\ tool'[t].at = 1 /\ tool'[t].rows = Empty
        /\ tool'[t].had = (IF full THEN Empty ELSE source)
        /\ \A u \in Tools : u # t =>
              /\ tool'[u].pc = tool[u].pc /\ tool'[u].at = tool[u].at
              /\ tool'[u].rows = tool[u].rows /\ tool'[u].had = tool[u].had
              /\ tool'[u].bad = tool[u].bad
    BY <1>0, <1>5, StartFields
  <2>3. Within(tool'[t].rows, source') /\ Within(tool'[t].had, source')
    BY <2>1, <2>2, EmptyWithin DEF Within
  <2>4. Counted(t)'
    BY <2>2 DEF Counted
  <2>5. \A u \in Tools : ~purged' => Traced(u)'
    <3>1. Traced(t)'
      BY <2>3, <2>4 DEF Traced, Within
    <3>2. \A u \in Tools : u # t /\ ~purged' => Traced(u)'
      BY <1>h, <1>m, <2>1, <2>2
    <3>3. QED
      BY <3>1, <3>2
  <2>6. \A u \in Tools : KeyedStore(tool'[u].rows)
    BY <1>h, <2>2, EmptyKeyed
  <2>7. (~serving' => KeyedStore(target')) /\ (~purged' /\ ~serving' => Within(target', source'))
    BY <1>h, <2>1 DEF Within
  <2>8. QED
    BY <2>5, <2>6, <2>7 DEF GreenInv, KeyedStore
<1>6. ASSUME NEW t \in Tools, ReadTable(t) PROVE GreenInv'
  <2> DEFINE table == Tables[tool[t].at]
  <2>1. /\ Steps(t) /\ table \in StoreTables
        /\ tool'[t].pc \in {"open", "read"}
        /\ tool'[t].rows[table] = Copied(source)[table]
        /\ \A s \in StoreTables : s # table => tool'[t].rows[s] = tool[t].rows[s]
        /\ tool'[t].had = tool[t].had
    BY <1>0, <1>6, ReadTableFields
  <2>2. ToolStep(t) /\ UNCHANGED <<target, source>>
    BY <1>6 DEF ReadTable, ToolStep
  <2>3. KeyedStore(tool'[t].rows)
    <3>1. Keyed(table, Copied(source)[table])
      BY <1>0, <1>d, <2>1, CopiedKeyed DEF KeyedStore
    <3>2. \A s \in StoreTables : Keyed(s, tool'[t].rows[s])
      BY <1>h, <2>1, <3>1 DEF KeyedStore
    <3>3. QED
      BY <3>2 DEF KeyedStore
  <2>4. ~purged => Traced(t)'
    <3>1. PksOf(table, tool'[t].rows[table]) = PksOf(table, source[table])
      BY <1>0, <2>1, CopiedStore
    <3>2. ~purged => Within(tool'[t].rows, source)
      BY <1>h, <2>1, <3>1 DEF Traced, Within
    <3>3. ~purged => Within(tool'[t].had, source)
      BY <1>h, <2>1 DEF Traced
    <3>4. Counted(t)'
      BY <2>1 DEF Counted
    <3>5. QED
      BY <2>2, <3>2, <3>3, <3>4 DEF Traced, Within
  <2>5. QED
    BY <1>2, <2>1, <2>2, <2>3, <2>4
<1>7. ASSUME NEW t \in Tools, EnsureSchema(t) PROVE GreenInv'
  <2>1. /\ Steps(t) /\ tool'[t].pc = "check"
        /\ tool'[t].rows = tool[t].rows /\ tool'[t].had = tool[t].had
    BY <1>0, <1>7, EnsureSchemaFields
  <2>2. Counted(t)'
    BY <2>1 DEF Counted
  <2>3. QED
    BY <1>3, <1>7, <2>1, <2>2 DEF EnsureSchema
<1>8. ASSUME NEW t \in Tools, CheckTarget(t) PROVE GreenInv'
  <2>1. /\ Steps(t) /\ tool'[t].pc \in {"copy", "red"}
        /\ tool'[t].rows = tool[t].rows /\ tool'[t].had = tool[t].had
    BY <1>0, <1>8, CheckTargetFields
  <2>2. Counted(t)'
    BY <2>1 DEF Counted
  <2>3. QED
    BY <1>3, <1>8, <2>1, <2>2 DEF CheckTarget
<1>9. ASSUME NEW t \in Tools, Copy(t) PROVE GreenInv'
  <2>1. /\ Steps(t) /\ tool[t].pc = "copy" /\ tool'[t].rows = tool[t].rows
        /\ ToolStep(t) /\ UNCHANGED <<source, purged, serving>>
    <3>1. /\ Steps(t) /\ tool[t].pc = "copy" /\ tool'[t].rows = tool[t].rows
      BY <1>0, <1>9, CopyFields
    <3>2. ToolStep(t) /\ UNCHANGED <<source, purged, serving>>
      BY <1>9 DEF Copy, ToolStep
    <3>3. QED
      BY <3>1, <3>2
  <2>2. CASE UNCHANGED target /\ tool'[t].pc = "red" /\ tool'[t].had = tool[t].had
    <3>1. Counted(t)'
      BY <2>2 DEF Counted
    <3>2. QED
      BY <1>3, <2>1, <2>2, <3>1
  <2>3. CASE /\ Insertable(tool[t].rows)
             /\ target' = [s \in StoreTables |-> target[s] \cup tool[t].rows[s]]
             /\ tool'[t].pc = "count" /\ tool'[t].at = 1 /\ tool'[t].had = source
    <3>0. ~serving
      BY <1>e, <2>1 DEF Idle
    <3>1. \A s \in StoreTables : target'[s] = target[s] \cup tool[t].rows[s]
      BY <2>3
    <3>2. \A s \in StoreTables : PksOf(s, tool[t].rows[s]) \cap PksOf(s, target[s]) = {}
      BY <2>3, TableOrder DEF Insertable
    <3>3. KeyedStore(target')
      <4>1. ASSUME NEW s \in StoreTables
            PROVE  Keyed(s, target'[s])
        <5>1. Keyed(s, target[s]) /\ Keyed(s, tool[t].rows[s])
          BY <1>h, <3>0 DEF KeyedStore
        <5>2. PksOf(s, target[s]) \cap PksOf(s, tool[t].rows[s]) = {}
          BY <3>2
        <5>3. Keyed(s, target[s] \cup tool[t].rows[s])
          BY <5>1, <5>2, KeyedUnion
        <5>4. QED
          BY <3>1, <5>3
      <4>2. QED
        BY <4>1 DEF KeyedStore
    <3>4. ~purged => Within(target', source)
      BY <1>h, <3>0, <3>1 DEF Traced, Within, PksOf
    <3>5. ~purged => Traced(t)'
      <4>1. Counted(t)'
        BY <2>3 DEF Counted
      <4>2. ~purged => Within(tool'[t].rows, source) /\ Within(tool'[t].had, source)
        BY <1>h, <2>1, <2>3 DEF Traced, Within
      <4>3. QED
        BY <2>1, <4>1, <4>2 DEF Traced, Within
    <3>6. \A u \in Tools : ~purged' => Traced(u)'
      <4>1. \A u \in Tools : u # t => tool'[u] = tool[u]
        BY <2>1 DEF Steps
      <4>2. \A s \in StoreTables : target[s] \subseteq target'[s]
        BY <3>1
      <4>3. QED
        BY <1>h, <1>m, <2>1, <3>5, <4>1, <4>2
    <3>7. \A u \in Tools : KeyedStore(tool'[u].rows)
      BY <1>h, <2>1 DEF Steps
    <3>8. ~purged' => Within(target', source')
      BY <2>1, <3>4 DEF Within
    <3>9. QED
      BY <3>3, <3>6, <3>7, <3>8 DEF GreenInv, KeyedStore
  <2>4. QED
    BY <1>0, <1>9, <2>2, <2>3, CopyFields
<1>10. ASSUME NEW t \in Tools, CompareTable(t) PROVE GreenInv'
  <2> DEFINE table == Tables[tool[t].at]
  <2>1. /\ Steps(t) /\ tool[t].pc = "count"
        /\ tool[t].at \in 1..7 /\ table \in StoreTables
        /\ tool'[t].rows = tool[t].rows /\ tool'[t].had = tool[t].had
        /\ ~ready => tool'[t].pc = "red"
        /\ ready => /\ tool'[t].pc = (IF tool[t].at = 7 THEN "tenants" ELSE "count")
                    /\ tool'[t].at = tool[t].at + 1
                    /\ ~tool'[t].bad => /\ ~tool[t].bad
                                        /\ Cardinality(source[table]) = Cardinality(target[table])
    BY <1>0, <1>10, CompareTableFields
  <2>2. ToolStep(t) /\ UNCHANGED <<target, source>>
    BY <1>10 DEF CompareTable, Verifying, ToolStep
  <2>3. CASE ~ready
    <3>1. Counted(t)'
      BY <2>1, <2>3 DEF Counted
    <3>2. QED
      BY <1>3, <2>1, <2>2, <3>1
  <2>4. CASE ready
    <3>1. ASSUME ~purged, ~tool'[t].bad
          PROVE  \A j \in 1..7 : j < tool'[t].at => HadThere(t, Tables[j])
      <4>1. ~serving
        BY <1>e, <2>1 DEF Idle
      <4>2. Keyed(table, source[table]) /\ Keyed(table, target[table])
        BY <1>d, <1>h, <2>1, <4>1 DEF KeyedStore
      <4>3. /\ PksOf(table, target[table]) \subseteq PksOf(table, source[table])
            /\ PksOf(table, tool[t].had[table]) \subseteq PksOf(table, source[table])
        BY <1>h, <2>1, <3>1, <4>1 DEF Traced, Within
      <4>4. Cardinality(source[table]) = Cardinality(target[table])
        BY <2>1, <2>4, <3>1
      <4>5. PksOf(table, source[table]) = PksOf(table, target[table])
        BY <4>2, <4>3, <4>4, CountedKeys
      <4>6. HadThere(t, table)
        BY <4>3, <4>5 DEF HadThere
      <4>7. \A j \in 1..7 : j < tool[t].at => HadThere(t, Tables[j])
        BY <1>h, <2>1, <2>4, <3>1 DEF Traced, Counted
      <4>8. ASSUME NEW j \in 1..7, j < tool[t].at + 1
            PROVE  HadThere(t, Tables[j])
        <5>1. j < tool[t].at \/ j = tool[t].at
          BY <2>1, <4>8
        <5>2. QED
          BY <4>6, <4>7, <5>1
      <4>9. QED
        BY <2>1, <2>4, <4>8
    <3>2. \A s \in StoreTables : HadThere(t, s) => HadThere(t, s)'
      BY <2>1, <2>2 DEF HadThere
    <3>3. \A s \in StoreTables : \E j \in 1..7 : Tables[j] = s
      BY TableOrder
    <3>4. ~purged => Counted(t)'
      <4>1. CASE tool[t].at = 7
        <5>1. tool'[t].pc = "tenants" /\ tool'[t].at = 8
          BY <2>1, <2>4, <4>1
        <5>2. ASSUME ~purged, ~tool'[t].bad, NEW s \in StoreTables
              PROVE  HadThere(t, s)'
          <6>1. PICK j \in 1..7 : Tables[j] = s
            BY <3>3
          <6>2. j < tool'[t].at
            BY <5>1
          <6>3. HadThere(t, s)
            BY <3>1, <5>2, <6>1, <6>2
          <6>4. QED
            BY <3>2, <6>3
        <5>3. QED
          BY <5>1, <5>2 DEF Counted
      <4>2. CASE tool[t].at # 7
        <5>1. tool'[t].pc = "count"
          BY <2>1, <2>4, <4>2
        <5>2. \A j \in 1..7 : Tables[j] \in StoreTables
          BY TableOrder
        <5>3. QED
          BY <3>1, <3>2, <5>1, <5>2 DEF Counted
      <4>3. QED
        BY <4>1, <4>2
    <3>5. QED
      BY <1>3, <2>1, <2>2, <3>4
  <2>5. QED
    BY <2>3, <2>4
\* After the counts the verdict can only get worse.
<1>v. ASSUME NEW t \in Tools, NEW pc, Verifying(t, pc), Steps(t),
             pc \in {"tenants", "tenant", "identities"},
             tool'[t].rows = tool[t].rows, tool'[t].had = tool[t].had,
             tool'[t].pc \in {"tenants", "tenant", "identities", "green", "red"},
             ~tool'[t].bad => ~tool[t].bad, tool'[t].pc = "green" => ~tool[t].bad
      PROVE  GreenInv'
  <2>1. ToolStep(t) /\ tool[t].pc = pc /\ UNCHANGED <<source, target>>
    BY <1>v DEF Verifying, ToolStep
  <2>2. ~purged /\ ~tool[t].bad => \A s \in StoreTables : HadThere(t, s)
    BY <1>h, <1>v, <2>1 DEF Traced, Counted
  <2>3. \A s \in StoreTables : HadThere(t, s) => HadThere(t, s)'
    BY <1>v, <2>1 DEF HadThere
  <2>4. ~purged => Counted(t)'
    BY <1>v, <2>2, <2>3 DEF Counted
  <2>5. QED
    BY <1>3, <1>v, <2>1, <2>4
<1>11. ASSUME NEW t \in Tools, ListTenants(t) PROVE GreenInv'
  <2>1. /\ Steps(t) /\ tool'[t].pc = "tenant" /\ tool'[t].bad = tool[t].bad
        /\ tool'[t].rows = tool[t].rows /\ tool'[t].had = tool[t].had
    BY <1>0, <1>11, ListTenantsFields
  <2>2. Verifying(t, "tenants")
    BY <1>11 DEF ListTenants
  <2>3. QED
    BY <1>v, <2>1, <2>2
<1>12. ASSUME NEW t \in Tools, CompareTenant(t) PROVE GreenInv'
  <2>1. /\ Steps(t) /\ tool'[t].pc = "tenant" /\ (~tool'[t].bad => ~tool[t].bad)
        /\ tool'[t].rows = tool[t].rows /\ tool'[t].had = tool[t].had
    BY <1>0, <1>12, CompareTenantFields
  <2>2. Verifying(t, "tenant")
    BY <1>12 DEF CompareTenant
  <2>3. QED
    BY <1>v, <2>1, <2>2
<1>13. ASSUME NEW t \in Tools, ListIdentities(t) PROVE GreenInv'
  <2>1. /\ Steps(t) /\ tool'[t].pc = "identities" /\ tool'[t].bad = tool[t].bad
        /\ tool'[t].rows = tool[t].rows /\ tool'[t].had = tool[t].had
    BY <1>0, <1>13, ListIdentitiesFields
  <2>2. Verifying(t, "tenant")
    BY <1>13 DEF ListIdentities
  <2>3. QED
    BY <1>v, <2>1, <2>2
<1>14. ASSUME NEW t \in Tools, CheckIdentities(t) PROVE GreenInv'
  <2>1. /\ Steps(t) /\ tool'[t].pc \in {"red", "green"} /\ tool'[t].bad = tool[t].bad
        /\ (tool'[t].pc = "green" => ~tool[t].bad)
        /\ tool'[t].rows = tool[t].rows /\ tool'[t].had = tool[t].had
    BY <1>0, <1>14, CheckIdentitiesFields
  <2>2. Verifying(t, "identities")
    BY <1>14 DEF CheckIdentities
  <2>3. QED
    BY <1>v, <2>1, <2>2
<1>15. ASSUME NEW t \in Tools, Stop(t) PROVE GreenInv'
  <2>1. /\ UNCHANGED <<source, target, serving, purged>>
        /\ tool'[t].rows = Empty /\ tool'[t].had = Empty /\ tool'[t].pc = "off"
        /\ \A u \in Tools : u # t => tool'[u] = tool[u]
    BY <1>0, <1>15, StopFields DEF Off, Stop
  <2>2. Traced(t)'
    BY <2>1, EmptyWithin DEF Traced, Counted, Within
  <2>3. \A u \in Tools : ~purged' => Traced(u)'
    BY <1>h, <1>m, <2>1, <2>2
  <2>4. \A u \in Tools : KeyedStore(tool'[u].rows)
    BY <1>h, <2>1, EmptyKeyed
  <2>5. (~serving' => KeyedStore(target')) /\ (~purged' /\ ~serving' => Within(target', source'))
    BY <1>h, <2>1 DEF Within
  <2>6. QED
    BY <2>3, <2>4, <2>5 DEF GreenInv, KeyedStore
<1>16. ASSUME NEW t \in RecordTables, ServeInsert(t) PROVE GreenInv'
  <2>1. serving' /\ UNCHANGED <<source, tool, purged>>
        /\ \A s \in StoreTables : target[s] \subseteq target'[s]
    BY <1>0, <1>16, ServedRow DEF ServeInsert
  <2>2. \A u \in Tools : ~purged' => Traced(u)'
    BY <1>h, <1>m, <2>1
  <2>3. QED
    BY <1>h, <2>1, <2>2 DEF GreenInv, KeyedStore
<1>17. ASSUME UNCHANGED vars PROVE GreenInv'
  BY <1>1, <1>17 DEF vars
<1>18. ASSUME NEW t \in Written, SourceInsert(t) \/ SourceEdit(t) PROVE GreenInv'
  BY <1>1, <1>18 DEF SourceInsert, SourceEdit, Write
<1>19. ASSUME NEW p \in People, SourcePurge(p) PROVE GreenInv'
  BY <1>1, <1>19 DEF SourcePurge, Write
<1>20. ASSUME Freeze \/ CutOver PROVE GreenInv'
  BY <1>1, <1>20 DEF Freeze, CutOver
<1>21. QED
  BY <1>4, <1>5, <1>6, <1>7, <1>8, <1>9, <1>10, <1>11, <1>12, <1>13, <1>14, <1>15, <1>16,
     <1>17, <1>18, <1>19, <1>20 DEF Next, Migrate, Verify

-----------------------------------------------------------------------------
(* A run that nobody disturbs ends green: its inserts are accepted, since   *)
(* parents are copied first, and every count is the count of the same rows. *)

LEMMA CopyIsInsertable ==
    ASSUME source \in Stores, Sound(source), target = Empty,
           NEW R, \A s \in StoreTables : R[s] = Copied(source)[s]
    PROVE  Insertable(R)
<1> DEFINE before(k) == [s \in StoreTables |->
                           target[s] \cup (IF \E j \in 1..(k - 1) : Tables[j] = s
                                           THEN R[s] ELSE {})]
<1>1. \A s \in StoreTables : target[s] = {}
  BY EmptyStore
<1>2. ASSUME NEW k \in 1..7
      PROVE  /\ PksOf(Tables[k], R[Tables[k]]) \cap PksOf(Tables[k], target[Tables[k]]) = {}
             /\ \A r \in R[Tables[k]] : HasParents(Tables[k], r, before(k))
  <2>1. Tables[k] \in StoreTables
    BY TableOrder
  <2>2. PksOf(Tables[k], target[Tables[k]]) = {}
    BY <1>1, <2>1 DEF PksOf
  <2>3. ASSUME NEW r \in R[Tables[k]]
        PROVE  HasParents(Tables[k], r, before(k))
    <3>1. R[Tables[k]] = {Carried(q) : q \in source[Tables[k]]}
      BY <2>1, CopiedStore
    <3>2. PICK q \in source[Tables[k]] : r = Carried(q)
      BY <3>1
    <3>3. q \in Rows(Tables[k])
      BY <2>1, StoreType
    <3>4. Parents(Tables[k], r) = Parents(Tables[k], q)
      BY <2>1, <3>2, <3>3, CarriedRow
    <3>5. HasParents(Tables[k], q, source)
      BY <2>1 DEF Sound
    <3>6. ASSUME NEW p \in Parents(Tables[k], r)
          PROVE  p[2] \in PksOf(p[1], before(k)[p[1]])
      <4>1. p[1] \in StoreTables /\ \E j \in 1..(k - 1) : Tables[j] = p[1]
        BY ParentsFirst
      <4>2. before(k)[p[1]] = R[p[1]]
        BY <1>1, <4>1
      <4>3. PksOf(p[1], R[p[1]]) = PksOf(p[1], source[p[1]])
        BY <4>1, CopiedStore
      <4>4. p[2] \in PksOf(p[1], source[p[1]])
        BY <3>4, <3>5 DEF HasParents
      <4> HIDE DEF before
      <4>5. QED
        BY <4>2, <4>3, <4>4
    <3> HIDE DEF before
    <3>7. QED
      BY <3>6 DEF HasParents
  <2>4. QED
    BY <2>2, <2>3
<1>3. Len(Tables) = 7
  BY TableOrder
<1>4. QED
  BY <1>2, <1>3 DEF Insertable

\* Each owner has as many rows in the copy.
LEMMA AsManyOwned ==
    ASSUME NEW S \in Stores, KeyedStore(S), NEW t \in StoreTables, NEW p
    PROVE  OwnedBy(p, Copied(S)[t]) = OwnedBy(p, S[t])
<1> DEFINE O == {r \in S[t] : r.owner = p}
<1>1. S[t] \subseteq Rows(t) /\ Keyed(t, S[t]) /\ Copied(S)[t] = {Carried(r) : r \in S[t]}
  BY StoreType, CopiedStore DEF KeyedStore
<1>2. IsFiniteSet(O)
  BY <1>1, FS_Subset DEF Keyed
<1>3. O \subseteq Rows(t) /\ Keyed(t, O)
  BY <1>1, <1>2 DEF Keyed
<1>4. \A r \in S[t] : Carried(r).owner = r.owner
  BY <1>1, CarriedRow
<1>5. {r \in Copied(S)[t] : r.owner = p} = {Carried(r) : r \in O}
  BY <1>1, <1>4
<1>6. Cardinality({Carried(r) : r \in O}) = Cardinality(O)
  <2> HIDE DEF O
  <2>1. QED
    BY <1>3, CarriedRows
<1>7. QED
  BY <1>5, <1>6 DEF OwnedBy

\* What a run finds that nobody disturbs.
Undoubted(t) ==
    /\ \A u \in Tools : u # t => Idle(u)
    /\ ~tool[t].bad
    /\ tool[t].pc \in {"read", "open", "check", "copy"} => target = Empty
    /\ tool[t].pc \in {"check", "copy"} => ready
    /\ tool[t].pc \in {"count", "tenants", "tenant", "identities"} =>
          ready /\ target = Copied(source)
    /\ tool[t].pc = "tenant" => tool[t].todo \subseteq People \X RecordTables
    /\ tool[t].pc = "identities" =>
          tool[t].todo = {<<r.key, r.owner>> : r \in source["user_identity"]}

CleanInv ==
    /\ \A t \in Tools : tool[t].pc \in {"read", "open", "check", "copy"} => tool[t].full
    /\ \A t \in Tools : tool[t].clean => tool[t].cold /\ tool[t].pc # "red"
    /\ \A t \in Tools : tool[t].clean /\ ~Idle(t) => Undoubted(t)

LEMMA CleanInit == Init => CleanInv
<1> SUFFICES ASSUME Init PROVE CleanInv
  OBVIOUS
<1>1. \A t \in Tools : tool[t].pc = "off" /\ tool[t].clean = FALSE
  BY DEF Init, Off
<1>2. QED
  BY <1>1 DEF CleanInv

LEMMA CleanNext ==
    TypeInv /\ Sound(source) /\ ColdInv /\ CleanInv /\ [Next]_vars => CleanInv'
<1> SUFFICES ASSUME TypeInv, Sound(source), ColdInv, CleanInv, [Next]_vars PROVE CleanInv'
  OBVIOUS
<1>0. /\ source \in Stores /\ target \in Stores /\ ProcessesOK /\ InHand
      /\ ready \in BOOLEAN /\ frozen \in BOOLEAN /\ serving \in BOOLEAN
      /\ targetId \in [RecordTables -> 0..MaxId]
  BY DEF TypeInv, TypeOK, ProcessesOK
<1>d. KeyedStore(source)
  BY SoundIsKeyed
<1>e. /\ serving => \A t \in Tools : Idle(t)
      /\ \A t \in Tools : tool[t].cold => frozen
      /\ \A t \in Tools : tool[t].full /\ tool[t].cold => ReadWhole(t)
  BY DEF ColdInv
<1>h. /\ \A t \in Tools : tool[t].pc \in {"read", "open", "check", "copy"} => tool[t].full
      /\ \A t \in Tools : tool[t].clean => tool[t].cold /\ tool[t].pc # "red"
      /\ \A t \in Tools : tool[t].clean /\ ~Idle(t) => Undoubted(t)
  BY DEF CleanInv
\* Nothing happens to the runs.
<1>1. ASSUME UNCHANGED tool,
             \/ ~frozen
             \/ serving
             \/ UNCHANGED <<source, target, ready>>
      PROVE  CleanInv'
  <2>1. \A t \in Tools : tool[t].clean /\ ~Idle(t) =>
           /\ UNCHANGED <<source, target, ready>>
           /\ Undoubted(t)
    BY <1>1, <1>e, <1>h
  <2>2. \A t \in Tools : Idle(t) <=> Idle(t)'
    BY <1>1 DEF Idle
  <2>3. \A t \in Tools : tool'[t].clean /\ ~Idle(t)' => Undoubted(t)'
    BY <1>1, <2>1, <2>2 DEF Undoubted
  <2>4. QED
    BY <1>1, <1>h, <2>3 DEF CleanInv
\* A step of one process: no other is a clean run.
<1>2. ASSUME NEW t \in Tools, ToolStep(t), Steps(t), ~Idle(t),
             tool'[t].pc \in {"read", "open", "check", "copy"} => tool[t].full,
             tool[t].clean => tool'[t].pc # "red",
             tool[t].clean /\ tool'[t].pc # "green" =>
                /\ ~tool'[t].bad
                /\ tool'[t].pc \in {"read", "open", "check", "copy"} => target' = Empty
                /\ tool'[t].pc \in {"check", "copy"} => ready'
                /\ tool'[t].pc \in {"count", "tenants", "tenant", "identities"} =>
                      ready' /\ target' = Copied(source)
                /\ tool'[t].pc = "tenant" => tool'[t].todo \subseteq People \X RecordTables
                /\ tool'[t].pc = "identities" =>
                      tool'[t].todo = {<<r.key, r.owner>> : r \in source["user_identity"]}
      PROVE  CleanInv'
  <2>1. /\ UNCHANGED source
        /\ \A u \in Tools : u # t => tool'[u] = tool[u]
        /\ tool'[t].full = tool[t].full /\ tool'[t].cold = tool[t].cold
        /\ tool'[t].clean = tool[t].clean
    BY <1>2 DEF ToolStep, Steps
  <2>2. \A u \in Tools : u # t => (Idle(u) <=> Idle(u)')
    BY <2>1 DEF Idle
  <2>3. \A u \in Tools : u # t => ~(tool'[u].clean /\ ~Idle(u)')
    BY <1>2, <1>h, <2>1, <2>2 DEF Undoubted
  <2>4. tool'[t].clean /\ ~Idle(t)' => Undoubted(t)'
    <3>1. SUFFICES ASSUME tool'[t].clean, ~Idle(t)'
                   PROVE  Undoubted(t)'
      OBVIOUS
    <3>2. tool[t].clean /\ tool'[t].pc # "green"
      BY <2>1, <3>1 DEF Idle
    <3>3. \A u \in Tools : u # t => Idle(u)'
      BY <1>2, <1>h, <2>2, <3>2 DEF Undoubted
    <3>4. Copied(source') = Copied(source)
      BY <2>1
    <3>5. QED
      BY <1>2, <2>1, <3>2, <3>3, <3>4 DEF Undoubted
  <2>5. \A u \in Tools : tool'[u].clean /\ ~Idle(u)' => Undoubted(u)'
    BY <2>3, <2>4
  <2>6. \A u \in Tools : tool'[u].pc \in {"read", "open", "check", "copy"} => tool'[u].full
    BY <1>2, <1>h, <2>1
  <2>7. \A u \in Tools : tool'[u].clean => tool'[u].cold /\ tool'[u].pc # "red"
    BY <1>2, <1>h, <2>1
  <2>8. QED
    BY <2>5, <2>6, <2>7 DEF CleanInv
<1>3. ASSUME Reset PROVE CleanInv'
  <2>1. \A t \in Tools : tool'[t].pc = "off" /\ tool'[t].clean = FALSE
    BY <1>3 DEF Reset, Off
  <2>2. QED
    BY <2>1 DEF CleanInv
<1>4. ASSUME NEW t \in Tools, NEW full \in BOOLEAN, Start(t, full) PROVE CleanInv'
  <2>1. UNCHANGED <<source, target, ready>>
    BY <1>4 DEF Start
  <2>2. /\ tool'[t].pc = (IF full THEN "read" ELSE "count")
        /\ tool'[t].full = full /\ ~tool'[t].bad /\ tool'[t].cold = frozen
        /\ tool'[t].clean => Undisturbed(full)
        /\ \A u \in Tools : u # t =>
              ~tool'[u].clean /\ tool'[u].pc = tool[u].pc /\ tool'[u].full = tool[u].full
    BY <1>0, <1>4, StartFields
  <2>3. tool'[t].clean => Undoubted(t)' /\ tool'[t].cold
    <3>1. SUFFICES ASSUME Undisturbed(full)
                   PROVE  Undoubted(t)' /\ tool'[t].cold
      BY <2>2
    <3>2. frozen /\ \A u \in Tools : Idle(u)
      BY <3>1 DEF Undisturbed
    <3>3. \A u \in Tools : u # t => Idle(u)'
      BY <2>2, <3>2 DEF Idle
    <3>4. IF full THEN target = Empty ELSE ready /\ target = Copied(source)
      BY <3>1 DEF Undisturbed
    <3>5. Copied(source') = Copied(source)
      BY <2>1
    <3>6. CASE full
      BY <2>1, <2>2, <3>2, <3>3, <3>4, <3>6 DEF Undoubted
    <3>7. CASE ~full
      BY <2>1, <2>2, <3>2, <3>3, <3>4, <3>5, <3>7 DEF Undoubted
    <3>8. QED
      BY <3>6, <3>7
  <2>4. \A u \in Tools : tool'[u].pc \in {"read", "open", "check", "copy"} => tool'[u].full
    BY <1>h, <2>2
  <2>5. QED
    BY <2>2, <2>3, <2>4 DEF CleanInv
<1>5. ASSUME NEW t \in Tools, ReadTable(t) PROVE CleanInv'
  <2>1. /\ Steps(t) /\ tool[t].pc = "read" /\ tool'[t].pc \in {"open", "read"}
        /\ tool'[t].bad = tool[t].bad
    BY <1>0, <1>5, ReadTableFields
  <2>2. /\ ToolStep(t) /\ UNCHANGED <<target, ready>> /\ ~Idle(t)
    BY <1>5, <2>1 DEF ReadTable, Idle
  <2>3. tool[t].clean => ~tool[t].bad /\ target = Empty
    BY <1>h, <2>1, <2>2 DEF Undoubted
  <2>4. tool[t].full
    BY <1>h, <2>1
  <2>5. QED
    BY <1>2, <2>1, <2>2, <2>3, <2>4
<1>6. ASSUME NEW t \in Tools, EnsureSchema(t) PROVE CleanInv'
  <2>1. /\ Steps(t) /\ tool[t].pc = "open" /\ tool'[t].pc = "check"
        /\ tool'[t].bad = tool[t].bad
    BY <1>0, <1>6, EnsureSchemaFields
  <2>2. ToolStep(t) /\ UNCHANGED target /\ ready' /\ ~Idle(t)
    BY <1>6, <2>1 DEF EnsureSchema, Idle
  <2>3. tool[t].clean => ~tool[t].bad /\ target = Empty
    BY <1>h, <2>1, <2>2 DEF Undoubted
  <2>4. tool[t].full
    BY <1>h, <2>1
  <2>5. QED
    BY <1>2, <2>1, <2>2, <2>3, <2>4
<1>7. ASSUME NEW t \in Tools, CheckTarget(t) PROVE CleanInv'
  <2>1. /\ Steps(t) /\ tool[t].pc = "check"
        /\ tool'[t].pc = (IF \A s \in StoreTables : target[s] = {} THEN "copy" ELSE "red")
        /\ tool'[t].bad = tool[t].bad
    BY <1>0, <1>7, CheckTargetFields
  <2>2. ToolStep(t) /\ UNCHANGED <<target, ready>> /\ ~Idle(t)
    BY <1>7, <2>1 DEF CheckTarget, Idle
  <2>3. tool[t].clean => ~tool[t].bad /\ target = Empty /\ ready
    BY <1>h, <2>1, <2>2 DEF Undoubted
  <2>4. tool[t].full
    BY <1>h, <2>1
  <2>5. tool[t].clean => tool'[t].pc = "copy"
    BY <2>1, <2>3, EmptyStore
  <2>6. tool'[t].pc \in {"copy", "red"}
    BY <2>1
  <2>7. QED
    BY <1>2, <2>1, <2>2, <2>3, <2>4, <2>5, <2>6
<1>8. ASSUME NEW t \in Tools, Copy(t) PROVE CleanInv'
  <2>1. /\ Steps(t) /\ tool[t].pc = "copy" /\ tool'[t].pc \in {"count", "red"}
        /\ tool'[t].bad = tool[t].bad
        /\ Insertable(tool[t].rows) =>
              /\ tool'[t].pc = "count"
              /\ target' = [s \in StoreTables |-> target[s] \cup tool[t].rows[s]]
    BY <1>0, <1>8, CopyFields
  <2>2. ToolStep(t) /\ UNCHANGED ready /\ ~Idle(t)
    BY <1>8, <2>1 DEF Copy, Idle
  <2>3. ASSUME tool[t].clean
        PROVE  ~tool[t].bad /\ ready /\ tool'[t].pc = "count" /\ target' = Copied(source)
    <3>1. ~tool[t].bad /\ target = Empty /\ ready
      BY <1>h, <2>1, <2>2, <2>3 DEF Undoubted
    <3>2. \A s \in StoreTables : tool[t].rows[s] = Copied(source)[s]
      BY <1>e, <1>h, <2>1, <2>3 DEF ReadWhole
    <3>3. Insertable(tool[t].rows)
      BY <1>0, <3>1, <3>2, CopyIsInsertable
    <3>4. \A s \in StoreTables : target[s] \cup tool[t].rows[s] = Copied(source)[s]
      BY <3>1, <3>2, EmptyStore
    <3>5. Copied(source) = [s \in StoreTables |-> Copied(source)[s]]
      BY DEF Copied
    <3>6. target' = Copied(source)
      BY <2>1, <3>3, <3>4, <3>5
    <3>7. QED
      BY <2>1, <3>1, <3>3, <3>6
  <2>4. QED
    BY <1>2, <2>1, <2>2, <2>3
\* A step of verification: the target stays the copy.
<1>v. ASSUME NEW t \in Tools, NEW pc, Verifying(t, pc), Steps(t),
             pc \in {"count", "tenants", "tenant", "identities"},
             tool'[t].pc \in {"count", "tenants", "tenant", "identities", "green", "red"},
             tool[t].clean /\ Undoubted(t) =>
                /\ tool'[t].pc # "red" /\ ~tool'[t].bad
                /\ tool'[t].pc = "tenant" => tool'[t].todo \subseteq People \X RecordTables
                /\ tool'[t].pc = "identities" =>
                      tool'[t].todo = {<<r.key, r.owner>> : r \in source["user_identity"]}
      PROVE  CleanInv'
  <2>1. ToolStep(t) /\ tool[t].pc = pc /\ UNCHANGED <<target, ready>> /\ ~Idle(t)
    BY <1>v DEF Verifying, Idle
  <2>2. tool[t].clean => Undoubted(t) /\ ready /\ target = Copied(source)
    BY <1>h, <1>v, <2>1 DEF Undoubted
  <2>3. QED
    BY <1>2, <1>v, <2>1, <2>2
<1>9. ASSUME NEW t \in Tools, CompareTable(t) PROVE CleanInv'
  <2> DEFINE table == Tables[tool[t].at]
  <2>1. /\ Steps(t) /\ tool[t].pc = "count" /\ table \in StoreTables
        /\ tool'[t].pc \in {"red", "tenants", "count"}
        /\ ready => tool'[t].pc \in {"tenants", "count"}
        /\ ready /\ ~tool[t].bad /\ Cardinality(source[table]) = Cardinality(target[table])
              => ~tool'[t].bad
    BY <1>0, <1>9, CompareTableFields
  <2>2. Verifying(t, "count")
    BY <1>9 DEF CompareTable
  <2>3. ASSUME Undoubted(t)
        PROVE  ready /\ ~tool'[t].bad
    <3>1. ready /\ ~tool[t].bad /\ target = Copied(source)
      BY <2>1, <2>3 DEF Undoubted
    <3>2. Cardinality(source[table]) = Cardinality(target[table])
      BY <1>0, <1>d, <2>1, <3>1, CopiedKeyed
    <3>3. QED
      BY <2>1, <3>1, <3>2
  <2>4. QED
    BY <1>v, <2>1, <2>2, <2>3
<1>10. ASSUME NEW t \in Tools, ListTenants(t) PROVE CleanInv'
  <2>1. /\ Steps(t) /\ tool'[t].pc = "tenant" /\ tool'[t].bad = tool[t].bad
        /\ tool'[t].todo \subseteq People \X RecordTables
    BY <1>0, <1>10, ListTenantsFields
  <2>2. Verifying(t, "tenants")
    BY <1>10 DEF ListTenants
  <2>3. QED
    BY <1>v, <2>1, <2>2 DEF Undoubted
<1>11. ASSUME NEW t \in Tools, CompareTenant(t) PROVE CleanInv'
  <2>1. /\ Steps(t) /\ tool[t].pc = "tenant" /\ tool'[t].pc = "tenant"
        /\ tool'[t].todo \subseteq tool[t].todo
        /\ /\ ~tool[t].bad /\ tool[t].todo \subseteq People \X RecordTables
           /\ \A p \in People, s \in RecordTables :
                 OwnedBy(p, source[s]) = OwnedBy(p, target[s])
           => ~tool'[t].bad
    BY <1>0, <1>11, CompareTenantFields
  <2>2. Verifying(t, "tenant")
    BY <1>11 DEF CompareTenant
  <2>3. ASSUME Undoubted(t)
        PROVE  ~tool'[t].bad /\ tool'[t].todo \subseteq People \X RecordTables
    <3>1. ~tool[t].bad /\ tool[t].todo \subseteq People \X RecordTables
          /\ target = Copied(source)
      BY <2>1, <2>3 DEF Undoubted
    <3>2. ASSUME NEW p \in People, NEW s \in RecordTables
          PROVE  OwnedBy(p, source[s]) = OwnedBy(p, target[s])
      BY <1>0, <1>d, <3>1, KeysOfTables, AsManyOwned
    <3>3. QED
      BY <2>1, <3>1, <3>2
  <2>4. QED
    BY <1>v, <2>1, <2>2, <2>3
<1>12. ASSUME NEW t \in Tools, ListIdentities(t) PROVE CleanInv'
  <2>1. /\ Steps(t) /\ tool'[t].pc = "identities" /\ tool'[t].bad = tool[t].bad
        /\ tool'[t].todo = {<<r.key, r.owner>> : r \in source["user_identity"]}
    BY <1>0, <1>12, ListIdentitiesFields
  <2>2. Verifying(t, "tenant")
    BY <1>12 DEF ListIdentities
  <2>3. QED
    BY <1>v, <2>1, <2>2 DEF Undoubted
<1>13. ASSUME NEW t \in Tools, CheckIdentities(t) PROVE CleanInv'
  <2>1. /\ Steps(t) /\ tool[t].pc = "identities" /\ tool'[t].pc \in {"red", "green"}
        /\ tool'[t].bad = tool[t].bad
        /\ ~tool[t].bad /\ (\A pair \in tool[t].todo : \E r \in target["user_identity"] :
                               r.key = pair[1] /\ r.owner = pair[2]) => tool'[t].pc = "green"
    BY <1>0, <1>13, CheckIdentitiesFields
  <2>2. Verifying(t, "identities")
    BY <1>13 DEF CheckIdentities
  <2>3. ASSUME Undoubted(t)
        PROVE  ~tool[t].bad /\ tool'[t].pc = "green"
    <3>1. /\ ~tool[t].bad /\ target = Copied(source)
          /\ tool[t].todo = {<<r.key, r.owner>> : r \in source["user_identity"]}
      BY <2>1, <2>3 DEF Undoubted
    <3>2. ASSUME NEW pair \in tool[t].todo
          PROVE  \E r \in target["user_identity"] : r.key = pair[1] /\ r.owner = pair[2]
      <4>1. PICK q \in source["user_identity"] : pair = <<q.key, q.owner>>
        BY <3>1
      <4>2. "user_identity" \in StoreTables
        BY DEF StoreTables
      <4>3. q \in Rows("user_identity")
        BY <1>0, <4>2, StoreType
      <4>4. Carried(q) \in target["user_identity"]
        BY <1>0, <3>1, <4>2, CopiedStore
      <4>5. Carried(q).key = q.key /\ Carried(q).owner = q.owner
        BY <4>2, <4>3, CarriedRow
      <4>6. QED
        BY <4>1, <4>4, <4>5
    <3>3. QED
      BY <2>1, <3>1, <3>2
  <2>4. QED
    BY <1>v, <2>1, <2>2, <2>3
<1>14. ASSUME NEW t \in Tools, Stop(t) PROVE CleanInv'
  <2>1. /\ tool'[t].pc = "off" /\ tool'[t].clean = FALSE /\ ~Idle(t)
        /\ \A u \in Tools : u # t => tool'[u] = tool[u]
    BY <1>0, <1>14, StopFields DEF Off
  <2>2. \A u \in Tools : u # t => (Idle(u) <=> Idle(u)')
    BY <2>1 DEF Idle
  <2>3. \A u \in Tools : ~(tool'[u].clean /\ ~Idle(u)')
    BY <1>h, <2>1, <2>2 DEF Undoubted
  <2>4. QED
    BY <1>h, <2>1, <2>3 DEF CleanInv
<1>15. ASSUME NEW t \in RecordTables, ServeInsert(t) PROVE CleanInv'
  BY <1>1, <1>15 DEF ServeInsert
<1>16. ASSUME UNCHANGED vars PROVE CleanInv'
  BY <1>1, <1>16 DEF vars
<1>17. ASSUME NEW t \in Written, SourceInsert(t) \/ SourceEdit(t) PROVE CleanInv'
  BY <1>1, <1>17 DEF SourceInsert, SourceEdit, Write
<1>18. ASSUME NEW p \in People, SourcePurge(p) PROVE CleanInv'
  BY <1>1, <1>18 DEF SourcePurge, Write
<1>19. ASSUME Freeze \/ CutOver PROVE CleanInv'
  BY <1>1, <1>19 DEF Freeze, CutOver
<1>20. QED
  BY <1>3, <1>4, <1>5, <1>6, <1>7, <1>8, <1>9, <1>10, <1>11, <1>12, <1>13, <1>14, <1>15,
     <1>16, <1>17, <1>18, <1>19 DEF Next, Migrate, Verify

-----------------------------------------------------------------------------
(* The invariant as a whole.                                                *)

CutoverInv == TypeInv /\ Sound(source) /\ ColdInv /\ GreenInv /\ CleanInv

LEMMA CutoverInvariant == Spec => []CutoverInv
<1>1. Init => CutoverInv
  BY TypeInit, SoundInit, ColdInit, GreenInit, CleanInit DEF CutoverInv
<1>2. CutoverInv /\ [Next]_vars => CutoverInv'
  BY TypeNext, SoundNext, ColdNext, GreenNext, CleanNext DEF CutoverInv
<1>3. QED
  BY <1>1, <1>2, PTL DEF Spec

\* Both colours mean what they say: green, that every row the source had when
\* verification began has its key in the target, unless the served source was
\* purged meanwhile; red, that something has disturbed the run.
THEOREM Verdicts == Spec => []VerdictIsRight
<1>1. GreenInv => GreenMissesNothing
  BY DEF GreenInv, GreenMissesNothing, CountsProveTheCopy, Traced, Counted, HadThere
<1>2. CleanInv => NoFalseAlarm
  BY DEF CleanInv, NoFalseAlarm
<1>3. CutoverInv => VerdictIsRight
  BY <1>1, <1>2 DEF CutoverInv, VerdictIsRight
<1>4. QED
  BY <1>3, CutoverInvariant, PTL
=============================================================================
