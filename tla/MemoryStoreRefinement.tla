------------------------ MODULE MemoryStoreRefinement ------------------------
(* The tables of MemoryStore, seen as one vault for each tenant.            *)
EXTENDS MemoryStore

Status(row) ==
    CASE row.deleted # Nil                        -> "deleted"
      [] row.deleted = Nil /\ row.archived # Nil  -> "archived"
      [] row.deleted = Nil /\ row.archived = Nil  -> "hot"

\* A tenant's record is in whichever table holds it.
VaultOf(t, u) ==
    IF \E table \in Tables : Holds(t, table, u, TRUE)
    THEN Status(store[CHOOSE table \in Tables : Holds(t, table, u, TRUE)][u])
    ELSE "absent"

Vaults == INSTANCE TenantVaults
             WITH vault <- [t \in Tenants |-> [u \in Uuids |-> VaultOf(t, u)]]

\* Where callers name their own uuids only, both tables together behave as
\* separate vaults: the abstract promise of TenantVaults.
ImplementsVaults == Vaults!Spec
=============================================================================
