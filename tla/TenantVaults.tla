----------------------------- MODULE TenantVaults -----------------------------
(***************************************************************************)
(* What the memory store promises, without tables, types or timestamps:    *)
(* each tenant has a vault of their own, a record is in one vault for      *)
(* ever, and it leaves the hot listings by archival and all reads by       *)
(* deletion, both undone only by storing it again.                         *)
(***************************************************************************)
CONSTANTS Tenants, Uuids

VARIABLE vault

Init == vault = [t \in Tenants |-> [u \in Uuids |-> "absent"]]

Put(t, u) ==
    /\ \A s \in Tenants \ {t} : vault[s][u] = "absent"
    /\ vault' = [vault EXCEPT ![t][u] = "hot"]

Archive(t, u) ==
    /\ vault[t][u] = "hot"
    /\ vault' = [vault EXCEPT ![t][u] = "archived"]

Delete(t, u) ==
    /\ vault[t][u] \in {"hot", "archived"}
    /\ vault' = [vault EXCEPT ![t][u] = "deleted"]

Next == \E t \in Tenants, u \in Uuids : Put(t, u) \/ Archive(t, u) \/ Delete(t, u)

Spec == Init /\ [][Next]_vault
=============================================================================
