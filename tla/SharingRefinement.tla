-------------------------- MODULE SharingRefinement --------------------------
(***************************************************************************)
(* Sharing implements TenantAccess: entitlement is the set of live grants, *)
(* a session is a call, and it is entered when a memory tool is answered.  *)
(***************************************************************************)
EXTENDS Sharing

EntitledPairs == {pair \in People \X People : grant[pair[1]][pair[2]] = "live"}

Entered(c) == call[c].pc = "served" /\ call[c].op \in {"memory", "awaken"}

SessionOf ==
    [c \in Calls |->
        [phase  |-> IF call[c].pc = "idle" THEN "closed"
                    ELSE IF Entered(c) THEN "entered" ELSE "open",
         member |-> call[c].home,
         window |-> window[c],
         tenant |-> IF Entered(c) THEN call[c].tenant ELSE Nobody]]

Access == INSTANCE TenantAccess
            WITH Sessions <- Calls, entitled <- EntitledPairs, session <- SessionOf

\* Every behaviour of the sharing code is a behaviour of TenantAccess: nobody is
\* served from a tenant they could not enter since their call began, and who may
\* enter changes only by a redemption or by the owner.
ImplementsTenantAccess == Access!Spec
=============================================================================
