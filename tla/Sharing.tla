------------------------------- MODULE Sharing -------------------------------
(***************************************************************************)
(* Account sharing: who may act in which tenant.                           *)
(*                                                                         *)
(* A person's login resolves to a home tenant, named here by the person.   *)
(* Access to somebody else's tenant is a grant (tenant_access), reached    *)
(* by redeeming a single-use code (tenant_invite); the tenant a person     *)
(* acts in is remembered in account.active_user_id.                        *)
(*                                                                         *)
(* A request is a call.  Every repository method opens its own connection  *)
(* and commits on its own, so a call is a sequence of steps, one for each  *)
(* transaction, and the steps of concurrent calls interleave.  The service *)
(* object of a call carries the selection it read when it was built        *)
(* (ServiceFactory.sharing_for); that copy is the field sel.               *)
(***************************************************************************)
EXTENDS Integers

CONSTANTS
    People,     \* accounts; a person and their home tenant share the user_id
    Codes,      \* invitation codes that secrets.token_urlsafe may mint
    Calls,      \* requests that may be in flight at once
    Labels,     \* display names
    LabelOf,    \* account_label: display name of an account, or Nobody
    DaySpans,   \* values of the days argument of create_invite
    MaxTime,    \* bound on the clock
    Nobody      \* SQL NULL

ASSUME NobodyAssumption == Nobody \notin People \cup Codes \cup Labels
ASSUME LabelAssumption  == LabelOf \in [People -> Labels \cup {Nobody}]
ASSUME TimeAssumption   == MaxTime \in Nat /\ DaySpans \subseteq Int

VARIABLES
    active,     \* account.active_user_id; Nobody means "in my own tenant"
    grant,      \* grant[t][m]: the tenant_access row of member m on tenant t
    invite,     \* tenant_invite rows
    clock,      \* wall clock
    call,       \* the requests in flight
    window,     \* history: tenants the caller could enter since the call began
    stood       \* history: tenants the caller stood in since the call began

vars == <<active, grant, invite, clock, call, window, stood>>

GrantStates == {"none", "live", "revoked"}

Invites == [tenant  : People \cup {Nobody},
            creator : People \cup {Nobody},
            expires : Int,
            usedBy  : People \cup {Nobody},
            revoked : BOOLEAN]

NoInvite == [tenant |-> Nobody, creator |-> Nobody, expires |-> 0,
             usedBy |-> Nobody, revoked |-> FALSE]

\* "memory" stands for every memory tool, "home" for use_tenant(None),
\* "membership" for the other membership tools.
Ops == {"memory", "awaken", "home", "membership"}
Pcs == {"idle", "called", "check", "resolved", "served", "member", "store", "claim"}

CallRecords == [pc     : Pcs,
                op     : Ops \cup {"none"},
                home   : People \cup {Nobody},
                sel    : People \cup {Nobody},
                tenant : People \cup {Nobody},
                code   : Codes \cup {Nobody},
                now    : 0..MaxTime,
                guest  : BOOLEAN]

Idle == [pc |-> "idle", op |-> "none", home |-> Nobody, sel |-> Nobody,
         tenant |-> Nobody, code |-> Nobody, now |-> 0, guest |-> FALSE]

Init ==
    /\ active = [p \in People |-> Nobody]
    /\ grant  = [t \in People |-> [m \in People |-> "none"]]
    /\ invite = [k \in Codes |-> NoInvite]
    /\ clock  = 0
    /\ call   = [c \in Calls |-> Idle]
    /\ window = [c \in Calls |-> {}]
    /\ stood  = [c \in Calls |-> {}]

-----------------------------------------------------------------------------
(* The history variables are written by every step in the same way, from    *)
(* the tables alone, so no operator of the code has a part in them.         *)

Enterable(p) == {p} \cup {t \in People : grant[t][p] = "live"}
StandsIn(p)  == IF active[p] = Nobody THEN p ELSE active[p]

Remember ==
    /\ window' = [c \in Calls |-> IF call'[c].pc = "idle" THEN {}
                                  ELSE window[c] \cup Enterable(call[c].home)']
    /\ stood'  = [c \in Calls |-> IF call'[c].pc = "idle" THEN {}
                                  ELSE stood[c] \cup {StandsIn(call[c].home)'}]

-----------------------------------------------------------------------------
(* Rules the service applies to what it has read.                           *)

\* Operators named Bug... are wrong versions of the definition that follows them:
\* each makes a property below fail, which shows what that property guards.

BugLiveIgnoresRevocation(t, m) == grant[t][m] # "none"

\* TenantAccess.live, on the row find_access returns.
Live(t, m) == grant[t][m] = "live"

\* acting_user_id: the selection the service was built with, else the home tenant.
Acting(c) == IF call[c].sel = Nobody THEN call[c].home ELSE call[c].sel

BugMayGrantAnywhere(c) == Acting(c) \in People

\* _require_owner: only at home may a caller change who has access.
MayGrant(c) == Acting(c) = call[c].home

BugTenantRefsHideLost(c) ==
    LET home == call[c].home
    IN  {[id |-> t, active |-> Acting(c) = t, revoked |-> FALSE] :
            t \in {home} \cup {u \in People : Live(u, home)}}

\* list_tenants: own tenant, the live grants, and a lost selection, marked.
TenantRefs(c) ==
    LET home == call[c].home
        ref(t, lost) == [id |-> t, active |-> Acting(c) = t, revoked |-> lost]
        open == {home} \cup {t \in People : Live(t, home)}
    IN  {ref(t, FALSE) : t \in open} \cup {ref(t, TRUE) : t \in {Acting(c)} \ open}

\* use_tenant: an id first, then a label, among the tenants not marked revoked.
Named(c, name) ==
    LET permitted == {r.id : r \in {s \in TenantRefs(c) : ~s.revoked}}
    IN  IF name \in permitted THEN {name}
        ELSE {t \in permitted : LabelOf[t] = name}

BugUnsettledIgnoresUse(k) == invite[k] # NoInvite /\ ~invite[k].revoked

\* The WHERE clause of SharingRepository.revoke_invite.
Unsettled(k) == invite[k] # NoInvite /\ invite[k].usedBy = Nobody /\ ~invite[k].revoked

BugClaimableTwice(k, now) == invite[k] # NoInvite /\ ~invite[k].revoked /\ invite[k].expires > now
BugClaimableForEver(k, now) == Unsettled(k)

\* The WHERE clause of the UPDATE in SharingRepository.redeem; now is what the
\* clock said when redeem was entered.
Claimable(k, now) == Unsettled(k) /\ invite[k].expires > now

-----------------------------------------------------------------------------
(* Every call: the login resolves to a home tenant, then the selection is   *)
(* read (find_active) and the service object built around it.               *)

Begin(c, p, op) ==
    /\ call[c].pc = "idle"
    /\ call' = [call EXCEPT ![c] = [Idle EXCEPT !.pc = "called", !.op = op, !.home = p]]
    /\ UNCHANGED <<active, grant, invite, clock>>
    /\ Remember

BugReadSelectionGuardsTheWayOut(c) ==
    /\ call[c].pc = "called"
    /\ LET sel == active[call[c].home]
           pc  == IF call[c].op \in {"memory", "awaken"} THEN "check" ELSE "member"
       IN  call' = IF sel = Nobody \/ grant[sel][call[c].home] = "live"
                   THEN [call EXCEPT ![c].sel = sel, ![c].pc = pc]
                   ELSE [call EXCEPT ![c] = Idle]
    /\ UNCHANGED <<active, grant, invite, clock>>
    /\ Remember

ReadSelection(c) ==
    /\ call[c].pc = "called"
    /\ call' = [call EXCEPT ![c].sel = active[call[c].home],
                            ![c].pc = IF call[c].op \in {"memory", "awaken"}
                                      THEN "check" ELSE "member"]
    /\ UNCHANGED <<active, grant, invite, clock>>
    /\ Remember

Answer(c) == call' = [call EXCEPT ![c] = Idle]

(* Memory tools: resolved_user_id, then the repository of that tenant.      *)

Resolve(c) ==
    /\ call[c].pc = "check"
    /\ Acting(c) = call[c].home \/ Live(Acting(c), call[c].home)
    /\ call' = [call EXCEPT ![c].tenant = Acting(c), ![c].pc = "resolved"]
    /\ UNCHANGED <<active, grant, invite, clock>>
    /\ Remember

BugRefuseRevokedFallsBack(c) ==
    /\ call[c].pc = "check"
    /\ Acting(c) # call[c].home /\ ~Live(Acting(c), call[c].home)
    /\ call' = [call EXCEPT ![c].tenant = call[c].home, ![c].pc = "resolved"]
    /\ UNCHANGED <<active, grant, invite, clock>>
    /\ Remember

BugRefuseRevokedRetries(c) ==
    /\ call[c].pc = "check"
    /\ Acting(c) # call[c].home /\ ~Live(Acting(c), call[c].home)
    /\ call' = [call EXCEPT ![c].sel = Nobody, ![c].pc = "called"]
    /\ UNCHANGED <<active, grant, invite, clock>>
    /\ Remember

\* TenantAccessRevoked.
RefuseRevoked(c) ==
    /\ call[c].pc = "check"
    /\ Acting(c) # call[c].home /\ ~Live(Acting(c), call[c].home)
    /\ Answer(c)
    /\ UNCHANGED <<active, grant, invite, clock>>
    /\ Remember

ServeMemory(c) ==
    /\ call[c].pc = "resolved" /\ call[c].op = "memory"
    /\ call' = [call EXCEPT ![c].pc = "served"]
    /\ UNCHANGED <<active, grant, invite, clock>>
    /\ Remember

\* awaken builds a second service for the caller block: the selection is read again.
ServeAwaken(c) ==
    /\ call[c].pc = "resolved" /\ call[c].op = "awaken"
    /\ call' = [call EXCEPT ![c].pc = "served",
                            ![c].guest = active[call[c].home] \notin {Nobody, call[c].home}]
    /\ UNCHANGED <<active, grant, invite, clock>>
    /\ Remember

Reply(c) ==
    /\ call[c].pc = "served"
    /\ Answer(c)
    /\ UNCHANGED <<active, grant, invite, clock>>
    /\ Remember

(* Membership tools: use_tenant.                                            *)

UseHome(c) ==
    /\ call[c].pc = "member" /\ call[c].op = "home"
    /\ active' = [active EXCEPT ![call[c].home] = Nobody]
    /\ Answer(c)
    /\ UNCHANGED <<grant, invite, clock>>
    /\ Remember

BugChooseTenantKeepsArgument(c, name) ==
    /\ call[c].pc = "member" /\ call[c].op = "membership"
    /\ name # call[c].home
    /\ \/ /\ \E t \in Named(c, name) : Named(c, name) = {t}
          /\ call' = [call EXCEPT ![c].tenant = name, ![c].pc = "store"]
       \/ (\A t \in People : Named(c, name) # {t}) /\ Answer(c)
    /\ UNCHANGED <<active, grant, invite, clock>>
    /\ Remember

\* The permitted list is read in one transaction; the choice is stored in another.
ChooseTenant(c, name) ==
    /\ call[c].pc = "member" /\ call[c].op = "membership"
    /\ name # call[c].home
    /\ \/ \E t \in Named(c, name) :
            /\ Named(c, name) = {t}
            /\ call' = [call EXCEPT ![c].tenant = t, ![c].pc = "store"]
       \/ (\A t \in People : Named(c, name) # {t}) /\ Answer(c)
    /\ UNCHANGED <<active, grant, invite, clock>>
    /\ Remember

BugStoreSelectionNamesHome(c) ==
    /\ call[c].pc = "store"
    /\ active' = [active EXCEPT ![call[c].home] = call[c].tenant]
    /\ Answer(c)
    /\ UNCHANGED <<grant, invite, clock>>
    /\ Remember

StoreSelection(c) ==
    /\ call[c].pc = "store"
    /\ active' = [active EXCEPT ![call[c].home] =
                    IF call[c].tenant = call[c].home THEN Nobody ELSE call[c].tenant]
    /\ Answer(c)
    /\ UNCHANGED <<grant, invite, clock>>
    /\ Remember

(* Membership tools: the roster, invitations and grants.  A refusal         *)
(* (NotOwner, BadInvite, NotPermitted) answers and writes nothing.          *)

ListMembers(c) ==
    /\ call[c].pc = "member" /\ call[c].op = "membership"
    /\ call' = [call EXCEPT ![c].tenant = Acting(c), ![c].pc = "served"]
    /\ UNCHANGED <<active, grant, invite, clock>>
    /\ Remember

CreateInvite(c, k, days) ==
    /\ call[c].pc = "member" /\ call[c].op = "membership"
    /\ invite[k] = NoInvite
    /\ invite' = IF MayGrant(c)
                 THEN [invite EXCEPT ![k] = [tenant  |-> Acting(c),
                                             creator |-> call[c].home,
                                             expires |-> clock + days,
                                             usedBy  |-> Nobody,
                                             revoked |-> FALSE]]
                 ELSE invite
    /\ Answer(c)
    /\ UNCHANGED <<active, grant, clock>>
    /\ Remember

RevokeInvite(c, k) ==
    /\ call[c].pc = "member" /\ call[c].op = "membership"
    /\ invite' = IF MayGrant(c) /\ Unsettled(k)
                 THEN [invite EXCEPT ![k].revoked = TRUE]
                 ELSE invite
    /\ Answer(c)
    /\ UNCHANGED <<active, grant, clock>>
    /\ Remember

BugRevokeMemberByAnyone(c, m) ==
    /\ call[c].pc = "member" /\ call[c].op = "membership"
    /\ grant' = IF m # Acting(c) /\ Live(Acting(c), m)
                THEN [grant EXCEPT ![Acting(c)][m] = "revoked"]
                ELSE grant
    /\ Answer(c)
    /\ UNCHANGED <<active, invite, clock>>
    /\ Remember

RevokeMember(c, m) ==
    /\ call[c].pc = "member" /\ call[c].op = "membership"
    /\ grant' = IF MayGrant(c) /\ m # Acting(c) /\ Live(Acting(c), m)
                THEN [grant EXCEPT ![Acting(c)][m] = "revoked"]
                ELSE grant
    /\ Answer(c)
    /\ UNCHANGED <<active, invite, clock>>
    /\ Remember

\* redeem: the SELECT, which refuses an unknown code and one's own tenant ...
LookUpInvite(c, k) ==
    /\ call[c].pc = "member" /\ call[c].op = "membership"
    /\ \/ /\ invite[k].tenant \notin {Nobody, call[c].home}
          /\ call' = [call EXCEPT ![c].code = k, ![c].now = clock, ![c].pc = "claim"]
       \/ /\ invite[k].tenant \in {Nobody, call[c].home}
          /\ Answer(c)
    /\ UNCHANGED <<active, grant, invite, clock>>
    /\ Remember

\* ... then the conditional UPDATE and the grant, in one transaction.
ClaimInvite(c) ==
    LET k == call[c].code
        p == call[c].home
    IN  /\ call[c].pc = "claim"
        /\ IF Claimable(k, call[c].now)
           THEN /\ invite' = [invite EXCEPT ![k].usedBy = p]
                /\ grant'  = [grant EXCEPT ![invite[k].tenant][p] = "live"]
           ELSE UNCHANGED <<invite, grant>>
        /\ Answer(c)
        /\ UNCHANGED <<active, clock>>
        /\ Remember

Tick ==
    /\ clock < MaxTime
    /\ clock' = clock + 1
    /\ UNCHANGED <<active, grant, invite, call>>
    /\ Remember

-----------------------------------------------------------------------------
Membership(c) ==
    \/ UseHome(c)
    \/ \E name \in People \cup Labels : ChooseTenant(c, name)
    \/ StoreSelection(c)
    \/ ListMembers(c)
    \/ \E k \in Codes, days \in DaySpans : CreateInvite(c, k, days)
    \/ \E k \in Codes : RevokeInvite(c, k)
    \/ \E m \in People : RevokeMember(c, m)
    \/ \E k \in Codes : LookUpInvite(c, k)
    \/ ClaimInvite(c)

Progress(c) ==
    \/ ReadSelection(c)
    \/ Resolve(c)
    \/ RefuseRevoked(c)
    \/ ServeMemory(c)
    \/ ServeAwaken(c)
    \/ Reply(c)
    \/ Membership(c)

Next ==
    \/ \E c \in Calls, p \in People, op \in Ops : Begin(c, p, op)
    \/ \E c \in Calls : Progress(c)
    \/ Tick

\* A request runs in a thread of the server that nothing in the code suspends for ever.
Fairness == \A c \in Calls : WF_vars(Progress(c))

Spec == Init /\ [][Next]_vars /\ Fairness
-----------------------------------------------------------------------------
(* Properties.                                                              *)

TypeOK ==
    /\ active \in [People -> People \cup {Nobody}]
    /\ grant  \in [People -> [People -> GrantStates]]
    /\ invite \in [Codes -> Invites]
    /\ clock  \in 0..MaxTime
    /\ call   \in [Calls -> CallRecords]
    /\ window \in [Calls -> SUBSET People]
    /\ stood  \in [Calls -> SUBSET People]

Served(c, ops) == call[c].pc = "served" /\ call[c].op \in ops

\* "Their access ends on their next call": a memory call that began after the
\* grant was revoked, and saw no new grant, is never served from that tenant,
\* however its steps interleave with the owner's.
AccessEndsOnNextCall ==
    \A c \in Calls : Served(c, {"memory", "awaken"}) => call[c].tenant \in window[c]

\* A lost selection is refused, never replaced by the caller's own tenant: what
\* a memory call is served from is a tenant its caller stood in during the call.
NoQuietFallback ==
    \A c \in Calls : Served(c, {"memory", "awaken"}) => call[c].tenant \in stood[c]

\* Every grant, the ones revoked since included, was paid for by a code of that
\* tenant which its member redeemed; nobody holds a grant on their own tenant.
GrantsTraceToInvites ==
    \A t, m \in People : grant[t][m] # "none" =>
        /\ t # m
        /\ \E k \in Codes : invite[k].tenant = t /\ invite[k].usedBy = m

\* A remembered selection names somebody else's tenant that once was granted;
\* at home is only ever NULL, even when use_tenant races with a revocation.
StandingWasGranted ==
    \A p \in People : active[p] # Nobody => active[p] # p /\ grant[active[p]][p] # "none"

\* list_tenants always shows the caller exactly one place as the active one,
\* also when the grant was lost between two of their calls.
OneStandingPlace ==
    \A c \in Calls : call[c].pc = "member" =>
        \E r \in TenantRefs(c) : {s \in TenantRefs(c) : s.active} = {r}

\* Only the owner of a tenant mints invitations to it, wherever the caller stands.
OwnerMintsInvites == \A k \in Codes : invite[k].creator = invite[k].tenant

\* A grant comes alive only together with a code of that tenant that was unused
\* and unrevoked until this step, and unexpired when its member presented it:
\* one code, one admission.
EveryGrantConsumesAnInvite ==
    [][\A t, m \in People : (grant[t][m] # "live" /\ grant'[t][m] = "live") =>
          \E k \in Codes :
             /\ invite[k].tenant = t /\ invite[k].usedBy = Nobody
             /\ ~invite[k].revoked /\ invite'[k].usedBy = m
             /\ \E c \in Calls : /\ call[c].home = m /\ call[c].code = k
                               /\ call[c].now < invite[k].expires]_vars

\* A settled code stays settled: the record of who came in is never rewritten,
\* and a code is never both used and revoked, even when redeem and revoke race.
InvitesSettleOnce ==
    [][\A k \in Codes :
          /\ invite[k].usedBy # Nobody => invite'[k] = invite[k]
          /\ invite[k].revoked => invite'[k] = invite[k]
          /\ invite[k].tenant # Nobody => invite'[k].tenant = invite[k].tenant]_vars

\* Both: a code admits one person, once, and is done with.
CodesAdmitOnce == EveryGrantConsumesAnInvite /\ InvitesSettleOnce

\* A live grant ends only by a call of the tenant's owner.
OnlyOwnerEndsAccess ==
    [][\A t, m \in People : (grant[t][m] = "live" /\ grant'[t][m] # "live") =>
          \E c \in Calls : call[c].home = t /\ call'[c] # call[c]]_vars

\* "A way out that sits behind the door it opens is not a way out": a person who
\* asks for their own tenant gets back to it, whatever became of the selection.
WayOutStaysOpen ==
    \A c \in Calls, p \in People :
        (call[c].op = "home" /\ call[c].home = p) ~> active[p] = Nobody

\* Every call is answered: no step waits for another call.
EveryCallAnswered == \A c \in Calls : call[c].pc # "idle" ~> call[c].pc = "idle"

(* What the documentation says and the code does not do.                    *)

\* The roster of a tenant is a read of it, and revoking refuses the next read.
RosterEndsWithAccess ==
    \A c \in Calls : Served(c, {"membership"}) => call[c].tenant \in window[c]

\* "Only the owner of a tenant may change who has access to it": an invitation
\* is retired by the owner of the tenant it admits to.
OnlyOwnerRetiresInvites ==
    [][\A k \in Codes : (~invite[k].revoked /\ invite'[k].revoked) =>
          \E c \in Calls : call[c].home = invite[k].tenant /\ call'[c] # call[c]]_vars

\* The caller block of awaken says whether the person is a guest in the account
\* being read.
CallerBlockIsTrue ==
    \A c \in Calls : Served(c, {"awaken"}) => (call[c].guest <=> call[c].tenant # call[c].home)

\* "A stale id already has a safe answer (act as yourself)": a memory call whose
\* remembered tenant is lost goes on in the caller's own tenant.
StaleSelectionActsAsHome ==
    [][\A c \in Calls : (call[c].pc = "check" /\ call'[c] # call[c]) =>
          call'[c].pc = "resolved"]_vars

-----------------------------------------------------------------------------
(* The inductive invariant the proofs rest on: what a call in flight may    *)
(* still assume of the tables it read in an earlier step.                   *)

\* The history of a call in flight covers the present; an idle slot is blank.
HistoryOK(c) ==
    /\ call[c].pc = "idle" => call[c] = Idle /\ window[c] = {} /\ stood[c] = {}
    /\ call[c].pc # "idle" => /\ call[c].home \in People
                             /\ Enterable(call[c].home) \subseteq window[c]
                             /\ StandsIn(call[c].home) \in stood[c]

\* A selection that was read may be stale, but it was stored once, and a grant
\* stood behind it.
SelectionOK(c) ==
    /\ call[c].sel # Nobody =>
          call[c].sel # call[c].home /\ grant[call[c].sel][call[c].home] # "none"
    /\ call[c].pc \notin {"idle", "called"} => Acting(c) \in stood[c]
    /\ call[c].pc = "called" => call[c].sel = Nobody

\* What each kind of call carries to its next step.
PendingOK(c) ==
    /\ call[c].pc \in {"check", "resolved"} => call[c].op \in {"memory", "awaken"}
    /\ call[c].pc = "resolved" \/ Served(c, {"memory", "awaken"}) =>
          call[c].tenant \in window[c] /\ call[c].tenant \in stood[c]
    /\ call[c].pc = "store" =>
          /\ call[c].tenant \in People
          /\ call[c].tenant # call[c].home => grant[call[c].tenant][call[c].home] # "none"
    /\ call[c].pc = "claim" =>
          /\ call[c].code \in Codes
          /\ invite[call[c].code].tenant \in People \ {call[c].home}

CallOK(c) == HistoryOK(c) /\ SelectionOK(c) /\ PendingOK(c)

\* A code that was never minted is blank; one that was used was minted.
InviteInv ==
    \A k \in Codes : invite[k].tenant = Nobody => invite[k] = NoInvite

IndInv ==
    /\ TypeOK
    /\ \A c \in Calls : CallOK(c)
    /\ InviteInv
    /\ GrantsTraceToInvites
    /\ StandingWasGranted
    /\ OwnerMintsInvites
=============================================================================
