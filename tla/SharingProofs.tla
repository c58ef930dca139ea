---------------------------- MODULE SharingProofs ----------------------------
(***************************************************************************)
(* Proofs about Sharing, for any number of people, codes and calls.        *)
(*                                                                         *)
(* The argument is the inductive invariant IndInv.  A step changes one     *)
(* call and at most one table, so each action is shown to keep the types,  *)
(* to be Monotone (grants are never forgotten, minted codes keep their     *)
(* tenant), and to leave its own call in order; Frame does the rest for    *)
(* every other call.                                                       *)
(*                                                                         *)
(* On it rest the action properties and the refinement of TenantAccess.    *)
(* Grants have two writers and codes three; the refinement follows the     *)
(* calls: the acting call opens, enters or closes its session, every       *)
(* other session only sees the new entitlement (Bystander).                *)
(***************************************************************************)
EXTENDS SharingRefinement, TLAPS

\* Types of everything but the history variables.
BaseType ==
    /\ active \in [People -> People \cup {Nobody}]
    /\ grant  \in [People -> [People -> GrantStates]]
    /\ invite \in [Codes -> Invites]
    /\ clock  \in 0..MaxTime
    /\ call   \in [Calls -> CallRecords]

\* The facts a call may rely on are never taken back by another call.
Monotone ==
    /\ \A t, m \in People : grant[t][m] # "none" => grant'[t][m] # "none"
    /\ \A k \in Codes : invite[k].tenant # Nobody => invite'[k].tenant = invite[k].tenant

TableInv == InviteInv /\ GrantsTraceToInvites /\ StandingWasGranted /\ OwnerMintsInvites

Tables == <<active, grant, invite, clock>>

\* The empty call record is a call record.
LEMMA IdleType == Idle \in CallRecords
BY TimeAssumption DEF Idle, CallRecords, Pcs, Ops

\* A call that another call's step leaves alone stays in order.
LEMMA Frame ==
    ASSUME IndInv, Remember, Monotone, BaseType', NEW d \in Calls, call'[d] = call[d]
    PROVE  CallOK(d)'
<1> USE NobodyAssumption
<1>1. HistoryOK(d) /\ SelectionOK(d) /\ PendingOK(d) /\ TypeOK
  BY DEF IndInv, CallOK
<1>2. call[d] \in CallRecords /\ call'[d] \in CallRecords
  BY <1>1 DEF TypeOK
<1>3. HistoryOK(d)'
  BY <1>1 DEF HistoryOK, Remember
<1>4. call[d].pc # "idle" => window[d] \subseteq window'[d] /\ stood[d] \subseteq stood'[d]
  BY DEF Remember
<1>5. SelectionOK(d)'
  BY <1>1, <1>2, <1>4 DEF SelectionOK, HistoryOK, Monotone, Acting, Idle, CallRecords
<1>6. PendingOK(d)'
  BY <1>1, <1>2, <1>4 DEF PendingOK, HistoryOK, Monotone, Served, Idle
<1>7. QED
  BY <1>3, <1>5, <1>6 DEF CallOK

\* The history variables keep their type, and a call that ended is blank.
LEMMA HistoryStep ==
    ASSUME TypeOK, Remember, BaseType',
           \A d \in Calls : call'[d].pc # "idle" => call'[d].home \in People
    PROVE  TypeOK'
<1> USE NobodyAssumption
<1>1. \A p \in People : Enterable(p)' \subseteq People /\ StandsIn(p)' \in People
  BY DEF Enterable, StandsIn, BaseType
<1>2. window' \in [Calls -> SUBSET People] /\ stood' \in [Calls -> SUBSET People]
  BY <1>1 DEF TypeOK, Remember
<1>3. QED
  BY <1>2 DEF BaseType, TypeOK

\* A call that was answered in this step is in order.
LEMMA Answered ==
    ASSUME TypeOK, Remember, NEW c \in Calls, Answer(c)
    PROVE  call'[c] = Idle /\ CallOK(c)'
<1>1. call'[c] = Idle /\ call'[c].pc = "idle"
  BY DEF Answer, Idle, TypeOK
<1>2. HistoryOK(c)'
  BY <1>1 DEF HistoryOK, Remember
<1>3. SelectionOK(c)' /\ PendingOK(c)'
  BY <1>1 DEF SelectionOK, PendingOK, Served, Idle
<1>4. QED
  BY <1>1, <1>2, <1>3 DEF CallOK

\* One call moves and the rest stay: what is left to show for the invariant.
LEMMA OneCallMoves ==
    ASSUME IndInv, Remember, Monotone, BaseType', TableInv', NEW c \in Calls,
           \A d \in Calls \ {c} : call'[d] = call[d], CallOK(c)',
           call'[c].pc # "idle" => call'[c].home \in People
    PROVE  IndInv'
<1>1. \A d \in Calls : CallOK(d)'
  BY Frame
<1>2. \A d \in Calls : call'[d].pc # "idle" => call'[d].home \in People
  BY DEF IndInv, CallOK, HistoryOK
<1>3. TypeOK'
  BY <1>2, HistoryStep DEF IndInv
<1>4. QED
  BY <1>1, <1>3 DEF IndInv, TableInv

\* A step that leaves the tables alone keeps what is said of them.
LEMMA TablesKept ==
    ASSUME IndInv, UNCHANGED Tables
    PROVE  Monotone /\ TableInv'
BY DEF IndInv, Tables, Monotone, TableInv, InviteInv, GrantsTraceToInvites,
       StandingWasGranted, OwnerMintsInvites

-----------------------------------------------------------------------------
(* One lemma for each action.                                               *)

\* Steps that end a call and touch no table.
LEMMA AnswerOnlyStep ==
    ASSUME IndInv, Remember, NEW c \in Calls, Answer(c), UNCHANGED Tables
    PROVE  IndInv'
<1>1. TypeOK
  BY DEF IndInv
<1>2. \A d \in Calls \ {c} : call'[d] = call[d]
  BY <1>1 DEF Answer, TypeOK
<1>3. call'[c] = Idle /\ CallOK(c)'
  BY <1>1, Answered
<1>4. BaseType'
  BY <1>1, IdleType DEF BaseType, TypeOK, Tables, Answer
<1>5. QED
  BY <1>2, <1>3, <1>4, TablesKept, OneCallMoves DEF Idle

\* A new call starts with an empty record and a fresh history.
LEMMA BeginStep ==
    ASSUME IndInv, NEW c \in Calls, NEW p \in People, NEW op \in Ops, Begin(c, p, op)
    PROVE  IndInv'
<1> USE NobodyAssumption
<1> DEFINE r == [Idle EXCEPT !.pc = "called", !.op = op, !.home = p]
<1>1. TypeOK /\ Remember /\ UNCHANGED Tables
  BY DEF IndInv, Begin, Tables
<1>2. r \in CallRecords /\ r.pc = "called" /\ r.home = p /\ r.sel = Nobody /\ r.op = op
  <2>1. 0 \in 0..MaxTime
    BY TimeAssumption
  <2>2. QED
    BY <2>1, Zenon DEF Idle, CallRecords, Pcs, Ops
<1>3. call'[c] = r /\ \A d \in Calls \ {c} : call'[d] = call[d]
  BY <1>1 DEF Begin, TypeOK
<1>4. BaseType'
  BY <1>1, <1>2 DEF Begin, BaseType, TypeOK, Tables
<1>5. HistoryOK(c)'
  BY <1>1, <1>2, <1>3 DEF HistoryOK, Remember
<1>6. SelectionOK(c)' /\ PendingOK(c)'
  BY <1>2, <1>3 DEF SelectionOK, PendingOK, Served
<1>7. QED
  BY <1>1, <1>2, <1>3, <1>4, <1>5, <1>6, TablesKept, OneCallMoves DEF CallOK

\* The selection that is read was stored for a granted tenant, and it is where
\* the caller stands now.
LEMMA ReadSelectionStep ==
    ASSUME IndInv, NEW c \in Calls, ReadSelection(c)
    PROVE  IndInv'
<1> USE NobodyAssumption
<1>1. TypeOK /\ Remember /\ UNCHANGED Tables /\ CallOK(c)
  BY DEF IndInv, ReadSelection, Tables
<1>2. /\ call[c] \in CallRecords /\ call[c].pc = "called" /\ call[c].home \in People
      /\ active[call[c].home] \in People \cup {Nobody}
  BY <1>1 DEF CallOK, HistoryOK, ReadSelection, TypeOK
<1>3. /\ call'[c].sel = active[call[c].home] /\ call'[c].home = call[c].home
      /\ call'[c].op = call[c].op
      /\ call'[c].pc \in {"check", "member"}
      /\ call'[c].pc = "check" => call[c].op \in {"memory", "awaken"}
      /\ call'[c] \in CallRecords
      /\ \A d \in Calls \ {c} : call'[d] = call[d]
  BY <1>1, <1>2 DEF ReadSelection, TypeOK, CallRecords, Pcs
<1>4. BaseType'
  BY <1>1, <1>3 DEF ReadSelection, BaseType, TypeOK, Tables
<1>5. HistoryOK(c)'
  BY <1>1, <1>2, <1>3 DEF HistoryOK, Remember
<1>6. Acting(c)' = StandsIn(call[c].home)'
  BY <1>1, <1>3 DEF Acting, StandsIn, Tables
<1>7. SelectionOK(c)'
  <2>1. StandingWasGranted
    BY DEF IndInv
  <2>2. Acting(c)' \in stood'[c]
    BY <1>3, <1>5, <1>6 DEF HistoryOK
  <2>3. QED
    BY <1>1, <1>2, <1>3, <2>1, <2>2 DEF SelectionOK, StandingWasGranted, Tables
<1>8. PendingOK(c)'
  BY <1>3 DEF PendingOK, Served
<1>9. QED
  BY <1>1, <1>2, <1>3, <1>4, <1>5, <1>7, <1>8, TablesKept, OneCallMoves DEF CallOK

\* The grant is read after the call began, so the tenant is in its window.
LEMMA ResolveStep ==
    ASSUME IndInv, NEW c \in Calls, Resolve(c)
    PROVE  IndInv'
<1> USE NobodyAssumption
<1>1. TypeOK /\ Remember /\ UNCHANGED Tables /\ CallOK(c)
  BY DEF IndInv, Resolve, Tables
<1>2. /\ call[c] \in CallRecords /\ call[c].pc = "check" /\ call[c].home \in People
      /\ Acting(c) \in People
  BY <1>1 DEF CallOK, HistoryOK, Resolve, TypeOK, Acting, CallRecords
<1>3. /\ call'[c] = [call[c] EXCEPT !.tenant = Acting(c), !.pc = "resolved"]
      /\ call'[c].tenant = Acting(c) /\ call'[c].pc = "resolved"
      /\ call'[c].home = call[c].home /\ call'[c].op = call[c].op /\ call'[c].sel = call[c].sel
      /\ call'[c] \in CallRecords
      /\ \A d \in Calls \ {c} : call'[d] = call[d]
  BY <1>1, <1>2 DEF Resolve, TypeOK, CallRecords, Pcs
<1>4. BaseType'
  BY <1>1, <1>3 DEF Resolve, BaseType, TypeOK, Tables
<1>5. /\ HistoryOK(c)' /\ Acting(c)' = Acting(c)
      /\ window[c] \subseteq window'[c] /\ stood[c] \subseteq stood'[c]
  BY <1>1, <1>2, <1>3 DEF HistoryOK, Remember, Acting
<1>6. Acting(c) \in window'[c] /\ Acting(c) \in stood'[c]
  <2>1. Acting(c) \in Enterable(call[c].home)
    BY <1>2 DEF Resolve, Enterable, Live
  <2>2. Acting(c) \in window[c] /\ Acting(c) \in stood[c]
    BY <1>1, <1>2, <2>1 DEF CallOK, HistoryOK, SelectionOK
  <2>3. QED
    BY <1>5, <2>2
<1>7. SelectionOK(c)' /\ PendingOK(c)'
  BY <1>1, <1>2, <1>3, <1>5, <1>6 DEF CallOK, SelectionOK, PendingOK, Served, Tables
<1>8. QED
  BY <1>1, <1>2, <1>3, <1>4, <1>5, <1>7, TablesKept, OneCallMoves DEF CallOK

\* Being served changes neither the tenant nor what was remembered of the call.
LEMMA ServeStep ==
    ASSUME IndInv, NEW c \in Calls, ServeMemory(c) \/ ServeAwaken(c)
    PROVE  IndInv'
<1> USE NobodyAssumption
<1>1. TypeOK /\ Remember /\ UNCHANGED Tables /\ CallOK(c)
  BY DEF IndInv, ServeMemory, ServeAwaken, Tables
<1>2. call[c] \in CallRecords /\ call[c].pc = "resolved" /\ call[c].home \in People
  BY <1>1 DEF CallOK, HistoryOK, ServeMemory, ServeAwaken, TypeOK
<1>3. /\ call'[c].tenant = call[c].tenant /\ call'[c].pc = "served"
      /\ call'[c].home = call[c].home /\ call'[c].op = call[c].op /\ call'[c].sel = call[c].sel
      /\ call'[c] \in CallRecords
      /\ \A d \in Calls \ {c} : call'[d] = call[d]
  <2>1. CASE ServeMemory(c)
    BY <1>1, <1>2, <2>1 DEF ServeMemory, TypeOK, CallRecords, Pcs
  <2>2. CASE ServeAwaken(c)
    <3>1. PICK g \in BOOLEAN : call' = [call EXCEPT ![c].pc = "served", ![c].guest = g]
      BY <2>2, Zenon DEF ServeAwaken
    <3>2. QED
      BY <1>1, <1>2, <3>1 DEF TypeOK, CallRecords, Pcs
  <2>3. QED
    BY <2>1, <2>2
<1>4. BaseType'
  <2>1. call' = [call EXCEPT ![c] = call'[c]]
    BY <1>1 DEF ServeMemory, ServeAwaken, TypeOK
  <2>2. QED
    BY <1>1, <1>3, <2>1 DEF BaseType, TypeOK, Tables
<1>5. /\ HistoryOK(c)' /\ Acting(c)' = Acting(c)
      /\ window[c] \subseteq window'[c] /\ stood[c] \subseteq stood'[c]
  BY <1>1, <1>2, <1>3 DEF HistoryOK, Remember, Acting
<1>6. SelectionOK(c)' /\ PendingOK(c)'
  BY <1>1, <1>2, <1>3, <1>5 DEF CallOK, SelectionOK, PendingOK, Served, Tables
<1>7. QED
  BY <1>1, <1>2, <1>3, <1>4, <1>5, <1>6, TablesKept, OneCallMoves DEF CallOK

\* The roster read carries no obligation of a memory call.
LEMMA ListMembersStep ==
    ASSUME IndInv, NEW c \in Calls, ListMembers(c)
    PROVE  IndInv'
<1> USE NobodyAssumption
<1>1. TypeOK /\ Remember /\ UNCHANGED Tables /\ CallOK(c)
  BY DEF IndInv, ListMembers, Tables
<1>2. /\ call[c] \in CallRecords /\ call[c].pc = "member" /\ call[c].home \in People
      /\ Acting(c) \in People /\ call[c].op = "membership"
  BY <1>1 DEF CallOK, HistoryOK, ListMembers, TypeOK, Acting, CallRecords
<1>3. /\ call'[c].pc = "served"
      /\ call'[c].home = call[c].home /\ call'[c].op = call[c].op /\ call'[c].sel = call[c].sel
      /\ call'[c] \in CallRecords
      /\ \A d \in Calls \ {c} : call'[d] = call[d]
  BY <1>1, <1>2 DEF ListMembers, TypeOK, CallRecords, Pcs
<1>4. BaseType'
  BY <1>1, <1>3 DEF ListMembers, BaseType, TypeOK, Tables
<1>5. HistoryOK(c)' /\ Acting(c)' = Acting(c) /\ stood[c] \subseteq stood'[c]
  BY <1>1, <1>2, <1>3 DEF HistoryOK, Remember, Acting
<1>6. SelectionOK(c)' /\ PendingOK(c)'
  BY <1>1, <1>2, <1>3, <1>5 DEF CallOK, SelectionOK, PendingOK, Served, Tables
<1>7. QED
  BY <1>1, <1>2, <1>3, <1>4, <1>5, <1>6, TablesKept, OneCallMoves DEF CallOK

\* What use_tenant chooses is its caller's own tenant or one with a live grant.
LEMMA NamedIsPermitted ==
    ASSUME NEW c \in Calls, NEW name, NEW t \in Named(c, name)
    PROVE  t = call[c].home \/ (t \in People /\ grant[t][call[c].home] = "live")
BY DEF Named, TenantRefs, Live

\* The choice is remembered by the call; the grant may end before it is stored.
LEMMA ChooseTenantStep ==
    ASSUME IndInv, NEW c \in Calls, NEW name, ChooseTenant(c, name)
    PROVE  IndInv'
<1> USE NobodyAssumption
<1>1. TypeOK /\ Remember /\ UNCHANGED Tables /\ CallOK(c)
  BY DEF IndInv, ChooseTenant, Tables
<1>2. /\ call[c] \in CallRecords /\ call[c].pc = "member" /\ call[c].home \in People
  BY <1>1 DEF CallOK, HistoryOK, ChooseTenant, TypeOK
<1>3. CASE Answer(c)
  BY <1>1, <1>3, AnswerOnlyStep
<1>4. ASSUME NEW t \in Named(c, name),
             call' = [call EXCEPT ![c].tenant = t, ![c].pc = "store"]
      PROVE  IndInv'
  <2>1. t \in People /\ (t # call[c].home => grant[t][call[c].home] # "none")
    BY <1>2, NamedIsPermitted
  <2>2. /\ call'[c].pc = "store" /\ call'[c].tenant = t
        /\ call'[c].home = call[c].home /\ call'[c].op = call[c].op /\ call'[c].sel = call[c].sel
        /\ call'[c] \in CallRecords
        /\ \A d \in Calls \ {c} : call'[d] = call[d]
    BY <1>1, <1>2, <1>4, <2>1 DEF TypeOK, CallRecords, Pcs
  <2>3. BaseType'
    BY <1>1, <1>4, <2>2 DEF BaseType, TypeOK, Tables
  <2>4. HistoryOK(c)' /\ Acting(c)' = Acting(c) /\ stood[c] \subseteq stood'[c]
    BY <1>1, <1>2, <2>2 DEF HistoryOK, Remember, Acting
  <2>5. SelectionOK(c)' /\ PendingOK(c)'
    BY <1>1, <1>2, <2>1, <2>2, <2>4 DEF CallOK, SelectionOK, PendingOK, Served, Tables
  <2>6. QED
    BY <1>1, <1>2, <2>2, <2>3, <2>4, <2>5, TablesKept, OneCallMoves DEF CallOK
<1>5. QED
  BY <1>3, <1>4 DEF ChooseTenant

\* Looking a code up shows a minted code of another tenant, or ends the call.
LEMMA LookUpInviteStep ==
    ASSUME IndInv, NEW c \in Calls, NEW k \in Codes, LookUpInvite(c, k)
    PROVE  IndInv'
<1> USE NobodyAssumption
<1>1. TypeOK /\ Remember /\ UNCHANGED Tables /\ CallOK(c)
  BY DEF IndInv, LookUpInvite, Tables
<1>2. /\ call[c] \in CallRecords /\ call[c].pc = "member" /\ call[c].home \in People
  BY <1>1 DEF CallOK, HistoryOK, LookUpInvite, TypeOK
<1>3. CASE Answer(c)
  BY <1>1, <1>3, AnswerOnlyStep
<1>4. ASSUME invite[k].tenant \notin {Nobody, call[c].home},
             call' = [call EXCEPT ![c].code = k, ![c].now = clock, ![c].pc = "claim"]
      PROVE  IndInv'
  <2>1. invite[k].tenant \in People \ {call[c].home}
    BY <1>1, <1>4 DEF TypeOK, Invites
  <2>2. /\ call'[c].pc = "claim" /\ call'[c].code = k
        /\ call'[c].home = call[c].home /\ call'[c].op = call[c].op /\ call'[c].sel = call[c].sel
        /\ call'[c] \in CallRecords
        /\ \A d \in Calls \ {c} : call'[d] = call[d]
    BY <1>1, <1>2, <1>4 DEF TypeOK, CallRecords, Pcs
  <2>3. BaseType'
    BY <1>1, <1>4, <2>2 DEF BaseType, TypeOK, Tables
  <2>4. HistoryOK(c)' /\ Acting(c)' = Acting(c) /\ stood[c] \subseteq stood'[c]
    BY <1>1, <1>2, <2>2 DEF HistoryOK, Remember, Acting
  <2>5. SelectionOK(c)' /\ PendingOK(c)'
    BY <1>1, <1>2, <2>1, <2>2, <2>4 DEF CallOK, SelectionOK, PendingOK, Served, Tables
  <2>6. QED
    BY <1>1, <1>2, <2>2, <2>3, <2>4, <2>5, TablesKept, OneCallMoves DEF CallOK
<1>5. QED
  BY <1>3, <1>4 DEF LookUpInvite

-----------------------------------------------------------------------------
(* Steps that end a call and write one table.                               *)

LEMMA AnswerWriteStep ==
    ASSUME IndInv, Remember, NEW c \in Calls, Answer(c), Monotone, TableInv',
           active' \in [People -> People \cup {Nobody}],
           grant'  \in [People -> [People -> GrantStates]],
           invite' \in [Codes -> Invites],
           clock' = clock
    PROVE  IndInv'
<1>1. TypeOK
  BY DEF IndInv
<1>2. \A d \in Calls \ {c} : call'[d] = call[d]
  BY <1>1 DEF Answer, TypeOK
<1>3. call'[c] = Idle /\ CallOK(c)'
  BY <1>1, Answered
<1>4. BaseType'
  BY <1>1, IdleType DEF BaseType, TypeOK, Answer
<1>5. QED
  BY <1>2, <1>3, <1>4, OneCallMoves DEF Idle

\* Going home clears the selection.
LEMMA UseHomeStep ==
    ASSUME IndInv, NEW c \in Calls, UseHome(c)
    PROVE  IndInv'
<1> USE NobodyAssumption
<1>1. TypeOK /\ Remember /\ Answer(c) /\ TableInv
  BY DEF IndInv, UseHome, TableInv
<1>2. active' \in [People -> People \cup {Nobody}]
  BY <1>1 DEF UseHome, TypeOK
<1>3. Monotone
  BY DEF UseHome, Monotone
<1>4. TableInv'
  <2>1. \A p \in People : active'[p] = active[p] \/ active'[p] = Nobody
    BY <1>1 DEF UseHome, TypeOK
  <2>2. StandingWasGranted'
    BY <1>1, <2>1 DEF UseHome, TableInv, StandingWasGranted
  <2>3. QED
    BY <1>1, <2>2 DEF UseHome, TableInv, InviteInv, GrantsTraceToInvites, OwnerMintsInvites
<1>5. QED
  BY <1>1, <1>2, <1>3, <1>4, AnswerWriteStep DEF UseHome, TypeOK

\* The stored selection may have lost its grant by now, but it had one.
LEMMA StoreSelectionStep ==
    ASSUME IndInv, NEW c \in Calls, StoreSelection(c)
    PROVE  IndInv'
<1> USE NobodyAssumption
<1>1. TypeOK /\ Remember /\ Answer(c) /\ TableInv /\ CallOK(c)
  BY DEF IndInv, StoreSelection, TableInv
<1>2. /\ call[c].home \in People /\ call[c].tenant \in People
      /\ call[c].tenant # call[c].home => grant[call[c].tenant][call[c].home] # "none"
  BY <1>1 DEF StoreSelection, CallOK, HistoryOK, PendingOK
<1>3. active' \in [People -> People \cup {Nobody}]
  BY <1>1, <1>2 DEF StoreSelection, TypeOK
<1>4. Monotone
  BY DEF StoreSelection, Monotone
<1>5. TableInv'
  <2>1. \A p \in People : active'[p] = active[p] \/ active'[p] = Nobody
            \/ (p = call[c].home /\ active'[p] = call[c].tenant /\ call[c].tenant # call[c].home)
    BY <1>1 DEF StoreSelection, TypeOK
  <2>2. StandingWasGranted'
    BY <1>1, <1>2, <2>1 DEF StoreSelection, TableInv, StandingWasGranted
  <2>3. QED
    BY <1>1, <2>2 DEF StoreSelection, TableInv, InviteInv, GrantsTraceToInvites,
                      OwnerMintsInvites
<1>6. QED
  BY <1>1, <1>3, <1>4, <1>5, AnswerWriteStep DEF StoreSelection, TypeOK

\* A code is minted for its creator's own tenant.
LEMMA CreateInviteStep ==
    ASSUME IndInv, NEW c \in Calls, NEW k \in Codes, NEW days \in DaySpans,
           CreateInvite(c, k, days)
    PROVE  IndInv'
<1> USE NobodyAssumption
<1>1. TypeOK /\ Remember /\ Answer(c) /\ TableInv /\ CallOK(c)
  BY DEF IndInv, CreateInvite, TableInv
<1>2. CASE ~MayGrant(c)
  BY <1>1, <1>2, AnswerOnlyStep DEF CreateInvite, Tables
<1>3. CASE MayGrant(c)
  <2> DEFINE home == call[c].home
             row  == [tenant |-> home, creator |-> home, expires |-> clock + days,
                      usedBy |-> Nobody, revoked |-> FALSE]
  <2>1. home \in People /\ clock + days \in Int
    BY <1>1, TimeAssumption DEF CreateInvite, CallOK, HistoryOK, TypeOK
  <2>2. invite' = [invite EXCEPT ![k] = row]
    BY <1>3 DEF CreateInvite, MayGrant
  <2>3. row \in Invites
    BY <2>1 DEF Invites
  <2>4. invite' \in [Codes -> Invites] /\ invite'[k] = row
        /\ \A j \in Codes \ {k} : invite'[j] = invite[j]
    BY <1>1, <2>2, <2>3 DEF TypeOK
  <2>5. invite[k].tenant = Nobody /\ invite[k].usedBy = Nobody
    BY DEF CreateInvite, NoInvite
  <2>6. Monotone
    BY <2>4, <2>5 DEF CreateInvite, Monotone
  <2>7. InviteInv' /\ OwnerMintsInvites'
    BY <1>1, <2>1, <2>4 DEF TableInv, InviteInv, OwnerMintsInvites
  <2>8. GrantsTraceToInvites' /\ StandingWasGranted'
    BY <1>1, <2>4, <2>5 DEF TableInv, GrantsTraceToInvites, StandingWasGranted, CreateInvite
  <2>9. QED
    BY <1>1, <2>4, <2>6, <2>7, <2>8, AnswerWriteStep DEF CreateInvite, TypeOK, TableInv
<1>4. QED
  BY <1>2, <1>3

\* Retiring a code keeps its tenant, its creator and who used it.
LEMMA RevokeInviteStep ==
    ASSUME IndInv, NEW c \in Calls, NEW k \in Codes, RevokeInvite(c, k)
    PROVE  IndInv'
<1> USE NobodyAssumption
<1>1. TypeOK /\ Remember /\ Answer(c) /\ TableInv
  BY DEF IndInv, RevokeInvite, TableInv
<1>2. CASE ~(MayGrant(c) /\ Unsettled(k))
  BY <1>1, <1>2, AnswerOnlyStep DEF RevokeInvite, Tables
<1>3. CASE MayGrant(c) /\ Unsettled(k)
  <2>1. invite' = [invite EXCEPT ![k].revoked = TRUE]
    BY <1>3 DEF RevokeInvite
  <2>2. invite' \in [Codes -> Invites]
    BY <1>1, <2>1 DEF TypeOK, Invites
  <2>3. \A j \in Codes : /\ invite'[j].tenant = invite[j].tenant
                          /\ invite'[j].creator = invite[j].creator
                          /\ invite'[j].usedBy = invite[j].usedBy
    BY <1>1, <2>1 DEF TypeOK, Invites
  <2>4. invite[k].tenant # Nobody /\ \A j \in Codes \ {k} : invite'[j] = invite[j]
    BY <1>1, <1>3, <2>1 DEF TypeOK, TableInv, InviteInv, Unsettled
  <2>5. Monotone
    BY <2>3 DEF RevokeInvite, Monotone
  <2>6. InviteInv' /\ OwnerMintsInvites'
    BY <1>1, <2>3, <2>4 DEF TableInv, InviteInv, OwnerMintsInvites
  <2>7. GrantsTraceToInvites' /\ StandingWasGranted'
    BY <1>1, <2>3 DEF TableInv, GrantsTraceToInvites, StandingWasGranted, RevokeInvite
  <2>8. QED
    BY <1>1, <2>2, <2>5, <2>6, <2>7, AnswerWriteStep DEF RevokeInvite, TypeOK, TableInv
<1>4. QED
  BY <1>2, <1>3

\* Ending a grant keeps its row.
LEMMA RevokeMemberStep ==
    ASSUME IndInv, NEW c \in Calls, NEW m \in People, RevokeMember(c, m)
    PROVE  IndInv'
<1> USE NobodyAssumption
<1>1. TypeOK /\ Remember /\ Answer(c) /\ TableInv /\ CallOK(c)
  BY DEF IndInv, RevokeMember, TableInv
<1> DEFINE ends == MayGrant(c) /\ m # Acting(c) /\ Live(Acting(c), m)
<1>2. CASE ~ends
  BY <1>1, <1>2, AnswerOnlyStep DEF RevokeMember, Tables
<1>3. CASE ends
  <2>1. Acting(c) \in People
    BY <1>1, <1>3 DEF RevokeMember, CallOK, HistoryOK, MayGrant
  <2>2. grant' = [grant EXCEPT ![Acting(c)][m] = "revoked"]
    BY <1>3 DEF RevokeMember
  <2>3. grant' \in [People -> [People -> GrantStates]]
    BY <1>1, <2>1, <2>2 DEF TypeOK, GrantStates
  <2>4. \A t, p \in People : grant'[t][p] # "none" <=> grant[t][p] # "none"
    BY <1>1, <1>3, <2>1, <2>2 DEF TypeOK, Live
  <2>5. Monotone
    BY <2>4 DEF RevokeMember, Monotone
  <2>6. InviteInv' /\ OwnerMintsInvites'
    BY <1>1 DEF TableInv, InviteInv, OwnerMintsInvites, RevokeMember
  <2>7. GrantsTraceToInvites'
    BY <1>1, <2>4 DEF TableInv, GrantsTraceToInvites, RevokeMember
  <2>8. StandingWasGranted'
    BY <1>1, <2>4 DEF TableInv, StandingWasGranted, RevokeMember, TypeOK
  <2>9. QED
    BY <1>1, <2>3, <2>5, <2>6, <2>7, <2>8, AnswerWriteStep DEF RevokeMember, TypeOK, TableInv
<1>4. QED
  BY <1>2, <1>3

\* The claim writes the code and the grant together.
LEMMA ClaimInviteStep ==
    ASSUME IndInv, NEW c \in Calls, ClaimInvite(c)
    PROVE  IndInv'
<1> USE NobodyAssumption
<1> DEFINE k == call[c].code
           p == call[c].home
           t == invite[k].tenant
<1>1. TypeOK /\ Remember /\ Answer(c) /\ TableInv /\ CallOK(c)
  BY DEF IndInv, ClaimInvite, TableInv
<1>2. k \in Codes /\ p \in People /\ t \in People /\ t # p
  BY <1>1 DEF ClaimInvite, CallOK, HistoryOK, PendingOK
<1>3. CASE ~Claimable(k, call[c].now)
  BY <1>1, <1>3, AnswerOnlyStep DEF ClaimInvite, Tables
<1>4. CASE Claimable(k, call[c].now)
  <2>1. invite' = [invite EXCEPT ![k].usedBy = p] /\ grant' = [grant EXCEPT ![t][p] = "live"]
    BY <1>4 DEF ClaimInvite
  <2>2. invite' \in [Codes -> Invites]
    <3>1. invite[k] \in Invites
      BY <1>1, <1>2 DEF TypeOK
    <3>2. [invite[k] EXCEPT !.usedBy = p] \in Invites
      BY <1>2, <3>1 DEF Invites
    <3>3. QED
      BY <1>1, <2>1, <3>2 DEF TypeOK
  <2>3. grant' \in [People -> [People -> GrantStates]]
    BY <1>1, <1>2, <2>1 DEF TypeOK, GrantStates
  <2>4. /\ \A j \in Codes : /\ invite'[j].tenant = invite[j].tenant
                             /\ invite'[j].creator = invite[j].creator
        /\ invite'[k].usedBy = p
        /\ \A j \in Codes \ {k} : invite'[j] = invite[j]
    BY <1>1, <1>2, <2>1 DEF TypeOK, Invites
  <2>5. invite[k].usedBy = Nobody
    BY <1>4 DEF Claimable, Unsettled
  <2>6. \A a, b \in People : grant'[a][b] # "none" =>
             grant[a][b] # "none" \/ (a = t /\ b = p)
    BY <1>1, <1>2, <2>1 DEF TypeOK
  <2>7. Monotone
    BY <1>1, <1>2, <2>1, <2>4 DEF Monotone, TypeOK
  <2>8. InviteInv' /\ OwnerMintsInvites'
    BY <1>1, <1>2, <2>4 DEF TableInv, InviteInv, OwnerMintsInvites
  <2>9. GrantsTraceToInvites'
    <3> SUFFICES ASSUME NEW a \in People, NEW b \in People, grant'[a][b] # "none"
                 PROVE  a # b /\ \E j \in Codes : invite'[j].tenant = a /\ invite'[j].usedBy = b
      BY DEF GrantsTraceToInvites
    <3>1. CASE a = t /\ b = p
      BY <1>2, <2>4, <3>1
    <3>2. CASE grant[a][b] # "none"
      <4>1. a # b
        BY <1>1, <3>2 DEF TableInv, GrantsTraceToInvites
      <4>2. PICK j \in Codes : invite[j].tenant = a /\ invite[j].usedBy = b
        BY <1>1, <3>2 DEF TableInv, GrantsTraceToInvites
      <4>3. j # k
        BY <2>5, <4>2
      <4>4. QED
        BY <2>4, <4>1, <4>2, <4>3
    <3>3. QED
      BY <2>6, <3>1, <3>2
  <2>10. StandingWasGranted'
    BY <1>1, <2>7 DEF TableInv, StandingWasGranted, ClaimInvite, Monotone, TypeOK
  <2>11. QED
    BY <1>1, <2>2, <2>3, <2>7, <2>8, <2>9, <2>10, AnswerWriteStep
       DEF ClaimInvite, TypeOK, TableInv
<1>5. QED
  BY <1>3, <1>4

\* Time passes and no call moves.
LEMMA TickStep ==
    ASSUME IndInv, Tick
    PROVE  IndInv'
<1>1. TypeOK /\ Remember /\ UNCHANGED <<active, grant, invite, call>> /\ Monotone
  BY DEF IndInv, Tick, Monotone
<1>2. BaseType'
  BY <1>1, TimeAssumption DEF Tick, TypeOK, BaseType
<1>3. \A d \in Calls : CallOK(d)'
  BY <1>1, <1>2, Frame
<1>4. \A d \in Calls : call'[d].pc # "idle" => call'[d].home \in People
  BY <1>1 DEF IndInv, CallOK, HistoryOK
<1>5. TypeOK'
  BY <1>1, <1>2, <1>4, HistoryStep
<1>6. TableInv'
  BY <1>1 DEF IndInv, TableInv, InviteInv, GrantsTraceToInvites, StandingWasGranted,
              OwnerMintsInvites
<1>7. QED
  BY <1>3, <1>5, <1>6 DEF IndInv, TableInv

-----------------------------------------------------------------------------
LEMMA InitEstablishes == Init => IndInv
<1> USE NobodyAssumption, TimeAssumption
<1> SUFFICES ASSUME Init PROVE IndInv
  OBVIOUS
<1>1. TypeOK
  <2>1. NoInvite \in Invites
    BY DEF NoInvite, Invites
  <2>2. QED
    BY <2>1, IdleType DEF Init, TypeOK, GrantStates
<1>2. \A c \in Calls : CallOK(c)
  BY DEF Init, CallOK, HistoryOK, SelectionOK, PendingOK, Served, Idle
<1>3. InviteInv /\ GrantsTraceToInvites /\ StandingWasGranted /\ OwnerMintsInvites
  BY DEF Init, InviteInv, GrantsTraceToInvites, StandingWasGranted, OwnerMintsInvites, NoInvite
<1>4. QED
  BY <1>1, <1>2, <1>3 DEF IndInv

LEMMA StepPreserves == IndInv /\ [Next]_vars => IndInv'
<1> SUFFICES ASSUME IndInv, [Next]_vars PROVE IndInv'
  OBVIOUS
<1>1. ASSUME NEW c \in Calls, NEW p \in People, NEW op \in Ops, Begin(c, p, op)
      PROVE  IndInv'
  BY <1>1, BeginStep
<1>2. ASSUME NEW c \in Calls, RefuseRevoked(c) \/ Reply(c)
      PROVE  IndInv'
  BY <1>2, AnswerOnlyStep DEF RefuseRevoked, Reply, Tables
<1>3. ASSUME NEW c \in Calls, Membership(c)
      PROVE  IndInv'
  BY <1>3, UseHomeStep, ChooseTenantStep, StoreSelectionStep, ListMembersStep,
     CreateInviteStep, RevokeInviteStep, RevokeMemberStep, LookUpInviteStep,
     ClaimInviteStep DEF Membership
<1>4. ASSUME NEW c \in Calls, Progress(c)
      PROVE  IndInv'
  BY <1>2, <1>3, <1>4, ReadSelectionStep, ResolveStep, ServeStep DEF Progress
<1>5. CASE UNCHANGED vars
  BY <1>5 DEF vars, IndInv, TypeOK, CallOK, HistoryOK, SelectionOK, PendingOK, Served,
     Acting, Enterable, StandsIn, InviteInv, GrantsTraceToInvites, StandingWasGranted,
     OwnerMintsInvites
<1>6. QED
  BY <1>1, <1>4, <1>5, TickStep DEF Next

\* The inductive invariant holds in every reachable state.
THEOREM Invariance == Spec => []IndInv
BY InitEstablishes, StepPreserves, PTL DEF Spec

\* Type correctness of the sharing tables and of every call in flight.
THEOREM TypeCorrect == Spec => []TypeOK
<1>1. IndInv => TypeOK
  BY DEF IndInv
<1>2. QED
  BY <1>1, Invariance, PTL

\* A memory call served from a tenant could enter it at some moment since it began:
\* access ends on the next call, in every interleaving.
THEOREM AccessEnds == Spec => []AccessEndsOnNextCall
<1>1. IndInv => AccessEndsOnNextCall
  BY DEF IndInv, CallOK, PendingOK, AccessEndsOnNextCall
<1>2. QED
  BY <1>1, Invariance, PTL

\* A memory call is served from a tenant its caller stood in during the call: a
\* refusal is never replaced by another tenant's memory.
THEOREM NeverFallsBack == Spec => []NoQuietFallback
<1>1. IndInv => NoQuietFallback
  BY DEF IndInv, CallOK, PendingOK, NoQuietFallback
<1>2. QED
  BY <1>1, Invariance, PTL

\* Every grant ever given was bought with a code of its tenant, and none is on the
\* member's own tenant.
THEOREM GrantsAreBought == Spec => []GrantsTraceToInvites
<1>1. IndInv => GrantsTraceToInvites
  BY DEF IndInv
<1>2. QED
  BY <1>1, Invariance, PTL

\* A stored selection names a tenant that was granted, and never the person's own.
THEOREM StandingIsGranted == Spec => []StandingWasGranted
<1>1. IndInv => StandingWasGranted
  BY DEF IndInv
<1>2. QED
  BY <1>1, Invariance, PTL

-----------------------------------------------------------------------------
(* Who writes the tables.                                                   *)

\* An owner takes a live grant on their own tenant back.
EndsGrant(c, m) ==
    /\ RevokeMember(c, m)
    /\ MayGrant(c) /\ m # Acting(c) /\ Live(Acting(c), m)

\* A redemption that wins its code.
WinsCode(c) == ClaimInvite(c) /\ Claimable(call[c].code, call[c].now)

\* Grants change by an owner's revocation or by a redemption that wins.
LEMMA GrantWriters ==
    ASSUME [Next]_vars
    PROVE  \/ grant' = grant
           \/ \E c \in Calls, m \in People : EndsGrant(c, m)
           \/ \E c \in Calls : WinsCode(c)
<1>1. ASSUME NEW c \in Calls, Membership(c)
      PROVE  \/ grant' = grant
             \/ \E m \in People : EndsGrant(c, m)
             \/ WinsCode(c)
  <2>1. CASE ClaimInvite(c)
    BY <2>1 DEF ClaimInvite, WinsCode
  <2>2. CASE \E m \in People : RevokeMember(c, m)
    BY <2>2 DEF RevokeMember, EndsGrant
  <2>3. CASE ~ClaimInvite(c) /\ ~\E m \in People : RevokeMember(c, m)
    BY <1>1, <2>3 DEF Membership, UseHome, ChooseTenant, StoreSelection, ListMembers,
                      CreateInvite, RevokeInvite, LookUpInvite
  <2>4. QED
    BY <2>1, <2>2, <2>3
<1>2. ASSUME NEW c \in Calls, Progress(c), ~Membership(c)
      PROVE  grant' = grant
  BY <1>2 DEF Progress, ReadSelection, Resolve, RefuseRevoked, ServeMemory, ServeAwaken, Reply
<1>3. QED
  BY <1>1, <1>2 DEF Next, Begin, Tick, vars

\* A code is minted where there was none, retired while it is unsettled, or used
\* by the redemption that wins it.
LEMMA InviteWriters ==
    ASSUME TypeOK, [Next]_vars
    PROVE  \/ invite' = invite
           \/ \E k \in Codes : /\ invite[k] = NoInvite
                               /\ \A j \in Codes \ {k} : invite'[j] = invite[j]
           \/ \E k \in Codes : /\ Unsettled(k)
                               /\ invite' = [invite EXCEPT ![k].revoked = TRUE]
           \/ \E c \in Calls : WinsCode(c)
<1> DEFINE Mints(k)   == /\ invite[k] = NoInvite
                         /\ \A j \in Codes \ {k} : invite'[j] = invite[j]
           Retires(k) == /\ Unsettled(k)
                         /\ invite' = [invite EXCEPT ![k].revoked = TRUE]
<1>1. ASSUME NEW c \in Calls, Membership(c)
      PROVE  \/ invite' = invite
             \/ \E k \in Codes : Mints(k)
             \/ \E k \in Codes : Retires(k)
             \/ WinsCode(c)
  <2>1. CASE ClaimInvite(c)
    BY <2>1 DEF ClaimInvite, WinsCode
  <2>2. CASE \E k \in Codes : RevokeInvite(c, k)
    BY <2>2 DEF RevokeInvite
  <2>3. ASSUME NEW k \in Codes, NEW days \in DaySpans, CreateInvite(c, k, days)
        PROVE  Mints(k)
    BY <2>3 DEF CreateInvite, TypeOK
  <2>4. CASE /\ ~ClaimInvite(c) /\ ~\E k \in Codes : RevokeInvite(c, k)
             /\ ~\E k \in Codes, days \in DaySpans : CreateInvite(c, k, days)
    BY <1>1, <2>4 DEF Membership, UseHome, ChooseTenant, StoreSelection, ListMembers,
                      RevokeMember, LookUpInvite
  <2>5. QED
    BY <2>1, <2>2, <2>3, <2>4
<1>2. ASSUME NEW c \in Calls, Progress(c), ~Membership(c)
      PROVE  invite' = invite
  BY <1>2 DEF Progress, ReadSelection, Resolve, RefuseRevoked, ServeMemory, ServeAwaken, Reply
<1>3. QED
  BY <1>1, <1>2 DEF Next, Begin, Tick, vars

\* What a redemption that wins does to the two tables.
LEMMA CodeWon ==
    ASSUME IndInv, NEW c \in Calls, WinsCode(c)
    PROVE  LET k == call[c].code
               t == invite[k].tenant
           IN  /\ k \in Codes /\ t \in People /\ call[c].home \in People
               /\ t # call[c].home
               /\ Claimable(k, call[c].now)
               /\ invite' = [invite EXCEPT ![k].usedBy = call[c].home]
               /\ grant' = [grant EXCEPT ![t][call[c].home] = "live"]
BY DEF IndInv, CallOK, HistoryOK, PendingOK, WinsCode, ClaimInvite

-----------------------------------------------------------------------------
(* The action properties.                                                   *)

\* A live grant ends only in a call of the owner of its tenant.
THEOREM OwnerEnds == Spec => OnlyOwnerEndsAccess
<1> DEFINE Ends == \A t, m \in People : (grant[t][m] = "live" /\ grant'[t][m] # "live") =>
                      \E c \in Calls : call[c].home = t /\ call'[c] # call[c]
<1>1. IndInv /\ [Next]_vars => [Ends]_vars
  <2> SUFFICES ASSUME IndInv, [Next]_vars, NEW t \in People, NEW m \in People,
                      grant[t][m] = "live", grant'[t][m] # "live"
               PROVE  \E c \in Calls : call[c].home = t /\ call'[c] # call[c]
    OBVIOUS
  <2>1. TypeOK
    BY DEF IndInv
  <2>2. ASSUME NEW c \in Calls, NEW p \in People, EndsGrant(c, p)
        PROVE  call[c].home = t /\ call'[c] # call[c]
    <3>1. call[c].home \in People /\ Acting(c) = call[c].home
      BY <2>2 DEF IndInv, CallOK, HistoryOK, EndsGrant, RevokeMember, MayGrant
    <3>2. grant' = [grant EXCEPT ![call[c].home][p] = "revoked"]
      BY <2>2, <3>1 DEF EndsGrant, RevokeMember
    <3>3. call[c].home = t
      BY <2>1, <3>1, <3>2 DEF TypeOK
    <3>4. call'[c].pc = "idle" /\ call[c].pc = "member"
      BY <2>1, <2>2 DEF EndsGrant, RevokeMember, Answer, TypeOK, Idle
    <3>5. QED
      BY <3>3, <3>4
  <2>3. ASSUME NEW c \in Calls, WinsCode(c)
        PROVE  FALSE
    <3>1. /\ invite[call[c].code].tenant \in People /\ call[c].home \in People
          /\ grant' = [grant EXCEPT ![invite[call[c].code].tenant][call[c].home] = "live"]
      BY <2>3, CodeWon
    <3>2. QED
      BY <2>1, <3>1 DEF TypeOK
  <2>4. QED
    BY <2>2, <2>3, GrantWriters
<1>2. QED
  BY <1>1, Invariance, PTL DEF Spec, OnlyOwnerEndsAccess

\* A grant comes alive only with a code of its tenant that its member redeems in
\* that step, and a code that is used or retired is never written again.
THEOREM CodesAdmit == Spec => CodesAdmitOnce
<1> USE NobodyAssumption
<1> DEFINE Consumes ==
              \A t, m \in People : (grant[t][m] # "live" /\ grant'[t][m] = "live") =>
                 \E k \in Codes :
                    /\ invite[k].tenant = t /\ invite[k].usedBy = Nobody
                    /\ ~invite[k].revoked /\ invite'[k].usedBy = m
                    /\ \E c \in Calls : /\ call[c].home = m /\ call[c].code = k
                                      /\ call[c].now < invite[k].expires
           Settles ==
              \A k \in Codes :
                 /\ invite[k].usedBy # Nobody => invite'[k] = invite[k]
                 /\ invite[k].revoked => invite'[k] = invite[k]
                 /\ invite[k].tenant # Nobody => invite'[k].tenant = invite[k].tenant
<1>1. IndInv /\ [Next]_vars => [Consumes]_vars
  <2> SUFFICES ASSUME IndInv, [Next]_vars, NEW t \in People, NEW m \in People,
                      grant[t][m] # "live", grant'[t][m] = "live"
               PROVE  \E k \in Codes :
                         /\ invite[k].tenant = t /\ invite[k].usedBy = Nobody
                         /\ ~invite[k].revoked /\ invite'[k].usedBy = m
                         /\ \E c \in Calls : /\ call[c].home = m /\ call[c].code = k
                                           /\ call[c].now < invite[k].expires
    OBVIOUS
  <2>1. TypeOK
    BY DEF IndInv
  <2>2. ASSUME NEW c \in Calls, NEW p \in People, EndsGrant(c, p)
        PROVE  FALSE
    <3>1. Acting(c) \in People /\ grant' = [grant EXCEPT ![Acting(c)][p] = "revoked"]
      BY <2>2 DEF IndInv, CallOK, HistoryOK, EndsGrant, RevokeMember, MayGrant
    <3>2. QED
      BY <2>1, <3>1 DEF TypeOK
  <2>3. PICK c \in Calls : WinsCode(c)
    BY <2>2, GrantWriters
  <2> DEFINE k == call[c].code
  <2>4. /\ k \in Codes /\ invite[k].tenant \in People /\ call[c].home \in People
        /\ Claimable(k, call[c].now)
        /\ invite' = [invite EXCEPT ![k].usedBy = call[c].home]
        /\ grant' = [grant EXCEPT ![invite[k].tenant][call[c].home] = "live"]
    BY <2>3, CodeWon
  <2>5. invite[k].tenant = t /\ call[c].home = m
    BY <2>1, <2>4 DEF TypeOK
  <2>6. invite'[k].usedBy = m
    BY <2>1, <2>4, <2>5 DEF TypeOK, Invites
  <2>7. /\ invite[k].usedBy = Nobody /\ ~invite[k].revoked
        /\ call[c].now < invite[k].expires
    <3>1. invite[k].expires \in Int /\ call[c].now \in Int
      BY <2>1, <2>4, TimeAssumption DEF TypeOK, Invites, CallRecords
    <3>2. QED
      BY <2>4, <3>1 DEF Claimable, Unsettled
  <2>8. QED
    BY <2>4, <2>5, <2>6, <2>7
<1>2. IndInv /\ [Next]_vars => [Settles]_vars
  <2> SUFFICES ASSUME IndInv, [Next]_vars
               PROVE  Settles
    OBVIOUS
  <2>1. TypeOK
    BY DEF IndInv
  <2>2. ASSUME NEW k \in Codes, invite[k] = NoInvite,
               \A j \in Codes \ {k} : invite'[j] = invite[j]
        PROVE  Settles
    BY <2>2 DEF NoInvite
  <2>3. ASSUME NEW k \in Codes, Unsettled(k),
               invite' = [invite EXCEPT ![k].revoked = TRUE]
        PROVE  Settles
    BY <2>1, <2>3 DEF Unsettled, TypeOK, Invites
  <2>4. ASSUME NEW c \in Calls, WinsCode(c)
        PROVE  Settles
    <3>1. /\ call[c].code \in Codes /\ Unsettled(call[c].code)
          /\ invite' = [invite EXCEPT ![call[c].code].usedBy = call[c].home]
      BY <2>4, CodeWon DEF Claimable
    <3>2. QED
      BY <2>1, <3>1 DEF Unsettled, TypeOK, Invites
  <2>5. QED
    BY <2>1, <2>2, <2>3, <2>4, InviteWriters
<1>3. QED
  BY <1>1, <1>2, Invariance, PTL
     DEF Spec, CodesAdmitOnce, EveryGrantConsumesAnInvite, InvitesSettleOnce

\* list_tenants marks exactly one place as the active one, whatever became of
\* the grant behind the selection.
THEOREM OnePlace == Spec => []OneStandingPlace
<1>1. OneStandingPlace
  <2> SUFFICES ASSUME NEW c \in Calls
               PROVE  \E r \in TenantRefs(c) : {s \in TenantRefs(c) : s.active} = {r}
    BY DEF OneStandingPlace
  <2> DEFINE open == {call[c].home} \cup {t \in People : Live(t, call[c].home)}
  <2>1. TenantRefs(c) =
              {[id |-> t, active |-> Acting(c) = t, revoked |-> FALSE] : t \in open}
         \cup {[id |-> t, active |-> Acting(c) = t, revoked |-> TRUE] :
                  t \in {Acting(c)} \ open}
    BY DEF TenantRefs
  <2> HIDE DEF open
  <2>2. CASE Acting(c) \in open
    <3> DEFINE here == [id |-> Acting(c), active |-> Acting(c) = Acting(c), revoked |-> FALSE]
    <3>1. here \in TenantRefs(c) /\ here.active
      BY <2>1, <2>2
    <3>2. ASSUME NEW s \in TenantRefs(c), s.active
          PROVE  s = here
      <4>1. PICK t \in open : s = [id |-> t, active |-> Acting(c) = t, revoked |-> FALSE]
        BY <2>1, <2>2, <3>2
      <4>2. t = Acting(c)
        BY <3>2, <4>1
      <4>3. QED
        BY <4>1, <4>2
    <3>3. QED
      BY <3>1, <3>2
  <2>3. CASE Acting(c) \notin open
    <3> DEFINE here == [id |-> Acting(c), active |-> Acting(c) = Acting(c), revoked |-> TRUE]
    <3>1. here \in TenantRefs(c) /\ here.active
      BY <2>1, <2>3
    <3>2. ASSUME NEW s \in TenantRefs(c), s.active
          PROVE  s = here
      <4>1. ASSUME NEW t \in open,
                   s = [id |-> t, active |-> Acting(c) = t, revoked |-> FALSE]
            PROVE  FALSE
        BY <2>3, <3>2, <4>1
      <4>2. \E t \in {Acting(c)} \ open :
               s = [id |-> t, active |-> Acting(c) = t, revoked |-> TRUE]
        BY <2>1, <4>1
      <4>3. QED
        BY <4>2
    <3>3. QED
      BY <3>1, <3>2
  <2>4. QED
    BY <2>2, <2>3
<1>2. QED
  BY <1>1, PTL

-----------------------------------------------------------------------------
(* The refinement of TenantAccess.                                          *)

\* Both modules mean the same tenants by Enterable.
EnterableAgrees ==
    \A m \in People : Access!Enterable(EntitledPairs, m) = Enterable(m)

LEMMA EnterableIsEnterable == EnterableAgrees
BY DEF EnterableAgrees, Access!Enterable, EntitledPairs, Enterable

\* How a session r sees the entitlement of the next state.
Seeing(r) ==
    IF r.phase = "closed" THEN Access!Closed
    ELSE [r EXCEPT !.window = @ \cup Access!Enterable(EntitledPairs', r.member)]

\* A call that a step leaves alone is a session that sees the new entitlement;
\* while grants stay as they are it sees nothing new.
LEMMA Bystander ==
    ASSUME IndInv, Remember, NEW d \in Calls, call'[d] = call[d]
    PROVE  /\ SessionOf'[d] = Seeing(SessionOf[d])
           /\ grant' = grant => SessionOf'[d] = SessionOf[d]
<1>1. HistoryOK(d)
  BY DEF IndInv, CallOK
<1>2. window'[d] = IF call[d].pc = "idle" THEN {} ELSE window[d] \cup Enterable(call[d].home)'
  BY DEF Remember
<1>3. CASE call[d].pc = "idle"
  <2>1. SessionOf[d] = Access!Closed
    BY <1>1, <1>3 DEF HistoryOK, SessionOf, Entered, Idle, Access!Closed
  <2>2. SessionOf'[d] = Access!Closed
    BY <1>1, <1>2, <1>3 DEF HistoryOK, SessionOf, Entered, Idle, Access!Closed
  <2>3. QED
    BY <2>1, <2>2 DEF Seeing, Access!Closed
<1>4. CASE call[d].pc # "idle"
  <2>1. call[d].home \in People /\ Enterable(call[d].home) \subseteq window[d]
    BY <1>1, <1>4 DEF HistoryOK
  <2>2. EnterableAgrees'
    BY EnterableIsEnterable, PTL
  <2>3. window'[d] = window[d] \cup Access!Enterable(EntitledPairs', call[d].home)
    BY <1>2, <1>4, <2>1, <2>2 DEF EnterableAgrees, Enterable
  <2>4. grant' = grant => window'[d] = window[d]
    BY <1>2, <1>4, <2>1 DEF Enterable
  <2>5. /\ SessionOf[d].phase # "closed" /\ SessionOf[d].member = call[d].home
        /\ SessionOf[d].window = window[d]
        /\ SessionOf'[d] = [SessionOf[d] EXCEPT !.window = window'[d]]
    BY <1>4 DEF SessionOf, Entered
  <2>6. SessionOf'[d] = Seeing(SessionOf[d])
    BY <2>3, <2>5 DEF Seeing
  <2>7. grant' = grant => SessionOf'[d] = SessionOf[d]
    BY <2>4, <2>5 DEF SessionOf
  <2>8. QED
    BY <2>6, <2>7
<1>5. QED
  BY <1>3, <1>4

\* A call that is answered is a session that ends, and the others see what came
\* of it.
LEMMA AnswerEnds ==
    ASSUME IndInv, Remember, NEW c \in Calls, Answer(c), call[c].pc # "idle"
    PROVE  /\ Access!EndSeeing(c, EntitledPairs')
           /\ grant' = grant => Access!Close(c)
<1>1. TypeOK
  BY DEF IndInv
<1>2. call'[c] = Idle /\ \A d \in Calls \ {c} : call'[d] = call[d]
  BY <1>1 DEF Answer, TypeOK
<1>3. SessionOf'[c] = Access!Closed
  <2>1. call'[c].pc = "idle" /\ call'[c].home = Nobody
    BY <1>2 DEF Idle
  <2>2. window'[c] = {}
    BY <2>1 DEF Remember
  <2>3. QED
    BY <2>1, <2>2 DEF SessionOf, Entered, Access!Closed
<1>4. \A d \in Calls \ {c} : /\ SessionOf'[d] = Seeing(SessionOf[d])
                             /\ grant' = grant => SessionOf'[d] = SessionOf[d]
  BY <1>2, Bystander
<1>5. SessionOf' = [d \in Calls |-> SessionOf'[d]]
  BY DEF SessionOf
<1>6. SessionOf = [d \in Calls |-> SessionOf[d]]
  BY DEF SessionOf
<1>7. Access!EndSeeing(c, EntitledPairs')
  BY <1>3, <1>4, <1>5 DEF Access!EndSeeing, Seeing
<1>8. grant' = grant => Access!Close(c)
  <2> SUFFICES ASSUME grant' = grant
               PROVE  Access!Close(c)
    OBVIOUS
  <2>1. SessionOf[c].phase # "closed"
    BY DEF SessionOf, Entered
  <2>2. SessionOf' = [SessionOf EXCEPT ![c] = Access!Closed]
    BY <1>3, <1>4, <1>5, <1>6
  <2>3. EntitledPairs' = EntitledPairs
    BY DEF EntitledPairs
  <2>4. QED
    BY <2>1, <2>2, <2>3 DEF Access!Close
<1>9. QED
  BY <1>7, <1>8

\* A call that goes on without being served shows in no session.
LEMMA GoingOnIsSilent ==
    ASSUME IndInv, Remember, grant' = grant, NEW c \in Calls,
           \A d \in Calls \ {c} : call'[d] = call[d],
           call[c].pc # "idle", call'[c].pc # "idle", call'[c].home = call[c].home,
           ~Entered(c), ~Entered(c)'
    PROVE  SessionOf' = SessionOf /\ EntitledPairs' = EntitledPairs
<1>1. window'[c] = window[c]
  BY DEF IndInv, CallOK, HistoryOK, Remember, Enterable
<1>2. SessionOf'[c] = SessionOf[c]
  BY <1>1 DEF SessionOf
<1>3. \A d \in Calls \ {c} : SessionOf'[d] = SessionOf[d]
  BY Bystander
<1>4. SessionOf' = [d \in Calls |-> SessionOf'[d]] /\ SessionOf = [d \in Calls |-> SessionOf[d]]
  BY DEF SessionOf
<1>5. QED
  BY <1>2, <1>3, <1>4 DEF EntitledPairs

-----------------------------------------------------------------------------
(* One lemma for each kind of step.                                         *)

\* A call that starts opens a session that sees what its caller may enter.
LEMMA BeginMaps ==
    ASSUME IndInv, NEW c \in Calls, NEW p \in People, NEW op \in Ops, Begin(c, p, op)
    PROVE  Access!Open(c, p)
<1>1. TypeOK /\ Remember /\ grant' = grant /\ CallOK(c) /\ call[c].pc = "idle"
  BY DEF IndInv, Begin
<1>2. /\ call'[c].pc = "called" /\ call'[c].home = p
      /\ \A d \in Calls \ {c} : call'[d] = call[d]
  BY <1>1 DEF Begin, TypeOK, Idle
<1>3. window'[c] = Access!Enterable(EntitledPairs, p)
  <2>1. window[c] = {} /\ window'[c] = window[c] \cup Enterable(call[c].home)'
    BY <1>1, <1>2 DEF CallOK, HistoryOK, Remember
  <2>2. Enterable(call[c].home)' = Enterable(p)
    BY <1>1, <1>2 DEF Enterable
  <2>3. QED
    BY <2>1, <2>2, EnterableIsEnterable DEF EnterableAgrees
<1>4. SessionOf'[c] = [phase  |-> "open", member |-> p,
                       window |-> Access!Enterable(EntitledPairs, p), tenant |-> Nobody]
  BY <1>2, <1>3 DEF SessionOf, Entered
<1>5. \A d \in Calls \ {c} : SessionOf'[d] = SessionOf[d]
  BY <1>1, <1>2, Bystander
<1>6. SessionOf' = [d \in Calls |-> SessionOf'[d]] /\ SessionOf = [d \in Calls |-> SessionOf[d]]
  BY DEF SessionOf
<1>7. SessionOf[c].phase = "closed" /\ EntitledPairs' = EntitledPairs
  BY <1>1 DEF SessionOf, EntitledPairs
<1>8. QED
  BY <1>4, <1>5, <1>6, <1>7 DEF Access!Open

\* A memory call that is served enters a tenant its session has seen.
LEMMA ServeMaps ==
    ASSUME IndInv, NEW c \in Calls, ServeMemory(c) \/ ServeAwaken(c)
    PROVE  Access!Enter(c)
<1>1. TypeOK /\ Remember /\ grant' = grant /\ CallOK(c) /\ call[c].pc = "resolved"
  BY DEF IndInv, ServeMemory, ServeAwaken
<1>2. /\ call'[c].pc = "served" /\ call'[c].home = call[c].home
      /\ call'[c].op = call[c].op /\ call'[c].tenant = call[c].tenant
      /\ call[c].op \in {"memory", "awaken"}
      /\ \A d \in Calls \ {c} : call'[d] = call[d]
  BY <1>1 DEF ServeMemory, ServeAwaken, TypeOK, CallRecords
<1>3. call[c].tenant \in window[c] /\ window'[c] = window[c]
  BY <1>1, <1>2 DEF CallOK, PendingOK, HistoryOK, Remember, Enterable
<1>4. /\ SessionOf[c].phase = "open" /\ SessionOf[c].window = window[c]
      /\ SessionOf'[c] = [phase  |-> "entered",
                          member |-> SessionOf[c].member,
                          window |-> SessionOf[c].window,
                          tenant |-> call[c].tenant]
  <2>1. ~Entered(c) /\ Entered(c)'
    BY <1>1, <1>2 DEF Entered
  <2>2. SessionOf[c] = [phase  |-> "open", member |-> call[c].home,
                        window |-> window[c], tenant |-> Nobody]
    BY <1>1, <2>1 DEF SessionOf
  <2>3. SessionOf'[c] = [phase  |-> "entered", member |-> call[c].home,
                         window |-> window[c], tenant |-> call[c].tenant]
    BY <1>2, <1>3, <2>1 DEF SessionOf
  <2>4. QED
    BY <2>2, <2>3
<1>5. \A d \in Calls \ {c} : SessionOf'[d] = SessionOf[d]
  BY <1>1, <1>2, Bystander
<1>6. SessionOf' = [d \in Calls |-> SessionOf'[d]] /\ SessionOf = [d \in Calls |-> SessionOf[d]]
  BY DEF SessionOf
<1>7. EntitledPairs' = EntitledPairs
  BY <1>1 DEF EntitledPairs
<1>8. SessionOf' = [SessionOf EXCEPT ![c] = SessionOf'[c]]
  BY <1>5, <1>6
<1>9. QED
  BY <1>3, <1>4, <1>7, <1>8 DEF Access!Enter

\* An owner who ends a grant expels its member.
LEMMA EndsGrantMaps ==
    ASSUME IndInv, NEW c \in Calls, NEW m \in People, EndsGrant(c, m)
    PROVE  Access!Expel(c, m)
<1>1. TypeOK /\ Remember /\ Answer(c) /\ CallOK(c) /\ call[c].pc = "member"
  BY DEF IndInv, EndsGrant, RevokeMember
<1>2. call[c].home \in People /\ grant' = [grant EXCEPT ![call[c].home][m] = "revoked"]
  BY <1>1 DEF CallOK, HistoryOK, EndsGrant, RevokeMember, MayGrant
<1>3. EntitledPairs' = EntitledPairs \ {<<call[c].home, m>>}
  <2>1. \A t, p \in People : grant'[t][p] = "live" <=>
            grant[t][p] = "live" /\ ~(t = call[c].home /\ p = m)
    BY <1>1, <1>2 DEF TypeOK
  <2>2. QED
    BY <2>1 DEF EntitledPairs
<1>4. SessionOf[c].phase = "open" /\ SessionOf[c].member = call[c].home
  BY <1>1 DEF SessionOf, Entered
<1>5. Access!EndSeeing(c, EntitledPairs')
  BY <1>1, AnswerEnds
<1>6. QED
  BY <1>3, <1>4, <1>5 DEF Access!Expel

\* A redemption that wins admits its caller.
LEMMA WinsCodeMaps ==
    ASSUME IndInv, NEW c \in Calls, WinsCode(c)
    PROVE  \E t \in People : Access!Admit(c, t)
<1>1. TypeOK /\ Remember /\ Answer(c) /\ call[c].pc = "claim"
  BY DEF IndInv, WinsCode, ClaimInvite
<1>2. PICK t \in People : /\ call[c].home \in People /\ t # call[c].home
                          /\ grant' = [grant EXCEPT ![t][call[c].home] = "live"]
  BY CodeWon
<1>3. EntitledPairs' = EntitledPairs \cup {<<t, call[c].home>>}
  <2>1. \A s, p \in People : grant'[s][p] = "live" <=>
            grant[s][p] = "live" \/ (s = t /\ p = call[c].home)
    BY <1>1, <1>2 DEF TypeOK
  <2>2. QED
    BY <1>2, <2>1 DEF EntitledPairs
<1>4. SessionOf[c].phase = "open" /\ SessionOf[c].member = call[c].home
  BY <1>1 DEF SessionOf, Entered
<1>5. Access!EndSeeing(c, EntitledPairs')
  BY <1>1, AnswerEnds
<1>6. QED
  BY <1>2, <1>3, <1>4, <1>5 DEF Access!Admit

\* Reading the selection, resolving it, choosing a tenant, listing the roster
\* and looking a code up go on with the call.
LEMMA GoingOnMaps ==
    ASSUME IndInv, NEW c \in Calls, ~Answer(c),
           \/ ReadSelection(c) \/ Resolve(c) \/ ListMembers(c)
           \/ \E name \in People \cup Labels : ChooseTenant(c, name)
           \/ \E k \in Codes : LookUpInvite(c, k)
    PROVE  SessionOf' = SessionOf /\ EntitledPairs' = EntitledPairs
<1>1. TypeOK /\ CallOK(c)
  BY DEF IndInv
<1>2. Remember /\ grant' = grant
  BY DEF ReadSelection, Resolve, ListMembers, ChooseTenant, LookUpInvite
<1>3. call[c].pc \in {"called", "check", "member"}
  BY DEF ReadSelection, Resolve, ListMembers, ChooseTenant, LookUpInvite
<1>4. /\ call'[c].pc # "idle" /\ call'[c].home = call[c].home /\ call'[c].op = call[c].op
      /\ call'[c].pc = "served" => call[c].op = "membership"
      /\ \A d \in Calls \ {c} : call'[d] = call[d]
  <2>1. CASE ReadSelection(c)
    BY <1>1, <2>1 DEF ReadSelection, TypeOK, CallRecords
  <2>2. CASE Resolve(c)
    BY <1>1, <2>2 DEF Resolve, TypeOK, CallRecords
  <2>3. CASE ListMembers(c)
    BY <1>1, <2>3 DEF ListMembers, TypeOK, CallRecords
  <2>4. CASE \E name \in People \cup Labels : ChooseTenant(c, name)
    <3>1. PICK t : /\ call[c].op = "membership"
                   /\ call' = [call EXCEPT ![c].tenant = t, ![c].pc = "store"]
      BY <2>4, Zenon DEF ChooseTenant
    <3>2. QED
      BY <1>1, <3>1 DEF TypeOK, CallRecords
  <2>5. CASE \E k \in Codes : LookUpInvite(c, k)
    <3>1. PICK k : /\ call[c].op = "membership"
                   /\ call' = [call EXCEPT ![c].code = k, ![c].now = clock, ![c].pc = "claim"]
      BY <2>5, Zenon DEF LookUpInvite
    <3>2. QED
      BY <1>1, <3>1 DEF TypeOK, CallRecords
  <2>6. QED
    BY <2>1, <2>2, <2>3, <2>4, <2>5
<1>5. ~Entered(c) /\ ~Entered(c)'
  BY <1>3, <1>4 DEF Entered
<1>6. QED
  BY <1>2, <1>3, <1>4, <1>5, GoingOnIsSilent

\* Every answer that changes no grant closes the session of its call.
LEMMA AnswerMaps ==
    ASSUME IndInv, NEW c \in Calls, Progress(c), Answer(c), grant' = grant
    PROVE  Access!Close(c)
<1>1. Remember
  BY DEF Progress, Membership, ReadSelection, Resolve, RefuseRevoked, ServeMemory,
         ServeAwaken, Reply, UseHome, ChooseTenant, StoreSelection, ListMembers,
         CreateInvite, RevokeInvite, RevokeMember, LookUpInvite, ClaimInvite
<1>2. call[c].pc # "idle"
  BY DEF Progress, Membership, ReadSelection, Resolve, RefuseRevoked, ServeMemory,
         ServeAwaken, Reply, UseHome, ChooseTenant, StoreSelection, ListMembers,
         CreateInvite, RevokeInvite, RevokeMember, LookUpInvite, ClaimInvite
<1>3. QED
  BY <1>1, <1>2, AnswerEnds

\* The sharing code implements TenantAccess: a memory call enters a tenant only
\* if its caller could enter it since the call began, and entitlement changes
\* only by a redemption or by the owner.
THEOREM Implementation == Spec => ImplementsTenantAccess
<1> DEFINE AbsVars == <<EntitledPairs, SessionOf>>
<1>1. Init => Access!Init
  <2> SUFFICES ASSUME Init
               PROVE  EntitledPairs = {} /\ SessionOf = [c \in Calls |-> Access!Closed]
    BY DEF Access!Init
  <2>1. EntitledPairs = {}
    BY DEF Init, EntitledPairs
  <2>2. SessionOf = [c \in Calls |-> Access!Closed]
    BY DEF Init, SessionOf, Entered, Idle, Access!Closed
  <2>3. QED
    BY <2>1, <2>2
<1>2. IndInv /\ [Next]_vars => [Access!Next]_AbsVars
  <2> SUFFICES ASSUME IndInv, [Next]_vars
               PROVE  Access!Next \/ (SessionOf' = SessionOf /\ EntitledPairs' = EntitledPairs)
    OBVIOUS
  <2>1. CASE \E c \in Calls, p \in People, op \in Ops : Begin(c, p, op)
    BY <2>1, BeginMaps DEF Access!Next
  <2>2. ASSUME NEW c \in Calls, Progress(c)
        PROVE  Access!Next \/ (SessionOf' = SessionOf /\ EntitledPairs' = EntitledPairs)
    <3>1. CASE ServeMemory(c) \/ ServeAwaken(c)
      BY <3>1, ServeMaps DEF Access!Next
    <3>2. CASE \E m \in People : EndsGrant(c, m)
      BY <3>2, EndsGrantMaps DEF Access!Next
    <3>3. CASE WinsCode(c)
      BY <3>3, WinsCodeMaps DEF Access!Next
    <3>4. CASE Answer(c) /\ grant' = grant
      BY <2>2, <3>4, AnswerMaps DEF Access!Next
    <3>5. CASE ~Answer(c) /\ ~ServeMemory(c) /\ ~ServeAwaken(c)
      <4>1. \/ ReadSelection(c) \/ Resolve(c) \/ ListMembers(c)
            \/ \E name \in People \cup Labels : ChooseTenant(c, name)
            \/ \E k \in Codes : LookUpInvite(c, k)
        BY <2>2, <3>5 DEF Progress, Membership, RefuseRevoked, Reply, UseHome, StoreSelection,
                          CreateInvite, RevokeInvite, RevokeMember, ClaimInvite
      <4>2. QED
        BY <3>5, <4>1, GoingOnMaps
    <3>6. grant' = grant \/ (\E m \in People : EndsGrant(c, m)) \/ WinsCode(c)
      BY <2>2 DEF Progress, Membership, ReadSelection, Resolve, RefuseRevoked, ServeMemory,
                  ServeAwaken, Reply, UseHome, ChooseTenant, StoreSelection, ListMembers,
                  CreateInvite, RevokeInvite, RevokeMember, LookUpInvite, ClaimInvite,
                  EndsGrant, WinsCode
    <3>7. QED
      BY <3>1, <3>2, <3>3, <3>4, <3>5, <3>6
  <2>3. CASE Tick
    <3>1. call' = call /\ grant' = grant /\ Remember
      BY <2>3 DEF Tick
    <3>2. \A d \in Calls : SessionOf'[d] = SessionOf[d]
      BY <3>1, Bystander
    <3>3. SessionOf' = [d \in Calls |-> SessionOf'[d]]
            /\ SessionOf = [d \in Calls |-> SessionOf[d]]
      BY DEF SessionOf
    <3>4. QED
      BY <3>1, <3>2, <3>3 DEF EntitledPairs
  <2>4. CASE UNCHANGED vars
    BY <2>4 DEF vars, SessionOf, Entered, EntitledPairs
  <2>5. QED
    BY <2>1, <2>2, <2>3, <2>4 DEF Next
<1>3. QED
  BY <1>1, <1>2, Invariance, PTL DEF Spec, ImplementsTenantAccess, Access!Spec, Access!vars
=============================================================================
