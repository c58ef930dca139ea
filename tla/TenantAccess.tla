----------------------------- MODULE TenantAccess -----------------------------
(***************************************************************************)
(* What account sharing promises, without invitations, selections or       *)
(* transactions.  A person may enter their own tenant and every tenant     *)
(* they are entitled to.  A session of theirs is served from a tenant only *)
(* if they were entitled to it at some moment since the session opened.    *)
(* Entitlement is changed from inside a session: the person admitted       *)
(* admits themselves, and only the owner of a tenant expels.               *)
(***************************************************************************)
CONSTANTS People, Sessions, Nobody

VARIABLES
    entitled,   \* the pairs <<t, m>> for which m may enter t
    session     \* the sessions, closed or open

vars == <<entitled, session>>

Closed == [phase |-> "closed", member |-> Nobody, window |-> {}, tenant |-> Nobody]

Enterable(e, m) == {m} \cup {t \in People : <<t, m>> \in e}

Init ==
    /\ entitled = {}
    /\ session  = [s \in Sessions |-> Closed]

\* Session s ends, and every other session sees the new entitlement e.
EndSeeing(s, e) ==
    LET seeing(r) == [session[r] EXCEPT !.window = @ \cup Enterable(e, session[r].member)]
    IN  session' = [r \in Sessions |-> CASE r = s -> Closed
                                          [] r # s /\ session[r].phase = "closed" -> Closed
                                          [] r # s /\ session[r].phase # "closed" -> seeing(r)]

Open(s, m) ==
    /\ session[s].phase = "closed"
    /\ session' = [session EXCEPT ![s] = [phase  |-> "open",
                                          member |-> m,
                                          window |-> Enterable(entitled, m),
                                          tenant |-> Nobody]]
    /\ UNCHANGED entitled

Enter(s) ==
    /\ session[s].phase = "open"
    /\ \E t \in session[s].window :
         session' = [session EXCEPT ![s] = [phase  |-> "entered",
                                            member |-> session[s].member,
                                            window |-> session[s].window,
                                            tenant |-> t]]
    /\ UNCHANGED entitled

Close(s) ==
    /\ session[s].phase # "closed"
    /\ session' = [session EXCEPT ![s] = Closed]
    /\ UNCHANGED entitled

Admit(s, t) ==
    /\ session[s].phase = "open"
    /\ t # session[s].member
    /\ entitled' = entitled \cup {<<t, session[s].member>>}
    /\ EndSeeing(s, entitled')

Expel(s, m) ==
    /\ session[s].phase = "open"
    /\ entitled' = entitled \ {<<session[s].member, m>>}
    /\ EndSeeing(s, entitled')

Next ==
    \E s \in Sessions :
        \/ \E m \in People : Open(s, m)
        \/ Enter(s)
        \/ Close(s)
        \/ \E t \in People : Admit(s, t)
        \/ \E m \in People : Expel(s, m)

Spec == Init /\ [][Next]_vars
=============================================================================
