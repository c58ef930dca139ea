------------------------------ MODULE MCCutover ------------------------------
(* Model-checking instance of Cutover: two people, one of whom shares.      *)
EXTENDS Cutover, TLC

CONSTANTS ann, bob, code

MCPeople == {ann, bob}
MCCodes  == {code}

Row(p, k)  == [owner |-> p, key |-> k, text |-> 0, summary |-> FALSE]
Noted(p, k) == [Row(p, k) EXCEPT !.summary = TRUE]

\* Ann shares with Bob and has a record of each kind, the shared one after one deleted.
Shared ==
    [Empty EXCEPT !["account"] = {Row(ann, ann), Row(bob, bob)},
                  !["user_identity"] = {Row(ann, ann), Row(bob, bob)},
                  !["agent"] = {Row(ann, ann)},
                  !["shared_record"] = {Row(ann, 2)},
                  !["memory_record"] = {Noted(ann, 1)},
                  !["tenant_access"] = {Row(ann, bob)},
                  !["tenant_invite"] = {Row(ann, code)}]

\* Ann has logged in and stored nothing yet.
Young == [Empty EXCEPT !["account"] = {Row(ann, ann)}, !["user_identity"] = {Row(ann, ann)}]

MCStarts == {[store |-> Shared, writes |-> 1], [store |-> Young, writes |-> 2]}

\* Ann is purged and imports again while the tool runs.
MCBusyStarts == {[store |-> Shared, writes |-> 2]}

\* The processes of the tool are interchangeable.
Symmetry == Permutations(Tools)
=============================================================================
