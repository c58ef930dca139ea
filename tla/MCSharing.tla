------------------------------ MODULE MCSharing ------------------------------
(* Model-checking instance of Sharing and its refinement.                   *)
EXTENDS SharingRefinement, TLC

CONSTANTS ann, bob, cy

\* Everybody shares one display name, so a label is ambiguous to a guest.
SameLabel == [p \in People |-> CHOOSE l \in Labels : TRUE]

\* ann alone has a display name; the others have none.
OneLabel == [p \in People |-> IF p = ann THEN CHOOSE l \in Labels : TRUE ELSE Nobody]

\* Codes and calls are interchangeable; people are too where the labels treat
\* them alike.
CodeSymmetry == Permutations(Codes) \cup Permutations(Calls)
FullSymmetry == CodeSymmetry \cup Permutations(People)
=============================================================================
