----------------------------- MODULE MCFirstLogin -----------------------------
(* Model-checking instance of FirstLogin.                                   *)
EXTENDS FirstLogin, TLC

\* Logins are interchangeable, and so are people.
Symmetry == Permutations(Requests) \cup Permutations(Pairs)
=============================================================================
