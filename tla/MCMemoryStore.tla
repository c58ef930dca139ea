---------------------------- MODULE MCMemoryStore ----------------------------
(* Model-checking instance of MemoryStore and its refinement.               *)
EXTENDS MemoryStoreRefinement, TLC

\* Tenants, agents and uuids are interchangeable.
Symmetry == Permutations(Tenants) \cup Permutations(Agents) \cup Permutations(Uuids)
=============================================================================
