-------------------------- MODULE MCSchemaMigrations --------------------------
(* Model-checking instances of SchemaMigrations.                            *)
EXTENDS SchemaMigrations, TLC

CONSTANTS r1, r2, r3

MCRunners == {r1, r2, r3}

\* Postgres with three runners, which may stop; SQLite with one, which does not.
OneOnSqlite(b)      == IF b = "sqlite" THEN {r1} ELSE MCRunners
StopsOnPostgres(b)  == IF b = "sqlite" THEN 0 ELSE 2

\* What the other configurations take: one or two runners, no stop or one.
One(b)    == {r1}
Two(b)    == {r1, r2}
Never(b)  == 0
Once(b)   == 1

\* The runners that never run on SQLite are interchangeable.
Symmetry == Permutations({r2, r3})
=============================================================================
