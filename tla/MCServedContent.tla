--------------------------- MODULE MCServedContent ---------------------------
(* Model-checking instance of ServedContent: two callers at a time.         *)
EXTENDS ServedContent

CONSTANTS c1, c2

MCCallers == {c1, c2}

Cast(one, another) == [c \in MCCallers |-> IF c = c1 THEN one ELSE another]

Playing(role, face) == [role |-> role, face |-> face]

\* A writer on each face, and a reader of every kind beside one of them or beside
\* an anchor.
MCCasts ==
    {Cast(Playing("writer", "tool"), Playing("writer", "http")),
     Cast(Playing("reader", "tool"), Playing("writer", "http")),
     Cast(Playing("reader", "http"), Playing("writer", "tool")),
     Cast(Playing("reader", "prompt"), Playing("anchor", "tool"))}
=============================================================================
