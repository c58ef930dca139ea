---------------------------- MODULE MCRecordEdits ----------------------------
(* Model-checking instance of RecordEdits.                                  *)
EXTENDS RecordEdits, TLC

\* Calls are interchangeable.
Symmetry == Permutations(Calls)

\* The operations that put text into a record without an old text to find.
Additions == {"append", "prepend"}

\* One operation of each way to write.
Mixed == {"append", "edit", "multi_edit", "set_summary", "archive", "soft_delete", "insert"}
=============================================================================
