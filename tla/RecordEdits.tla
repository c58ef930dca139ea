----------------------------- MODULE RecordEdits -----------------------------
(***************************************************************************)
(* Concurrent writes to one memory record, statement by statement.         *)
(*                                                                         *)
(* The drivers run each SELECT of a repository method in its own snapshot  *)
(* and take the write lock only at the UPDATE, which commits with the      *)
(* method.  So a body edit is three steps (locate, read, write), a         *)
(* metadata edit and a lifecycle mark are two (locate, write), and the     *)
(* steps of other calls fall between them.  A call contributes its own     *)
(* token, its name, which makes every text and stamp traceable to it.      *)
(***************************************************************************)
EXTENDS Naturals, Sequences

CONSTANTS
    Calls,      \* requests, each made once
    Ops,        \* the operations they may ask for
    Base,       \* a word of the body the record starts with
    Null        \* SQL NULL

AllOps == {"append", "prepend", "edit", "replace_all", "multi_edit",
           "set_summary", "clear_summary", "archive", "soft_delete", "insert"}

ASSUME OpsAssumption   == Ops \subseteq AllOps
ASSUME TokenAssumption == Base # Null /\ Calls \cap {Base, Null} = {}

BodyOps     == {"append", "prepend", "edit", "replace_all", "multi_edit"}
MetadataOps == {"set_summary", "clear_summary"}
LifecycleOps == {"archive", "soft_delete"}
EditOps == {"edit", "replace_all", "multi_edit"}    \* those that name an old text

VARIABLES
    row,        \* the record: its body (words), summary and lifecycle stamps
    call,       \* the requests
    past        \* history: every body the record has had

vars == <<row, call, past>>

Words  == Calls \cup {Base}
Stamps == Calls \cup {Null}
Bodies == Seq(Words)

Pcs == {"new", "locate", "read", "write", "ok", "refused"}

Rows == [body : Bodies, summary : Stamps, archived : Stamps, deleted : Stamps]

CallRecords == [pc : Pcs, op : AllOps \cup {"none"}, old : Words, body : Bodies, gone : BOOLEAN]

NoCall == [pc |-> "new", op |-> "none", old |-> Base, body |-> <<>>, gone |-> FALSE]

\* Twice the same word: an edit of it is ambiguous.
Init ==
    /\ row  = [body |-> <<Base, Base>>, summary |-> Null, archived |-> Null, deleted |-> Null]
    /\ call = [c \in Calls |-> NoCall]
    /\ past = {row.body}

-----------------------------------------------------------------------------
(* What an operation makes of a body: a set, empty where it raises.         *)

Occurrences(body, w) == {i \in DOMAIN body : body[i] = w}
First(body, w) == CHOOSE i \in Occurrences(body, w) :
                      \A j \in Occurrences(body, w) : i <= j

\* _apply_edit: the text must occur, and only once unless all are replaced.
ApplyEdit(body, e) ==
    LET found == Occurrences(body, e.old)
    IN  IF found = {} \/ (~e.all /\ \E i, j \in found : i # j) THEN {}
        ELSE IF e.all THEN {[i \in DOMAIN body |-> IF body[i] = e.old THEN e.new ELSE body[i]]}
        ELSE {[body EXCEPT ![First(body, e.old)] = e.new]}

BugApplyEditsKeepsGoing(body, first, second) ==
    LET edited(b, e) == IF ApplyEdit(b, e) = {} THEN {b} ELSE ApplyEdit(b, e)
    IN  UNION {edited(b, second) : b \in edited(body, first)}

\* multi_edit, of two edits: each on the result of the one before, all or nothing.
ApplyEdits(body, first, second) == UNION {ApplyEdit(b, second) : b \in ApplyEdit(body, first)}

BugTransformedPartly(op, c, old, body) ==
    LET edit(o, all) == [old |-> o, new |-> c, all |-> all]
    IN  CASE op = "append"      -> {Append(body, c)}
          [] op = "prepend"     -> {<<c>> \o body}
          [] op = "edit"        -> ApplyEdit(body, edit(old, FALSE))
          [] op = "replace_all" -> ApplyEdit(body, edit(old, TRUE))
          [] op = "multi_edit"  ->
                BugApplyEditsKeepsGoing(body, edit(old, TRUE), edit(Base, FALSE))

\* A multi_edit replaces every old by its own word, then that word by itself:
\* its second edit sees the first and refuses when it finds several.
Transformed(op, c, old, body) ==
    LET edit(o, all) == [old |-> o, new |-> c, all |-> all]
    IN  CASE op = "append"      -> {Append(body, c)}
          [] op = "prepend"     -> {<<c>> \o body}
          [] op = "edit"        -> ApplyEdit(body, edit(old, FALSE))
          [] op = "replace_all" -> ApplyEdit(body, edit(old, TRUE))
          [] op = "multi_edit"  -> ApplyEdits(body, edit(old, TRUE), edit(c, FALSE))

-----------------------------------------------------------------------------
(* The steps of a call.                                                     *)

Remember == past' = past \cup {row'.body}

End(c, result) == call' = [call EXCEPT ![c].pc = result, ![c].gone = (row'.deleted # Null)]

Begin(c, op, old) ==
    /\ call[c].pc = "new"
    /\ op \in EditOps \/ old = Base
    /\ call' = [call EXCEPT ![c].pc = IF op = "insert" THEN "write" ELSE "locate",
                            ![c].op = op, ![c].old = old]
    /\ UNCHANGED <<row, past>>

\* _locate: tombstones are found only by archive and soft_delete.
Locatable(c) == row.deleted = Null \/ call[c].op \in LifecycleOps

Locate(c) ==
    /\ call[c].pc = "locate" /\ Locatable(c)
    /\ call' = [call EXCEPT ![c].pc = IF call[c].op \in BodyOps THEN "read" ELSE "write"]
    /\ UNCHANGED <<row, past>>

NotFound(c) ==
    /\ call[c].pc = "locate" /\ ~Locatable(c)
    /\ UNCHANGED <<row, past>>
    /\ End(c, "refused")

BugReadBodyPartly(c) ==
    /\ call[c].pc = "read"
    /\ LET results == BugTransformedPartly(call[c].op, c, call[c].old, row.body)
       IN  \/ \E body \in results :
                 call' = [call EXCEPT ![c].pc = "write", ![c].body = body]
           \/ results = {} /\ call' = [call EXCEPT ![c].pc = "refused"]
    /\ UNCHANGED <<row, past>>

\* The second SELECT of _rewrite, and the transformation of what it returned.
ReadBody(c) ==
    /\ call[c].pc = "read"
    /\ LET results == Transformed(call[c].op, c, call[c].old, row.body)
       IN  \/ \E body \in results :
                 call' = [call EXCEPT ![c].pc = "write", ![c].body = body]
           \/ results = {} /\ call' = [call EXCEPT ![c].pc = "refused"]
    /\ UNCHANGED <<row, past>>

BugWriteBodyWholeRow(c) ==
    /\ call[c].pc = "write" /\ call[c].op \in BodyOps
    /\ row' = [row EXCEPT !.body = call[c].body, !.deleted = Null]
    /\ Remember
    /\ End(c, "ok")

\* UPDATE ... SET full_content: the row is addressed by uuid alone, so what was
\* read is not compared and a tombstone is not noticed.
WriteBody(c) ==
    /\ call[c].pc = "write" /\ call[c].op \in BodyOps
    /\ row' = [row EXCEPT !.body = call[c].body]
    /\ Remember
    /\ End(c, "ok")

\* UPDATE ... SET content_summary: the value given, or NULL when it is cleared.
WriteSummary(c) ==
    /\ call[c].pc = "write" /\ call[c].op \in MetadataOps
    /\ row' = [row EXCEPT !.summary = IF call[c].op = "set_summary" THEN c ELSE Null]
    /\ Remember
    /\ End(c, "ok")

\* COALESCE(column, now), evaluated by the UPDATE itself.
Stamped(date, c) == IF date = Null THEN c ELSE date

MarkLifecycle(c) ==
    /\ call[c].pc = "write" /\ call[c].op \in LifecycleOps
    /\ row' = IF call[c].op = "archive"
              THEN [row EXCEPT !.archived = Stamped(@, c)]
              ELSE [row EXCEPT !.deleted = Stamped(@, c)]
    /\ Remember
    /\ End(c, "ok")

\* An insert that names the record's uuid: one upsert, which writes every field.
Upsert(c) ==
    /\ call[c].pc = "write" /\ call[c].op = "insert"
    /\ row' = [body |-> <<c>>, summary |-> c, archived |-> Null, deleted |-> Null]
    /\ Remember
    /\ End(c, "ok")

BugAbortHalfway(c) ==
    /\ call[c].pc = "write"
    /\ row' = IF call[c].op \in BodyOps THEN [row EXCEPT !.body = call[c].body] ELSE row
    /\ Remember
    /\ End(c, "refused")

\* The write lock is not granted in time, or the server stops: nothing is written.
Abort(c) ==
    /\ call[c].pc \in {"locate", "read", "write"}
    /\ UNCHANGED <<row, past>>
    /\ End(c, "refused")

Advance(c) ==
    \/ Locate(c)
    \/ NotFound(c)
    \/ ReadBody(c)
    \/ WriteBody(c)
    \/ WriteSummary(c)
    \/ MarkLifecycle(c)
    \/ Upsert(c)
    \/ Abort(c)

Next ==
    \/ \E c \in Calls, op \in Ops, old \in Words : Begin(c, op, old)
    \/ \E c \in Calls : Advance(c)

Spec == Init /\ [][Next]_vars

-----------------------------------------------------------------------------
(* Properties.                                                              *)

TypeOK ==
    /\ row \in Rows
    /\ call \in [Calls -> CallRecords]
    /\ row.body \in past

Done(c, ops) == call[c].pc = "ok" /\ call[c].op \in ops

\* No torn bodies: whatever is stored is a whole operation applied to a body the
\* record really had, also when a multi_edit fails half-way or loses a race.
EveryBodyIsWhole ==
    [][\/ row'.body \in past
       \/ \E c \in Calls : /\ call[c].op \in BodyOps
                           /\ \E b \in past :
                                 row'.body \in Transformed(call[c].op, c, call[c].old, b)
       \/ \E c \in Calls : call[c].op = "insert" /\ row'.body = <<c>>]_vars

\* A call that was refused left nothing behind.
RefusedLeavesNoTrace ==
    \A c \in Calls : call[c].pc = "refused" =>
        /\ \A i \in DOMAIN row.body : row.body[i] # c
        /\ c \notin {row.summary, row.archived, row.deleted}

\* The record and the calls stay what they are, and no refused call shows.
RecordIsSound == TypeOK /\ RefusedLeavesNoTrace

\* "Each field has one writer": a body edit that read the record before a
\* deletion, an archival or a change of metadata does not undo it.
BodyEditsKeepTheRest ==
    [][\A c \in Calls : (call[c].op \in BodyOps /\ call'[c] # call[c]) =>
          /\ row'.summary = row.summary
          /\ row'.archived = row.archived
          /\ row'.deleted = row.deleted]_vars

(* What the documentation says and the code does not do.                    *)

\* append "adds text to the end of a record's body": with only additions, the
\* text of every acknowledged call is in the body.
AddedTextIsThere ==
    \A c \in Calls : Done(c, {"append"}) => \E i \in DOMAIN row.body : row.body[i] = c

\* A tombstone is never surfaced: no edit hands its caller a deleted record.
TombstoneNotSurfaced == \A c \in Calls : Done(c, BodyOps \cup MetadataOps) => ~call[c].gone
=============================================================================
