------------------------- MODULE RecordEditsProofs -------------------------
(***************************************************************************)
(* What TLAPS proves of RecordEdits, for any number of calls.              *)
(***************************************************************************)
EXTENDS RecordEdits, TLAPS

-----------------------------------------------------------------------------
(* The inductive invariant.                                                 *)

\* A body about to be written is a whole operation on a body the record had.
PendingIsWhole(c) ==
    (call[c].pc = "write" /\ call[c].op \in BodyOps) =>
        \E b \in past : call[c].body \in Transformed(call[c].op, c, call[c].old, b)

Mentions(body, c) == \E i \in DOMAIN body : body[i] = c

\* The word of a call that has not succeeded is nowhere but with that call: not in
\* the record, and not in what another call has read and is about to write.
Unseen(c) ==
    call[c].pc # "ok" =>
        /\ ~Mentions(row.body, c)
        /\ c \notin {row.summary, row.archived, row.deleted}
        /\ \A d \in Calls \ {c} : ~Mentions(call[d].body, c)

EditsInv ==
    /\ TypeOK
    /\ \A c \in Calls : call[c].pc = "read" => call[c].op \in BodyOps
    /\ \A c \in Calls : PendingIsWhole(c)
    /\ \A c \in Calls : Unseen(c)

-----------------------------------------------------------------------------
(* What the transformations make of a body.                                 *)

\* Every word of n is new or was there before, in body.
OnlyAdds(n, body, new) ==
    /\ n \in Bodies
    /\ \A w : Mentions(n, w) => w = new \/ Mentions(body, w)

\* One replacement, or all of them, puts in nothing but the new word.
LEMMA EditOnlyAdds ==
    ASSUME NEW body \in Bodies, NEW e, e.new \in Words, NEW n \in ApplyEdit(body, e)
    PROVE  OnlyAdds(n, body, e.new)
<1> DEFINE all == [i \in DOMAIN body |-> IF body[i] = e.old THEN e.new ELSE body[i]]
           one == [body EXCEPT ![First(body, e.old)] = e.new]
<1>1. n = all \/ n = one
  BY DEF ApplyEdit
<1>2. CASE n = all
  <2>1. n \in Bodies
    BY <1>2 DEF Bodies
  <2>2. QED
    BY <1>2, <2>1 DEF OnlyAdds, Mentions, Bodies
<1>3. CASE n = one
  <2> DEFINE k == First(body, e.old)
  <2> HIDE DEF k
  <2>0. n = [i \in DOMAIN body |-> IF i = k THEN e.new ELSE body[i]]
    BY <1>3 DEF k
  <2>1. n \in Bodies
    BY <2>0 DEF Bodies
  <2>2. QED
    BY <1>3, <2>1 DEF OnlyAdds, Mentions, Bodies
<1>4. QED
  BY <1>1, <1>2, <1>3

\* No operation puts anything into a body but the word of the call that asks for it.
LEMMA TransformedOnlyAdds ==
    ASSUME NEW op \in BodyOps, NEW c \in Calls, NEW old, NEW body \in Bodies,
           NEW n \in Transformed(op, c, old, body)
    PROVE  OnlyAdds(n, body, c)
<1> DEFINE edit(o, all) == [old |-> o, new |-> c, all |-> all]
<1>0. c \in Words
  BY DEF Words
<1>1. CASE op = "append"
  <2>1. n = Append(body, c)
    BY <1>1 DEF Transformed
  <2>2. QED
    BY <1>0, <2>1 DEF OnlyAdds, Mentions, Bodies
<1>2. CASE op = "prepend"
  <2>1. n = <<c>> \o body
    BY <1>2 DEF Transformed
  <2>2. QED
    BY <1>0, <2>1 DEF OnlyAdds, Mentions, Bodies
<1>3. CASE op = "edit"
  <2>1. n \in ApplyEdit(body, edit(old, FALSE))
    BY <1>3 DEF Transformed
  <2>2. QED
    BY <1>0, <2>1, EditOnlyAdds
<1>4. CASE op = "replace_all"
  <2>1. n \in ApplyEdit(body, edit(old, TRUE))
    BY <1>4 DEF Transformed
  <2>2. QED
    BY <1>0, <2>1, EditOnlyAdds
<1>5. CASE op = "multi_edit"
  <2>1. PICK b \in ApplyEdit(body, edit(old, TRUE)) : n \in ApplyEdit(b, edit(c, FALSE))
    BY <1>5 DEF Transformed, ApplyEdits
  <2>2. OnlyAdds(b, body, c)
    BY <1>0, EditOnlyAdds
  <2>3. OnlyAdds(n, b, c)
    BY <1>0, <2>1, <2>2, EditOnlyAdds DEF OnlyAdds
  <2>4. QED
    BY <2>2, <2>3 DEF OnlyAdds
<1>6. QED
  BY <1>1, <1>2, <1>3, <1>4, <1>5 DEF BodyOps

-----------------------------------------------------------------------------
(* What a step does to the calls.                                           *)

\* Only call c moves, and it goes on asking for what it asked.
GoesOn(c, pc, body) ==
    /\ call' \in [Calls -> CallRecords]
    /\ call'[c].pc = pc /\ call'[c].body = body
    /\ call'[c].op = call[c].op /\ call'[c].old = call[c].old
    /\ \A d \in Calls \ {c} : call'[d] = call[d]

\* A call that ends keeps what it asked for and what it read.
LEMMA EndGoesOn ==
    ASSUME TypeOK, NEW c \in Calls, NEW result \in Pcs, End(c, result)
    PROVE  GoesOn(c, result, call[c].body)
<1> DEFINE gone == row'.deleted # Null
<1>1. call' = [call EXCEPT ![c].pc = result, ![c].gone = gone] /\ gone \in BOOLEAN
  BY DEF End
<1> HIDE DEF gone
<1>2. /\ call'[c] = [call[c] EXCEPT !.pc = result, !.gone = gone]
      /\ \A d \in Calls \ {c} : call'[d] = call[d]
  BY <1>1 DEF TypeOK, CallRecords
<1>3. call[c] \in CallRecords
  BY DEF TypeOK
<1>4. /\ call'[c] \in CallRecords /\ call'[c].pc = result /\ call'[c].op = call[c].op
      /\ call'[c].old = call[c].old /\ call'[c].body = call[c].body
  <2> DEFINE ended == [call[c] EXCEPT !.pc = result]
  <2>1. /\ ended \in CallRecords /\ ended.pc = result /\ ended.op = call[c].op
        /\ ended.old = call[c].old /\ ended.body = call[c].body
    BY <1>3 DEF CallRecords
  <2>2. call'[c] = [ended EXCEPT !.gone = gone] /\ gone \in BOOLEAN
    BY <1>1, <1>2
  <2> HIDE DEF ended
  <2>3. QED
    BY <2>1, <2>2 DEF CallRecords
<1>5. call' = [call EXCEPT ![c] = call'[c]]
  BY <1>1, <1>2 DEF TypeOK
<1>6. call' \in [Calls -> CallRecords]
  BY <1>4, <1>5 DEF TypeOK
<1>7. QED
  BY <1>2, <1>4, <1>6 DEF GoesOn

\* Call c takes body for the text it will write.
Fetch(c, body) == call' = [call EXCEPT ![c].pc = "write", ![c].body = body]

\* A call that has read the body holds the result of its own transformation.
LEMMA ReadGoesOn ==
    ASSUME TypeOK, NEW c \in Calls, NEW body \in Bodies, Fetch(c, body)
    PROVE  GoesOn(c, "write", body)
<1>1. /\ call'[c] = [call[c] EXCEPT !.pc = "write", !.body = body]
      /\ \A d \in Calls \ {c} : call'[d] = call[d]
  BY DEF TypeOK, CallRecords, Fetch
<1>2. call[c] \in CallRecords
  BY DEF TypeOK
<1>3. /\ call'[c] \in CallRecords /\ call'[c].pc = "write" /\ call'[c].op = call[c].op
      /\ call'[c].old = call[c].old /\ call'[c].body = body
  <2> DEFINE ready == [call[c] EXCEPT !.pc = "write"]
  <2>1. /\ ready \in CallRecords /\ ready.pc = "write" /\ ready.op = call[c].op
        /\ ready.old = call[c].old
    BY <1>2 DEF CallRecords, Pcs
  <2>2. call'[c] = [ready EXCEPT !.body = body]
    BY <1>1
  <2> HIDE DEF ready
  <2>3. QED
    BY <2>1, <2>2 DEF CallRecords
<1>4. call' = [call EXCEPT ![c] = call'[c]]
  BY <1>1 DEF TypeOK, Fetch
<1>5. call' \in [Calls -> CallRecords]
  BY <1>3, <1>4 DEF TypeOK
<1>6. QED
  BY <1>1, <1>3, <1>5 DEF GoesOn

\* A call that only changes its place in the protocol.
LEMMA PcGoesOn ==
    ASSUME TypeOK, NEW c \in Calls, NEW pc \in Pcs, call' = [call EXCEPT ![c].pc = pc]
    PROVE  GoesOn(c, pc, call[c].body)
<1>1. /\ call'[c] = [call[c] EXCEPT !.pc = pc]
      /\ \A d \in Calls \ {c} : call'[d] = call[d]
  BY DEF TypeOK
<1>2. call[c] \in CallRecords
  BY DEF TypeOK
<1>3. /\ call'[c] \in CallRecords /\ call'[c].pc = pc /\ call'[c].op = call[c].op
      /\ call'[c].old = call[c].old /\ call'[c].body = call[c].body
  BY <1>1, <1>2 DEF CallRecords
<1>4. call' \in [Calls -> CallRecords]
  BY <1>1, <1>3 DEF TypeOK
<1>5. QED
  BY <1>1, <1>3, <1>4 DEF GoesOn

\* What a call asks for is told by its first step.
LEMMA BeginAsks ==
    ASSUME TypeOK, NEW c \in Calls, NEW op \in Ops, NEW old \in Words, Begin(c, op, old)
    PROVE  /\ call' \in [Calls -> CallRecords]
           /\ call'[c].pc = IF op = "insert" THEN "write" ELSE "locate"
           /\ call'[c].op = op /\ call'[c].body = call[c].body
           /\ \A d \in Calls \ {c} : call'[d] = call[d]
<1> DEFINE pc == IF op = "insert" THEN "write" ELSE "locate"
<1>1. call' = [call EXCEPT ![c].pc = pc, ![c].op = op, ![c].old = old]
  BY DEF Begin
<1>2. pc \in Pcs /\ op \in AllOps \cup {"none"}
  BY OpsAssumption DEF Pcs
<1> HIDE DEF pc
<1>3. /\ call'[c] = [call[c] EXCEPT !.pc = pc, !.op = op, !.old = old]
      /\ \A d \in Calls \ {c} : call'[d] = call[d]
  BY <1>1 DEF TypeOK, CallRecords
<1>4. call[c] \in CallRecords
  BY DEF TypeOK
<1>5. /\ call'[c] \in CallRecords /\ call'[c].pc = pc /\ call'[c].op = op
      /\ call'[c].body = call[c].body
  <2> DEFINE asked == [[call[c] EXCEPT !.pc = pc] EXCEPT !.op = op]
  <2>1. asked \in CallRecords /\ asked.pc = pc /\ asked.op = op /\ asked.body = call[c].body
    BY <1>2, <1>4 DEF CallRecords
  <2>2. call'[c] = [asked EXCEPT !.old = old]
    BY <1>3
  <2> HIDE DEF asked
  <2>3. QED
    BY <2>1, <2>2 DEF CallRecords
<1>6. call' = [call EXCEPT ![c] = call'[c]]
  BY <1>1, <1>3 DEF TypeOK
<1>7. call' \in [Calls -> CallRecords]
  BY <1>5, <1>6 DEF TypeOK
<1>8. QED
  BY <1>3, <1>5, <1>7 DEF pc

-----------------------------------------------------------------------------
(* The invariant is inductive.                                              *)

\* A step of call c adds no word but c's own, and to the record only when it ends well.
AddsOwnWord(c, pc, body) ==
    /\ pc = "ok" \/ row' = row
    /\ \A d \in Calls \ {c} :
          /\ Mentions(body, d) => Mentions(row.body, d) \/ Mentions(call[c].body, d)
          /\ Mentions(row'.body, d) => Mentions(row.body, d) \/ Mentions(call[c].body, d)
          /\ d \in {row'.summary, row'.archived, row'.deleted} =>
                d \in {row.summary, row.archived, row.deleted}

\* What is left to show of a step that a call makes after its first.
LEMMA Preserved ==
    ASSUME EditsInv, NEW c \in Calls, NEW pc, NEW body, call[c].pc # "ok",
           GoesOn(c, pc, body), AddsOwnWord(c, pc, body),
           row' \in Rows, past \subseteq past', row'.body \in past',
           pc = "read" => call[c].op \in BodyOps,
           (pc = "write" /\ call[c].op \in BodyOps) =>
                \E b \in past : body \in Transformed(call[c].op, c, call[c].old, b)
    PROVE  EditsInv'
<1>1. TypeOK'
  BY DEF TypeOK, GoesOn
<1>2. \A d \in Calls : call'[d].pc = "read" => call'[d].op \in BodyOps
  BY DEF EditsInv, GoesOn
<1>3. \A d \in Calls : PendingIsWhole(d)'
  BY DEF EditsInv, GoesOn, PendingIsWhole
<1>4. ASSUME NEW d \in Calls
      PROVE  Unseen(d)'
  <2>1. Unseen(d) /\ Unseen(c)
    BY DEF EditsInv
  <2>2. CASE d = c
    BY <2>1, <2>2 DEF Unseen, GoesOn, AddsOwnWord
  <2>3. CASE d # c
    BY <2>1, <2>3 DEF Unseen, GoesOn, AddsOwnWord
  <2>4. QED
    BY <2>2, <2>3
<1>5. QED
  BY <1>1, <1>2, <1>3, <1>4 DEF EditsInv

\* A step that leaves the record, and what the call has read, as they are.
LEMMA PreservedSilently ==
    ASSUME EditsInv, NEW c \in Calls, NEW pc, call[c].pc # "ok",
           GoesOn(c, pc, call[c].body), UNCHANGED <<row, past>>,
           pc = "read" => call[c].op \in BodyOps,
           pc = "write" => call[c].op \notin BodyOps
    PROVE  EditsInv'
<1>1. AddsOwnWord(c, pc, call[c].body)
  BY DEF AddsOwnWord
<1>2. row' \in Rows /\ row'.body \in past'
  BY DEF EditsInv, TypeOK
<1>3. QED
  BY <1>1, <1>2, Preserved

\* A call's last step, when it ends well: it writes what it read, or its own word.
LEMMA PreservedByWrite ==
    ASSUME EditsInv, NEW c \in Calls, call[c].pc # "ok", End(c, "ok"), Remember, row' \in Rows,
           \A d \in Calls \ {c} :
              /\ Mentions(row'.body, d) => Mentions(row.body, d) \/ Mentions(call[c].body, d)
              /\ d \in {row'.summary, row'.archived, row'.deleted} =>
                    d \in {row.summary, row.archived, row.deleted}
    PROVE  EditsInv'
<1>1. GoesOn(c, "ok", call[c].body)
  BY EndGoesOn DEF EditsInv, Pcs
<1>2. AddsOwnWord(c, "ok", call[c].body)
  BY DEF AddsOwnWord
<1>3. past \subseteq past' /\ row'.body \in past'
  BY DEF Remember
<1>4. QED
  BY <1>1, <1>2, <1>3, Preserved

\* No step breaks the invariant.
LEMMA EditsStep ==
    ASSUME EditsInv, [Next]_vars
    PROVE  EditsInv'
<1> USE DEF Pcs
<1>0. TypeOK
  BY DEF EditsInv
<1>1. ASSUME NEW c \in Calls, NEW op \in Ops, NEW old \in Words, Begin(c, op, old)
      PROVE  EditsInv'
  <2>1. /\ call' \in [Calls -> CallRecords]
        /\ call'[c].pc = IF op = "insert" THEN "write" ELSE "locate"
        /\ call'[c].op = op /\ call'[c].body = call[c].body
        /\ \A d \in Calls \ {c} : call'[d] = call[d]
    BY <1>0, <1>1, BeginAsks
  <2>2. row' = row /\ past' = past /\ call[c].pc = "new"
    BY <1>1 DEF Begin
  <2>3. TypeOK'
    BY <1>0, <2>1, <2>2 DEF TypeOK
  <2>4. \A d \in Calls : call'[d].pc = "read" => call'[d].op \in BodyOps
    BY <2>1 DEF EditsInv
  <2>5. \A d \in Calls : PendingIsWhole(d)'
    BY <2>1, <2>2 DEF EditsInv, PendingIsWhole, BodyOps
  <2>6. \A d \in Calls : Unseen(d)'
    BY <2>1, <2>2 DEF EditsInv, Unseen
  <2>7. QED
    BY <2>3, <2>4, <2>5, <2>6 DEF EditsInv
<1>2. ASSUME NEW c \in Calls, Locate(c)
      PROVE  EditsInv'
  <2> DEFINE pc == IF call[c].op \in BodyOps THEN "read" ELSE "write"
  <2>1. GoesOn(c, pc, call[c].body)
    BY <1>0, <1>2, PcGoesOn DEF Locate
  <2>2. QED
    BY <1>2, <2>1, PreservedSilently DEF Locate
<1>3. ASSUME NEW c \in Calls, NotFound(c) \/ Abort(c)
      PROVE  EditsInv'
  <2>1. GoesOn(c, "refused", call[c].body)
    BY <1>0, <1>3, EndGoesOn DEF NotFound, Abort
  <2>2. QED
    BY <1>3, <2>1, PreservedSilently DEF NotFound, Abort
<1>4. ASSUME NEW c \in Calls, ReadBody(c)
      PROVE  EditsInv'
  <2>1. CASE call' = [call EXCEPT ![c].pc = "refused"]
    <3>1. GoesOn(c, "refused", call[c].body)
      BY <1>0, <2>1, PcGoesOn
    <3>2. QED
      BY <1>4, <3>1, PreservedSilently DEF ReadBody
  <2>2. ASSUME NEW body \in Transformed(call[c].op, c, call[c].old, row.body), Fetch(c, body)
        PROVE  EditsInv'
    <3>1. call[c].op \in BodyOps /\ row.body \in past /\ row.body \in Bodies /\ row \in Rows
      BY <1>4 DEF EditsInv, TypeOK, ReadBody, Rows
    <3>2. OnlyAdds(body, row.body, c)
      BY <3>1, TransformedOnlyAdds
    <3>3. GoesOn(c, "write", body)
      BY <1>0, <2>2, <3>2, ReadGoesOn DEF OnlyAdds
    <3>4. AddsOwnWord(c, "write", body)
      BY <1>4, <3>2 DEF ReadBody, AddsOwnWord, OnlyAdds
    <3>5. QED
      BY <1>4, <3>1, <3>3, <3>4, Preserved DEF ReadBody
  <2>3. QED
    BY <1>4, <2>1, <2>2 DEF ReadBody, Fetch
<1>5. ASSUME NEW c \in Calls, WriteBody(c)
      PROVE  EditsInv'
  <2>1. row' \in Rows
    BY <1>0, <1>5 DEF TypeOK, WriteBody, Rows, CallRecords
  <2>2. /\ row'.body = call[c].body /\ row'.summary = row.summary
        /\ row'.archived = row.archived /\ row'.deleted = row.deleted
    BY <1>0, <1>5 DEF TypeOK, WriteBody, Rows
  <2>3. QED
    BY <1>5, <2>1, <2>2, PreservedByWrite DEF WriteBody
<1>6. ASSUME NEW c \in Calls, WriteSummary(c)
      PROVE  EditsInv'
  <2>1. row' \in Rows
    BY <1>0, <1>6 DEF TypeOK, WriteSummary, Rows, Stamps
  <2>2. /\ row'.body = row.body /\ row'.summary \in {c, Null}
        /\ row'.archived = row.archived /\ row'.deleted = row.deleted
    BY <1>0, <1>6 DEF TypeOK, WriteSummary, Rows
  <2>3. QED
    BY <1>6, <2>1, <2>2, PreservedByWrite, TokenAssumption DEF WriteSummary
<1>7. ASSUME NEW c \in Calls, MarkLifecycle(c)
      PROVE  EditsInv'
  <2>1. row' \in Rows
    BY <1>0, <1>7 DEF TypeOK, MarkLifecycle, Stamped, Rows, Stamps
  <2>2. /\ row'.body = row.body /\ row'.summary = row.summary
        /\ row'.archived \in {c, row.archived} /\ row'.deleted \in {c, row.deleted}
    BY <1>0, <1>7 DEF TypeOK, MarkLifecycle, Stamped, Rows
  <2>3. QED
    BY <1>7, <2>1, <2>2, PreservedByWrite DEF MarkLifecycle
<1>8. ASSUME NEW c \in Calls, Upsert(c)
      PROVE  EditsInv'
  <2>1. row' = [body |-> <<c>>, summary |-> c, archived |-> Null, deleted |-> Null]
    BY <1>8 DEF Upsert
  <2>2. <<c>> \in Bodies
    BY DEF Bodies, Words
  <2>3. row' \in Rows
    BY <2>1, <2>2 DEF Rows, Stamps
  <2>4. \A d \in Calls \ {c} : ~Mentions(row'.body, d)
    BY <2>1 DEF Mentions
  <2>5. QED
    BY <1>8, <2>1, <2>3, <2>4, PreservedByWrite, TokenAssumption DEF Upsert
<1>9. CASE UNCHANGED vars
  BY <1>9 DEF EditsInv, TypeOK, PendingIsWhole, Unseen, vars
<1>10. QED
  BY <1>1, <1>2, <1>3, <1>4, <1>5, <1>6, <1>7, <1>8, <1>9 DEF Next, Advance

-----------------------------------------------------------------------------
(* The results.                                                             *)

\* The invariant holds from the start and for good.
THEOREM Invariance == Spec => []EditsInv
<1>1. Init => EditsInv
  <2> SUFFICES ASSUME Init
               PROVE  EditsInv
    OBVIOUS
  <2>1. row = [body |-> <<Base, Base>>, summary |-> Null, archived |-> Null, deleted |-> Null]
    BY DEF Init
  <2>2. row \in Rows
    BY <2>1 DEF Rows, Bodies, Words, Stamps
  <2>3. call \in [Calls -> CallRecords] /\ \A c \in Calls : call[c].pc = "new" /\ call[c].body = <<>>
    BY DEF Init, NoCall, CallRecords, Pcs, Bodies, Words
  <2>4. \A c \in Calls : ~Mentions(row.body, c)
    BY <2>1, TokenAssumption DEF Mentions
  <2>5. \A c, d \in Calls : ~Mentions(call[d].body, c)
    BY <2>3 DEF Mentions
  <2>6. \A c \in Calls : Unseen(c)
    BY <2>1, <2>4, <2>5, TokenAssumption DEF Unseen
  <2>7. QED
    BY <2>2, <2>3, <2>6 DEF EditsInv, TypeOK, Init, PendingIsWhole
<1>2. QED
  BY <1>1, EditsStep, PTL DEF Spec

\* RecordIsSound: the record and the calls stay of their types, and a call that was
\* refused (its old text was absent or ambiguous, the record was a tombstone, or the
\* write lock timed out) has left nothing in the body, the summary or the stamps.
THEOREM NoTraceOfRefused == Spec => []RecordIsSound
<1>1. EditsInv => RecordIsSound
  BY DEF EditsInv, Unseen, Mentions, RecordIsSound, RefusedLeavesNoTrace
<1>2. QED
  BY <1>1, Invariance, PTL

\* EveryBodyIsWhole: whatever the two statements of _rewrite interleave with, what is
\* stored is a whole operation applied to one body that the record really had.
THEOREM WholeBodies == Spec => EveryBodyIsWhole
<1> DEFINE Whole ==
      \/ row'.body \in past
      \/ \E c \in Calls : /\ call[c].op \in BodyOps
                          /\ \E b \in past :
                                row'.body \in Transformed(call[c].op, c, call[c].old, b)
      \/ \E c \in Calls : call[c].op = "insert" /\ row'.body = <<c>>
<1>1. EditsInv /\ [Next]_vars => [Whole]_vars
  <2> SUFFICES ASSUME EditsInv, Next
               PROVE  Whole
    BY DEF vars
  <2>1. TypeOK /\ row \in Rows /\ row.body \in past
    BY DEF EditsInv, TypeOK
  <2>2. row' = row => Whole
    BY <2>1
  <2>3. ASSUME NEW c \in Calls, WriteBody(c)
        PROVE  Whole
    BY <2>1, <2>3 DEF EditsInv, PendingIsWhole, WriteBody, Rows
  <2>4. ASSUME NEW c \in Calls, WriteSummary(c) \/ MarkLifecycle(c)
        PROVE  Whole
    <3>1. row'.body = row.body
      BY <2>1, <2>4 DEF WriteSummary, MarkLifecycle, Rows
    <3>2. QED
      BY <2>1, <3>1
  <2>5. ASSUME NEW c \in Calls, Upsert(c)
        PROVE  Whole
    BY <2>5 DEF Upsert
  <2>6. QED
    BY <2>2, <2>3, <2>4, <2>5
       DEF Next, Advance, Begin, Locate, NotFound, ReadBody, Abort
<1>2. QED
  BY <1>1, Invariance, PTL DEF Spec, EveryBodyIsWhole

\* BodyEditsKeepTheRest: no step of a body edit touches the summary or the stamps,
\* however old the row is that it read.
THEOREM RestIsKept == Spec => BodyEditsKeepTheRest
<1> DEFINE Kept == \A c \in Calls : (call[c].op \in BodyOps /\ call'[c] # call[c]) =>
                      /\ row'.summary = row.summary
                      /\ row'.archived = row.archived
                      /\ row'.deleted = row.deleted
<1>1. EditsInv /\ [Next]_vars => [Kept]_vars
  <2> SUFFICES ASSUME EditsInv, Next
               PROVE  Kept
    BY DEF vars
  <2>1. TypeOK /\ row \in Rows
    BY DEF EditsInv, TypeOK
  <2>2. row' = row => Kept
    OBVIOUS
  <2>3. ASSUME NEW c \in Calls, WriteBody(c)
        PROVE  Kept
    BY <2>1, <2>3 DEF WriteBody, Rows
  <2>4. ASSUME NEW c \in Calls, WriteSummary(c) \/ MarkLifecycle(c) \/ Upsert(c)
        PROVE  Kept
    <3>1. call[c].op \notin BodyOps
      BY <2>4 DEF WriteSummary, MarkLifecycle, Upsert, MetadataOps, LifecycleOps, BodyOps
    <3>2. \A d \in Calls \ {c} : call'[d] = call[d]
      BY <2>1, <2>4, EndGoesOn DEF WriteSummary, MarkLifecycle, Upsert, GoesOn, Pcs
    <3>3. QED
      BY <3>1, <3>2
  <2>5. QED
    BY <2>2, <2>3, <2>4
       DEF Next, Advance, Begin, Locate, NotFound, ReadBody, Abort
<1>2. QED
  BY <1>1, Invariance, PTL DEF Spec, BodyEditsKeepTheRest
=============================================================================
