------------------------ MODULE ServedContentProofs ------------------------
(***************************************************************************)
(* What TLAPS proves of ServedContent, for any number of clients and any   *)
(* bounds.                                                                 *)
(***************************************************************************)
EXTENDS ServedContent, TLAPS

-----------------------------------------------------------------------------
(* The inductive invariant.                                                 *)

\* A template that is there has stood since the last one was served, and before
\* there is content nobody was served one.
TemplateInv ==
    /\ File("template") # 0 => File("template") \in stood
    /\ root = "none" => 0 \in stood

\* A writer past the gate holds a template that stood when it asked.
PastGate(c) ==
    /\ call[c].pc \in {"store", "done"} => call[c].has \in call[c].current
    /\ root = "none" /\ call[c].pc \in {"send", "store"} => call[c].has = 0

\* A call that composes has seen the files as they are, and what it has read among them.
Composing(c) ==
    /\ call[c].pc \in {"core", "backend", "section"} => files \in call[c].seen
    /\ call[c].pc \in {"backend", "section"} =>
           /\ root = "full" /\ call[c].text.core # 0
           /\ \E fs \in call[c].seen : fs["core"] = call[c].text.core
    /\ call[c].pc = "backend" => call[c].text.backend = 0
    /\ call[c].pc = "section" => \E fs \in call[c].seen : fs["backend"] = call[c].text.backend
    /\ call[c].pc = "rows" => call[c].seen = {}

Live(c) ==
    call[c].pc = "served" /\ call[c].seen # {} =>
        /\ \E fs \in call[c].seen : fs["core"] = call[c].text.core /\ call[c].text.core # 0
        /\ \E fs \in call[c].seen : fs["backend"] = call[c].text.backend
        /\ call[c].text.backend # 0 =>
               \E fs \in call[c].seen : fs["component"] = call[c].text.component

CallOK(c) == PastGate(c) /\ Composing(c) /\ Live(c)

ContentInv == TypeOK /\ TemplateInv /\ \A c \in Callers : CallOK(c)

-----------------------------------------------------------------------------
(* Types of what the steps are built from.                                  *)

\* What is read of a file is a revision.
LEMMA FileType ==
    ASSUME TypeOK, NEW f \in Files
    PROVE  File(f) \in Revisions
BY BoundAssumption DEF TypeOK, File, Versions, Revisions

\* The empty call is a call record.
LEMMA NoCallType == NoCall \in CallRecords
BY BoundAssumption DEF NoCall, CallRecords, NoText, Texts, Pcs, Layers, Revisions, Versions

\* So is it with another place to be in.
LEMMA AskedType ==
    ASSUME NEW pc \in Pcs
    PROVE  \E r \in CallRecords : r = [NoCall EXCEPT !.pc = pc] /\ r.pc = pc /\ r.seen = {}
<1> DEFINE r == [NoCall EXCEPT !.pc = pc]
<1>1. NoCall \in CallRecords /\ NoCall.seen = {}
  BY NoCallType DEF NoCall
<1>2. r \in CallRecords /\ r.pc = pc /\ r.seen = {}
  BY <1>1 DEF CallRecords
<1>3. QED
  BY <1>2

\* Importing modules leaves a server.
LEMMA ImportType ==
    ASSUME TypeOK, NEW M
    PROVE  Import(M) \in Servers
<1>1. \A m \in Modules : Loaded(m) \in Revisions
  BY FileType DEF Loaded, Files, TypeOK, Servers
<1>2. server \in Servers /\ server.imported \in [Modules -> Revisions]
  BY DEF TypeOK, Servers
<1> DEFINE table == [m \in Modules |-> IF m \in M THEN Loaded(m) ELSE server.imported[m]]
<1>3. table \in [Modules -> Revisions]
  BY <1>1, <1>2
<1>4. Import(M) = [server EXCEPT !.imported = table]
  BY DEF Import
<1> HIDE DEF table
<1>5. QED
  BY <1>2, <1>3, <1>4 DEF Servers

\* So does registering what the content offers, and forgetting it.
LEMMA RegisterType ==
    ASSUME NEW s \in Servers, NEW listed \in Revisions
    PROVE  [s EXCEPT !.up = TRUE, !.failed = FALSE, !.tools = TRUE, !.listed = listed] \in Servers
BY DEF Servers

LEMMA StoppedType ==
    ASSUME NEW s \in Servers
    PROVE  [s EXCEPT !.up = FALSE, !.tools = FALSE, !.listed = 0, !.imported = NoModules] \in Servers
<1>1. NoModules \in [Modules -> Revisions] /\ 0 \in Revisions
  BY BoundAssumption DEF NoModules, Revisions
<1>2. QED
  BY <1>1 DEF Servers

-----------------------------------------------------------------------------
(* What a step does to the calls.                                           *)

\* Only the call of c changes.
Moves(c) ==
    /\ call' \in [Callers -> CallRecords]
    /\ \A d \in Callers \ {c} : call'[d] = call[d]

LEMMA MovesType ==
    ASSUME TypeOK, NEW c \in Callers, NEW r \in CallRecords, call' = [call EXCEPT ![c] = r]
    PROVE  Moves(c) /\ call'[c] = r
BY DEF TypeOK, Moves

\* A call that another caller's step leaves alone stays in order.
LEMMA Frame ==
    ASSUME ContentInv, NEW c \in Callers, Moves(c), CallOK(c)',
           UNCHANGED <<root, files, edits, stood>>, server' \in Servers
    PROVE  ContentInv'
BY DEF ContentInv, TypeOK, TemplateInv, File, CallOK, PastGate, Composing, Live, Moves

-----------------------------------------------------------------------------
(* One lemma for each kind of step.                                         *)

\* A change of the checkout shows in every call that is composing.
LEMMA EditStep ==
    ASSUME ContentInv, NEW f \in Files, NEW revision \in Revisions, EditFile(f, revision)
    PROVE  ContentInv'
<1>1. TypeOK /\ TemplateInv /\ edits \in 0..MaxEdits /\ edits < MaxEdits
  BY DEF ContentInv, TypeOK, EditFile
<1>2. files' = [files EXCEPT ![f] = revision] /\ edits' = edits + 1 /\ root' = root
  BY DEF EditFile
<1>3. files' \in Versions
  BY <1>1, <1>2 DEF TypeOK, Versions
<1>4. \A c \in Callers :
        call'[c] = IF call[c].pc \in {"core", "backend", "section"}
                     THEN [call[c] EXCEPT !.seen = @ \cup {files'}] ELSE call[c]
  BY DEF EditFile, Seen
<1>5. ASSUME NEW c \in Callers
      PROVE  /\ call'[c] \in CallRecords
             /\ call'[c].pc = call[c].pc /\ call'[c].has = call[c].has
             /\ call'[c].current = call[c].current /\ call'[c].text = call[c].text
             /\ call'[c].seen = IF call[c].pc \in {"core", "backend", "section"}
                                  THEN call[c].seen \cup {files'} ELSE call[c].seen
  <2>1. call[c] \in CallRecords
    BY <1>1 DEF TypeOK
  <2>2. call[c].pc \in {"core", "backend", "section"} =>
            call'[c] = [call[c] EXCEPT !.seen = call[c].seen \cup {files'}]
    BY <1>4
  <2>3. call[c].pc \notin {"core", "backend", "section"} => call'[c] = call[c]
    BY <1>4
  <2>4. QED
    BY <1>3, <2>1, <2>2, <2>3 DEF CallRecords
<1>6. call' \in [Callers -> CallRecords]
  BY <1>5 DEF EditFile, Seen
<1>7. stood' = IF f = "template" THEN stood \cup ({revision} \ {0}) ELSE stood
  BY DEF EditFile
<1>8. TypeOK'
  <2>1. edits' \in 0..MaxEdits
    BY <1>1, <1>2, BoundAssumption
  <2>2. stood' \subseteq Revisions
    BY <1>1, <1>7 DEF TypeOK
  <2>3. QED
    BY <1>1, <1>3, <1>6, <2>1, <2>2 DEF TypeOK, EditFile
<1>9. TemplateInv'
  <2>1. CASE f = "template"
    BY <1>1, <1>2, <1>7, <2>1 DEF TemplateInv, File, TypeOK, Versions, Files
  <2>2. CASE f # "template"
    BY <1>1, <1>2, <1>7, <2>2 DEF TemplateInv, File, TypeOK, Versions, Files
  <2>3. QED
    BY <2>1, <2>2
<1>10. ASSUME NEW c \in Callers
       PROVE  CallOK(c)'
  <2>1. CallOK(c)
    BY DEF ContentInv
  <2>2. PastGate(c)'
    BY <1>2, <1>5, <2>1 DEF CallOK, PastGate
  <2>3. Composing(c)'
    BY <1>2, <1>5, <2>1 DEF CallOK, Composing
  <2>4. Live(c)'
    BY <1>5, <2>1 DEF CallOK, Live
  <2>5. QED
    BY <2>2, <2>3, <2>4 DEF CallOK
<1>11. QED
  BY <1>8, <1>9, <1>10 DEF ContentInv

\* Content that appears was never served before.
LEMMA CheckOutStep ==
    ASSUME ContentInv, CheckOut
    PROVE  ContentInv'
<1>1. TypeOK'
  BY BoundAssumption DEF ContentInv, TypeOK, CheckOut, Versions, Files
<1>2. TemplateInv'
  BY DEF TemplateInv, CheckOut, File
<1>3. \A c \in Callers : CallOK(c)'
  BY DEF ContentInv, CallOK, PastGate, Composing, Live, CheckOut
<1>4. QED
  BY <1>1, <1>2, <1>3 DEF ContentInv

\* A boot registers what is there now.
LEMMA BootStep ==
    ASSUME ContentInv, Boot
    PROVE  ContentInv'
<1>1. TypeOK /\ server \in Servers /\ Import({"command_set"}) \in Servers
  BY ImportType DEF ContentInv, TypeOK
<1>2. File("core") \in Revisions
  BY <1>1, FileType DEF Files
<1>3. server' \in Servers
  <2>1. CASE server' = [server EXCEPT !.up = TRUE, !.failed = FALSE]
    BY <1>1, <2>1 DEF Servers
  <2>2. CASE server' = [server EXCEPT !.failed = TRUE]
    BY <1>1, <2>2 DEF Servers
  <2>3. CASE server' = [Import({"command_set"}) EXCEPT !.up = TRUE, !.failed = FALSE,
                                                       !.tools = TRUE, !.listed = File("core")]
    BY <1>1, <1>2, <2>3, RegisterType
  <2>4. QED
    BY <2>1, <2>2, <2>3 DEF Boot
<1>4. UNCHANGED <<root, files, edits, stood, call>>
  BY DEF Boot
<1>5. QED
  BY <1>3, <1>4 DEF ContentInv, TypeOK, TemplateInv, File, CallOK, PastGate, Composing, Live

\* A stop ends the calls in progress; a writer's lost call is sent again.
LEMMA StopStep ==
    ASSUME ContentInv, Stop
    PROVE  ContentInv'
<1>1. TypeOK /\ TemplateInv
  BY DEF ContentInv
<1>2. server' \in Servers
  BY <1>1, StoppedType DEF Stop, TypeOK
<1>3. ASSUME NEW c \in Callers
      PROVE  /\ call'[c] \in CallRecords
             /\ call'[c].pc \in {"done", "served", "error"} => call'[c].pc = call[c].pc
             /\ call'[c].pc = "send" => call[c].pc \in {"send", "store"}
             /\ call'[c].pc \in {"send", "done", "served", "error", "idle"}
             /\ call'[c].has = call[c].has /\ call'[c].current = call[c].current
             /\ call'[c].text = call[c].text /\ call'[c].seen = call[c].seen
  <2> DEFINE pc == CASE call[c].pc = "store" -> "send"
                     [] call[c].pc \in {"send", "done", "served", "error"} -> call[c].pc
                     [] OTHER -> "idle"
  <2>1. call[c] \in CallRecords /\ call'[c] = [call[c] EXCEPT !.pc = pc]
    BY <1>1 DEF TypeOK, Stop, Lost
  <2>2. /\ pc \in {"send", "done", "served", "error", "idle"}
        /\ pc \in {"done", "served", "error"} => pc = call[c].pc
        /\ pc = "send" => call[c].pc \in {"send", "store"}
    OBVIOUS
  <2> HIDE DEF pc
  <2>3. QED
    BY <2>1, <2>2 DEF CallRecords, Pcs
<1>4. call' \in [Callers -> CallRecords]
  BY <1>3 DEF Stop
<1>5. \A c \in Callers : CallOK(c)'
  BY <1>3 DEF ContentInv, CallOK, PastGate, Composing, Live, Stop
<1>6. QED
  BY <1>1, <1>2, <1>4, <1>5 DEF ContentInv, TypeOK, TemplateInv, File, Stop

\* A writer reads the template there is, if any.
LEMMA ReadTemplateStep ==
    ASSUME ContentInv, NEW c \in Callers, ReadTemplate(c)
    PROVE  ContentInv'
<1> DEFINE revision == IF Offered(c) THEN File("template") ELSE 0
<1>1. TypeOK /\ TemplateInv
  BY DEF ContentInv
<1>2. revision \in Revisions /\ (revision # 0 => root = "full" /\ revision = File("template"))
  BY <1>1, FileType, BoundAssumption DEF Files, Revisions, File
<1>3. /\ call' = [call EXCEPT ![c].pc = "send", ![c].has = revision]
      /\ stood' = IF revision # 0 THEN {revision} ELSE stood
      /\ root' = root /\ files' = files /\ File("template")' = File("template")
  BY DEF ReadTemplate, File
<1> HIDE DEF revision
<1>4. /\ call'[c] = [call[c] EXCEPT !.pc = "send", !.has = revision]
      /\ \A d \in Callers \ {c} : call'[d] = call[d]
  BY <1>1, <1>3 DEF TypeOK, CallRecords
<1>5. call[c] \in CallRecords
  BY <1>1 DEF TypeOK
<1>6. call'[c] \in CallRecords /\ call'[c].pc = "send" /\ call'[c].has = revision
  BY <1>2, <1>4, <1>5 DEF CallRecords, Pcs
<1>7. call' \in [Callers -> CallRecords]
  <2>1. call' = [call EXCEPT ![c] = call'[c]]
    BY <1>1, <1>3, <1>4 DEF TypeOK
  <2>2. QED
    BY <1>1, <1>6, <2>1 DEF TypeOK
<1>8. TypeOK'
  BY <1>1, <1>2, <1>3, <1>7 DEF TypeOK, ReadTemplate
<1>9. TemplateInv'
  BY <1>1, <1>2, <1>3 DEF TemplateInv
<1>10. ASSUME NEW d \in Callers
       PROVE  CallOK(d)'
  <2>1. CallOK(d) /\ root' = root /\ files' = files
    BY DEF ContentInv, ReadTemplate
  <2>2. CASE d = c
    BY <1>2, <1>3, <1>6, <2>2 DEF CallOK, PastGate, Composing, Live
  <2>3. CASE d # c
    <3>1. call'[d] = call[d]
      BY <1>4, <2>3
    <3>2. QED
      BY <2>1, <3>1 DEF CallOK, PastGate, Composing, Live
  <2>4. QED
    BY <2>2, <2>3
<1>11. QED
  BY <1>8, <1>9, <1>10 DEF ContentInv

\* Past the gate, the writer holds a template that stands: with content, the gate
\* compares, and without, nobody was ever served one.
LEMMA CheckTemplateStep ==
    ASSUME ContentInv, NEW c \in Callers, CheckTemplate(c)
    PROVE  ContentInv'
<1> DEFINE pc == IF GatePasses(call[c].has) THEN "store" ELSE "idle"
<1>1. TypeOK /\ TemplateInv /\ call[c] \in CallRecords /\ stood \subseteq Revisions
  BY DEF ContentInv, TypeOK
<1>2. call' = [call EXCEPT ![c].current = stood, ![c].pc = pc]
  BY DEF CheckTemplate
<1>3. pc \in {"store", "idle"} /\ (pc = "store" => GatePasses(call[c].has))
  OBVIOUS
<1> HIDE DEF pc
<1>4. /\ call'[c] = [call[c] EXCEPT !.current = stood, !.pc = pc]
      /\ \A d \in Callers \ {c} : call'[d] = call[d]
  BY <1>1, <1>2 DEF TypeOK, CallRecords
<1>5. call'[c] \in CallRecords /\ call'[c].pc = pc /\ call'[c].has = call[c].has
      /\ call'[c].current = stood
  BY <1>1, <1>3, <1>4 DEF CallRecords, Pcs
<1>6. Moves(c)
  <2>1. call' = [call EXCEPT ![c] = call'[c]]
    BY <1>1, <1>2, <1>4 DEF TypeOK
  <2>2. QED
    BY <1>1, <1>5, <2>1, MovesType
<1>7. CallOK(c) /\ call[c].pc = "send" /\ root' = root
  BY DEF ContentInv, CheckTemplate
<1>8. pc = "store" => call[c].has \in stood
  <2>1. CASE Available
    BY <1>1, <1>3, <2>1 DEF GatePasses, TemplateInv
  <2>2. CASE ~Available
    BY <1>1, <1>7, <2>2 DEF Available, TemplateInv, CallOK, PastGate
  <2>3. QED
    BY <2>1, <2>2
<1>9. CallOK(c)'
  BY <1>3, <1>5, <1>7, <1>8 DEF CallOK, PastGate, Composing, Live
<1>10. QED
  BY <1>1, <1>6, <1>9, Frame DEF CheckTemplate, TypeOK

\* What was let through is stored.
LEMMA InsertStep ==
    ASSUME ContentInv, NEW c \in Callers, Insert(c)
    PROVE  ContentInv'
<1>1. TypeOK /\ call[c] \in CallRecords /\ CallOK(c)
  BY DEF ContentInv, TypeOK
<1>2. /\ call'[c] = [call[c] EXCEPT !.pc = "done"]
      /\ call' = [call EXCEPT ![c] = call'[c]]
  BY <1>1 DEF TypeOK, CallRecords, Insert
<1>3. call'[c] \in CallRecords /\ call'[c].pc = "done" /\ call'[c].has = call[c].has
      /\ call'[c].current = call[c].current
  BY <1>1, <1>2 DEF CallRecords, Pcs
<1>4. CallOK(c)'
  BY <1>1, <1>3 DEF CallOK, PastGate, Composing, Live, Insert
<1>5. QED
  BY <1>1, <1>2, <1>3, <1>4, MovesType, Frame DEF Insert, TypeOK

\* An answer replaces the text and the place of its call.
LEMMA AnswerType ==
    ASSUME TypeOK, NEW c \in Callers, NEW pc \in Pcs, NEW text \in Texts, Answer(c, pc, text)
    PROVE  /\ Moves(c)
           /\ call'[c].pc = pc /\ call'[c].text = text /\ call'[c].seen = call[c].seen
<1>1. call[c] \in CallRecords
  BY DEF TypeOK
<1>2. /\ call'[c] = [call[c] EXCEPT !.pc = pc, !.text = text]
      /\ \A d \in Callers \ {c} : call'[d] = call[d]
  BY DEF TypeOK, CallRecords, Answer
<1>3. call'[c] \in CallRecords /\ call'[c].pc = pc /\ call'[c].text = text
      /\ call'[c].seen = call[c].seen
  BY <1>1, <1>2 DEF CallRecords
<1>4. call' = [call EXCEPT ![c] = call'[c]]
  BY <1>2 DEF TypeOK, Answer
<1>5. QED
  BY <1>3, <1>4, MovesType

\* A call starts with nothing but what is there when it asks.
LEMMA AskStep ==
    ASSUME ContentInv, NEW c \in Callers, AskProcedure(c)
    PROVE  ContentInv'
<1> DEFINE asked == [NoCall EXCEPT !.pc = "core", !.seen = {files}]
<1>1. TypeOK /\ files \in Versions
  BY DEF ContentInv, TypeOK
<1>2. {files} \in SUBSET Versions
  BY <1>1
<1>3. asked \in CallRecords /\ asked.pc = "core" /\ asked.seen = {files}
  BY <1>2, NoCallType DEF CallRecords, Pcs
<1> HIDE DEF asked
<1>4. Moves(c) /\ call'[c] = asked
  BY <1>1, <1>3, MovesType DEF AskProcedure, asked
<1>5. UNCHANGED <<root, files, edits, stood, server>>
  BY DEF AskProcedure
<1>6. CallOK(c)'
  BY <1>3, <1>4, <1>5 DEF CallOK, PastGate, Composing, Live
<1>7. QED
  BY <1>1, <1>4, <1>5, <1>6, Frame DEF TypeOK

\* The core is read as it is on disk.
LEMMA ComposeCoreStep ==
    ASSUME ContentInv, NEW c \in Callers, ComposeCore(c)
    PROVE  ContentInv'
<1>1. TypeOK /\ CallOK(c) /\ call[c].pc = "core"
  BY DEF ContentInv, ComposeCore
<1>2. UNCHANGED <<root, files, edits, stood>>
  BY DEF ComposeCore
<1>3. CASE Answer(c, "error", NoText) /\ server' = Import({"command_set"})
  <2>1. NoText \in Texts
    BY NoCallType DEF NoCall, CallRecords
  <2>2. Moves(c) /\ call'[c].pc = "error"
    BY <1>1, <1>3, <2>1, AnswerType DEF Pcs
  <2>3. CallOK(c)'
    BY <2>2 DEF CallOK, PastGate, Composing, Live
  <2>4. QED
    BY <1>1, <1>2, <1>3, <2>2, <2>3, Frame, ImportType
<1>4. CASE /\ File("core") # 0
           /\ Answer(c, "backend", [NoText EXCEPT !.core = File("core"), !.inline = Loaded("inline")])
           /\ server' = Import({"command_set", "inline"})
  <2> DEFINE text == [NoText EXCEPT !.core = File("core"), !.inline = Loaded("inline")]
  <2>1. NoText \in Texts /\ NoText.backend = 0
    BY NoCallType DEF NoCall, CallRecords, NoText
  <2>2. File("core") \in Revisions /\ Loaded("inline") \in Revisions /\ 0 \in Revisions
    BY <1>1, FileType, BoundAssumption DEF Files, Loaded, TypeOK, Servers, Modules, Revisions
  <2>3. text \in Texts /\ text.core = File("core") /\ text.backend = 0
    BY <2>1, <2>2 DEF Texts
  <2>4. Answer(c, "backend", text)
    BY <1>4
  <2> HIDE DEF text
  <2>5. /\ Moves(c) /\ call'[c].pc = "backend" /\ call'[c].text = text
        /\ call'[c].seen = call[c].seen
    BY <1>1, <2>3, <2>4, AnswerType DEF Pcs
  <2>6. root = "full" /\ File("core") = files["core"] /\ files \in call[c].seen
    BY <1>1, <1>4 DEF File, CallOK, Composing
  <2>7. CallOK(c)'
    BY <1>2, <1>4, <2>3, <2>5, <2>6 DEF CallOK, PastGate, Composing, Live
  <2>8. QED
    BY <1>1, <1>2, <1>4, <2>5, <2>7, Frame, ImportType
<1>5. QED
  BY <1>3, <1>4 DEF ComposeCore

\* The section and its components are read as they are on disk, and left out only
\* while they are missing.
LEMMA ComposeBackendStep ==
    ASSUME ContentInv, NEW c \in Callers, NoBackend(c) \/ ComposeBackend(c) \/ InlineSection(c)
    PROVE  ContentInv'
<1>1. TypeOK /\ CallOK(c) /\ call[c].text \in Texts /\ call[c].pc \in {"backend", "section"}
  BY DEF ContentInv, NoBackend, ComposeBackend, InlineSection, TypeOK, CallRecords
<1>2. UNCHANGED <<root, files, edits, stood>>
  BY DEF NoBackend, ComposeBackend, InlineSection
<1>3. server' \in Servers
  BY <1>1, ImportType DEF NoBackend, ComposeBackend, InlineSection, TypeOK
<1>4. /\ root = "full" /\ files \in call[c].seen /\ call[c].text.core # 0
      /\ \E fs \in call[c].seen : fs["core"] = call[c].text.core
  BY <1>1 DEF CallOK, Composing
<1>5. /\ File("backend") = files["backend"] /\ File("component") = files["component"]
      /\ File("backend") \in Revisions /\ File("component") \in Revisions
      /\ Loaded("seam") \in Revisions
  BY <1>1, <1>4, FileType DEF File, Files, Loaded, TypeOK, Servers, Modules
<1>6. CASE Answer(c, "error", NoText)
  <2>1. NoText \in Texts
    BY NoCallType DEF NoCall, CallRecords
  <2>2. Moves(c) /\ call'[c].pc = "error"
    BY <1>1, <1>6, <2>1, AnswerType DEF Pcs
  <2>3. CallOK(c)'
    BY <2>2 DEF CallOK, PastGate, Composing, Live
  <2>4. QED
    BY <1>1, <1>2, <1>3, <2>2, <2>3, Frame
<1>7. CASE call[c].pc = "backend" /\ File("backend") = 0 /\ Answer(c, "served", call[c].text)
  <2>1. /\ Moves(c) /\ call'[c].pc = "served" /\ call'[c].text = call[c].text
        /\ call'[c].seen = call[c].seen
    BY <1>1, <1>7, AnswerType DEF Pcs
  <2>2. call[c].text.backend = 0
    BY <1>1, <1>7 DEF CallOK, Composing
  <2>3. CallOK(c)'
    BY <1>4, <1>5, <1>7, <2>1, <2>2 DEF CallOK, PastGate, Composing, Live
  <2>4. QED
    BY <1>1, <1>2, <1>3, <2>1, <2>3, Frame
<1>8. CASE Answer(c, "section", [call[c].text EXCEPT !.backend = File("backend"),
                                                     !.seam = Loaded("seam")])
  <2> DEFINE text == [call[c].text EXCEPT !.backend = File("backend"), !.seam = Loaded("seam")]
  <2>1. text \in Texts /\ text.core = call[c].text.core /\ text.backend = File("backend")
    BY <1>1, <1>5 DEF Texts
  <2>2. Answer(c, "section", text)
    BY <1>8
  <2> HIDE DEF text
  <2>3. /\ Moves(c) /\ call'[c].pc = "section" /\ call'[c].text = text
        /\ call'[c].seen = call[c].seen
    BY <1>1, <2>1, <2>2, AnswerType DEF Pcs
  <2>4. CallOK(c)'
    BY <1>2, <1>4, <1>5, <2>1, <2>3 DEF CallOK, PastGate, Composing, Live
  <2>5. QED
    BY <1>1, <1>2, <1>3, <2>3, <2>4, Frame
<1>9. CASE /\ call[c].pc = "section"
           /\ Answer(c, "served", [call[c].text EXCEPT !.component = File("component")])
  <2> DEFINE text == [call[c].text EXCEPT !.component = File("component")]
  <2>1. /\ text \in Texts /\ text.core = call[c].text.core
        /\ text.backend = call[c].text.backend /\ text.component = File("component")
    BY <1>1, <1>5 DEF Texts
  <2>2. Answer(c, "served", text)
    BY <1>9
  <2> HIDE DEF text
  <2>3. /\ Moves(c) /\ call'[c].pc = "served" /\ call'[c].text = text
        /\ call'[c].seen = call[c].seen
    BY <1>1, <2>1, <2>2, AnswerType DEF Pcs
  <2>4. \E fs \in call[c].seen : fs["backend"] = call[c].text.backend
    BY <1>1, <1>9 DEF CallOK, Composing
  <2>5. CallOK(c)'
    BY <1>4, <1>5, <2>1, <2>3, <2>4 DEF CallOK, PastGate, Composing, Live
  <2>6. QED
    BY <1>1, <1>2, <1>3, <2>3, <2>5, Frame
<1>10. QED
  BY <1>6, <1>7, <1>8, <1>9 DEF NoBackend, ComposeBackend, InlineSection

\* A listing composes nothing.
LEMMA ListingStep ==
    ASSUME ContentInv, NEW c \in Callers, AskListing(c) \/ TitleRows(c)
    PROVE  ContentInv'
<1>1. TypeOK /\ CallOK(c)
  BY DEF ContentInv
<1>2. UNCHANGED <<root, files, edits, stood>>
  BY DEF AskListing, TitleRows
<1>3. CASE AskListing(c)
  <2> DEFINE pc == CASE Available /\ Loaded("command_set") = 0 -> "error"
                     [] File("core") = 0 -> "served"
                     [] OTHER -> "rows"
  <2>1. /\ pc \in {"error", "served", "rows"}
        /\ call' = [call EXCEPT ![c] = [NoCall EXCEPT !.pc = pc]]
    <3>1. pc \in {"error", "served", "rows"}
      OBVIOUS
    <3>2. call' = [call EXCEPT ![c] = [NoCall EXCEPT !.pc = pc]]
      BY <1>3, SMT DEF AskListing
    <3>3. QED
      BY <3>1, <3>2
  <2> HIDE DEF pc
  <2>2. PICK r \in CallRecords : r = [NoCall EXCEPT !.pc = pc] /\ r.pc = pc /\ r.seen = {}
    BY <2>1, AskedType DEF Pcs
  <2>3. call' = [call EXCEPT ![c] = r]
    BY <2>1, <2>2
  <2>4. Moves(c) /\ call'[c] = r
    BY <1>1, <2>3, MovesType
  <2>5. CallOK(c)'
    BY <2>1, <2>2, <2>4 DEF CallOK, PastGate, Composing, Live
  <2>6. server' \in Servers
    BY <1>1, <1>3, ImportType DEF AskListing, TypeOK
  <2>7. QED
    BY <1>2, <2>4, <2>5, <2>6, Frame
<1>4. CASE TitleRows(c)
  <2> DEFINE pc == IF File("core") = 0 THEN "error" ELSE "served"
  <2>1. Answer(c, pc, NoText) /\ pc \in {"error", "served"} /\ call[c].seen = {}
    BY <1>1, <1>4 DEF TitleRows, CallOK, Composing
  <2>2. NoText \in Texts
    BY NoCallType DEF NoCall, CallRecords
  <2> HIDE DEF pc
  <2>3. Moves(c) /\ call'[c].pc = pc /\ call'[c].seen = {}
    BY <1>1, <2>1, <2>2, AnswerType DEF Pcs
  <2>4. CallOK(c)'
    BY <2>1, <2>3 DEF CallOK, PastGate, Composing, Live
  <2>5. QED
    BY <1>1, <1>2, <1>4, <2>3, <2>4, Frame DEF TitleRows, TypeOK
<1>5. QED
  BY <1>3, <1>4

\* Keeping the permanent layer installed disturbs nobody.
LEMMA AnchorStep ==
    ASSUME ContentInv, NEW c \in Callers, KeepAnchored(c)
    PROVE  ContentInv'
<1>1. TypeOK /\ call[c] \in CallRecords
  BY DEF ContentInv, TypeOK
<1>2. UNCHANGED <<root, files, edits, stood, server>>
  BY DEF KeepAnchored, ReadDigest, Anchor
<1>3. CASE ReadDigest(c)
  <2>1. File("digest") \in Revisions
    BY <1>1, FileType DEF Files
  <2>2. call'[c] = [call[c] EXCEPT !.pc = "ras", !.has = File("digest")]
    BY <1>1, <1>3 DEF TypeOK, CallRecords, ReadDigest
  <2>3. call'[c] \in CallRecords /\ call'[c].pc = "ras"
    BY <1>1, <2>1, <2>2 DEF CallRecords, Pcs
  <2>4. call' = [call EXCEPT ![c] = call'[c]]
    BY <1>1, <1>3, <2>2 DEF TypeOK, ReadDigest
  <2>5. Moves(c)
    BY <1>1, <2>3, <2>4, MovesType
  <2>6. CallOK(c)'
    BY <2>3 DEF CallOK, PastGate, Composing, Live
  <2>7. QED
    BY <1>1, <1>2, <2>5, <2>6, Frame DEF TypeOK
<1>4. CASE Anchor(c)
  <2> DEFINE layer == <<call[c].has, files["ras"]>>
             mine  == call[c].local
             local == IF mine # <<>> /\ Hash(mine) = Hash(layer) THEN mine ELSE layer
  <2>1. local \in Layers
    BY <1>1 DEF CallRecords, TypeOK, Versions, Files, Layers
  <2>2. call' = [call EXCEPT ![c].pc = "idle", ![c].local = local]
    BY <1>4 DEF Anchor
  <2> HIDE DEF local
  <2>3. call'[c] = [call[c] EXCEPT !.pc = "idle", !.local = local]
    BY <1>1, <2>2 DEF TypeOK, CallRecords
  <2>4. call'[c] \in CallRecords /\ call'[c].pc = "idle"
    BY <1>1, <2>1, <2>3 DEF CallRecords, Pcs
  <2>5. call' = [call EXCEPT ![c] = call'[c]]
    BY <1>1, <2>2, <2>3 DEF TypeOK
  <2>6. Moves(c)
    BY <1>1, <2>4, <2>5, MovesType
  <2>7. CallOK(c)'
    BY <2>4 DEF CallOK, PastGate, Composing, Live
  <2>8. QED
    BY <1>1, <1>2, <2>6, <2>7, Frame DEF TypeOK
<1>5. QED
  BY <1>3, <1>4 DEF KeepAnchored

-----------------------------------------------------------------------------
(* The results.                                                             *)

\* The invariant holds from the start and for good.
THEOREM Invariance == Spec => []ContentInv
<1>1. Init => ContentInv
  <2> SUFFICES ASSUME Init
               PROVE  ContentInv
    OBVIOUS
  <2>1. files \in Versions /\ server \in Servers
    BY BoundAssumption DEF Init, Versions, Revisions, Servers, NoModules
  <2>2. \A c \in Callers : call[c].pc = "idle"
    BY DEF Init, NoCall
  <2>3. call \in [Callers -> CallRecords]
    BY NoCallType DEF Init
  <2>4. TypeOK
    BY <2>1, <2>3, CheckoutAssumption, BoundAssumption DEF Init, TypeOK, File, Files, Revisions
  <2>5. TemplateInv
    BY DEF Init, TemplateInv, File
  <2>6. \A c \in Callers : CallOK(c)
    BY <2>2 DEF CallOK, PastGate, Composing, Live
  <2>7. QED
    BY <2>4, <2>5, <2>6 DEF ContentInv
<1>2. ContentInv /\ [Next]_vars => ContentInv'
  <2> SUFFICES ASSUME ContentInv, [Next]_vars
               PROVE  ContentInv'
    OBVIOUS
  <2>1. CASE UNCHANGED vars
    BY <2>1 DEF vars, ContentInv, TypeOK, TemplateInv, File, CallOK, PastGate, Composing, Live
  <2>2. QED
    BY <2>1, EditStep, CheckOutStep, BootStep, StopStep, ReadTemplateStep, CheckTemplateStep,
       InsertStep, AskStep, ComposeCoreStep, ComposeBackendStep, ListingStep, AnchorStep
       DEF Next, Write, Read
<1>3. QED
  BY <1>1, <1>2, PTL DEF Spec

\* GateFollowsServedTemplate: on either face, and across restarts of the server and
\* changes of the checkout, a record is stored only under a template that had not left
\* the disk when the last one was served before its call asked the gate.
THEOREM GateHolds == Spec => []GateFollowsServedTemplate
<1>1. ContentInv => GateFollowsServedTemplate
  BY DEF ContentInv, CallOK, PastGate, GateFollowsServedTemplate
<1>2. QED
  BY <1>1, Invariance, PTL

\* ServingIsSound: a procedure is composed of a core, a section and a component that were
\* on disk while its call ran, however the checkout changes between the reads.
THEOREM ServedAsOnDisk == Spec => []ServingIsSound
<1>1. ContentInv => ServingIsSound
  BY DEF ContentInv, CallOK, Live, ServingIsSound, ServedTextIsLive
<1>2. QED
  BY <1>1, Invariance, PTL
=============================================================================
