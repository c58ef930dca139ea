---------------------------- MODULE ServedContent ----------------------------
(***************************************************************************)
(* The framework content served from a checkout that changes underneath:   *)
(* procedures composed from several files, templates and the gate that     *)
(* holds writers to them, and the permanent layer a client keeps a copy    *)
(* of.  Texts are read live on every call; what the server holds on to is  *)
(* what it registered at boot and the framework modules it has imported.   *)
(*                                                                         *)
(* A file is its revision, 0 when it is absent.  Callers play the roles a  *)
(* cast gives them: a writer reads the template and inserts, a reader asks *)
(* for a procedure or for the listing, an anchor keeps the permanent layer *)
(* installed.                                                              *)
(***************************************************************************)
EXTENDS Naturals

CONSTANTS
    Callers,    \* clients of the server
    Casts,      \* the casts to play: functions from Callers to [role, face]
    Checkouts,  \* states the content root may begin in
    MaxEdits,   \* bound on changes of the content
    MaxStops    \* bound on stops of the server

ASSUME BoundAssumption    == MaxEdits \in Nat /\ MaxStops \in Nat
ASSUME CheckoutAssumption == Checkouts \subseteq {"none", "empty", "full"}

\* core: one procedure with the components it refers to; backend: its section
\* of db.md; component: what that section refers to; library: seam.py, inline.py
\* and command_set.py; ras: the RAS records, which live in the store and not in
\* the checkout.
Files == {"core", "backend", "component", "library", "template", "digest", "ras"}

Modules == {"command_set", "inline", "seam"}

VARIABLES
    root,    \* "none", "empty" (a submodule nobody initialised) or "full"
    files,   \* revision of every file
    edits,   \* changes so far
    server,  \* is it up, what it registered, which modules it has imported
    cast,    \* who plays what
    call,    \* the call each caller is making, and what it keeps of the last
    stood,   \* template revisions on disk since the last one was served to anybody,
             \* 0 while there is no content; for the properties
    stops    \* stops so far

vars == <<root, files, edits, server, cast, call, stood, stops>>

File(f) == IF root = "full" \/ f = "ras" THEN files[f] ELSE 0

\* ContentLoader.available
Available == root # "none"

NoModules == [m \in Modules |-> 0]

\* The revision of module m the server composes with, 0 when there is none to
\* import: _load keeps what it imported first for as long as the process lives.
Loaded(m) == IF server.imported[m] # 0 THEN server.imported[m] ELSE File("library")

Import(M) == [server EXCEPT !.imported = [m \in Modules |-> IF m \in M THEN Loaded(m) ELSE @[m]]]

NoText == [core |-> 0, backend |-> 0, component |-> 0, inline |-> 0, seam |-> 0]

\* current and seen are for the properties: what had stood when the gate was asked,
\* and the states of the files the call has met.
NoCall == [pc |-> "idle", has |-> 0, current |-> {}, text |-> NoText, seen |-> {}, local |-> <<>>]

Init ==
    /\ root \in Checkouts
    /\ files = [f \in Files |-> 1]
    /\ edits = 0
    /\ server = [up |-> FALSE, failed |-> FALSE, tools |-> FALSE, listed |-> 0,
                 imported |-> NoModules]
    /\ cast \in Casts
    /\ call = [c \in Callers |-> NoCall]
    /\ stood = {File("template")}
    /\ stops = 0

\* Calls in progress have seen the files as they now become.
Seen(fs) == [c \in Callers |->
                IF call[c].pc \in {"core", "backend", "section"}
                  THEN [call[c] EXCEPT !.seen = @ \cup {fs}] ELSE call[c]]

\* Somebody changes the checkout: a file gets a new revision, an older one again, or
\* is gone.  Or somebody stores another RAS record.
EditFile(f, revision) ==
    /\ edits < MaxEdits
    /\ root = "full" \/ f = "ras"
    /\ revision <= edits + 2 /\ revision # files[f]
    /\ f = "ras" => revision = edits + 2
    /\ edits' = edits + 1
    /\ files' = [files EXCEPT ![f] = revision]
    /\ call' = Seen(files')
    /\ stood' = IF f = "template" THEN stood \cup ({revision} \ {0}) ELSE stood
    /\ UNCHANGED <<root, server, cast, stops>>

\* The submodule is checked out after all.
CheckOut ==
    /\ edits < MaxEdits
    /\ root # "full"
    /\ root' = "full"
    /\ edits' = edits + 1
    /\ stood' = {files["template"]}
    /\ UNCHANGED <<files, server, cast, call, stops>>

\* build_app: with content there, its prompts and tools are registered, each
\* prompt under the title its text carries now; without, neither.  A boot that
\* failed is tried again.
Boot ==
    /\ ~server.up
    /\ server' =
         CASE ~Available -> [server EXCEPT !.up = TRUE, !.failed = FALSE]
           [] Available /\ File("library") = 0 -> [server EXCEPT !.failed = TRUE]
           [] OTHER -> [Import({"command_set"}) EXCEPT !.up = TRUE, !.failed = FALSE,
                                                       !.tools = TRUE, !.listed = File("core")]
    /\ UNCHANGED <<root, files, edits, cast, call, stood, stops>>

\* A writer whose call is lost sends it again; the others ask anew.
Lost(c) == [call[c] EXCEPT !.pc = CASE @ = "store" -> "send"
                                    [] @ \in {"send", "done", "served", "error"} -> @
                                    [] OTHER -> "idle"]

Stop ==
    /\ server.up
    /\ stops < MaxStops
    /\ stops' = stops + 1
    /\ server' = [server EXCEPT !.up = FALSE, !.tools = FALSE, !.listed = 0,
                                !.imported = NoModules]
    /\ call' = [c \in Callers |-> Lost(c)]
    /\ UNCHANGED <<root, files, edits, cast, stood>>

-----------------------------------------------------------------------------
(* Writing against a template.                                             *)

Plays(c, role) == server.up /\ cast[c].role = role

\* Faces that carry content tools only if content was there at boot.
Offered(c) == cast[c].face = "http" \/ server.tools

\* read_resource, or GET /api/resources: a writer that gets no answer declares
\* no version.
ReadTemplate(c) ==
    /\ Plays(c, "writer")
    /\ call[c].pc = "idle"
    /\ LET revision == IF Offered(c) THEN File("template") ELSE 0 IN
       /\ call' = [call EXCEPT ![c].pc = "send", ![c].has = revision]
       /\ stood' = IF revision # 0 THEN {revision} ELSE stood
    /\ UNCHANGED <<root, files, edits, server, cast, stops>>

BugGateForgivesSilence(declared) == Available => declared \in {0, File("template")}

BugGateWithoutContent(declared) == declared # 0 /\ declared = File("template")

\* check_template_version: 0 is a version nobody declared, or a template that
\* is not there to compare with; both are refused.
GatePasses(declared) == Available => declared # 0 /\ declared = File("template")

\* insert: the gate, before the service is asked to store anything.
CheckTemplate(c) ==
    /\ Plays(c, "writer")
    /\ call[c].pc = "send"
    /\ call' = [call EXCEPT ![c].current = stood,
                            ![c].pc = IF GatePasses(call[c].has) THEN "store" ELSE "idle"]
    /\ UNCHANGED <<root, files, edits, server, cast, stood, stops>>

Insert(c) ==
    /\ Plays(c, "writer")
    /\ call[c].pc = "store"
    /\ call' = [call EXCEPT ![c].pc = "done"]
    /\ UNCHANGED <<root, files, edits, server, cast, stood, stops>>

-----------------------------------------------------------------------------
(* Reading a procedure.                                                    *)

Answer(c, pc, text) == call' = [call EXCEPT ![c].pc = pc, ![c].text = text]

\* _make_prompt, read_procedure, GET /api/prompts/{name}.
AskProcedure(c) ==
    /\ Plays(c, "reader")
    /\ call[c].pc \in {"idle", "served", "error"}
    /\ cast[c].face = "prompt" => server.listed # 0
    /\ Offered(c)
    /\ call' = [call EXCEPT ![c] = [NoCall EXCEPT !.pc = "core", !.seen = {files}]]
    /\ UNCHANGED <<root, files, edits, server, cast, stood, stops>>

BugComposeCore(c) ==
    /\ Plays(c, "reader")
    /\ call[c].pc = "core"
    /\ LET first == IF server.listed # 0 THEN server.listed ELSE File("core") IN
       IF File("core") = 0
         THEN Answer(c, "error", NoText) /\ UNCHANGED server
         ELSE /\ Answer(c, "backend", [NoText EXCEPT !.core = first, !.inline = Loaded("inline")])
              /\ server' = Import({"command_set", "inline"})
    /\ UNCHANGED <<root, files, edits, cast, stood, stops>>

\* get_prompt to the end of the first _inlined: find the procedure, read it,
\* inline its components.
ComposeCore(c) ==
    /\ Plays(c, "reader")
    /\ call[c].pc = "core"
    /\ IF File("core") = 0 \/ Loaded("command_set") = 0 \/ Loaded("inline") = 0
         THEN Answer(c, "error", NoText) /\ server' = Import({"command_set"})
         ELSE /\ Answer(c, "backend", [NoText EXCEPT !.core = File("core"),
                                                     !.inline = Loaded("inline")])
              /\ server' = Import({"command_set", "inline"})
    /\ UNCHANGED <<root, files, edits, cast, stood, stops>>

\* Without db.md the core alone.
NoBackend(c) ==
    /\ Plays(c, "reader")
    /\ call[c].pc = "backend"
    /\ File("backend") = 0
    /\ Answer(c, "served", call[c].text)
    /\ UNCHANGED <<root, files, edits, server, cast, stood, stops>>

\* The section of db.md put into the core, or the core alone when it has none.
ComposeBackend(c) ==
    /\ Plays(c, "reader")
    /\ call[c].pc = "backend"
    /\ CASE Loaded("seam") = 0    -> Answer(c, "error", NoText)
         [] File("backend") = 0   -> Answer(c, "served", call[c].text)
         [] OTHER -> Answer(c, "section", [call[c].text EXCEPT !.backend = File("backend"),
                                                              !.seam = Loaded("seam")])
    /\ server' = Import({"seam"})
    /\ UNCHANGED <<root, files, edits, cast, stood, stops>>

\* The second _inlined: the components of the section, read when their turn comes.
\* One that is missing leaves its reference in the text.
InlineSection(c) ==
    /\ Plays(c, "reader")
    /\ call[c].pc = "section"
    /\ Answer(c, "served", [call[c].text EXCEPT !.component = File("component")])
    /\ UNCHANGED <<root, files, edits, server, cast, stood, stops>>

\* list_procedures and help: the names first, then each one's title.
AskListing(c) ==
    /\ Plays(c, "reader")
    /\ cast[c].face = "tool"
    /\ call[c].pc \in {"idle", "served", "error"}
    /\ call' = [call EXCEPT ![c] = [NoCall EXCEPT !.pc =
                   CASE Available /\ Loaded("command_set") = 0 -> "error"
                     [] File("core") = 0 -> "served"
                     [] OTHER -> "rows"]]
    /\ server' = IF Available THEN Import({"command_set"}) ELSE server
    /\ UNCHANGED <<root, files, edits, cast, stood, stops>>

TitleRows(c) ==
    /\ Plays(c, "reader")
    /\ call[c].pc = "rows"
    /\ Answer(c, IF File("core") = 0 THEN "error" ELSE "served", NoText)
    /\ UNCHANGED <<root, files, edits, server, cast, stood, stops>>

-----------------------------------------------------------------------------
(* The permanent layer.                                                    *)

BugHash(layer) == layer[1]

\* Equal for equal blocks only.
Hash(layer) == layer

\* permanent_layer reads the digest, which is an error when it is missing, then
\* queries the RAS records.
ReadDigest(c) ==
    /\ Plays(c, "anchor")
    /\ server.tools
    /\ call[c].pc = "idle" /\ File("digest") # 0
    /\ call' = [call EXCEPT ![c].pc = "ras", ![c].has = File("digest")]
    /\ UNCHANGED <<root, files, edits, server, cast, stood, stops>>

\* The client compares the hash with the one beside its copy, and installs.
Anchor(c) ==
    /\ Plays(c, "anchor")
    /\ call[c].pc = "ras"
    /\ LET layer == <<call[c].has, files["ras"]>>
           mine  == call[c].local IN
       call' = [call EXCEPT ![c].pc = "idle",
                            ![c].local = IF mine # <<>> /\ Hash(mine) = Hash(layer)
                                           THEN mine ELSE layer]
    /\ UNCHANGED <<root, files, edits, server, cast, stood, stops>>

-----------------------------------------------------------------------------
Write(c) == ReadTemplate(c) \/ CheckTemplate(c) \/ Insert(c)

Read(c) == \/ AskProcedure(c) \/ ComposeCore(c)
           \/ NoBackend(c) \/ ComposeBackend(c) \/ InlineSection(c)
           \/ AskListing(c) \/ TitleRows(c)

KeepAnchored(c) == ReadDigest(c) \/ Anchor(c)

Revisions == 0..(MaxEdits + 1)

Next ==
    \/ \E f \in Files, revision \in Revisions : EditFile(f, revision)
    \/ CheckOut
    \/ Boot
    \/ Stop
    \/ \E c \in Callers : Write(c) \/ Read(c) \/ KeepAnchored(c)

\* The server is started again, calls run to their end, a refused writer reads
\* and tries again, an anchor checks its copy again and again.
Spec ==
    /\ Init /\ [][Next]_vars
    /\ WF_vars(Boot)
    /\ \A c \in Callers : WF_vars(Write(c)) /\ WF_vars(KeepAnchored(c))

-----------------------------------------------------------------------------
Versions  == [Files -> Revisions]
Layers    == {<<>>} \cup (Revisions \X Revisions)

Pcs == {"idle", "send", "store", "done", "core", "backend", "section", "rows", "served", "error", "ras"}

Texts   == [core : Revisions, backend : Revisions, component : Revisions, inline : Revisions, seam : Revisions]
Servers == [up : BOOLEAN, failed : BOOLEAN, tools : BOOLEAN, listed : Revisions,
            imported : [Modules -> Revisions]]
CallRecords == [pc : Pcs, has : Revisions, current : SUBSET Revisions, text : Texts,
                seen : SUBSET Versions, local : Layers]

TypeOK ==
    /\ root \in {"none", "empty", "full"}
    /\ files \in Versions
    /\ edits \in 0..MaxEdits
    /\ server \in Servers
    /\ call \in [Callers -> CallRecords]
    /\ stood \subseteq Revisions

\* Once somebody was served a template, no call that asks the gate afterwards stores
\* a record built against one that had left the disk before, or against none, on
\* either face and across restarts.
GateFollowsServedTemplate ==
    \A c \in Callers : call[c].pc = "done" => call[c].has \in call[c].current

\* A procedure is composed of texts that were on disk while the call ran, and
\* comes without its backend section, or a component of that, only if it was missing then.
ServedTextIsLive ==
    \A c \in Callers :
        call[c].pc = "served" /\ call[c].seen # {} =>
            /\ \E fs \in call[c].seen : fs["core"] = call[c].text.core /\ call[c].text.core # 0
            /\ \E fs \in call[c].seen : fs["backend"] = call[c].text.backend
            /\ call[c].text.backend # 0 =>
                   \E fs \in call[c].seen : fs["component"] = call[c].text.component

\* What callers get, while files and server change.
ServingIsSound == TypeOK /\ ServedTextIsLive

\* The face asks for a version it offers no way to read.
Stranded(c) == server.up /\ Available /\ ~Offered(c)

\* No server, or none that could hand out the file.
Unserved(c, f) == server.failed \/ Stranded(c) \/ File(f) = 0

\* A writer that reads the template and tries again gets its record in, unless the
\* template is gone for good, a boot finds no library, or the content appeared behind a
\* server that registered no tool to read it.
WriterGetsIn ==
    \A c \in Callers :
        cast[c].role = "writer" => <>(call[c].pc = "done") \/ <>[](Available /\ Unserved(c, "template"))

\* The hash tells every stale copy: a client that keeps comparing ends up with
\* the layer as it stands, where there is one to be had.
ClientsHoldCurrentLayer ==
    \A c \in Callers :
        cast[c].role = "anchor" =>
            <>[](call[c].local = <<files["digest"], files["ras"]>>) \/ <>[]Unserved(c, "digest")

\* Claims of the repository the runs beside the listed ones find violated.

\* "re-read and rebuild against it" is advice a refused writer can follow where there
\* is a template and a server.
EveryWriterGetsIn ==
    \A c \in Callers :
        cast[c].role = "writer" =>
            \/ <>(call[c].pc = "done")
            \/ <>[](server.failed \/ (Available /\ File("template") = 0))

\* "An absent submodule yields nothing rather than failing, so a server without
\* content still boots."
StillBoots == ~server.failed

\* The title a client is shown cannot drift from the procedure's heading.
TitlesAreLive == server.tools /\ File("core") # 0 => server.listed = File("core")

\* An installed command and a served prompt come out of the same modules.
ComposedByOneLibrary ==
    \A c \in Callers :
        call[c].pc = "served" /\ call[c].seen # {} =>
            \E fs \in call[c].seen :
                /\ fs["library"] = call[c].text.inline
                /\ call[c].text.backend # 0 => fs["library"] = call[c].text.seam

\* help and list_procedures answer in every configuration.
ListingAnswers ==
    \A c \in Callers : call[c].pc = "error" => call[c].seen # {} \/ File("library") = 0
=============================================================================
