---------------------------- MODULE MarkdownTree ----------------------------
(***************************************************************************)
(* One tenant's memory between a markdown tree and the store: the importer *)
(* (purge, pass 1, pass 2), the exporter (compare, then file by file), and *)
(* the people and servers who write either side meanwhile.  Every insert   *)
(* of the importer is a commit of its own and every file of the exporter a *)
(* write of its own, so both can stop, fail and be overtaken anywhere.     *)
(* One operator runs the tools, one at a time.                             *)
(*                                                                         *)
(* A document is what one stable_uuid names: a section of an agent's core  *)
(* memory, an episode or knowledge file, a moment.  Texts are opaque.      *)
(***************************************************************************)
EXTENDS Naturals, FiniteSets

CONSTANTS
    Agents,     \* agent domains
    Docs,       \* documents, which are also the uuids derived from them
    Minted,     \* uuids the server minted
    OwnerOf,    \* OwnerOf[d]: the agent of a document, or Fleet
    TypeOf,     \* TypeOf[d]: its record type
    Rank,       \* Rank[d]: its place in the order of the import
    HomeOf,     \* HomeOf[d]: the document that an export writes for a record of d: its
                \* path is made of the title, which has neither date nor folder
    Named,      \* the uuids an insert may name: those it mints, those of markdown
    Fleet,      \* the owner of the shared layer
    Texts,      \* bodies
    Trees,      \* what markdown may hold at the start
    Line,       \* the one-liner of an index, which has no body
    None,
    MaxEdits    \* bound on what people and the server write

ASSUME DocsAssumption   == Docs \cap Minted = {} /\ None \notin Docs \cup Minted
ASSUME OwnersAssumption == Fleet \notin Agents /\ OwnerOf \in [Docs -> Agents \cup {Fleet}]
ASSUME RankAssumption   == Rank \in [Docs -> Nat]
ASSUME NamedAssumption  == Named \subseteq Docs \cup Minted
ASSUME HomeAssumption   ==
    /\ HomeOf \in [Docs -> Docs]
    /\ \A d \in Docs : OwnerOf[HomeOf[d]] = OwnerOf[d] /\ TypeOf[HomeOf[d]] = TypeOf[d]
ASSUME TextsAssumption  == None \notin Texts \cup {Line} /\ Line \notin Texts
ASSUME BoundAssumption  == MaxEdits \in Nat

VARIABLES
    folder,     \* folder[a]: "absent", "good", "bad" when pass 1 cannot read the
                \* identity, "bare" when an export made it, without core and index;
                \* folder[Fleet] is "bad" when a mandatory shared file is missing
    tree,       \* tree[d].live: the section or the index line; tree[d].kept: the
                \* file, or for a moment its copy in the archive
    agents,     \* the agent rows
    rows,       \* both record tables, by uuid
    imp,        \* the importer process
    exp,        \* the exporter process
    edits

vars == <<folder, tree, agents, rows, imp, exp, edits>>

Uuids   == Docs \cup Minted
Owners  == Agents \cup {Fleet}
FileTypes == {"episode", "knowledge"}
Memory  == {d \in Docs : OwnerOf[d] # Fleet}
Profile == {d \in Docs : TypeOf[d] = "user_profile"}

Sections == [live : Texts \cup {Line, None}, kept : Texts \cup {Line, None}]
RowSet   == [doc : Docs, body : Texts \cup {Line}, archived : BOOLEAN, deleted : BOOLEAN]
NoRow    == [doc |-> None]
Empty    == [live |-> None, kept |-> None]

Ended    == {"idle", "done", "aborted", "failed", "stopped"}
FolderStates == {"absent", "bare", "bad", "good"}

ImpPcs   == Ended \cup {"purge", "parse", "agents", "shared", "memory"}
ExpPcs   == Ended \cup {"file", "index"}

\* imp.only: the one agent of --agent, or None for the fleet.  imp.left: agents or
\* documents still to write.  imp.calm, imp.touched and exp.found are for the
\* properties: nobody else wrote since the run began; the run changed the store;
\* the records that the export found missing from markdown.
NoImport == [pc |-> "idle", only |-> None, purge |-> FALSE, fleet |-> {}, left |-> {},
             calm |-> FALSE, touched |-> FALSE]
NoExport == [pc |-> "idle", todo |-> {}, at |-> None, found |-> {}, calm |-> FALSE]

\* The sections a document of a type can have: only moments, episodes and
\* knowledge have two sides, and an index line is no body.
SidesOf(type) ==
    CASE type = "emotional" -> [live : Texts \cup {None}, kept : Texts \cup {None}]
      [] type \in FileTypes -> [live : {Line, None}, kept : Texts \cup {None}]
      [] OTHER              -> [live : Texts \cup {None}, kept : {None}]

ASSUME TreesAssumption ==
    \A t \in Trees : t \in [Docs -> Sections] /\ \A d \in Docs : t[d] \in SidesOf(TypeOf[d])

Init ==
    /\ folder = [o \in Owners |-> "good"]
    /\ tree \in Trees
    /\ agents = {} /\ rows = [u \in Uuids |-> NoRow]
    /\ imp = NoImport /\ exp = NoExport /\ edits = 0

-----------------------------------------------------------------------------
(* What the importer makes of a document: the row it inserts, as a set that *)
(* is empty where there is nothing to insert.                               *)

Item(d, body, archived) ==
    {[doc |-> d, body |-> b, archived |-> archived, deleted |-> FALSE] : b \in {body} \ {None}}

\* A moment the archive holds is archived, with the archive's text.
Moment(d) ==
    IF tree[d].kept # None THEN Item(d, tree[d].kept, TRUE) ELSE Item(d, tree[d].live, FALSE)

\* An episode file is active when the index lists it.
Episode(d) == Item(d, tree[d].kept, tree[d].live = None)

\* Indexed knowledge is active, with the index line when the file is missing;
\* an unindexed file is archived.
Knowledge(d) ==
    IF tree[d].live = None THEN Item(d, tree[d].kept, TRUE)
    ELSE Item(d, IF tree[d].kept = None THEN tree[d].live ELSE tree[d].kept, FALSE)

Whole(d) == Item(d, tree[d].live, FALSE)

Parsed(d) ==
    CASE TypeOf[d] = "emotional" -> Moment(d)
      [] TypeOf[d] = "episode"   -> Episode(d)
      [] TypeOf[d] = "knowledge" -> Knowledge(d)
      [] OTHER                   -> Whole(d)

-----------------------------------------------------------------------------
(* The store, as far as both tools and the server need it.                  *)

\* The foreign key to the agent, and the partial unique index on the profile.
Storable(u, d) ==
    /\ OwnerOf[d] \in agents \cup {Fleet}
    /\ d \in Profile => \A v \in Uuids \ {u} : rows[v] # NoRow =>
                            rows[v].doc \notin Profile \/ rows[v].deleted

Disturb ==
    /\ imp' = [imp EXCEPT !.calm = FALSE]
    /\ exp' = [exp EXCEPT !.calm = FALSE, !.found = {}]
    /\ edits < MaxEdits /\ edits' = edits + 1

CreateAgent(a) ==
    /\ a \notin agents
    /\ agents' = agents \cup {a}
    /\ Disturb
    /\ UNCHANGED <<folder, tree, rows>>

\* A uuid is of one table: what happens to one in both is MemoryStore's subject.
SameTable(u, d) ==
    \A e \in {u, rows[u].doc} \cap Docs : OwnerOf[e] = Fleet <=> OwnerOf[d] = Fleet

\* An insert that names a stored uuid replaces the record, as the importer's does.
ServerInsert(u, d, body) ==
    /\ Storable(u, d) /\ SameTable(u, d)
    /\ rows' = [rows EXCEPT ![u] = [doc |-> d, body |-> body, archived |-> FALSE, deleted |-> FALSE]]
    /\ Disturb
    /\ UNCHANGED <<folder, tree, agents>>

ServerEdit(u, body) ==
    /\ rows[u] # NoRow /\ ~rows[u].deleted
    /\ rows' = [rows EXCEPT ![u].body = body]
    /\ Disturb
    /\ UNCHANGED <<folder, tree, agents>>

ServerRetire(u, field) ==
    /\ rows[u] # NoRow
    /\ rows' = [rows EXCEPT ![u][field] = TRUE]
    /\ Disturb
    /\ UNCHANGED <<folder, tree, agents>>

\* People write markdown while the tools run.
Author(d, section) ==
    /\ section \in SidesOf(TypeOf[d]) /\ folder[OwnerOf[d]] # "absent"
    /\ tree' = [tree EXCEPT ![d] = section]
    /\ Disturb
    /\ UNCHANGED <<folder, agents, rows>>

\* A folder is removed with what it holds, or loses or regains what pass 1 needs.
Refile(o, state) ==
    /\ state = "absent" => o # Fleet
    /\ folder' = [folder EXCEPT ![o] = state]
    /\ tree' = [d \in Docs |-> IF state = "absent" /\ OwnerOf[d] = o THEN Empty ELSE tree[d]]
    /\ Disturb
    /\ UNCHANGED <<agents, rows>>

-----------------------------------------------------------------------------
(* The importer: main, with and without --purge and --agent.                *)

Importing(pc) == imp.pc = pc /\ UNCHANGED <<folder, tree, exp, edits>>

StartImport(only, purge) ==
    /\ imp.pc \in Ended /\ exp.pc \in Ended
    /\ imp' = [NoImport EXCEPT !.pc = IF purge THEN "purge" ELSE "parse",
                               !.only = only, !.purge = purge, !.calm = TRUE]
    /\ exp' = NoExport
    /\ UNCHANGED <<folder, tree, agents, rows, edits>>

BugPurgeForgetsRecords ==
    /\ Importing("purge")
    /\ rows' = [u \in Uuids |-> IF rows[u] # NoRow /\ OwnerOf[rows[u].doc] = Fleet
                                THEN NoRow ELSE rows[u]]
    /\ agents' = {}
    /\ imp' = [imp EXCEPT !.pc = "parse", !.touched = TRUE]

BugPurgeForgetsShared ==
    /\ Importing("purge")
    /\ rows' = [u \in Uuids |-> IF rows[u] # NoRow /\ OwnerOf[rows[u].doc] = Fleet
                                THEN rows[u] ELSE NoRow]
    /\ agents' = {}
    /\ imp' = [imp EXCEPT !.pc = "parse", !.touched = TRUE]

\* _purge_tenant: all three tables in one transaction.
Purge ==
    /\ Importing("purge")
    /\ rows' = [u \in Uuids |-> NoRow]
    /\ agents' = {}
    /\ imp' = [imp EXCEPT !.pc = "parse",
                          !.touched = (agents # {} \/ \E u \in Uuids : rows[u] # NoRow)]

Folders == IF imp.only = None THEN {a \in Agents : folder[a] # "absent"} ELSE {imp.only}

\* Pass 1: every folder is read before anything is written, or the run aborts.
Parse ==
    /\ Importing("parse")
    /\ imp' = IF \A a \in Folders : folder[a] = "good"
              THEN [imp EXCEPT !.pc = "agents", !.fleet = Folders, !.left = Folders]
              ELSE [imp EXCEPT !.pc = "aborted"]
    /\ UNCHANGED <<agents, rows>>

UpsertAgent(a) ==
    /\ Importing("agents") /\ a \in imp.left
    /\ agents' = agents \cup {a}
    /\ imp' = [imp EXCEPT !.left = @ \ {a}, !.touched = TRUE]
    /\ UNCHANGED rows

\* Pass 2: the shared layer, once, then each agent's own memory.
NextPass(pc, following, docs) ==
    /\ Importing(pc) /\ imp.left = {}
    /\ imp' = [imp EXCEPT !.pc = following, !.left = docs]
    /\ UNCHANGED <<agents, rows>>

BeginShared == NextPass("agents", "shared", Docs \ Memory)
BeginMemory == NextPass("shared", "memory", {d \in Memory : OwnerOf[d] \in imp.fleet})
FinishImport == NextPass("memory", "done", {})

\* Documents are written one by one, in order.  The profile is the last of the
\* shared layer; the mandatory files are read before it.
Turn(d) ==
    /\ imp.pc \in {"shared", "memory"}
    /\ d \in imp.left /\ \A e \in imp.left : Rank[d] <= Rank[e]
    /\ imp.pc = "shared" => folder[Fleet] = "good"
    /\ UNCHANGED <<folder, tree, agents, exp, edits>>

BugImportDocKeepsTombstone(d) ==
    /\ Turn(d)
    /\ \E item \in Parsed(d) :
          /\ Storable(d, d)
          /\ rows' = [rows EXCEPT ![d] = IF @ # NoRow THEN [item EXCEPT !.deleted = rows[d].deleted]
                                         ELSE item]
    /\ imp' = [imp EXCEPT !.left = @ \ {d}, !.touched = TRUE]

\* One upsert on the uuid that stable_uuid derives: body, archived date and
\* tombstone are what markdown says.
ImportDoc(d) ==
    /\ Turn(d)
    /\ \E item \in Parsed(d) :
          /\ Storable(d, d)
          /\ rows' = [rows EXCEPT ![d] = item]
    /\ imp' = [imp EXCEPT !.left = @ \ {d}, !.touched = TRUE]

SkipDoc(d) ==
    /\ Turn(d)
    /\ Parsed(d) = {}
    /\ imp' = [imp EXCEPT !.left = @ \ {d}]
    /\ UNCHANGED rows

\* A missing mandatory file or a refused insert ends the run where it is.
ImportFails ==
    /\ \/ imp.pc = "shared" /\ folder[Fleet] = "bad"
       \/ \E d \in Docs : Turn(d) /\ Parsed(d) # {} /\ ~Storable(d, d)
    /\ imp' = [NoImport EXCEPT !.pc = "failed"]
    /\ UNCHANGED <<folder, tree, agents, rows, exp, edits>>

StopImport ==
    /\ imp.pc \notin Ended
    /\ imp' = [NoImport EXCEPT !.pc = "stopped"]
    /\ UNCHANGED <<folder, tree, agents, rows, exp, edits>>

-----------------------------------------------------------------------------
(* The exporter.                                                            *)

\* What a purged import of the tree would hold, found by importing it into a
\* scratch store, which stops as the importer would.
Derived == {d \in Docs : Parsed(d) # {}}
TreeImports == folder[Fleet] = "good" /\ \A a \in Agents : folder[a] \in {"good", "absent"}

\* compare reads memory_record only, tombstones included.
DbOnly == {u \in Uuids \ Derived : rows[u] # NoRow /\ rows[u].doc \in Memory}

BugCompareReadsHot ==
    /\ imp.pc \in Ended /\ exp.pc \in Ended /\ TreeImports
    /\ exp' = [NoExport EXCEPT !.pc = "file", !.todo = {rows[u] : u \in {v \in DbOnly : ~rows[v].archived}},
                               !.found = DbOnly, !.calm = TRUE]
    /\ imp' = NoImport
    /\ UNCHANGED <<folder, tree, agents, rows, edits>>

Compare ==
    /\ imp.pc \in Ended /\ exp.pc \in Ended /\ TreeImports
    /\ exp' = [NoExport EXCEPT !.pc = "file", !.todo = {rows[u] : u \in DbOnly},
                               !.found = DbOnly, !.calm = TRUE]
    /\ imp' = NoImport
    /\ UNCHANGED <<folder, tree, agents, rows, edits>>

Exporting(pc) == exp.pc = pc /\ UNCHANGED <<agents, rows, imp, edits>>

\* export_episode, export_knowledge: one file, at the path made of the title, over
\* whatever is there.  Its text is the body under a heading.
WriteFile(r) ==
    LET home == HomeOf[r.doc]
    IN  /\ Exporting("file") /\ r \in exp.todo /\ TypeOf[r.doc] \in FileTypes
        /\ tree' = [tree EXCEPT ![home].kept = r.body]
        /\ folder' = [folder EXCEPT ![OwnerOf[home]] = IF @ = "absent" THEN "bare" ELSE @]
        /\ exp' = [exp EXCEPT !.pc = "index", !.todo = @ \ {r}, !.at = home]

\* add_episode_index, add_knowledge_index: the bullet that makes the file active.
AddIndex ==
    /\ Exporting("index") /\ folder[OwnerOf[exp.at]] \in {"good", "bad"}
    /\ tree' = [tree EXCEPT ![exp.at].live = Line]
    /\ exp' = [exp EXCEPT !.pc = "file", !.at = None]
    /\ UNCHANGED folder

\* A type without a file of its own, knowledge without an anchor, an index
\* without a place for the bullet; or the process is stopped.
ExportFails ==
    /\ exp.pc \in {"file", "index"}
    /\ exp' = [NoExport EXCEPT !.pc = "failed", !.calm = exp.calm]
    /\ UNCHANGED <<folder, tree, agents, rows, imp, edits>>

FinishExport ==
    /\ Exporting("file") /\ exp.todo = {}
    /\ exp' = [exp EXCEPT !.pc = "done"]
    /\ UNCHANGED <<folder, tree>>

-----------------------------------------------------------------------------
Import ==
    \/ \E only \in Agents \cup {None}, purge \in BOOLEAN : StartImport(only, purge)
    \/ Purge \/ Parse \/ BeginShared \/ BeginMemory \/ FinishImport \/ ImportFails \/ StopImport
    \/ \E a \in Agents : UpsertAgent(a)
    \/ \E d \in Docs : ImportDoc(d) \/ SkipDoc(d)

Export == Compare \/ AddIndex \/ ExportFails \/ FinishExport \/ \E r \in exp.todo : WriteFile(r)

Others ==
    \/ \E a \in Agents : CreateAgent(a)
    \/ \E u \in Named, d \in Docs, body \in Texts : ServerInsert(u, d, body)
    \/ \E u \in Uuids, body \in Texts : ServerEdit(u, body)
    \/ \E u \in Uuids, field \in {"archived", "deleted"} : ServerRetire(u, field)
    \/ \E d \in Docs, section \in Sections : Author(d, section)
    \/ \E o \in Owners, state \in FolderStates \ {"bare"} : Refile(o, state)

Next == Import \/ Export \/ Others

Spec == Init /\ [][Next]_vars

-----------------------------------------------------------------------------
(* Properties.                                                              *)

TypeOK ==
    /\ folder \in [Owners -> FolderStates]
    /\ tree   \in [Docs -> Sections]
    /\ agents \subseteq Agents
    /\ rows   \in [Uuids -> RowSet \cup {NoRow}]
    /\ imp    \in [pc : ImpPcs, only : Agents \cup {None}, purge : BOOLEAN,
                   fleet : SUBSET Agents, left : SUBSET (Agents \cup Docs),
                   calm : BOOLEAN, touched : BOOLEAN]
    /\ exp    \in [pc : ExpPcs, todo : SUBSET RowSet, at : Docs \cup {None},
                   found : SUBSET Uuids, calm : BOOLEAN]
    /\ edits  \in 0..MaxEdits

\* Whatever was purged, stopped or refused half-way, an agent's memory has its
\* agent: "exactly the orphans the purge exists to remove" are never there.
NoOrphans ==
    \A u \in Uuids : rows[u] # NoRow => OwnerOf[rows[u].doc] \in agents \cup {Fleet}

\* An import that ran to its end undisturbed, over whatever earlier runs, edits
\* and deletions had left, holds what markdown holds: the full body where there
\* is one, archived what the archive or a missing index line says is archived.
Holds(d) ==
    LET text == IF tree[d].kept # None THEN tree[d].kept ELSE tree[d].live
        old  == IF TypeOf[d] = "emotional" THEN tree[d].kept # None
                ELSE TypeOf[d] \in FileTypes /\ tree[d].live = None
    IN  (text # None /\ (TypeOf[d] = "episode" => tree[d].kept # None)) =>
            rows[d] = [doc |-> d, body |-> text, archived |-> old, deleted |-> FALSE]

ImportIsWhole ==
    (imp.pc = "done" /\ imp.calm) =>
        \A d \in Docs : OwnerOf[d] \in imp.fleet \cup {Fleet} => Holds(d)

\* "--purge clears the tenant first, which is how the store is made to match
\* markdown exactly": after a fleet's purged import no other row is left.
PurgeMatches ==
    (imp.pc = "done" /\ imp.calm /\ imp.purge /\ imp.only = None) =>
        {u \in Uuids : rows[u] # NoRow} = Derived

\* Nothing is in the store that should not be: no orphan, and after a purged
\* import no row that markdown does not give.
NothingStray == TypeOK /\ NoOrphans /\ PurgeMatches

\* An export that ran to its end undisturbed leaves no live memory of the store
\* without a markdown home.  One that it found missing is in the document of its
\* path, with its own text or with that of another found record of that path; one
\* that it did not find missing is in markdown under its own uuid.
LiveMemory == {u \in Uuids : rows[u] # NoRow /\ rows[u].doc \in Memory /\ ~rows[u].deleted}

Namesakes(u) == {v \in exp.found : HomeOf[rows[v].doc] = HomeOf[rows[u].doc]}
HasHome(u, texts) == \E item \in Parsed(HomeOf[rows[u].doc]) : item.body \in texts

ExportKeepsContent ==
    (exp.pc = "done" /\ exp.calm) =>
        \A u \in LiveMemory :
            IF u \in exp.found THEN HasHome(u, {rows[v].body : v \in Namesakes(u)})
            ELSE u \in Derived

(* What the documentation says and the code does not do.                    *)

\* "So a reimport rebuilds the record": after an export the tree can be imported.
ExportLeavesTreeImportable == (exp.pc \in {"done", "failed"} /\ exp.calm) => TreeImports

\* "Raised before anything is written, so a run either imports the whole fleet
\* or leaves the database exactly as it found it."
AbortLeavesStore == imp.pc = "aborted" => ~imp.touched

\* "Finds those records and gives them a markdown home": each of them, also two
\* that share a path.
ExportKeepsEveryRecord ==
    (exp.pc = "done" /\ exp.calm) => \A u \in LiveMemory \cap exp.found : HasHome(u, {rows[u].body})

\* "So a reimport rebuilds the record": archived or active, as it was.
ExportKeepsArchived ==
    (exp.pc = "done" /\ exp.calm) =>
        \A u \in LiveMemory \cap exp.found :
            \E item \in Parsed(HomeOf[rows[u].doc]) : item.archived = rows[u].archived

\* "Materialise the episode and knowledge records the markdown tree lacks": what
\* it has is left as it is.
ExportReplacesNothing ==
    [][\A d \in Docs : exp.calm /\ exp'.calm /\ tree[d].kept # None => tree'[d].kept = tree[d].kept]_vars

\* "A tombstone is never surfaced": what was deleted is not written to markdown,
\* from where the next import would bring it back.
ExportSkipsDeleted == \A r \in exp.todo : ~r.deleted
=============================================================================
