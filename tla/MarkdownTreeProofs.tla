------------------------- MODULE MarkdownTreeProofs -------------------------
(***************************************************************************)
(* What TLAPS proves of MarkdownTree, for any agents, documents, texts and *)
(* trees, any number of edits and any sequence of runs: the store is never *)
(* left with a stray row, an import that ends holds what markdown holds,   *)
(* and an export that ends leaves no live memory without a document.       *)
(*                                                                         *)
(* Most of this is said of a run that nobody disturbed.  The argument gives*)
(* each run an invariant of its own, Importers and Exporters, that says    *)
(* what it has done so far; a step of anybody else ends its claim, and the *)
(* rest, BaseInv, holds whoever moves.                                     *)
(***************************************************************************)
EXTENDS MarkdownTree, TLAPS

-----------------------------------------------------------------------------
(* The inductive invariant.                                                 *)

\* One tool at a time.
OneTool == imp.pc = "idle" \/ exp.pc = "idle"

\* Only moments, episodes and knowledge have a second side, and a folder that is
\* not there holds nothing.
TreeOK ==
    /\ \A d \in Docs : TypeOf[d] \notin FileTypes \cup {"emotional"} => tree[d].kept = None
    /\ \A d \in Docs : folder[OwnerOf[d]] = "absent" => tree[d] = Empty

\* The row of a document is what markdown says, where it says anything.
InStore(d) == Parsed(d) \subseteq {rows[d]}

\* What an import that nobody disturbs has done so far.
Fleetwide == imp.only = None => imp.fleet = {a \in Agents : folder[a] # "absent"}
SharedIn  == \A d \in Docs \ Memory : d \in imp.left \/ InStore(d)
MemoryIn  == \A d \in Memory : OwnerOf[d] \in imp.fleet => d \in imp.left \/ InStore(d)
Purged    == \A u \in Uuids : rows[u] # NoRow => u \in Derived

Importers ==
    /\ imp.pc \in {"agents", "shared", "memory", "done"} => Fleetwide
    /\ imp.pc = "shared" => SharedIn /\ imp.left \subseteq Docs \ Memory
    /\ imp.pc \in {"memory", "done"} => \A d \in Docs \ Memory : InStore(d)
    /\ imp.pc = "memory" => MemoryIn
    /\ imp.pc = "done" => \A d \in Memory : OwnerOf[d] \in imp.fleet => InStore(d)
    /\ imp.pc \in {"parse", "agents", "shared", "memory", "done"} /\ imp.purge => Purged

\* The file of a path has the text of a found record of that path.
Filed(d) ==
    /\ TypeOf[d] \in FileTypes
    /\ \E v \in exp.found : HomeOf[rows[v].doc] = d /\ tree[d].kept = rows[v].body

\* What an export that nobody disturbs has found and done so far.
Found   == \A u \in Uuids : (rows[u] # NoRow /\ rows[u].doc \in Memory) =>
               u \in exp.found \cup Derived
Written == \A u \in exp.found :
               rows[u] # NoRow /\ (rows[u] \in exp.todo \/ Filed(HomeOf[rows[u].doc]))
Pending == \A r \in exp.todo : \E v \in exp.found : r = rows[v]

Exporters ==
    /\ exp.pc \in {"file", "index", "done"} => Found /\ Written /\ Pending
    /\ exp.pc = "done" => exp.todo = {}

\* What holds in every state, disturbed or not.
AtFile == exp.pc = "index" => exp.at \in Docs /\ TypeOf[exp.at] \in FileTypes

BaseInv == TypeOK /\ NoOrphans /\ OneTool /\ TreeOK /\ AtFile

TreeInv == BaseInv /\ (imp.calm => Importers) /\ (exp.calm => Exporters)

-----------------------------------------------------------------------------
(* What the importer makes of a document.                                   *)

\* The types of what TypeOK speaks of, in the form in which the steps use them.
LEMMA RowFacts == /\ NoRow \notin RowSet
                  /\ \A r \in RowSet : r.doc \in Docs /\ r # NoRow
BY DocsAssumption DEF NoRow, RowSet

\* At most one row, live, with the text markdown has.
LEMMA ItemFacts ==
    ASSUME NEW d \in Docs, NEW body \in Texts \cup {Line, None}, NEW archived \in BOOLEAN
    PROVE  /\ \A i \in Item(d, body, archived) :
                 i = [doc |-> d, body |-> body, archived |-> archived, deleted |-> FALSE]
           /\ Item(d, body, archived) = {} <=> body = None
           /\ Item(d, body, archived) \subseteq RowSet
<1> DEFINE item == [doc |-> d, body |-> body, archived |-> archived, deleted |-> FALSE]
<1>1. Item(d, body, archived) = IF body = None THEN {} ELSE {item}
  BY DEF Item
<1>2. body # None => item \in RowSet
  BY DEF RowSet
<1>3. QED
  BY <1>1, <1>2

\* What is parsed of a document is one row of that document, or nothing.
LEMMA ParsedFacts ==
    ASSUME TypeOK, NEW d \in Docs
    PROVE  /\ Parsed(d) \subseteq RowSet
           /\ \A i \in Parsed(d) : i.doc = d /\ i # NoRow
           /\ \A i, j \in Parsed(d) : i = j
<1>1. /\ tree[d].live \in Texts \cup {Line, None}
      /\ tree[d].kept \in Texts \cup {Line, None}
  BY DEF TypeOK, Sections
<1>2. PICK body \in Texts \cup {Line, None}, archived \in BOOLEAN :
         Parsed(d) = Item(d, body, archived)
  <2>1. /\ \E archived \in BOOLEAN : Episode(d) = Item(d, tree[d].kept, archived)
        /\ Whole(d) = Item(d, tree[d].live, FALSE)
    BY DEF Episode, Whole
  <2>2. \E body \in {tree[d].live, tree[d].kept}, archived \in BOOLEAN :
           Moment(d) = Item(d, body, archived)
    BY DEF Moment
  <2>3. \E body \in {tree[d].live, tree[d].kept}, archived \in BOOLEAN :
           Knowledge(d) = Item(d, body, archived)
    BY DEF Knowledge
  <2>4. QED
    BY <1>1, <2>1, <2>2, <2>3 DEF Parsed
<1> DEFINE item == [doc |-> d, body |-> body, archived |-> archived, deleted |-> FALSE]
<1>3. (\A i \in Parsed(d) : i = item) /\ Parsed(d) \subseteq RowSet
  BY <1>2, ItemFacts
<1>4. item.doc = d
  OBVIOUS
<1> HIDE DEF item
<1>5. QED
  BY <1>3, <1>4, RowFacts

\* A document that markdown leaves alone is read as before.
LEMMA ParsedSame ==
    ASSUME NEW d, tree'[d] = tree[d]
    PROVE  Parsed(d)' = Parsed(d)
BY DEF Parsed, Moment, Episode, Knowledge, Whole, Item

\* A document with a file is parsed to the text of the file.
LEMMA ParsedFile ==
    ASSUME TypeOK, NEW d \in Docs, TypeOf[d] \in FileTypes, tree[d].kept # None
    PROVE  \E i \in Parsed(d) : i.body = tree[d].kept
<1>1. tree[d].kept \in Texts \cup {Line, None}
  BY DEF TypeOK, Sections
<1>2. TypeOf[d] = "episode" \/ TypeOf[d] = "knowledge"
  BY DEF FileTypes
<1>3. PICK archived \in BOOLEAN : Parsed(d) = Item(d, tree[d].kept, archived)
  BY <1>2 DEF Parsed, Episode, Knowledge
<1>4. QED
  BY <1>1, <1>3, ItemFacts

\* Nothing is parsed where markdown has neither side.
LEMMA ParsedEmpty ==
    ASSUME NEW d \in Docs, tree[d] = Empty
    PROVE  Parsed(d) = {}
<1>1. tree[d].live = None /\ tree[d].kept = None
  BY DEF Empty
<1>2. \E archived \in BOOLEAN : Parsed(d) = Item(d, None, archived)
  BY <1>1 DEF Parsed, Moment, Episode, Knowledge, Whole
<1>3. QED
  BY <1>2, ItemFacts

-----------------------------------------------------------------------------
(* The steps of people and servers, who disturb whatever tool is running.    *)

\* Everything that a disturbing step leaves of the invariant.
LEMMA DisturbedStep ==
    ASSUME BaseInv, Disturb, folder' \in [Owners -> FolderStates],
           tree' \in [Docs -> Sections], rows' \in [Uuids -> RowSet \cup {NoRow}],
           agents' \subseteq Agents, NoOrphans', TreeOK'
    PROVE  TreeInv'
<1>1. /\ imp' = [imp EXCEPT !.calm = FALSE] /\ exp' = [exp EXCEPT !.calm = FALSE, !.found = {}]
      /\ edits' \in 0..MaxEdits
  BY BoundAssumption DEF Disturb, BaseInv, TypeOK
<1>2. TypeOK'
  BY <1>1 DEF BaseInv, TypeOK
<1>3. /\ imp'.pc = imp.pc /\ imp'.calm = FALSE
      /\ exp'.pc = exp.pc /\ exp'.at = exp.at /\ exp'.calm = FALSE
  BY <1>1 DEF BaseInv, TypeOK
<1>4. OneTool' /\ AtFile'
  BY <1>3 DEF BaseInv, OneTool, AtFile
<1>5. QED
  BY <1>2, <1>3, <1>4 DEF TreeInv, BaseInv

LEMMA CreateAgentStep ==
    ASSUME BaseInv, NEW a \in Agents, CreateAgent(a)
    PROVE  TreeInv'
<1>1. NoOrphans' /\ agents' \subseteq Agents
  BY DEF CreateAgent, BaseInv, NoOrphans, TypeOK
<1>2. QED
  BY <1>1, DisturbedStep DEF CreateAgent, BaseInv, TypeOK, TreeOK

LEMMA ServerInsertStep ==
    ASSUME BaseInv, NEW u \in Named, NEW d \in Docs, NEW body \in Texts,
           ServerInsert(u, d, body)
    PROVE  TreeInv'
<1> DEFINE row == [doc |-> d, body |-> body, archived |-> FALSE, deleted |-> FALSE]
<1>1. /\ u \in Uuids /\ row \in RowSet
      /\ rows' = [rows EXCEPT ![u] = row]
      /\ OwnerOf[d] \in agents \cup {Fleet}
  BY NamedAssumption DEF Uuids, RowSet, ServerInsert, Storable
<1>2. rows' \in [Uuids -> RowSet \cup {NoRow}]
  BY <1>1 DEF BaseInv, TypeOK
<1>3. NoOrphans'
  <2>1. \A v \in Uuids : rows'[v] = IF v = u THEN row ELSE rows[v]
    BY <1>1 DEF BaseInv, TypeOK
  <2>2. QED
    BY <1>1, <2>1 DEF ServerInsert, BaseInv, NoOrphans
<1>4. QED
  BY <1>2, <1>3, DisturbedStep DEF ServerInsert, BaseInv, TypeOK, TreeOK

LEMMA ServerWriteStep ==
    ASSUME BaseInv, NEW u \in Uuids,
           \/ \E body \in Texts : ServerEdit(u, body)
           \/ \E field \in {"archived", "deleted"} : ServerRetire(u, field)
    PROVE  TreeInv'
<1>1. rows[u] \in RowSet
  BY DEF ServerEdit, ServerRetire, BaseInv, TypeOK
<1>2. PICK row \in RowSet : row.doc = rows[u].doc /\ rows' = [rows EXCEPT ![u] = row]
  <2>1. ASSUME NEW body \in Texts, ServerEdit(u, body)
        PROVE  \E row \in RowSet : row.doc = rows[u].doc /\ rows' = [rows EXCEPT ![u] = row]
    <3>1. [rows[u] EXCEPT !.body = body] \in RowSet /\ [rows[u] EXCEPT !.body = body].doc = rows[u].doc
      BY <1>1 DEF RowSet
    <3>2. QED
      BY <2>1, <3>1 DEF ServerEdit
  <2>2. ASSUME NEW field \in {"archived", "deleted"}, ServerRetire(u, field)
        PROVE  \E row \in RowSet : row.doc = rows[u].doc /\ rows' = [rows EXCEPT ![u] = row]
    <3>1. [rows[u] EXCEPT ![field] = TRUE] \in RowSet /\ [rows[u] EXCEPT ![field] = TRUE].doc = rows[u].doc
      BY <1>1 DEF RowSet
    <3>2. QED
      BY <2>2, <3>1 DEF ServerRetire
  <2>3. QED
    BY <2>1, <2>2
<1>3. /\ Disturb /\ UNCHANGED <<folder, tree, agents>> /\ rows[u] # NoRow
  BY DEF ServerEdit, ServerRetire
<1>4. rows' \in [Uuids -> RowSet \cup {NoRow}]
  BY <1>2 DEF BaseInv, TypeOK
<1>5. NoOrphans'
  <2>1. \A v \in Uuids : rows'[v] # NoRow => rows[v] # NoRow /\ rows'[v].doc = rows[v].doc
    BY <1>2, <1>3 DEF BaseInv, TypeOK
  <2>2. QED
    BY <1>3, <2>1 DEF BaseInv, NoOrphans
<1>6. QED
  BY <1>3, <1>4, <1>5, DisturbedStep DEF BaseInv, TypeOK, TreeOK

LEMMA AuthorStep ==
    ASSUME BaseInv, NEW d \in Docs, NEW section \in Sections, Author(d, section)
    PROVE  TreeInv'
<1>1. \A e \in Docs : tree'[e] = IF e = d THEN section ELSE tree[e]
  BY DEF Author, BaseInv, TypeOK
<1>2. TypeOf[d] \notin FileTypes \cup {"emotional"} => section.kept = None
  BY DEF Author, SidesOf
<1>3. TreeOK'
  BY <1>1, <1>2 DEF Author, BaseInv, TreeOK
<1>4. NoOrphans'
  BY DEF Author, BaseInv, NoOrphans
<1>5. QED
  BY <1>3, <1>4, DisturbedStep DEF Author, BaseInv, TypeOK

LEMMA RefileStep ==
    ASSUME BaseInv, NEW o \in Owners, NEW state \in FolderStates \ {"bare"}, Refile(o, state)
    PROVE  TreeInv'
<1>1. Empty \in Sections /\ Empty.kept = None
  BY DEF Empty, Sections
<1>2. /\ \A p \in Owners : folder'[p] = IF p = o THEN state ELSE folder[p]
      /\ \A d \in Docs : tree'[d] = IF state = "absent" /\ OwnerOf[d] = o THEN Empty ELSE tree[d]
      /\ folder' \in [Owners -> FolderStates] /\ tree' \in [Docs -> Sections]
  BY <1>1 DEF Refile, BaseInv, TypeOK
<1>3. \A d \in Docs : OwnerOf[d] \in Owners
  BY OwnersAssumption DEF Owners
<1>4. TreeOK'
  BY <1>1, <1>2, <1>3 DEF BaseInv, TreeOK
<1>5. NoOrphans'
  BY DEF Refile, BaseInv, NoOrphans
<1>6. QED
  BY <1>2, <1>4, <1>5, DisturbedStep DEF Refile, BaseInv, TypeOK

-----------------------------------------------------------------------------
(* The steps of the importer.                                               *)

ImpRecords == [pc : ImpPcs, only : Agents \cup {None}, purge : BOOLEAN,
               fleet : SUBSET Agents, left : SUBSET (Agents \cup Docs),
               calm : BOOLEAN, touched : BOOLEAN]

ExpRecords == [pc : ExpPcs, todo : SUBSET RowSet, at : Docs \cup {None},
               found : SUBSET Uuids, calm : BOOLEAN]

\* A tree that stands still reads the same.
LEMMA ReadSame ==
    ASSUME tree' = tree
    PROVE  (\A d \in Docs : Parsed(d)' = Parsed(d)) /\ Derived' = Derived
<1>1. \A d \in Docs : Parsed(d)' = Parsed(d)
  BY ParsedSame
<1>2. QED
  BY <1>1 DEF Derived

\* Everything that a step of the running importer leaves of the invariant.
LEMMA ImporterStep ==
    ASSUME BaseInv, imp.pc \notin Ended, UNCHANGED <<folder, tree, exp, edits>>,
           agents' \subseteq Agents, rows' \in [Uuids -> RowSet \cup {NoRow}],
           imp' \in ImpRecords, NoOrphans', imp'.calm => Importers'
    PROVE  TreeInv'
<1>1. exp'.pc = "idle"
  BY DEF BaseInv, OneTool, Ended
<1>2. TypeOK'
  BY DEF BaseInv, TypeOK, ImpRecords
<1>3. TreeOK' /\ OneTool' /\ AtFile'
  BY <1>1 DEF BaseInv, TreeOK, OneTool, AtFile
<1>4. Exporters'
  BY <1>1 DEF Exporters
<1>5. QED
  BY <1>2, <1>3, <1>4 DEF TreeInv, BaseInv

LEMMA StartImportStep ==
    ASSUME BaseInv, NEW only \in Agents \cup {None}, NEW purge \in BOOLEAN,
           StartImport(only, purge)
    PROVE  TreeInv'
<1>1. /\ imp' \in ImpRecords
      /\ imp'.pc \in {"purge", "parse"} /\ (imp'.pc = "parse" => imp'.purge = FALSE)
  BY DEF StartImport, NoImport, ImpRecords, ImpPcs, Ended
<1>2. exp'.pc = "idle" /\ exp'.calm = FALSE /\ exp' = NoExport
  BY DEF StartImport, NoExport
<1>3. TypeOK'
  <2>1. NoExport \in ExpRecords
    BY DEF NoExport, ExpRecords, ExpPcs, Ended
  <2>2. QED
    BY <1>1, <1>2, <2>1 DEF StartImport, BaseInv, TypeOK, ImpRecords, ExpRecords
<1>4. OneTool' /\ AtFile' /\ TreeOK' /\ NoOrphans'
  BY <1>2 DEF StartImport, BaseInv, OneTool, AtFile, TreeOK, NoOrphans
<1>5. Importers'
  BY <1>1 DEF Importers
<1>6. QED
  BY <1>2, <1>3, <1>4, <1>5 DEF TreeInv, BaseInv

LEMMA PurgeStep ==
    ASSUME TreeInv, Purge
    PROVE  TreeInv'
<1>1. imp' \in ImpRecords /\ imp'.pc = "parse" /\ imp.pc \notin Ended
  BY DEF Purge, Importing, TreeInv, BaseInv, TypeOK, ImpRecords, ImpPcs, Ended
<1>2. /\ rows' \in [Uuids -> RowSet \cup {NoRow}]
      /\ \A u \in Uuids : rows'[u] = NoRow
  BY DEF Purge
<1>3. NoOrphans' /\ Purged'
  BY <1>2 DEF NoOrphans, Purged
<1>4. Importers'
  BY <1>1, <1>3 DEF Importers
<1>5. QED
  BY <1>1, <1>2, <1>3, <1>4, ImporterStep DEF Purge, Importing, TreeInv

\* The fleet is the folders that are there, or the one agent asked for.
LEMMA ParseStep ==
    ASSUME TreeInv, Parse
    PROVE  TreeInv'
<1>1. Folders \subseteq Agents
  BY DEF Folders, TreeInv, BaseInv, TypeOK
<1>2. /\ imp' \in ImpRecords /\ imp'.pc \in {"agents", "aborted"} /\ imp.pc = "parse"
      /\ imp'.only = imp.only /\ imp'.purge = imp.purge /\ imp'.calm = imp.calm
      /\ imp'.pc = "agents" => imp'.fleet = Folders
  BY <1>1 DEF Parse, Importing, TreeInv, BaseInv, TypeOK, ImpRecords, ImpPcs, Ended
<1>3. UNCHANGED <<folder, tree, exp, edits, agents, rows>>
  BY DEF Parse, Importing
<1>4. ASSUME imp'.calm PROVE Importers'
  <2>1. imp.purge => Purged
    BY <1>2, <1>4 DEF TreeInv, Importers
  <2>2. imp'.purge => Purged'
    BY <1>2, <1>3, <2>1, ReadSame DEF Purged
  <2>3. imp'.pc = "agents" => Fleetwide'
    BY <1>2, <1>3 DEF Fleetwide, Folders
  <2>4. QED
    BY <1>2, <2>2, <2>3 DEF Importers
<1>5. QED
  BY <1>2, <1>3, <1>4, ImporterStep DEF TreeInv, BaseInv, TypeOK, NoOrphans, Ended

LEMMA UpsertAgentStep ==
    ASSUME TreeInv, NEW a \in Agents, UpsertAgent(a)
    PROVE  TreeInv'
<1>1. /\ imp' \in ImpRecords /\ imp'.pc = "agents" /\ imp.pc = "agents"
      /\ imp'.only = imp.only /\ imp'.purge = imp.purge /\ imp'.calm = imp.calm
      /\ imp'.fleet = imp.fleet
  BY DEF UpsertAgent, Importing, TreeInv, BaseInv, TypeOK, ImpRecords
<1>2. UNCHANGED <<folder, tree, exp, edits, rows>> /\ agents' = agents \cup {a}
  BY DEF UpsertAgent, Importing
<1>3. NoOrphans'
  BY <1>2 DEF TreeInv, BaseInv, NoOrphans
<1>4. ASSUME imp'.calm PROVE Importers'
  <2>1. Fleetwide' /\ (imp'.purge => Purged')
    BY <1>1, <1>2, <1>4, ReadSame DEF TreeInv, Importers, Fleetwide, Purged
  <2>2. QED
    BY <1>1, <2>1 DEF Importers
<1>5. QED
  BY <1>1, <1>2, <1>3, <1>4, ImporterStep DEF TreeInv, BaseInv, TypeOK, Ended

\* Between the passes nothing is written, and what was left to do is done.
LEMMA NextPassStep ==
    ASSUME TreeInv, BeginShared \/ BeginMemory \/ FinishImport
    PROVE  TreeInv'
<1>1. UNCHANGED <<folder, tree, exp, edits, agents, rows>>
  BY DEF BeginShared, BeginMemory, FinishImport, NextPass, Importing
<1>2. /\ imp' \in ImpRecords /\ imp.left = {}
      /\ imp'.only = imp.only /\ imp'.purge = imp.purge /\ imp'.calm = imp.calm
      /\ imp'.fleet = imp.fleet
      /\ \/ imp.pc = "agents" /\ imp'.pc = "shared" /\ imp'.left = Docs \ Memory
         \/ /\ imp.pc = "shared" /\ imp'.pc = "memory"
            /\ imp'.left = {d \in Memory : OwnerOf[d] \in imp.fleet}
         \/ imp.pc = "memory" /\ imp'.pc = "done"
  <2>1. /\ Docs \ Memory \subseteq Docs
        /\ {d \in Memory : OwnerOf[d] \in imp.fleet} \subseteq Docs
    BY DEF Memory
  <2>2. ASSUME NEW pc \in ImpPcs, NEW following \in ImpPcs, NEW docs \in SUBSET Docs,
               NextPass(pc, following, docs)
        PROVE  /\ imp' \in ImpRecords /\ imp.left = {} /\ imp.pc = pc
               /\ imp'.only = imp.only /\ imp'.purge = imp.purge /\ imp'.calm = imp.calm
               /\ imp'.fleet = imp.fleet /\ imp'.pc = following /\ imp'.left = docs
    <3>1. imp \in ImpRecords
      BY DEF TreeInv, BaseInv, TypeOK, ImpRecords
    <3>2. imp' = [imp EXCEPT !.pc = following, !.left = docs] /\ imp.left = {} /\ imp.pc = pc
      BY <2>2 DEF NextPass, Importing
    <3>3. QED
      BY <3>1, <3>2 DEF ImpRecords
  <2>3. {"agents", "shared", "memory", "done"} \subseteq ImpPcs
    BY DEF ImpPcs, Ended
  <2>4. CASE BeginShared
    BY <2>1, <2>2, <2>3, <2>4 DEF BeginShared
  <2>5. CASE BeginMemory
    BY <2>1, <2>2, <2>3, <2>5 DEF BeginMemory
  <2>6. CASE FinishImport
    BY <2>2, <2>3, <2>6 DEF FinishImport
  <2>7. QED
    BY <2>4, <2>5, <2>6
<1>3. ASSUME imp'.calm PROVE Importers'
  <2>1. Importers
    BY <1>2, <1>3 DEF TreeInv
  <2>2. Fleetwide' /\ (imp'.purge => Purged')
    BY <1>1, <1>2, <2>1, ReadSame DEF Importers, Fleetwide, Purged
  <2>3. \A d \in Docs : InStore(d) => InStore(d)'
    BY <1>1, ReadSame DEF InStore
  <2>4. CASE imp'.pc = "shared"
    BY <1>2, <2>2, <2>4 DEF Importers, SharedIn
  <2>5. CASE imp'.pc = "memory"
    <3>1. \A d \in Docs \ Memory : InStore(d)'
      BY <1>2, <2>1, <2>3, <2>5 DEF Importers, SharedIn
    <3>2. MemoryIn'
      BY <1>2, <2>5 DEF MemoryIn
    <3>3. QED
      BY <2>2, <2>5, <3>1, <3>2 DEF Importers
  <2>6. CASE imp'.pc = "done"
    <3>1. \A d \in Docs \ Memory : InStore(d)'
      BY <1>2, <2>1, <2>3, <2>6 DEF Importers
    <3>2. \A d \in Memory : OwnerOf[d] \in imp'.fleet => InStore(d)'
      BY <1>2, <2>1, <2>3, <2>6 DEF Importers, MemoryIn, Memory
    <3>3. QED
      BY <2>2, <2>6, <3>1, <3>2 DEF Importers
  <2>7. QED
    BY <1>2, <2>4, <2>5, <2>6
<1>4. QED
  BY <1>1, <1>2, <1>3, ImporterStep DEF TreeInv, BaseInv, TypeOK, NoOrphans, Ended

\* A document that is done leaves what is to do; the others are as they were.
LEMMA TurnDone ==
    ASSUME TreeInv, NEW d \in Docs, Turn(d), InStore(d)',
           \A e \in Docs \ {d} : InStore(e) => InStore(e)', Purged => Purged',
           imp'.pc = imp.pc, imp'.only = imp.only, imp'.purge = imp.purge,
           imp'.fleet = imp.fleet, imp'.calm = imp.calm, imp'.left = imp.left \ {d}
    PROVE  imp'.calm => Importers'
<1> SUFFICES ASSUME imp'.calm PROVE Importers'
  OBVIOUS
<1>1. Importers /\ imp.pc \in {"shared", "memory"} /\ d \in imp.left
  BY DEF TreeInv, Turn
<1>2. Fleetwide' /\ (imp'.purge => Purged')
  BY <1>1 DEF Turn, Importers, Fleetwide
<1>3. \A e \in Docs : InStore(e) => InStore(e)'
  OBVIOUS
<1>4. CASE imp.pc = "shared"
  <2>1. SharedIn' /\ imp'.left \subseteq Docs \ Memory
    BY <1>1, <1>3, <1>4 DEF Importers, SharedIn
  <2>2. QED
    BY <1>2, <1>4, <2>1 DEF Importers
<1>5. CASE imp.pc = "memory"
  <2>1. \A e \in Docs \ Memory : InStore(e)'
    BY <1>1, <1>3, <1>5 DEF Importers
  <2>2. MemoryIn'
    BY <1>1, <1>3, <1>5 DEF Importers, MemoryIn, Memory
  <2>3. QED
    BY <1>2, <1>5, <2>1, <2>2 DEF Importers
<1>6. QED
  BY <1>1, <1>4, <1>5

\* The row of the uuid becomes the one that markdown gives.
LEMMA ImportDocStep ==
    ASSUME TreeInv, NEW d \in Docs, ImportDoc(d)
    PROVE  TreeInv'
<1>1. PICK item \in Parsed(d) : Storable(d, d) /\ rows' = [rows EXCEPT ![d] = item]
  BY DEF ImportDoc
<1>2. /\ item \in RowSet /\ item.doc = d /\ item # NoRow
      /\ Parsed(d) = {item} /\ d \in Uuids
  BY <1>1, ParsedFacts DEF TreeInv, BaseInv, Uuids
<1>3. \A u \in Uuids : rows'[u] = IF u = d THEN item ELSE rows[u]
  BY <1>1 DEF TreeInv, BaseInv, TypeOK
<1>4. UNCHANGED <<folder, tree, agents, exp, edits>> /\ Turn(d)
  BY DEF ImportDoc, Turn
<1>5. /\ imp' \in ImpRecords /\ imp.pc \notin Ended
      /\ imp'.pc = imp.pc /\ imp'.only = imp.only /\ imp'.purge = imp.purge
      /\ imp'.fleet = imp.fleet /\ imp'.calm = imp.calm /\ imp'.left = imp.left \ {d}
  BY DEF ImportDoc, Turn, TreeInv, BaseInv, TypeOK, ImpRecords, Ended
<1>6. rows' \in [Uuids -> RowSet \cup {NoRow}]
  BY <1>1, <1>2 DEF TreeInv, BaseInv, TypeOK
<1>7. NoOrphans'
  BY <1>1, <1>2, <1>3, <1>4 DEF Storable, TreeInv, BaseInv, NoOrphans
<1>8. InStore(d)' /\ \A e \in Docs \ {d} : InStore(e) => InStore(e)'
  BY <1>2, <1>3, <1>4, ReadSame DEF InStore, Uuids
<1>9. Purged => Purged'
  <2>1. d \in Derived
    BY <1>2 DEF Derived
  <2>2. QED
    BY <1>3, <1>4, <2>1, ReadSame DEF Purged
<1>10. imp'.calm => Importers'
  BY <1>4, <1>5, <1>8, <1>9, TurnDone
<1>11. QED
  BY <1>4, <1>5, <1>6, <1>7, <1>10, ImporterStep DEF TreeInv, BaseInv, TypeOK

LEMMA SkipDocStep ==
    ASSUME TreeInv, NEW d \in Docs, SkipDoc(d)
    PROVE  TreeInv'
<1>1. UNCHANGED <<folder, tree, agents, exp, edits, rows>> /\ Turn(d) /\ Parsed(d) = {}
  BY DEF SkipDoc, Turn
<1>2. /\ imp' \in ImpRecords /\ imp.pc \notin Ended
      /\ imp'.pc = imp.pc /\ imp'.only = imp.only /\ imp'.purge = imp.purge
      /\ imp'.fleet = imp.fleet /\ imp'.calm = imp.calm /\ imp'.left = imp.left \ {d}
  BY DEF SkipDoc, Turn, TreeInv, BaseInv, TypeOK, ImpRecords, Ended
<1>3. InStore(d)' /\ (\A e \in Docs \ {d} : InStore(e) => InStore(e)') /\ (Purged => Purged')
  BY <1>1, ReadSame DEF InStore, Purged
<1>4. imp'.calm => Importers'
  BY <1>1, <1>2, <1>3, TurnDone
<1>5. QED
  BY <1>1, <1>2, <1>4, ImporterStep DEF TreeInv, BaseInv, TypeOK, NoOrphans

LEMMA ImportEndsStep ==
    ASSUME TreeInv, ImportFails \/ StopImport
    PROVE  TreeInv'
<1>1. UNCHANGED <<folder, tree, agents, exp, edits, rows>>
  BY DEF ImportFails, StopImport
<1>2. imp.pc \notin Ended
  BY DEF ImportFails, StopImport, Turn, Ended
<1>3. imp' \in ImpRecords /\ ~imp'.calm
  BY DEF ImportFails, StopImport, NoImport, ImpRecords, ImpPcs, Ended
<1>4. QED
  BY <1>1, <1>2, <1>3, ImporterStep DEF TreeInv, BaseInv, TypeOK, NoOrphans

-----------------------------------------------------------------------------
(* The steps of the exporter.                                               *)

\* Everything that a step of the exporter leaves of the invariant.
LEMMA ExporterStep ==
    ASSUME BaseInv, UNCHANGED <<agents, rows, edits>>, imp' \in ImpRecords, imp'.pc = "idle",
           folder' \in [Owners -> FolderStates], tree' \in [Docs -> Sections],
           exp' \in ExpRecords, TreeOK', AtFile', exp'.calm => Exporters'
    PROVE  TreeInv'
<1>1. TypeOK'
  BY DEF BaseInv, TypeOK, ImpRecords, ExpRecords
<1>2. NoOrphans' /\ OneTool' /\ Importers'
  BY DEF BaseInv, NoOrphans, OneTool, Importers
<1>3. QED
  BY <1>1, <1>2 DEF TreeInv, BaseInv

\* While an export runs no import does.
LEMMA ImporterIdle ==
    ASSUME BaseInv, exp.pc \in {"file", "index"}, imp' = imp
    PROVE  imp' \in ImpRecords /\ imp'.pc = "idle"
BY DEF BaseInv, OneTool, TypeOK, ImpRecords

\* A file makes its document one that is parsed.
LEMMA FileWritten ==
    ASSUME NEW d \in Docs, TypeOf[d] \in FileTypes, tree'[d].kept \in Texts \cup {Line}
    PROVE  d \in Derived'
<1>1. TypeOf[d] = "episode" \/ TypeOf[d] = "knowledge"
  BY DEF FileTypes
<1>2. tree'[d].kept # None
  BY TextsAssumption
<1>3. PICK archived \in BOOLEAN : Parsed(d)' = Item(d, tree'[d].kept, archived)
  BY <1>1, <1>2 DEF Parsed, Episode, Knowledge
<1>4. Parsed(d)' # {}
  BY <1>2, <1>3, ItemFacts
<1>5. QED
  BY <1>4 DEF Derived

\* What markdown does not hold is what there is to do.
LEMMA CompareStep ==
    ASSUME TreeInv, Compare
    PROVE  TreeInv'
<1>1. UNCHANGED <<folder, tree, agents, rows, edits>>
  BY DEF Compare
<1>2. imp' \in ImpRecords /\ imp'.pc = "idle"
  BY DEF Compare, NoImport, ImpRecords, ImpPcs, Ended
<1>3. DbOnly \subseteq Uuids /\ {rows[u] : u \in DbOnly} \subseteq RowSet
  BY DEF DbOnly, TreeInv, BaseInv, TypeOK
<1>4. /\ exp' \in ExpRecords /\ exp'.pc = "file"
      /\ exp'.todo = {rows[u] : u \in DbOnly} /\ exp'.found = DbOnly
  BY <1>3 DEF Compare, NoExport, ExpRecords, ExpPcs
<1>5. Exporters'
  <2>1. Derived' = Derived
    BY <1>1, ReadSame
  <2>2. \A u \in Uuids : (rows[u] # NoRow /\ rows[u].doc \in Memory) =>
            u \in DbOnly \cup Derived
    BY DEF DbOnly
  <2>3. Found'
    BY <1>1, <1>4, <2>1, <2>2 DEF Found, Memory
  <2>4. Written' /\ Pending'
    BY <1>1, <1>4 DEF Written, Pending, DbOnly
  <2>5. QED
    BY <1>4, <2>3, <2>4 DEF Exporters
<1>6. QED
  BY <1>1, <1>2, <1>4, <1>5, ExporterStep
     DEF TreeInv, BaseInv, TypeOK, TreeOK, AtFile

\* The record that is written is filed, and so is every other of its path.
LEMMA WriteFileStep ==
    ASSUME TreeInv, NEW r \in exp.todo, WriteFile(r)
    PROVE  TreeInv'
<1> DEFINE home == HomeOf[r.doc]
<1>1. UNCHANGED <<agents, rows, imp, edits>> /\ exp.pc = "file"
  BY DEF WriteFile, Exporting
<1>2. /\ r \in RowSet /\ r # NoRow /\ r.body \in Texts \cup {Line}
      /\ home \in Docs /\ TypeOf[home] \in FileTypes
  <2>1. r \in RowSet
    BY DEF TreeInv, BaseInv, TypeOK
  <2>2. r.doc \in Docs /\ r # NoRow /\ r.body \in Texts \cup {Line}
    BY <2>1, RowFacts DEF RowSet
  <2>3. QED
    BY <2>1, <2>2, HomeAssumption DEF WriteFile
<1> HIDE DEF home
<1>3. /\ exp' \in ExpRecords /\ exp'.pc = "index" /\ exp'.at = home
      /\ exp'.todo = exp.todo \ {r} /\ exp'.calm = exp.calm /\ exp'.found = exp.found
  BY <1>2 DEF WriteFile, TreeInv, BaseInv, TypeOK, ExpRecords, ExpPcs, home
<1>4. /\ tree' \in [Docs -> Sections] /\ tree'[home].kept = r.body
      /\ \A d \in Docs \ {home} : tree'[d] = tree[d]
  BY <1>2 DEF WriteFile, TreeInv, BaseInv, TypeOK, Sections, home
<1>5. /\ folder' \in [Owners -> FolderStates] /\ folder'[OwnerOf[home]] # "absent"
      /\ \A o \in Owners : folder'[o] = "absent" => folder[o] = "absent" /\ o # OwnerOf[home]
  <2>1. OwnerOf[home] \in Owners
    BY <1>2, OwnersAssumption DEF Owners
  <2>2. QED
    BY <2>1 DEF WriteFile, TreeInv, BaseInv, TypeOK, FolderStates, home
<1>6. TreeOK'
  <2>1. \A d \in Docs : OwnerOf[d] \in Owners
    BY OwnersAssumption DEF Owners
  <2>2. QED
    BY <1>2, <1>4, <1>5, <2>1 DEF TreeInv, BaseInv, TreeOK
<1>7. AtFile'
  BY <1>2, <1>3 DEF AtFile
<1>8. ASSUME exp'.calm PROVE Exporters'
  <2>1. Found /\ Written /\ Pending
    BY <1>1, <1>3, <1>8 DEF TreeInv, Exporters
  <2>2. Derived \subseteq Derived'
    <3>1. home \in Derived'
      BY <1>2, <1>4, FileWritten
    <3>2. \A d \in Docs \ {home} : Parsed(d)' = Parsed(d)
      BY <1>4, ParsedSame
    <3>3. QED
      BY <3>1, <3>2 DEF Derived
  <2>3. Found'
    BY <1>1, <1>3, <2>1, <2>2 DEF Found, Memory
  <2>4. Filed(home)'
    <3>1. PICK v \in exp.found : r = rows[v]
      BY <2>1 DEF Pending
    <3>2. QED
      BY <1>1, <1>2, <1>3, <1>4, <3>1 DEF Filed, home
  <2>5. \A d \in Docs \ {home} : Filed(d) => Filed(d)'
    BY <1>1, <1>3, <1>4 DEF Filed
  <2>6. ASSUME NEW u \in exp.found
        PROVE  rows[u] # NoRow /\ (rows[u] \in exp'.todo \/ Filed(HomeOf[rows[u].doc])')
    <3>1. rows[u] # NoRow /\ (rows[u] \in exp.todo \/ Filed(HomeOf[rows[u].doc]))
      BY <2>1 DEF Written
    <3>2. HomeOf[rows[u].doc] \in Docs
      BY <3>1, RowFacts, HomeAssumption DEF TreeInv, BaseInv, TypeOK
    <3>3. CASE rows[u] = r
      BY <1>1, <1>2, <2>4, <3>3 DEF home
    <3>4. CASE rows[u] \in exp.todo /\ rows[u] # r
      BY <1>3, <3>1, <3>4
    <3>5. CASE Filed(HomeOf[rows[u].doc])
      BY <1>1, <2>4, <2>5, <3>1, <3>2, <3>5
    <3>6. QED
      BY <3>1, <3>3, <3>4, <3>5
  <2>7. Written'
    BY <1>1, <1>3, <2>6 DEF Written
  <2>8. Pending'
    BY <1>1, <1>3, <2>1 DEF Pending
  <2>9. QED
    BY <1>3, <2>3, <2>7, <2>8 DEF Exporters
<1>9. QED
  BY <1>1, <1>3, <1>4, <1>5, <1>6, <1>7, <1>8, ExporterStep, ImporterIdle DEF TreeInv

\* An index line takes nothing from what is parsed.
LEMMA AddIndexStep ==
    ASSUME TreeInv, AddIndex
    PROVE  TreeInv'
<1>1. /\ UNCHANGED <<agents, rows, imp, edits, folder>> /\ exp.pc = "index"
      /\ folder[OwnerOf[exp.at]] # "absent"
  BY DEF AddIndex, Exporting
<1>2. exp.at \in Docs /\ TypeOf[exp.at] \in FileTypes
  BY <1>1 DEF TreeInv, BaseInv, AtFile
<1>3. /\ exp' \in ExpRecords /\ exp'.pc = "file"
      /\ exp'.todo = exp.todo /\ exp'.calm = exp.calm /\ exp'.found = exp.found
  BY DEF AddIndex, TreeInv, BaseInv, TypeOK, ExpRecords, ExpPcs
<1>4. /\ tree' \in [Docs -> Sections] /\ tree'[exp.at].live = Line
      /\ \A d \in Docs : tree'[d].kept = tree[d].kept
      /\ \A d \in Docs \ {exp.at} : tree'[d] = tree[d]
  BY <1>2 DEF AddIndex, TreeInv, BaseInv, TypeOK, Sections
<1>5. TreeOK' /\ AtFile'
  BY <1>1, <1>3, <1>4 DEF TreeInv, BaseInv, TreeOK, AtFile
<1>6. ASSUME exp'.calm PROVE Exporters'
  <2>1. Found /\ Written /\ Pending
    BY <1>1, <1>3, <1>6 DEF TreeInv, Exporters
  <2>2. Derived \subseteq Derived'
    <3>1. \A d \in Docs \ {exp.at} : Parsed(d)' = Parsed(d)
      BY <1>4, ParsedSame
    <3>2. ASSUME NEW d \in Derived, d = exp.at PROVE d \in Derived'
      <4> DEFINE text == tree[d].kept
      <4>1. /\ text \in Texts \cup {Line, None} /\ tree'[d].kept = text
            /\ tree'[d].live = Line
        BY <1>2, <1>4, <3>2 DEF TreeInv, BaseInv, TypeOK, Sections
      <4>2. CASE text # None
        BY <1>2, <3>2, <4>1, <4>2, FileWritten
      <4>3. CASE text = None /\ TypeOf[d] = "episode"
        <5>1. \E archived \in BOOLEAN : Parsed(d) = Item(d, None, archived)
          BY <4>3 DEF Parsed, Episode
        <5>2. Parsed(d) = {}
          BY <1>2, <3>2, <5>1, ItemFacts
        <5>3. QED
          BY <5>2 DEF Derived
      <4>4. CASE text = None /\ TypeOf[d] = "knowledge"
        <5>1. Parsed(d)' = Item(d, Line, FALSE)
          BY <4>1, <4>4, TextsAssumption DEF Parsed, Knowledge
        <5>2. Item(d, Line, FALSE) # {}
          BY TextsAssumption DEF Item
        <5>3. QED
          BY <1>2, <3>2, <5>1, <5>2 DEF Derived
      <4>5. QED
        BY <1>2, <3>2, <4>2, <4>3, <4>4 DEF FileTypes
    <3>3. QED
      BY <3>1, <3>2 DEF Derived
  <2>3. \A d \in Docs : Filed(d) => Filed(d)'
    BY <1>1, <1>3, <1>4 DEF Filed
  <2>4. Found' /\ Pending'
    BY <1>1, <1>3, <2>1, <2>2 DEF Found, Pending, Memory
  <2>5. \A u \in exp.found : rows[u] # NoRow => HomeOf[rows[u].doc] \in Docs
    BY RowFacts, HomeAssumption DEF TreeInv, BaseInv, TypeOK
  <2>6. Written'
    BY <1>1, <1>3, <2>1, <2>3, <2>5 DEF Written
  <2>7. QED
    BY <1>3, <2>4, <2>6 DEF Exporters
<1>7. QED
  BY <1>1, <1>3, <1>4, <1>5, <1>6, ExporterStep, ImporterIdle DEF TreeInv, BaseInv, TypeOK

\* A failed export promises nothing; a finished one has nothing left to do.
LEMMA ExportEndsStep ==
    ASSUME TreeInv, ExportFails \/ FinishExport
    PROVE  TreeInv'
<1>1. UNCHANGED <<agents, rows, imp, edits, folder, tree>> /\ exp.pc \in {"file", "index"}
  BY DEF ExportFails, FinishExport, Exporting
<1>2. /\ exp' \in ExpRecords
      /\ \/ exp'.pc = "failed"
         \/ /\ exp.pc = "file" /\ exp'.pc = "done" /\ exp'.calm = exp.calm
            /\ exp'.todo = exp.todo /\ exp.todo = {} /\ exp'.found = exp.found
  BY DEF ExportFails, FinishExport, Exporting, NoExport, TreeInv, BaseInv, TypeOK,
         ExpRecords, ExpPcs, Ended
<1>3. ASSUME exp'.calm PROVE Exporters'
  <2>1. CASE exp'.pc = "failed"
    BY <2>1 DEF Exporters
  <2>2. CASE exp'.pc = "done"
    <3>1. Exporters /\ exp.pc = "file" /\ exp.todo = {} /\ exp'.todo = {}
      BY <1>2, <1>3, <2>2 DEF TreeInv
    <3>2. exp'.found = exp.found
      BY <1>2, <2>2
    <3>3. Derived' = Derived /\ \A d : Filed(d)' = Filed(d)
      BY <1>1, <3>2, ReadSame DEF Filed
    <3>4. Found' /\ Written' /\ Pending'
      BY <1>1, <3>1, <3>2, <3>3 DEF Exporters, Found, Written, Pending, Memory
    <3>5. QED
      BY <2>2, <3>1, <3>4 DEF Exporters
  <2>3. QED
    BY <1>2, <2>1, <2>2
<1>4. QED
  BY <1>1, <1>2, <1>3, ExporterStep, ImporterIdle
     DEF TreeInv, BaseInv, TypeOK, TreeOK, AtFile

-----------------------------------------------------------------------------
(* The theorems.                                                            *)

LEMMA TreeInit == Init => TreeInv
<1> SUFFICES ASSUME Init PROVE TreeInv
  OBVIOUS
<1>1. /\ NoImport \in ImpRecords /\ imp.pc = "idle" /\ imp.calm = FALSE
      /\ exp.pc = "idle" /\ exp.calm = FALSE
  BY DEF Init, NoImport, NoExport, ImpRecords, ImpPcs, Ended
<1>2. tree \in [Docs -> Sections] /\ \A d \in Docs : tree[d] \in SidesOf(TypeOf[d])
  BY TreesAssumption DEF Init
<1>3. TypeOK
  <2>1. NoExport \in ExpRecords
    BY DEF NoExport, ExpRecords, ExpPcs, Ended
  <2>2. folder \in [Owners -> FolderStates] /\ rows \in [Uuids -> RowSet \cup {NoRow}]
    BY DEF Init, FolderStates
  <2>3. QED
    BY <1>1, <1>2, <2>1, <2>2, BoundAssumption DEF Init, TypeOK, ImpRecords, ExpRecords
<1>4. TreeOK
  <2>1. \A d \in Docs : folder[OwnerOf[d]] = "good"
    BY OwnersAssumption DEF Init, Owners
  <2>2. \A d \in Docs : TypeOf[d] \notin FileTypes \cup {"emotional"} => tree[d].kept = None
    BY <1>2 DEF SidesOf
  <2>3. QED
    BY <2>1, <2>2 DEF TreeOK
<1>5. NoOrphans /\ OneTool /\ AtFile
  BY <1>1 DEF Init, NoOrphans, OneTool, AtFile
<1>6. QED
  BY <1>1, <1>3, <1>4, <1>5 DEF TreeInv, BaseInv

LEMMA TreeStep == TreeInv /\ [Next]_vars => TreeInv'
<1> SUFFICES ASSUME TreeInv, [Next]_vars PROVE TreeInv'
  OBVIOUS
<1>1. CASE Import
  <2>1. ASSUME NEW only \in Agents \cup {None}, NEW purge \in BOOLEAN, StartImport(only, purge)
        PROVE  TreeInv'
    BY <2>1, StartImportStep DEF TreeInv
  <2>2. CASE Purge \/ Parse
    BY <2>2, PurgeStep, ParseStep
  <2>3. CASE BeginShared \/ BeginMemory \/ FinishImport
    BY <2>3, NextPassStep
  <2>4. CASE ImportFails \/ StopImport
    BY <2>4, ImportEndsStep
  <2>5. ASSUME NEW a \in Agents, UpsertAgent(a) PROVE TreeInv'
    BY <2>5, UpsertAgentStep
  <2>6. ASSUME NEW d \in Docs, ImportDoc(d) \/ SkipDoc(d) PROVE TreeInv'
    BY <2>6, ImportDocStep, SkipDocStep
  <2>7. QED
    BY <1>1, <2>1, <2>2, <2>3, <2>4, <2>5, <2>6 DEF Import
<1>2. CASE Export
  <2>1. CASE Compare
    BY <2>1, CompareStep
  <2>2. CASE AddIndex
    BY <2>2, AddIndexStep
  <2>3. CASE ExportFails \/ FinishExport
    BY <2>3, ExportEndsStep
  <2>4. ASSUME NEW r \in exp.todo, WriteFile(r) PROVE TreeInv'
    BY <2>4, WriteFileStep
  <2>5. QED
    BY <1>2, <2>1, <2>2, <2>3, <2>4 DEF Export
<1>3. CASE Others
  <2>1. BaseInv
    BY DEF TreeInv
  <2>2. ASSUME NEW u \in Named, NEW d \in Docs, NEW body \in Texts, ServerInsert(u, d, body)
        PROVE  TreeInv'
    BY <2>1, <2>2, ServerInsertStep
  <2>3. ASSUME NEW u \in Uuids, \/ \E body \in Texts : ServerEdit(u, body)
                                \/ \E field \in {"archived", "deleted"} : ServerRetire(u, field)
        PROVE  TreeInv'
    BY <2>1, <2>3, ServerWriteStep
  <2>4. ASSUME NEW d \in Docs, NEW section \in Sections, Author(d, section)
        PROVE  TreeInv'
    BY <2>1, <2>4, AuthorStep
  <2>5. ASSUME NEW o \in Owners, NEW state \in FolderStates \ {"bare"}, Refile(o, state)
        PROVE  TreeInv'
    BY <2>1, <2>5, RefileStep
  <2>6. ASSUME NEW a \in Agents, CreateAgent(a)
        PROVE  TreeInv'
    BY <2>1, <2>6, CreateAgentStep
  <2>7. QED
    BY <1>3, <2>2, <2>3, <2>4, <2>5, <2>6 DEF Others
<1>4. CASE UNCHANGED vars
  <2>1. UNCHANGED <<folder, tree, agents, rows, imp, exp, edits>>
    BY <1>4 DEF vars
  <2>2. Derived' = Derived /\ \A d \in Docs : Parsed(d)' = Parsed(d)
    BY <2>1, ReadSame
  <2>3. BaseInv'
    BY <2>1 DEF TreeInv, BaseInv, TypeOK, NoOrphans, OneTool, TreeOK, AtFile
  <2>4. Importers => Importers'
    BY <2>1, <2>2 DEF Importers, Fleetwide, SharedIn, MemoryIn, Purged, InStore, Memory
  <2>5. Exporters => Exporters'
    BY <2>1, <2>2 DEF Exporters, Found, Written, Pending, Filed, Memory
  <2>6. QED
    BY <2>1, <2>3, <2>4, <2>5 DEF TreeInv
<1>5. QED
  BY <1>1, <1>2, <1>3, <1>4 DEF Next

\* The inductive invariant: in every state the types, no orphan, one tool at a
\* time and a well-formed tree; while a run is undisturbed also what it has done.
THEOREM Invariance == Spec => []TreeInv
<1>1. QED
  BY TreeInit, TreeStep, PTL DEF Spec

\* A purged import of the fleet that ended undisturbed: whatever is parsed is of
\* the shared layer or of an agent whose folder was there, so it was imported.
LEMMA PurgedImport == TreeInv => PurgeMatches
<1> SUFFICES ASSUME TreeInv, imp.pc = "done", imp.calm, imp.purge, imp.only = None
             PROVE  {u \in Uuids : rows[u] # NoRow} = Derived
  BY DEF PurgeMatches
<1>1. Importers
  BY DEF TreeInv
<1>2. Purged
  BY <1>1 DEF Importers
<1>3. ASSUME NEW d \in Derived PROVE d \in Uuids /\ rows[d] # NoRow
  <2>1. d \in Docs /\ Parsed(d) # {}
    BY DEF Derived
  <2>2. tree[d] # Empty
    BY <2>1, ParsedEmpty
  <2>3. folder[OwnerOf[d]] # "absent"
    BY <2>1, <2>2 DEF TreeInv, BaseInv, TreeOK
  <2>4. d \in Memory => OwnerOf[d] \in imp.fleet
    BY <1>1, <2>1, <2>3, OwnersAssumption DEF Importers, Fleetwide, Memory
  <2>5. InStore(d)
    BY <1>1, <2>1, <2>4 DEF Importers
  <2>6. QED
    BY <2>1, <2>5, ParsedFacts DEF InStore, Uuids, TreeInv, BaseInv
<1>4. QED
  BY <1>2, <1>3 DEF Purged

\* NothingStray: in every state, whatever was purged, stopped, refused or edited,
\* no memory is without its agent; and after an undisturbed purged import of the
\* fleet the store holds a row exactly where markdown gives one.
THEOREM StoreIsClean == Spec => []NothingStray
<1>1. TreeInv => NothingStray
  BY PurgedImport DEF TreeInv, BaseInv, NothingStray
<1>2. QED
  BY <1>1, Invariance, PTL

\* The row of a document in the store is the one markdown promises.
LEMMA InStoreHolds ==
    ASSUME TreeInv, NEW d \in Docs, InStore(d)
    PROVE  Holds(d)
<1> DEFINE live == tree[d].live
           kept == tree[d].kept
           text == IF kept # None THEN kept ELSE live
           old  == IF TypeOf[d] = "emotional" THEN kept # None
                   ELSE TypeOf[d] \in FileTypes /\ live = None
<1> SUFFICES ASSUME text # None, TypeOf[d] = "episode" => kept # None
             PROVE  rows[d] = [doc |-> d, body |-> text, archived |-> old, deleted |-> FALSE]
  BY DEF Holds
<1>1. live \in Texts \cup {Line, None} /\ kept \in Texts \cup {Line, None}
  BY DEF TreeInv, BaseInv, TypeOK, Sections
<1>2. Parsed(d) = Item(d, text, old)
  <2>1. CASE TypeOf[d] = "emotional"
    BY <2>1 DEF Parsed, Moment
  <2>2. CASE TypeOf[d] = "episode"
    BY <2>2 DEF Parsed, Episode, FileTypes
  <2>3. CASE TypeOf[d] = "knowledge"
    BY <2>3 DEF Parsed, Knowledge, FileTypes
  <2>4. CASE TypeOf[d] \notin FileTypes \cup {"emotional"}
    <3>1. kept = None
      BY <2>4 DEF TreeInv, BaseInv, TreeOK
    <3>2. QED
      BY <2>4, <3>1 DEF Parsed, Whole, FileTypes
  <2>5. QED
    BY <2>1, <2>2, <2>3, <2>4 DEF FileTypes
<1>3. old \in BOOLEAN /\ text \in Texts \cup {Line, None}
  BY <1>1
<1> HIDE DEF text, old
<1>4. /\ Item(d, text, old) # {}
      /\ \A i \in Item(d, text, old) :
            i = [doc |-> d, body |-> text, archived |-> old, deleted |-> FALSE]
  BY <1>3, ItemFacts
<1>5. QED
  BY <1>2, <1>4 DEF InStore

\* ImportIsWhole: an import that ended undisturbed holds every document of its
\* fleet and of the shared layer, with the full text and the state markdown gives.
THEOREM ImportsAreWhole == Spec => []ImportIsWhole
<1>1. TreeInv => ImportIsWhole
  <2> SUFFICES ASSUME TreeInv, imp.pc = "done", imp.calm,
                      NEW d \in Docs, OwnerOf[d] \in imp.fleet \cup {Fleet}
               PROVE  Holds(d)
    BY DEF ImportIsWhole
  <2>1. InStore(d)
    BY DEF TreeInv, Importers, Memory
  <2>2. QED
    BY <2>1, InStoreHolds
<1>2. QED
  BY <1>1, Invariance, PTL

\* ExportKeepsContent: after an undisturbed export every live memory that was not
\* missing from markdown is still there, and the document of the path of each one
\* that was has its text or that of another found record of that path.
THEOREM ExportsKeepContent == Spec => []ExportKeepsContent
<1>1. TreeInv => ExportKeepsContent
  <2> SUFFICES ASSUME TreeInv, exp.pc = "done", exp.calm, NEW u \in LiveMemory
               PROVE  IF u \in exp.found THEN HasHome(u, {rows[v].body : v \in Namesakes(u)})
                      ELSE u \in Derived
    BY DEF ExportKeepsContent
  <2>1. Found /\ Written /\ exp.todo = {}
    BY DEF TreeInv, Exporters
  <2>2. u \in exp.found \cup Derived
    BY <2>1 DEF LiveMemory, Found
  <2>3. CASE u \in exp.found
    <3> DEFINE d == HomeOf[rows[u].doc]
    <3>1. rows[u] # NoRow /\ Filed(d)
      BY <2>1, <2>3 DEF Written
    <3>2. d \in Docs /\ TypeOf[d] \in FileTypes
      BY <3>1, RowFacts, HomeAssumption DEF Filed, LiveMemory, TreeInv, BaseInv, TypeOK
    <3>3. PICK v \in exp.found : HomeOf[rows[v].doc] = d /\ tree[d].kept = rows[v].body
      BY <3>1 DEF Filed
    <3>4. v \in Namesakes(u)
      BY <3>3 DEF Namesakes
    <3>5. rows[v].body # None
      <4>1. rows[v] \in RowSet
        BY <2>1, <3>3 DEF Written, TreeInv, BaseInv, TypeOK
      <4>2. QED
        BY <4>1, TextsAssumption DEF RowSet
    <3>6. \E i \in Parsed(d) : i.body = rows[v].body
      BY <3>2, <3>3, <3>5, ParsedFile DEF TreeInv, BaseInv
    <3>7. QED
      BY <2>3, <3>4, <3>6 DEF HasHome
  <2>4. QED
    BY <2>2, <2>3
<1>2. QED
  BY <1>1, Invariance, PTL

-----------------------------------------------------------------------------
(* Where two sentences of the documentation that MCMarkdownTitles.cfg and   *)
(* MCMarkdownClaims.cfg refute do hold.                                     *)

\* "Finds those records and gives them a markdown home": after an undisturbed
\* export the document of a live record that was missing from markdown, and the only
\* one missing with its path, is imported with the record's own text.
THEOREM OwnTitleIsKept ==
    Spec => []((exp.pc = "done" /\ exp.calm) =>
                   \A u \in LiveMemory \cap exp.found :
                       Namesakes(u) = {u} =>
                           \E item \in Parsed(HomeOf[rows[u].doc]) : item.body = rows[u].body)
<1>1. ASSUME NEW u, Namesakes(u) = {u}, HasHome(u, {rows[v].body : v \in Namesakes(u)})
      PROVE  \E item \in Parsed(HomeOf[rows[u].doc]) : item.body = rows[u].body
  BY <1>1 DEF HasHome
<1>2. ExportKeepsContent =>
         ((exp.pc = "done" /\ exp.calm) =>
              \A u \in LiveMemory \cap exp.found :
                  Namesakes(u) = {u} =>
                      \E item \in Parsed(HomeOf[rows[u].doc]) : item.body = rows[u].body)
  BY <1>1 DEF ExportKeepsContent
<1>3. QED
  BY <1>2, ExportsKeepContent, PTL

\* A run without --purge has written nothing when pass 1 aborts it.
Quiet ==
    /\ imp.pc = "purge" => imp.purge
    /\ imp.pc \in {"parse", "aborted"} /\ ~imp.purge => ~imp.touched

LEMMA QuietStep == TreeInv /\ Quiet /\ [Next]_vars => Quiet'
<1> SUFFICES ASSUME TreeInv, Quiet, [Next]_vars PROVE Quiet'
  OBVIOUS
<1>1. imp \in ImpRecords
  BY DEF TreeInv, BaseInv, TypeOK, ImpRecords
<1>2. CASE Others \/ UNCHANGED vars
  <2>1. imp' = imp \/ imp' = [imp EXCEPT !.calm = FALSE]
    BY <1>2 DEF Others, CreateAgent, ServerInsert, ServerEdit, ServerRetire, Author, Refile, Disturb, vars
  <2>2. QED
    BY <1>1, <2>1 DEF Quiet, ImpRecords
<1>3. CASE Export
  <2>1. imp' = imp \/ imp' = NoImport
    BY <1>3 DEF Export, Compare, AddIndex, ExportFails, FinishExport, WriteFile, Exporting
  <2>2. QED
    BY <2>1 DEF Quiet, NoImport
<1>4. CASE Import
  <2>1. ASSUME NEW only \in Agents \cup {None}, NEW purge \in BOOLEAN, StartImport(only, purge)
        PROVE  Quiet'
    BY <2>1 DEF StartImport, Quiet, NoImport
  <2>2. CASE Purge
    BY <1>1, <2>2 DEF Purge, Importing, Quiet, ImpRecords
  <2>3. CASE Parse
    BY <1>1, <2>3 DEF Parse, Importing, Quiet, ImpRecords
  <2>4. CASE BeginShared \/ BeginMemory \/ FinishImport
    BY <1>1, <2>4 DEF BeginShared, BeginMemory, FinishImport, NextPass, Quiet, ImpRecords
  <2>5. CASE ImportFails \/ StopImport
    BY <2>5 DEF ImportFails, StopImport, Quiet, NoImport
  <2>6. ASSUME NEW a \in Agents, UpsertAgent(a) PROVE Quiet'
    BY <1>1, <2>6 DEF UpsertAgent, Importing, Quiet, ImpRecords
  <2>7. ASSUME NEW d \in Docs, ImportDoc(d) \/ SkipDoc(d) PROVE Quiet'
    BY <1>1, <2>7 DEF ImportDoc, SkipDoc, Turn, Quiet, ImpRecords
  <2>8. QED
    BY <1>4, <2>1, <2>2, <2>3, <2>4, <2>5, <2>6, <2>7 DEF Import
<1>5. QED
  BY <1>2, <1>3, <1>4 DEF Next

\* "Raised before anything is written": true of a run without --purge, whatever
\* was written around it.
THEOREM AbortIsClean == Spec => [](~imp.purge => AbortLeavesStore)
<1>1. Init => Quiet
  BY DEF Init, NoImport, Quiet
<1>2. Quiet => (~imp.purge => AbortLeavesStore)
  BY DEF Quiet, AbortLeavesStore
<1>3. QED
  BY <1>1, <1>2, QuietStep, Invariance, PTL DEF Spec
=============================================================================
