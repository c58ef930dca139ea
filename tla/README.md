# Munnin in TLA+

Munnin is the agent-memory server of this repository: a store of memory records
for the agents of several tenants, served over HTTP and MCP. This directory
holds TLA+ models of its stateful parts, TLC configurations that check them, and
proofs for TLAPS.

Contents: 1 the system, 2 the plan, 3 the modules and the code they model,
4 the runs, 5 bounds, 6 fairness, 7 proofs, 8 what the checks found,
9 what is not modelled.

## 1. The system

Paths are under `src/src/munnin/`.

| Part | State it keeps | Operations | Interacts with |
|---|---|---|---|
| **Sharing** `business_services/sharing_service.py`, `data_repositories/*sharing_repository.py` | `tenant_access` (grants), `tenant_invite` (codes), `account.active_user_id` (the selection) | list tenants, use tenant, list members, create, revoke and redeem an invite, revoke a member | the resolver asks it, on every memory call, in whose memory the caller stands |
| **Resolver and factory** `tenant_resolver.py`, `service_factory.py` | a dict of services for each tenant | token to home tenant to resolved tenant; build a `MemoryService` or `SharingService` | identity, sharing, both faces |
| **Identity** `identity_service.py`, `profile_seed.py`, `*identity_repository.py` | `account`, `user_identity` | `resolve`: find, else create account, link, seed | the memory service writes the seed |
| **Memory store** `sqlite_` and `postgres_memory_repository.py` | `agent`, `memory_record`, `shared_record`, full-text indexes | create agent, insert (upsert on uuid), edits of body and metadata, archive, soft delete, get, query, search | one store for all tenants; `user_id` on every row |
| **Memory service** `memory_service.py` | none | validation; `awaken` assembles a payload of six reads | the repository |
| **Schema migrations** `data_entities/*migrations.py`, nine SQL files, `migrate.py` | `migration_history` | apply, status | run by the first connection of every repository object |
| **Importer, exporter** `data_migrations/` | none of their own | purge and import a markdown tree; compare and write it | write the store directly |
| **Cut-over** `data_migrations/sqlite_to_postgres.py`, `docs/postgres-cutover.md` | none of its own | copy SQLite to Postgres table by table; verify by counts | reads a store a server may be writing; the operator freezes, resets, deploys |
| **Content** `content/` | the framework modules it has imported; files are read per call | procedures, resources, the permanent layer, template versions | registered by the faces at boot; the faces gate inserts on the template version |
| **Boot and authentication** `app.py`, `configuration/`, `__main__.py` | the verifiers and their audiences | settings decide local mode, issuers and backend | issuers and clients outlive every boot; identity maps a token to an account |
| **Faces** `api_http/`, `api_mcp/` | none | routes and tools | all of the above |

Every repository method opens its own connection and commits once. There is no
lock in the process. A request runs in a worker thread, so what interleaves is
transactions, and inside a read-modify-write method single statements: the
drivers take the write lock at the first write and not before.

What is hard in this code:

- **Decisions that outlive their facts.** A call is resolved against the grants
  in one transaction and served in another; a service is built from a selection
  read once; `awaken` reads the selection twice.
- **Checks and writes in different statements**: redeem, use_tenant, `_rewrite`,
  the profile seed, the migration runner.
- **Creation in several commits**: account, link and seed; script and history.
- **Keys that cross a border**: uuids unique per table and not per tenant or
  across tables; agent names shared by convention.
- **Rows that come back**: upserts clear tombstones, grants are reused.
- **Sources that move while they are read**: the cut-over reads seven tables on
  seven connections, a procedure is composed of several files, the permanent
  layer of a file and a table.
- **Facts fixed at boot beside facts read live**: prompts and tools are
  registered once, framework modules imported once, audiences bound once.

What makes each part correct:

- Sharing: access ends with the grant, on the next call; nobody is quietly sent
  to another memory than the one they chose; a grant has been bought with a code
  of that tenant, once; only the owner changes who has access; the way home is
  always open.
- Identity: one person, one tenant, for ever; half-created tenants stay empty; a
  seed claims only what a provider said and replaces nothing a person wrote.
- Store: tenants are apart; one live profile; what is listed can be loaded;
  deletion is final until the record is stored again.
- Edits: all or nothing, one writer for each field, and what is acknowledged is
  there.
- Migrations: the history tells the truth about the schema, each script runs
  once, a server that is up has the whole schema, no content is lost.
- Cut-over: no partial and no double copy; a green verdict misses nothing, a red
  one is not a false alarm; the server on Postgres can go on from there.
- Content: nobody writes against a template that had gone before one already
  served; what is served is on disk; a refused writer gets in; an installed layer becomes
  current.
- Authentication: only tokens for this server, of an issuer it trusts; one pair,
  one account; replacing an issuer shuts nobody out.

The hazards, each at its line with the properties that cover it, are in
`PROJECT.json`.

## 2. The plan

Built, in this order, each with the module that proves about it:

1. `Sharing`, `TenantAccess`, `SharingRefinement`, `SharingProofs`: who stands in
   whose memory is what all else depends on.
2. `MemoryStore`, `TenantVaults`, `MemoryStoreRefinement`, `MemoryStoreProofs`.
3. `RecordEdits`, `RecordEditsProofs`.
4. `FirstLogin`; `IdentityProofs`.
5. `SchemaMigrations`, `SchemaMigrationsProofs`.
6. `MarkdownTree`: the importer and the exporter; `MarkdownTreeProofs`.
7. `Cutover`: the copy of a store to Postgres and what its verdict is worth;
   `CutoverProofs`.
8. `ServedContent`: the template gate, composed procedures, the permanent layer;
   `ServedContentProofs`.
9. `Issuers`: what a boot makes of the settings, and logins around deployments;
   proved about in `IdentityProofs` too.

Next: a composition of `FirstLogin`, `Sharing` and `MemoryStore` through the
resolver, from token to row. Its safety would follow from the theorems of the three.

## 3. The modules

Definitions named `Bug...` are not part of a model. Each is a variant of the
definition that follows it, changed as a plausible slip in the code would change
it, and `PROJECT.json` pairs one for each property with the property that
catches it. Some properties have a second or third variant, for the other facts
they join; TLC finds those too.

A module's type invariant is `TypeOK` (`LoginTypeOK` in `FirstLogin`). In most modules it is checked as one part
of a property that joins it to what goes wrong with it: a refused call that left
a trace, a row without its parent, an id given twice.

### Sharing

State: `grant[tenant][member]` (a grant: none, live or revoked), `invite[code]`,
`active[person]` (the remembered selection, or nobody), `clock`, the calls in
flight `call[c]`, and history variables for the properties. One step is one transaction: `Begin`
(the token is verified, home is known), `ReadSelection` (`find_active`), then by
operation.

| Action | Code |
|---|---|
| `Resolve`, `RefuseRevoked` | `resolved_user_id`, `TenantAccessRevoked` |
| `ServeMemory`, `ServeAwaken` | the call reaches the `MemoryService`; awaken reads the selection again for `caller_block` |
| `ChooseTenant`, `UseHome`, `StoreSelection` | `use_tenant`: the permitted places, then `set_active` |
| `ListMembers` | `list_members` |
| `CreateInvite`, `RevokeInvite`, `RevokeMember` | guarded by `_require_owner` (`MayGrant`) |
| `LookUpInvite`, `ClaimInvite` | `redeem`: the service's look-up, then the repository's conditional UPDATE and the grant, with the `now` the look-up took |
| `Tick` | time passes |

`TenantAccess` is the promise without codes, calls and selections: a session is
served from a tenant its member was entitled to since it opened, a person is
admitted to a tenant by a step of a session of their own, and only the owner
expels. Who offered the admission is not part of it; that a grant was bought with a
code is `GrantsTraceToInvites`. `SharingRefinement` maps the tables to it.

### MemoryStore

State: the two record tables as `store[table][uuid]`, the agents of each tenant,
a clock. A row is its owner, agent, type, project and lifecycle stamps. Bodies
decide nothing here. A write of the repository is one action and refusals are
stuttering steps. `Upserted` is the `ON CONFLICT(uuid)` clause; `HasAgent` the
composite foreign key; `ProfileIsFree` the partial unique index; `Locate` and
`Holds` the addressing by uuid that every edit starts with; `Listed` the
predicate of all listings and searches.

The constant `Reuse` says which uuids callers name in an insert: `"own"`, a new
one or one of their own record in that table (what the server mints and what a
repeated import of one tenant does), or `"any"`. With `"own"` the properties
hold; with `"any"` two of them fail, which are the findings of section 8.

`TenantVaults` is the promise: a vault for each tenant, put, archive, delete.
`MemoryStoreRefinement` maps the tables to vaults.

### RecordEdits

One record, several concurrent calls, statement by statement. `Locate`,
`ReadBody`, `WriteBody` are the two SELECTs and the UPDATE of `_rewrite`;
`WriteSummary` is `set_fields`, `MarkLifecycle` is `_set_lifecycle`, `Upsert` an
insert that names the record, `Abort` a lock that is not granted. A body is a
sequence of words; a call writes its own name, so every word tells who wrote it.
`ApplyEdit` and `ApplyEdits` are `_apply_edit` and the loop of `multi_edit`, which
stops at the first edit that fails, with the empty set for a ValueError; a
`multi_edit` has two edits. Postgres under READ COMMITTED has the same
statement boundaries, so the model stands for both.

### FirstLogin

State: `accounts`, `link` (`user_identity`), `profile`, the logins in flight (`request`).
`Find`, `EnsureAccount`, `LinkIdentity`, `Reread`, `SeedCheck`, `SeedInsert` are
the steps of `IdentityService.resolve` and `seed_profile`; `SeedFails` the
swallowed exception; `Crash` stops the server; `Person` is what a tenant's owner
may do with the profile meanwhile.

### SchemaMigrations

State: the backend, the schema (five facts about it), the history, the files,
whether the store holds summaries, the runners. Each SQL file is one operator
(`SqliteRas`, `PostgresCoding`, ...) that returns the schemas it may leave, none
when it fails. The runner reads the history once (`ReadHistory`) and goes
through the versions. On SQLite `RunScript` and `Record` are two commits, on
Postgres `RunAndRecord` is one.

### MarkdownTree

One tenant between a markdown tree and the store. State: `folder[agent]` (there,
readable by pass 1, or not), `tree[doc]` with its two sides (`live`: the section
or index line, `kept`: the file, or a moment's copy in the archive), the `agents`
and `rows` of the store, the importer `imp` and the exporter `exp`. A document is
what one `stable_uuid` names, and is its own uuid; `Minted` are the uuids the
server gives and `Named` those an insert may name.

The exporter makes the path of a file of the record's title alone, while the uuid
of an imported episode has the date and that of knowledge the folder in it.
`HomeOf[doc]` is the document that path stands for: the same one for a plain
title, another for a record whose file had a date before its title. So an export
may write over a file that is there, two records may meet in one file, and after
a purge a dated episode comes back under another uuid. The text of an exported
file is the record's body under a heading, which is the text of the document.
A uuid is in one table (`SameTable`); what happens to one in both is the subject of
`MemoryStore`.

| Action | Code |
|---|---|
| `StartImport`, `Purge`, `Parse`, `UpsertAgent` | `main`: the arguments, `_purge_tenant`, pass 1, the agent rows |
| `BeginShared`, `BeginMemory`, `ImportDoc`, `SkipDoc`, `FinishImport` | pass 2, one commit for each document, in order (`Rank`) |
| `ImportFails`, `StopImport` | a missing mandatory file, a refused row; the process is killed |
| `Compare`, `WriteFile`, `AddIndex`, `ExportFails`, `FinishExport` | `export_db_only`, one file at a time |
| `CreateAgent`, `ServerInsert`, `ServerEdit`, `ServerRetire`, `Author`, `Refile` | what a server and people write meanwhile |

`Moment`, `Episode`, `Knowledge` and `Whole` are which text wins and whether it
is archived. Each document is read in the step that inserts it, while the code
reads an agent's core file once for all its sections. Knowledge is taken to be
spelled from `knowledge-base/`, as the index template does. One operator is taken
to run one tool at a time.

### Cutover

State: `source` and `target` (from table to rows), `targetId` (the sequences),
whether the target has its schema, whether the source is frozen, whether the
server runs on the target, and the processes of the tool. A row is its owner, its
key, a version for its other columns, and whether it has a `content_summary`,
which the copy does not name.

| Action | Code |
|---|---|
| `ReadTable`, `EnsureSchema`, `CheckTarget`, `Copy` | `migrate`: a connection for each table, the schema, the emptiness, then inserts and `setval` in one transaction |
| `CompareTable`, `ListTenants`, `CompareTenant`, `ListIdentities`, `CheckIdentities` | `verify`, one count or listing at a time |
| `Start`, `Stop` | `main`, with or without `--verify-only`; the process dies |
| `SourceInsert`, `SourceEdit`, `SourcePurge` | the server on SQLite, and the importer, until the freeze |
| `Freeze`, `Reset`, `CutOver` | the steps of `docs/postgres-cutover.md`; the last one needs a copy made in the cold window and found green |
| `ServeInsert` | the server on Postgres stores a record |

The rows of a `Starts` store are as they were first written (text 0). An account,
a login and an agent are known by the account they belong to.
`Insertable` is what the primary and foreign keys of the target let pass. The two
counts of one comparison are one step; why, stands above `Verifying`.

### ServedContent

State: the content root (missing, there but empty, or checked out), the revision
of each file, the server (up, its tools registered, the title a prompt was
registered under, the modules it has imported), and each caller's call. A file is
its revision, 0 when it is absent: it may get a new one, go back to an older one,
or vanish and return.

| Action | Code |
|---|---|
| `Boot`, `Stop` | `build_mcp` and `_register_content`; the process ends |
| `ReadTemplate`, `CheckTemplate`, `Insert` | `read_resource` or GET /api/resources; the gate in both `insert`s, `check_template_version`; the write |
| `AskProcedure`, `ComposeCore` | `read_procedure`, a prompt, or GET /api/prompts; `_compose_prompt` up to the end of its first `_inlined` |
| `NoBackend`, `ComposeBackend`, `InlineSection` | the rest of it: the core alone without db.md; the section put in; the second `_inlined`, for the section's own components |
| `AskListing`, `TitleRows` | `_procedure_rows`: the names, then their titles |
| `ReadDigest`, `Anchor` | `permanent_layer`: the digest, then the RAS records and the hash; the client installs |
| `EditFile`, `CheckOut` | somebody changes the checkout |

`Loaded` is the `lru_cache` of `seam_bridge._load`. For the properties alone, `seen`
holds every state of the files a call in progress has met, and `stood` the
revisions of the template that were on disk since the last one was served to
anybody.

### Issuers

State: the deployed settings, the server they made (down, local, or verifying
with some verifiers), each client's token and login in progress,
`user_identity`, and the accounts each person has reached.

| Definition | Code |
|---|---|
| `AuthMode`, `BootAllowsLocal`, `BackendIsValid` | `load_config`, the two guards of local mode, `_validate_backend` |
| `Verifiers`, `Discovery`, `SetMcpPath`, `Build` | `build_auth`: Logto, AuthKit or both; audiences bound in `set_mcp_path`; `build_app` |
| `Deploy` | `main`: a new process with other settings |
| `Discover`, `LogIn`, `Expire` | a client reads the metadata, logs in for the resource it is told, its token expires |
| `Call`, `Refused` | token to account through `find_user_id`; 401 from the verifier and a new login |
| `NamesNobody` | a verified token without issuer or subject: 401 on the HTTP face; on the MCP face `MissingTokenError` is the tool's, and the client keeps its token until it expires |
| `Link` | the operator's insert into `user_identity` |

Issuers and the verifying library are external. AuthKit's resource is the root of
the public URL, since the provider derives it from a sub-app built at "/"; the
registered identifier is taken to be that one. `EveryoneGetsIn` counts a client as in
when the server takes its token, whether or not the token names anybody: that
is the issuer's to see to, and such a token gets no account (`Call`).

## 4. The runs

Passing runs:

| Run | States | Shows |
|---|---|---|
| `sharing` | 98 000 | two people, a code, two concurrent calls and the clock, with liveness: codes admit once and stay settled (`CodesAdmitOnce`), every call is answered (`EveryCallAnswered`), the way home stays open (`WayOutStaysOpen`) |
| `sharing_three` | 457 000 | three people with one display name: access ends on the next call (`AccessEndsOnNextCall`), no quiet fallback (`NoQuietFallback`), selections were granted (`StandingWasGranted`), grants trace to codes their own member redeemed (`GrantsTraceToInvites`), guests cannot end access (`OnlyOwnerEndsAccess`), one active place in list_tenants (`OneStandingPlace`), and every step is a step of TenantAccess or a stutter (`ImplementsTenantAccess`) |
| `store` | 40 000 | two tenants in one store: `TenantsApart`, `OneProfile`, every row hangs on its own tenant's agent and every listed one can be loaded (`RowsAreReachable`), and the tables implement one vault for each tenant (`ImplementsVaults`) |
| `edits` | 70 000 | no torn bodies (`EveryBodyIsWhole`), no trace of refused calls (`RecordIsSound`), one writer for each field (`BodyEditsKeepTheRest`) |
| `login` | 22 000 | `OneTenantPerPair`; linked tenants exist, orphans stay empty, seeds are claims of the provider (`TenantsAreSound`); `AuthoredIsNeverSeeded` |
| `markdown` | 548 000 | imports whole or stopped, purged or not, between edits, and exports: no orphans and nothing left by a purge (`NothingStray`), `ImportIsWhole`; an export leaves every live memory in markdown, those it found missing in the document of their path, which records of one path share (`ExportKeepsContent`) |
| `migrations` | 3 744 000 | Postgres with races, stops and edited files, SQLite with one runner that is not stopped half-way: `HistoryTellsSchema`, `ScriptsRunOnceAndWhole`, `ReadyMeansCurrent`, `SummariesSurvive` |
| `cutover` | 1 830 000 | two processes of the tool, stops, one reset, writes and a purge before the freeze: `OneCopyLands`; after the cut-over no row is missing (`NothingLeftBehind`); green misses nothing a growing source had, red in an undisturbed cold window never happens (`VerdictIsRight`); ids go on (`TargetIsSound`) |
| `content` | 566 000 | writers on both faces, readers of every kind, an anchored client, files that change, vanish, return and are rolled back, restarts: `GateFollowsServedTemplate`, `ServingIsSound`, and with fairness `WriterGetsIn`, `ClientsHoldCurrentLayer` |
| `issuers` | 95 000 | deployments of any settings, colliding subjects, stray tokens: `VerifierIsSound`, `NobodyElsesTenant`, `SwapKeepsTokens`, and with fairness `EveryoneGetsIn` |

The other two runs show a disagreement between code and documentation
(section 8).

`CHECK_DEADLOCK FALSE` is set where the system really may stop: requests made
once (`RecordEdits`, `FirstLogin`), a move that is finished or a full store
(`Cutover`), clients that have what they came for (`ServedContent`), a server
that refused to start and is not deployed again (`Issuers`).

## 5. Bounds

- `Sharing`: two or three people, one code (with liveness) or two, two calls in flight, which
  begin again when they end, so runs are unbounded in length. Two calls are what
  every race needs: one that decided and one that changes the facts. A third
  person is what it takes to tell a guest from an owner. The clock has two
  values, before and after expiry (`MaxTime`); a code lives 1 day, or 0 at the
  boundary (`DaySpans`: the service takes any number of days, and 0 makes a code
  that is expired when it is minted).
- `MemoryStore`: two tenants, one agent name both may use, two uuids (one row
  to write and one to collide with), three types: one any table takes, one with a
  corpus boundary (knowledge), one that is unique (user_profile), a clock of two
  values, which tells a first stamp from a later one.
- `RecordEdits`: three calls, one of each pair of kinds racing a third; a base
  body with one word twice, the smallest ambiguous one.
- `FirstLogin`: three logins of two people: two that race and one of another
  person, or a third that comes later. `Crash` is unbounded.
- `MarkdownTree`: a document of each kind (a moment, an episode, knowledge, the
  profile) over two agents and the shared layer, and a second episode whose file
  has a date before the first one's title (`HomeOf`); at the start core memory and files
  have either side, both or none (`Trees`); one uuid the server mints, and inserts
  that name it or the first episode (`Named`); one edit by people or server
  (`MaxEdits`) at any moment of runs that follow one another without bound. One edit
  between two runs is what it takes for a record, a tombstone or a folder to be
  other than the last import left it. More edits have the proofs, for any number,
  and the three properties also pass with one agent, the two episodes, one minted
  uuid and four edits.
- `SchemaMigrations`: three runners and two stops (`MaxCrashes`) for Postgres,
  one runner and none for SQLite. `runs` counts up to two. All start versions.
- `Cutover`: two processes, which is what a double start takes; one stop
  (`MaxStops`), one reset (`MaxResets`), one or two writes (`MaxWrites`) to a table
  with parents and a table of records. A store that shares and has a gap in its
  ids, and one that has only a login. Three ids (`MaxId`).
- `ServedContent`: two callers in four casts; two edits of the content
  (`MaxEdits`), one between two reads and one after, each to a new revision, to an
  older one or to none; one stop (`MaxStops`). Directories that are empty are left
  to `MCContentClaims.cfg`, where the boot fails. A content root that is there
  stays: its files may all vanish, but the directory does not.
- `Issuers`: two people whose subjects cross, two deployments (`MaxDeploys`): to
  both issuers and away from the old one, or out and back. The settings are the
  combinations that touch a decision of the boot, the guards or the issuers, with
  one exception: a pinned audience that leaves out the identifier the server
  advertises (`config.py`, `logto_audience`). With that, clients never get in;
  `MCIssuersPinned.cfg` shows it.

## 6. Fairness

`Sharing` states weak fairness of a request's own steps once it has begun: a
worker thread that is running runs on, and a lock is waited for with a timeout
after which the call ends. No fairness is assumed of people or clocks, nor that a
request is ever made. In `SchemaMigrations` the runner's steps are fair,
`Connect` among them: a repository object whose first connection failed migrates
again on the next request. `StoreComesUp` is about a server that keeps being
asked, and `MCMigrationsCrash.cfg` shows where it fails.

`ServedContent` assumes that a stopped server is started again (the process runs
under a restart policy), that a writer that is refused reads the template and
tries again, as the gate's message tells it to, and that a client goes on
comparing hashes. `WriterGetsIn` and `ClientsHoldCurrentLayer` say nothing of a
template or a digest that is gone for good, of a boot that finds no library, and of a
server that registered no content tools because content came after its boot
(`Unserved`, `Stranded`). In `Issuers` a client goes on trying; deployments, links and expiry
are never fair, and a token may expire again and again. The other modules are
about safety and state no fairness.

## 7. Proofs

Of the 24 invariants and 16 action or temporal properties of the passing runs,
TLAPS proves all 24 invariants and 11 others, for every value of the constants that
the named `ASSUME`s of a module allow. Those say what is needed to tell things
apart (`Nil` is no tenant), that bounds are numbers and sets are of their kind,
and two things of the world outside: an issuer gives two people two subjects
(`SubAssumption`), and a store to be moved is one its own schema accepts
(`StartsAssumption`: its rows have their parents and unique keys).

| Module | Theorems | Invariant |
|---|---|---|
| `SharingProofs` | `AccessEnds`, `NeverFallsBack`, `GrantsAreBought`, `StandingIsGranted`, `TypeCorrect`, `OnePlace`; `OwnerEnds`, `CodesAdmit`; `Implementation` | `IndInv` |
| `MemoryStoreProofs` | `OneProfileEach`, `Reachable`; `Apart`; `Implementation` | `StoreInv` |
| `RecordEditsProofs` | `NoTraceOfRefused`; `WholeBodies`, `RestIsKept` | `EditsInv` |
| `SchemaMigrationsProofs` | `HistoryIsTrue`, `OnceAndWhole`, `ReadyIsCurrent`; `NoSummaryLost` | `MigrationInv` |
| `CutoverProofs` | `NothingIsLeftBehind`, `Verdicts`, `TargetSound`; `OneCopy` | `CutoverInv`, `KeyInv` |
| `ServedContentProofs` | `GateHolds`, `ServedAsOnDisk` | `ContentInv` |
| `IdentityProofs`, of `FirstLogin` | `SameTenant`, `TenantsSound`; `NeverSeeded` | `LoginInv` |
| `IdentityProofs`, of `Issuers` | `OnlyItsOwn`, `OwnAccounts`; `TokensSurviveSwaps` | `IssuersInv` |
| `MarkdownTreeProofs` | `StoreIsClean`, `ImportsAreWhole`, `ExportsKeepContent`, `OwnTitleIsKept`, `AbortIsClean` | `TreeInv`, `Quiet` |

Which property each theorem states is in `PROJECT.json`; after the first semicolon
of a row stand action properties, and `Implementation` is a refinement. In every
module the proof that a step keeps the invariant has one step for each action.

What the invariants say, and why the properties alone are not enough:

- `Sharing`. A call holds facts from earlier transactions. `IndInv` says what is
  known of it at each program counter: the tenant it stands in was open to it
  since it began, the code it looked up is not its own tenant's; and of the
  tables, that a grant has a used code behind it and a stored selection was
  granted. Grants and minted codes are never forgotten (`Monotone`), so the calls
  a step leaves alone stay in order (`Frame`). `MCSharingInductive.cfg` checks
  `IndInv` with TLC. `OnePlace` needs no invariant: `list_tenants` marks one place
  whatever the tables hold.
- The refinement of `TenantAccess` follows the calls: the step's own call opens,
  enters or closes a session; every other session only sees the new entitlement
  (`Bystander`); a claim of a code is the one step that moves two tables.
- `MemoryStore`. That a uuid has a row in one table only (`OneTable`) is what makes
  a listed row the one that get finds, keeps tenants apart, and lets two tables
  be one vault. It needs callers that name their own uuids, so `Reachable`, `Apart`
  and `Implementation` have the hypothesis `Reuse = "own"`; the run
  `store_any_uuid` shows a row shared by two tenants without it. `OneProfileEach`
  has no hypothesis.
- `RecordEdits`. `TypeOK` is not inductive: a body about to be written has to be
  known as a whole operation on a body the record had (`PendingIsWhole`). A refused
  call leaves no trace because its word is with nobody, nor in what another call
  has read (`Unseen`).
- `FirstLogin`. A pair is linked to the tenant minted by the login that won
  (`LinkOK`), and a login that got past its link knows that tenant (`RequestOK`).
  Nothing of this is ever taken back (`Kept`), a stop of the server included.
  `IdentityProofs` extends both `FirstLogin` and `Issuers`, so the first names its
  specification `LoginSpec`.
- `MarkdownTree`. The three properties speak of a run that ended undisturbed, and
  nothing they say is true half-way. So `Importers` says what such an import has
  done at each pc: every document of a pass is either still to do or in the store
  (`SharedIn`, `MemoryIn`), the fleet is the folders that are there, and after a
  purge every row is one markdown derives (`Purged`). `Exporters` says that each
  row of agent memory is derived or was found missing (`Found`), that each found one
  is still to do or its path has the text of a found record (`Written`, `Filed`), and
  that nothing else is to do (`Pending`).
  A step of anybody else clears `calm` and with it the claim (`DisturbedStep`), while
  `BaseInv` holds whoever moves: no orphans, one tool at a time (`OneTool`), which is
  why an import's steps leave `Exporters` alone, and a tree in which an absent folder
  holds nothing (`TreeOK`), without which a purged import could miss a document.
- An attempt to prove that an export gives each live record its own text failed,
  also when people give records distinct titles: one record may have two rows, a
  minted one and the one an import of its exported file made, and both are written
  to one path. `ExportKeepsContent` therefore speaks of the records an export found
  missing and lets those of one path share its document, and `ExportKeepsEveryRecord`
  is the stronger claim of section 8. Of a record that is in markdown already it
  says that its uuid is, not its text: what the server edited since stays in the
  store alone, as the exporter compares uuids. Two theorems say where sentences
  refuted in section 8 do hold: `OwnTitleIsKept`, of a found record that shares its path with
  no other (the document then has the record's own text), and `AbortIsClean`, of a
  run without `--purge`; the latter needs only `Quiet`, what a run has not yet touched.
- `SchemaMigrations`. The history is a prefix of the chain, and the schema the one
  of that prefix, or one script further while its runner is about to record it
  (`Chain`). This holds on Postgres with any number of runners and stops, where a
  script and its record are one commit. On SQLite they are two, and the theorems
  suppose one runner that is not stopped between them (`AloneOnSqlite`);
  `MCMigrationsRace.cfg` and `MCMigrationsCrash.cfg` show what happens otherwise.
- `Cutover`. `TypeInv` adds to the types what a process in each state has in its
  hands. `ColdInv`: a process that began in the cold window reads a source that
  stands still, so what it has read is a part of the source and what it wrote is
  all of it; the server starts on nothing else. `GreenInv`: keys of what was read
  or counted are keys of a source that only grew, and so are the target's, so
  equal counts mean equal keys. `CleanInv`: a run nobody disturbs finds an empty
  target, its inserts are accepted since parents come before children, and what
  it counts is what it copied.
- `OneCopy` rests on `KeyInv`: some account is in the source, in what every process
  has read, and in whatever was written, so a second copy meets its key and is
  refused. It supposes that a store one moves has an account (`InUse`). Two
  processes started on a store with none, whose first account appears between
  two of their reads, can both write, and TLC shows it: the one that read no
  account inserts its other rows beside the accounts of the first.
- `ServedContent`. A template that is on disk has stood since the last one was
  served, and before there is any content nobody was served one (`TemplateInv`); a
  writer past the gate holds one that stood when it asked (`PastGate`); a call that
  composes has seen the files as they are, and what it has read among them
  (`Composing`).
- `Issuers`. A token names its holder and a login was sent to an issuer; a
  pair stands for an account its person reached; accounts are numbered in
  order, so a new one is nobody's (`Numbered`). `OnlyItsOwn` is about `Build`, for all
  settings.

Only model-checked, because fairness and ENABLED are beyond the prover:
`EveryCallAnswered`, `WayOutStaysOpen`, `WriterGetsIn`, `ClientsHoldCurrentLayer`,
`EveryoneGetsIn`. The configurations of section 8 refute what they check; of
those, only `OwnTitleIsKept` and `AbortIsClean` above are proved, under their conditions.

## 8. Where code and documentation disagree

The two runs that expect a violation:

| Run | What happens |
|---|---|
| `store_any_uuid` | inserts of two tenants that name one uuid (importing the same fleet) share a row |
| `cutover_summary` | a green copy has lost every content_summary |

`PROJECT.json` quotes the sentence each of them contradicts. Further
configurations are kept beside them. TLC finds each of their properties violated;
where a file lists several, keep one at a time.

| Configuration | Property | What happens |
|---|---|---|
| `MCSharingClaims.cfg` | `OnlyOwnerRetiresInvites` | revoke_invite asks that the caller stands at home and then retires any tenant's code; its own refusal says "only the owner of a tenant may change who has access to it" |
| | `RosterEndsWithAccess` | list_members still answers for a tenant the caller has lost |
| | `CallerBlockIsTrue` | a concurrent use_tenant makes awaken's caller block contradict its records |
| | `StaleSelectionActsAsHome` | a stale selection refuses instead of acting as oneself, as the migration's comment has it |
| `MCMemoryStoreClaims.cfg` | `DeleteIsFinal` | a uuid in both tables survives its deletion |
| | `NoProfileMeansNobodyAsked` | an archived profile reads as None and blocks a new one |
| | `AgentMemoryTypes` | agent memory takes the shared-only types |
| `MCRecordEditsLost.cfg` | `AddedTextIsThere` | two appends read one body, the second UPDATE overwrites the first, and both callers were told they succeeded |
| `MCRecordEditsTombstone.cfg` | `TombstoneNotSurfaced` | a record deleted meanwhile is edited and returned |
| `MCFirstLoginClaims.cfg` | `SeededAtMostOnce` | a tenant is seeded twice |
| | `NamedTenantHasProfile` | a tenant is never seeded |
| `MCMigrationsCrash.cfg` | `NothingHalfApplied` | a stop between script and history |
| | `StoreComesUp` | after which the store refuses to start |
| `MCMigrationsRace.cfg` | `HistoryTellsSchema` | two SQLite runners: a late 0002 drops what 0003 added |
| | `EachRunsOnce` | two SQLite runners run one script twice |
| `MCMarkdownClaims.cfg` | `AbortLeavesStore` | --purge empties the tenant before pass 1 can abort |
| | `ExportLeavesTreeImportable` | exporting an agent without a folder makes one that pass 1 refuses |
| `MCMarkdownTitles.cfg` | `ExportSkipsDeleted` | the exporter writes deleted records to markdown |
| | `ExportKeepsEveryRecord` | two records of one path are exported to one file, "a markdown home" for one of them |
| | `ExportKeepsArchived` | an archived record is exported with an index line, so that "a reimport rebuilds the record" as an active one |
| | `ExportReplacesNothing` | a record titled like a file that is there is written over it, though the exporter is to "materialise the episode and knowledge records the markdown tree lacks" |
| `MCCutoverPurge.cfg` | `CountsProveTheCopy` | a source that is purged and refilled between the copy and the counts is found green; only a frozen one bears out "a count match as proof of a complete copy" |
| `MCCutoverVerifyOnly.cfg` | `VerifyOnlySuffices` | --verify-only counts rows and cannot tell that one was edited after the copy |
| `MCContentClaims.cfg` | `StillBoots` | a submodule directory that exists and is empty fails the boot, though `_procedures` says a server without content still boots |
| | `TitlesAreLive` | a prompt keeps the title and description it was registered with, though `_h1_title` says "the two cannot drift" |
| | `ComposedByOneLibrary` | after an update of the checkout a procedure is composed by an old module and a new one |
| | `ListingAnswers` | a procedure that vanishes between the names and the titles fails `help` and `list_procedures` |
| | `EveryWriterGetsIn` | content that appears after boot arms the gate of the MCP face, which has no tool to read the template with |
| `MCIssuersPinned.cfg` | `EveryoneGetsIn` | a pinned audience without the identifier the server advertises: clients keep asking for what the issuer does not know |
| `MCIssuersLinked.cfg` | `PeopleKeepTheirTenant` | a first login that straddles the swap of issuers gives a person a second tenant, although everybody known was linked before it |

## 9. Not modelled

- The parsing of markdown and of the framework modules, ranking of searches,
  wording of messages and payloads, HTTP and MCP framing.
- The library's part of authentication: signatures, key sets, expiry checks, the
  routes of the metadata. Also the path normaliser and the mounting of the MCP app.
- Of the content: the components of a procedure's core (folded into it; those of its
  backend section are a file of their own), scripts, and resources other than the
  gated template, which are read the same way. A content root that is removed while
  the server runs.
- `LocalTenantResolver` returns a constant. The service cache of the factory has
  no lock; two services built for one tenant differ in nothing but that each runs
  the migrations. `awaken` reads its layers in six queries, of which no
  statement of the repository promises that they agree; only its profile and its
  caller block are modelled.
- A revoked member who holds another unused code of the tenant may come back with
  it. Nothing in the repository says otherwise, and `GrantsTraceToInvites` covers
  the grant.
- Static pages and the logger.
