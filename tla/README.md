# A TLA+ verification development for Judge Atlas

Judge Atlas ingests public legal and incident sources, keeps the raw bytes as
evidence, derives claims and a graph from them, and lets reviewers decide what
becomes public. This directory holds TLA+ models of its backend
(`backend/app`) and of its release gate (`scripts/release_gate.py`), the TLC
configurations that check them on small instances, and proofs of their main
safety properties for every value of the constants, checked by TLAPS.
`PROJECT.json` is the machine-readable index: components, runs, the source lines
of every definition, the seeded bugs each property detects, findings, hazards
and theorems. Line numbers are of the modelled commit.

1. Inventory - 2. Modules - 3. Runs - 4. Fairness - 5. Proofs -
6. What the code does not keep - 7. Not modelled - 8. What is left

## 1. Inventory

| Part (`backend/app/...`) | State | Operations | Hard behaviour | What makes it correct |
|---|---|---|---|---|
| `memory/` rebuild, invalidation, graph bridge, `api/routes/admin_memory.py` | `MemoryClaim`, `MemoryEvidenceLink`, `MemoryEntityState`, `MemoryInvalidation`, `EntityGraphEdge` rows; the run's locals | `run_rebuild`, `invalidate_claim`, `invalidate_entity_state`, `sync_claims_to_graph` | session without autoflush; runs in background tasks next to the endpoint; partial failure committed | rejected claims stay rejected; claims are traceable and agree with current evidence, summary and graph |
| `audit/`, `auth/admin.py` | `AuditLog` rows, hash chain | `append_audit_entry`, `log_mutation`, `verify_chain` | unlocked read of the last row; rollbacks; routes that bypass the chain | links name committed rows; an untampered log verifies |
| `memory/runtime/` | claim status and ages, cache, pending, in-flight and failed rebuilds | transitions, `put`, `get`, `schedule`, `next_ready`, `complete`, `fail`, ticks | schedule during flight, retries, promotion | ages and retries bounded; nothing stale served |
| `workers/ingestion_queue.py` | job records, pending list | `enqueue`, `run_next`, `run_job`, polling, eviction | threads, gaps between two locks | no job twice, none forgotten, recent records kept |
| `workers/` runtime | priority heap, retries, results, pipeline plan, heartbeat | `submit`, `run_next`, `submit_pipeline` | dependencies against priorities, full result store | no job lost; the heap drains |
| `ingestion/runtime/` | checkpoints, crawl states, retry queue, schedules, health, run rows | worker run, replay, retry, restart | swallowed errors, restart, counters | what was parsed is accounted for; a checkpoint belongs to a run that can be replayed |
| `ingestion/source_runner.py`, `runner.py`, `workers/jobs/`, `api/routes/admin_sources.py`, `admin_quarantine.py`, CLI | registry rows, `IngestionRun` rows, records, two locks | enable, disable, run, upload, quarantine, release | crash between two commits; refusal against completion; one lock key per process | a run row explains its status, and what it counts is explained by its records |
| `ingestion/source_adapters/` | review items, incidents, snapshots | fetch, parse, contract, queue for review | a publisher that is down, changed, paged | an item is on a page whose bytes are kept |
| `ingestion/web_monitor/` | page states, seen hashes, one session | handlers, limits, end of run | interleaving at awaits, a failure between snapshot, count and item, a dead session | a completed run is whole, a gap is reported |
| `ingestion/courtlistener_bulk_normalizer.py` | bulk runs, records, provenance | import by route and script, force | rollback of a whole file by one row | a done run left nothing out unexplained |
| `services/evidence_store.py`, `snapshot_writer.py`, `archive/` | files, snapshot rows, custody events | write, read, verify, export | crash between write, rename, check and row | a row reads back what it was given |
| `evidence/runtime/` | addresses, lifecycle, retention | store, verify, expire, purge | refusal between two registries | the registries agree; nothing overdue |
| `services/pipeline/` | stages, circuit breakers | register, run, tick | outcomes that arrive late | no call starts during the recovery time |
| `api/routes/admin_review.py`, `services/auto_review.py`, `ingestion/crime_sources/` | review status, visibility | import, decide, retract | repeated and conflicting decisions | public means approved as stored |
| `review/decisions.py`, statute imports, `services/evidence_chat.py` | instruments, sections, revisions, items | import, decide, cite | overlapping imports; no lock | revisions chain; cited text was approved |
| `ai/`, `api/routes/ai_review.py` | review items, action log, events | draft, decide, publish | two requests on one item | nothing published without an approval |
| `services/ai_correctness.py`, `source_verifier.py` | checks, snapshots | check, verify | verdicts that depend on other rows | a verdict is that of the rows as stored |
| `api/routes/map.py`, `map_record.py`, `public_events.py`, `serializers/` | none of their own | pages, panels, details | page limits, duplicates of a join | dots resolve, pages are whole, counts agree |
| `graph/`, `services/graph_queries.py`, `relationship_evidence.py`, `canonical_resolver.py` | edges, evidence reviews, entities, merges | search, verify, resolve, merge | merge chains, racing reviewers | searches exact; every record leads to an active entity |
| `api/routes/auth.py`, `auth/jwt_handler.py` | users, sessions, tokens | register, login, refresh, logout, logout-all | concurrent refresh | an exchanged or swept session is never live again |
| `auth/admin.py`, `core/config.py`, `core/rate_limit.py` | settings, windows | start-up checks, role checks, rate limit | Redis that fails, windows that move | a handler is entered by right |
| `scripts/release_gate.py`, `check_proof_freshness.py` | `artifacts/proof/current` | checks, verdict, manifest | interruption, also of the archive; a second gate; inputs that change | a PASS stands on checks of this gate, over inputs that are still as listed |

**Interaction.** Routes open one database session per request (`db/session.py`,
autoflush off), call a service, append an audit entry in the same transaction
and commit. A run (route, job, command, CourtListener) commits a RUNNING row,
calls an adapter, passes its result through the contract, the evidence store
and the review queue, and closes the row. Reviewers' decisions make incidents,
legal text, AI drafts and events public, and the public routes read what is.
Rebuilds read evidence links and write claims, summaries and edges. The audit
log is shared by all of them. Where components meet in the database, a module
models one protocol together with what the others do to its rows (`SourceRuns`
has the registry, the runs, quarantine and the locks; `PublicViews` the
decisions that change what the views show; `Adapters` what the runner stores).

## 2. Modules

| Module | Models |
|---|---|
| `MemoryRebuild` | `memory/rebuild.py`, `invalidation.py`, `memory_graph_bridge.py`, `api/routes/admin_memory.py` |
| `ClaimLedger` | abstract: what a reader of one claim may rely on; `MemoryRebuild` implements it |
| `ClaimRowRace` | one claim row under overlapping sessions |
| `AuditChain` | `audit/append_log.py`, `chain_digest.py`, `integrity_chain.py`, `auth/admin.py` |
| `PublicationGate` | incidents and legal sources under imports, automatic review, decisions and retractions |
| `SourceRuns` | registry control, the job, API, CLI, CourtListener and upload paths that start a run, quarantine, the CourtListener locks |
| `Adapters` | `build_adapter`, the adapters' fetch and parse, the contract, review items and incidents |
| `IngestionQueue`, `JobLedger` | the in-process queue, and the abstract ledger of jobs it implements |
| `WorkersRuntime` | heap, retries, result store, metrics, heartbeat, pipelines |
| `IngestionRuntime` | worker runs, checkpoints, replay, retries, schedule, health, restarts |
| `MemoryRuntime` | claim lifecycle, cache and rebuild scheduler on one clock |
| `PipelineStages` | stages behind circuit breakers, several threads |
| `EvidenceVault` | address, lifecycle and retention registries |
| `EvidenceStore` | temporary file, rename, check, row; reads, damage, exports |
| `AuthSessions` | accounts, sessions, access tokens |
| `RequestGate` | start-up checks, bearer and role checks, both rate limiters |
| `LegalText` | sections, revisions, review items and citation of one instrument |
| `AIReview` | AI drafts, decisions, publication as events |
| `Correctness` | the five checks, the runs and the source verification |
| `PublicViews` | map, panels, details and lists as operators over changing rows |
| `EntityGraph` | edges; path searches and neighbourhoods, one query at a time |
| `RelationshipEvidence` | evidence of relationships, verified and withdrawn by racing reviewers |
| `EntityMerge` | resolution, creation, merges and source records |
| `WebMonitor` | one crawl |
| `BulkImport` | imports of a bulk snapshot by route and script |
| `ReleaseGate` | the gate, its artifacts and the freshness check |
| `Queues` | `IngestionQueue` and `WorkersRuntime` side by side |
| `Runtimes` | the in-memory subsystems, the evidence store and `ClaimRowRace`, interleaved |
| `Reviews` | sessions, gate, legal text, AI review, checks, relationship evidence, merges, public views and the entity graph, interleaved |
| `Ingest` | adapters, crawl, bulk import and release gate, interleaved |
| `MC...` | instances for TLC |
| `...Proofs` | theorems (section 5) |

Subsystems that share no modelled state are grouped: a group declares the
constants and variables of its members, instantiates each over its own, and its
`Next` is their interleaving. It names what each member promises
(`RuntimeSafe`, `ReviewSafe`, ...), so that the run and the theorem speak of one
definition.

How they read the code:

**Transactions.** Code that reads, waits or computes and then commits is split
into the read (the locals, in `tx`, `req`, `ses` or `call`) and the commit.
SQLAlchemy writes the columns that changed against what the session read; where
two requests may overlap on one row the commit does just that (`ClaimRowRace`,
`PublicationGate`, `AIReview`, `RelationshipEvidence`), so a lost update can mix columns
of two requests. A rollback, a refused constraint or the death of the process
between the two is an action of its own. Where the code lets nothing overlap
(coroutines without an `await` inside the transaction, in the one process
`entrypoint.sh` starts) a handler is one action.

**MemoryRebuild.** One action per query or write of `run_rebuild`, because the
session does not autoflush: a reactivated claim is in `active` and in
`unflushed` until a later `flush()`. `QueryActive` and `UpdateState` read
`VisibleActive`, which leaves `unflushed` out. `ExtractFails` is the `except`
branch: the run is committed as far as it got. A database error rolls the run
back to the state before `StartRebuild`, so it has no action.
`InvalidateEntityState` has no caller in a route; it belongs to `ServiceSpec`
and not to `Spec`.

**AuditChain.** `Stamp`, `ReadLast`, `InsertChained`, `Commit`, `Rollback`, and
`InsertDirect` for a route that adds an `AuditLog` row itself. A digest is the
set of ids on its chain, exact if SHA-256 does not collide and ids are not
reused.

**PublicationGate.** `Import` is `persist_crime_incident` for one record, also
when the record is blocked, because importers catch the error and commit. A
decision or a retraction of a legal source is split into read and commit.

**SourceRuns.** A session is in a replica, and the advisory lock key is a
function of the replica, chosen again when it restarts: the code hashes a string
with Python's `hash`, which is seeded per process. `left` is a history field
that says how the session that started a run parted from it; `counted` is one too,
the records behind `persisted_count` (`count` in a session). Records are of the
kinds the paths count apart: what `persist_ingestion_result` skips when stored,
`Instruments`, which it writes again (`upd`), and counts, each time they come up
(`Twice`: those a result may hold twice), and `Events`, the docket entries of
CourtListener, counted also when already stored and when the savepoint they were
written in is rolled back.

**IngestionRuntime.** `parse_many` makes up to `MaxParsed` records of a raw one, or
none, or raises; batches and checkpoints go by raw records, the balance by parsed
ones. A failed flush deactivates the session (`dead`): all later statements of the
worker fail while it goes on, and its run row is lost (`kept` is false).
`AdvanceFails` is the crawl state another worker has finished meanwhile.

**IngestionQueue.** The lock is held for the length of one action; `run_job`
moves its job to the front in one and `run_next` takes the front in another.
`asked` and `stamp` are history.

**WorkersRuntime.** `submit_pipeline` is given the steps in an order that
respects their dependencies; the model says so of the positions (`IsPlan`,
`SubmitInOrder`) and leaves open which of those orders it is. The result store
is one buffer and a list per job, as in the code.

**RequestGate.** A window is the sequence of the times of the requests it
counts, per process, and one shared window while Redis is up.

**LegalText.** An import decides section by section on what its session holds
(the rows read, and what it has written itself) and commits them together.

**Adapters.** What a fetch finds is a set of entries, each with the page and the
place it stands at; a page is shown by the snapshot of its bytes.

**BulkImport.** One action per record; a record carries what it refers to. A row
that raises rolls the transaction back to the last commit, the counters go on.

**EntityMerge.** `Reached` is the smallest set closed under `merged_into_id`
from a row; `resolve_merge_chain` looks at `Hops` rows before it takes a chain
for a cycle, and `Chain` does too.

**EvidenceStore.** The forms of content the code tells apart (empty, text,
binary, text that begins with the prefix of encoded bytes, too large for the
database) are constants; a hash is the content.

**PublicViews, Correctness.** A GET changes nothing: the views and verdicts are
operators over the rows, compared with reference definitions in every reachable
state; pages are therefore those of one state. An incident enters hidden or as
`auto_review` publishes it, without a snapshot or a decision; an import that finds it
again decides on it anew. An event may have no judge. `CaseLimit` stands for the 200
rows of `list_cases`; `Chosen` bounds the statuses reviewers choose.

**WebMonitor.** A handler is one action between two of its awaits: `Enter`, `Read`
(content type, hash, duplicate), `Link` (the links it enqueues) and `Keep` (snapshot,
extraction, `parsed_count`, review item: no await between them, so what fails is
an outcome of `Keep` that leaves what came before in place). A page that is never
answered (`Unanswered`) and a handler the crawler abandons (`TimeOut`) end as
`given_up`; they are the library's doing and marked external.

**EntityGraph.** A search sends one query per entity, and under READ COMMITTED
edges may be written or retracted between two of them. So a search is a request
with the locals of the code (`queue`, `met` for `visited`, `read` for
`visited_at_depth`, `found`), `FindPath` and `FindPaths` are one turn of the two
loops with its query, `Pass` a turn that ends in `continue`. The service's rows
come in any order, the engine's newest first and no more than 100 (`EdgeLimit`).
`quiet` is history: nothing was written since the request began; what a search
says of all edges can hold only then. A neighbourhood is a request in rounds.
No route calls `find_paths` and `get_neighborhood`; the module asks them of any
entities.

**ReleaseGate.** What the gate writes, in the order it writes it; the tree may
change and the gate may die between any two steps, and another may start in the
same directory. The archive moves one file per action; the loop of `unlink` after it
is one, since what it removes that the moves left came from another gate. `Edits` gives each proof
input its contents, edit after edit (`None`: not there), and `tree` the place of each
in them, so that the order of edits is known to the properties. `Freshness` looks for
the files the manifest lists, as the gate calls it (no `--strict-extra-files`): a file
added since passes. `last` (the gate that emptied the directory last) and `torn` (a
gate has moved part of it away since) are history.

## 3. Runs

| Run | Question | Result |
|---|---|---|
| `MemoryTwoEntities` | do claims, summaries and edges of two entities sharing snapshots stay consistent under runs, failures, rejections? | holds |
| `MemoryOneEntity` | are runs idempotent, do they end, do they keep rejections and implement the ledger, the uncalled service function included? | holds |
| `MemoryGraph` | does every active mapped claim have an active edge after a run over unchanged evidence? | violated |
| `AuditConcurrent` | do links resolve, does a quiet chained log verify, is a break permanent? | holds |
| `GateReview` | is everything public decided on as it is stored, and is the review history exact without races? | holds |
| `SourceRuns` | which runs may still say running, is what a run counts explained by its records, what do the two locks exclude? | holds |
| `SourceRefusal` | is a run refused for a broken contract never reported completed? | violated |
| `Queues` | does the ingestion queue keep its books and implement the ledger; does the workers' heap lose nothing and drain? | holds |
| `Runtimes` | do the in-memory subsystems and the evidence store keep their registries, counts and limits under every interleaving, restart and crash; is an inactive claim audited however many sessions overlap? | holds |
| `Reviews` | do sessions, reviews, checks, views, searches and merges keep their promises when requests overlap? | holds |
| `Ingest` | do adapters, crawls, bulk imports and release gates leave only what can be traced, when publishers fail and processes die? | holds |

`MCQueues`, `MCRuntimes`, `MCReviews` and `MCIngest` extend the
groups. Each lets a behaviour exercise one member, chosen initially by `which`:
the steps of one member leave the variables of the others alone and read none of
them, so every state a member reaches within the bounds below occurs in one, and the
state space is the sum of theirs, not the product. The invariants are those of
the group and hold of every member in every state.

Bounds, and why they are enough:

- `MemoryTwoEntities`: two entities, two snapshots of one source (the second
  supersedes the first and drops a claim), three claims, one of an unmapped type;
  `MemoryOneEntity`: one entity, two sources, three snapshots, two claims: the
  smallest instances with supersession, a claim two sources support, a claim
  that comes back and sibling edges. Runs and invalidations are unlimited.
- `AuditConcurrent`: two chained writers and a direct one, 4 ids, 5 clock readings: a
  fork, a gap and an entry after each.
- `GateReview`: one incident of a source on hold, one of a source that may
  publish and may carry blocked text, one legal source, one retracting thread.
- `SourceRuns`, `SourceRefusal`: one source, two sessions in two replicas, two
  keys, two runs, one record of each kind (an incident, an instrument that may
  come up twice, a docket entry): replicas that agree on the key and that do not,
  records found again, savepoints lost.
- `Queues`: three jobs and three threads with `max_history` 1, so that eviction,
  a stolen front and a caller that polls too late all happen; five envelopes, two
  attempts, a result store of two and a pipeline whose most urgent step depends
  on the least urgent.
- `Runtimes`: two workers on one source with batches of one raw record (a
  checkpoint after each) of which none, one or two are parsed, two runs with one retry, then three runs without, to
  replay a failed one; thresholds, limits and times to live of one or two, so that
  each is reached and passed; two writers and two rows over every form of content;
  two rebuild and two endpoint sessions over one claim row, unlimited transactions.
- `Reviews`: two overlapping requests everywhere, three sessions of one user,
  three sections, four decisions, three edges over three nodes of which two share
  a number, an edge limit of two, so that it cuts, and two paths to stop at
  (`paths` asks from one node, at most two edges deep; `near` for one and three
  rounds: three nodes have no longer simple path; one node is never a subject,
  since a path ignores direction, and only one is tied to itself), two entities under two sessions, then three (chains) under one; two
  events with two sources and pages of one or two (`pages`, so that a page ends
  before, at and after the last event and a join repeats one), one mapped event
  and one incident with two sources (`panels`); a list of one case, so that it cuts.
- `Ingest`: every parser once with sites that page, fail, send junk or fall back
  (`adapt`), and two overlapping adapter runs (`races`); a crawl of five pages,
  two with equal content, one a file, with concurrency two and a limit below what
  is found; an import of the first two files overlapping one of the first three,
  which refer to each other and may be forced (`bulk`), then one import of all six
  kinds of file (`whole`); one gate started three times, dying anywhere, while one input is changed
  and one added (`alone`), then two in one directory over three steps (`both`, without
  edits); a gate may archive the directory from either end of a fixed order (`FromAnEnd`),
  so that either the verdict or its logs go first.

Bounds in guards are named in the modules (`MaxRuns`, `MaxSessions`,
`MaxItems`, ...); a behaviour stops when they are used up, and connections or
stores may really be idle, therefore `CHECK_DEADLOCK FALSE` in those runs.

## 4. Fairness

`MemoryRebuild` has `FairSpec`, which adds `WF_vars(RunStep)`: a run is one synchronous call in a
background task, so once started it is executed until it returns. No request,
no ingestion and no new run need ever happen. `RunTerminates` is what this gives.

`MCQueues` adds weak fairness of `WorkersRuntime`'s `Execute` (`WF_workersVars(W!Execute)`), one step of
`run_next` (dequeue, attempt, retry or result): whoever drives the runtime calls
`drain`, a loop over `run_next`. Submissions are not fair. `QueueDrains` says that what is queued
leaves the heap: retries are bounded, and a failed job is tried again inline.

The other modules promise nothing about progress, and the code gives them none:
a run row may say RUNNING for ever (`RunningIsExplained` says which), a breaker
needs somebody to tick it, a request may never be repeated.

## 5. Proofs

Eight proof modules are checked from nothing, without unproved facts. They show,
for every value of the constants, every safety property the passing runs check,
both action properties, and both refinements
(`MemoryRebuild` of `ClaimLedger`, `IngestionQueue` of `JobLedger`).

The assumptions on constants are `DataAssumption`, `ReasonAssumption` and
`SentinelAssumption` (`MemoryRebuild`), `ChainAssumption`, `GateAssumption`,
`SourceRunsAssumption`, `IngestionQueueAssumption`, and those of the groups, which
collect their members': `QueuesAssumption`,
`RuntimesAssumption`, `ReviewsAssumption`, `IngestAssumption`. TLC evaluates all
of them on every instance. They say what the schema, the settings and the
language say: a claim has one entity, hard reasons are reasons, `None` is not a
value, limits and times to live are numbers, sets of threads, jobs, steps and
records are finite, a file refers only to earlier files.

- `MemoryRebuildProofs`. Claim safety needs a strengthening that says what the
  run's locals mean between steps: produced and pending keys come from linked
  snapshots of the current entity, every produced key that is not refused is active, and
  the query result contains every active claim not produced (a claim the query
  cannot see was reactivated by this run and is therefore produced).
  `EdgesRestOnActiveClaims` and `SummaryExact` hold for `Spec` only, because
  `InvalidateEntityState` leaves edges and checksum behind.
  `SecondRunRepairsSummary` and `RebuildIsIdempotent` rest on an invariant over
  `settled`: while nothing an entity's run depends on has changed since its last
  run, its active claims are the ones its evidence yields and nobody refused, each
  with its row and link (`SettledInv`), and a pass over it has reactivated nothing
  (`FlushedInv`); so each step of the second run finds nothing to do.
  `MemoryImplementsLedger` maps every step to a ledger step or a stutter.
- `AuditChainProofs`. An id is used once, a chain holds only smaller ids its
  writer could see, and after the last committed entry a chain is complete or
  stays incomplete. Links resolve, a break is permanent, serial chained logs
  verify.
- `PublicationGateProofs`. For incidents one addition suffices (no review of a row that is not
  stored); for sources an open transaction wants the flag that belongs to its
  status, so a commit over the row it read stores exactly the review it records.
- `SourceRunsProofs`. `RunInv` says that a run is owned by at most one session
  and by none it was not started for, that the run a session holds is open and
  stores nothing before its flush is committed, and what each way of parting leaves behind; from
  it follows `RunningIsExplained`; `JobRefusalKept` is a part of it. `CountsExplained`
  needs what a session brings to its commit (`Brought`): that what it counted is what it
  wrote, or for a CourtListener run without errors what it wrote or found stored
  (`Lossless`), that only such runs count docket entries (`CountsApart`) and that every
  record names a run row (`RowsKnown`).
  `LocksMatch` (a lock is held exactly by the session that fetches) gives
  `CourtExclusion` for any number of replicas and keys.
- `IngestionQueueProofs`. `QueueSafe` needs that the stamps of finished jobs are
  distinct and that the finished records kept are the newest; `NoneStranded` is an
  argument about positions: each call between its two locks accounts for at most
  one place at the front. `QueueIsLedger` is the refinement of `JobLedger`.
  `WorkersKeepBooks` adds that heap entries carry distinct, smaller numbers than
  the next one (`Numbered`) and that what a pipeline has submitted is a prefix of
  a valid order (`Planned`); the store agrees because its buffer lists, for each
  job, exactly the results of that job's list, also after an eviction
  (`ListsBy`). Counts go through the cardinality of finite sets.
- `RuntimesProofs`. Breakers: an open one has not yet waited for the recovery time and one that
  is not open has (`SoundBreaker`), so whatever outcome arrives late, a call that
  starts finds it over. Vault: the registries
  agree because a refused step leaves all three or completes all three. Store: a
  write knows what it has checked (`SoundWrite`), a row is only added over a file
  that was whole (`SoundRow`). Memory runtime: the entries of one entity over
  pending and in-flight are at most two, none past its tries (`SoundSchedule`).
  Ingestion runtime: what a worker has parsed is stored, skipped, an error, or still in its
  hands, and an error more is a raw record that did not parse (`Accounts`), the run rows it works on are its own (`RowsInv`), and a
  checkpoint, a crawl state and a health row are explained by a run row or by the
  worker at it. Claim row: for any number of sessions, one that wants the claim
  inactive writes reason and audit row together and one that only reactivates
  never writes the reason, so the reason of an inactive row is audited
  (`RaceKeepsAudits`).
- `ReviewsProofs`. Sessions: what a request read stays true of rows that only ever
  gain revocations (`ReadsHold`), so a commit revokes what it exchanges and a
  sweep revokes what it saw. Gate: a request enters over a window from which the
  old times were dropped, and restarts and clock ticks only shorten windows. Legal text:
  an open import holds the tables as it read them plus what it wrote
  (`TablesHold`, `BaseHolds`), and a commit meets rows that have not changed or is
  marked as a race, so revisions continue each other. AI items: a request about to
  publish was approved in the log and what it read cannot change (`DraftsHold`).
  Relationships: at most one request has flushed on a row, so unless two raced
  the row is what it read, and its commit makes the row say what its entry says
  (`RequestsHold`, `RowLogged`). Merges: no non-empty set of merged rows leads only
  into itself (`NoLoops`): a merge towards an active row redirects rows out of any
  set that does not hold it; hence the rows reached from any row include an
  active one. Public views: the place of an event is the number of newer mapped
  events; places are distinct and fill `0..N-1` (`RanksCount`), a page is the
  events whose places lie in an interval (`PageOfAll`), and multiples of the page
  size cover all places (`Multiple`), so the pages lose and repeat nothing
  (`PagesHold`). Counts are cardinalities of images of the public sources. That a
  public incident without a snapshot is one `auto_review` published with an address and a
  place (`ShownIsReviewed`) is an invariant of imports, re-imports and decisions.
  Entity graph (`GraphInv`): the induction over a search's turns is an invariant
  of the request. `InOrder`: the queue is sorted by length and grows by at most
  one edge from head to end, nothing read or found is longer than its head allows;
  this is why a node the engine takes again was read no deeper, and is passed.
  `Covered`: while nothing is written, a neighbour of an entity read is scheduled
  (read, waiting, or out of depth) at most one edge further, so an induction over
  the edges of any path, whose last entity is the target, shows at the end that
  the first path found is no longer than it. `MetOnce`: what the service has met is
  read, waits once, or is out of depth. `Trails`: each waiting or found path runs through
  distinct entities that were read, which keeps it simple whatever is written.
  `NearInv`: after `k` rounds a neighbourhood has seen what is reached in `k - 1`
  steps, and its frontier is reached in `k`. `SearchesSafe` is not inductive without them, since it says
  nothing of what waits in the queue. TLC confirmed `GraphInv` on a small instance
  before it was proved. `EntitiesAreReadOnce` follows from it.
- `IngestProofs`. Gate: while gates do not overlap at most one runs, and past the archive what the
  directory holds is what its steps so far have written (`SoundGate`, `OwnerHolds`); a
  move only takes away (`Removed`), so a verdict that is still there while the archive is
  torn is the last gate's; edits come in order (`Precedes`), so no check saw a
  newer tree than the listing. Adapters: what a run found is evident on a page
  whose bytes its snapshots hold (`Evident`, `SoundRun`). Crawl: a content noted
  as seen is stored, or held by the one page about to store it, or an error was
  collected, or its handler was given up (`NotedIsKept`, `OneHolder`); slots in use are pages at work
  (`SlotsHold`). Bulk import: a run row has one writer (`Owns`, `Apart`), what its
  transaction holds accounts for the rows up to the current one (`Holds`,
  `WholeTo`, `CountsTo`), and a committed row counts what is stored under it
  (`RunRows`).

Model-checked only:

- `RunTerminates` and `QueueDrains`: liveness under fairness. No other property of
  a passing run is without a theorem.

## 6. What the code does not keep

Two disagreements between the code and its own comments are runs.

- `MemoryGraph`: the bridge skips a claim whose edge row exists even when it is
  retracted (`memory_graph_bridge.py:107`). A claim that is withdrawn and
  asserted again stays out of the graph, against `rebuild.py:381`.
- `SourceRefusal`: `quarantine_run` leaves the status failed, the guard of
  `run_source_now` keeps only the status quarantined (`admin_sources.py:861`): a
  refused run is committed as completed and not listed in quarantine. On the job path
  `JobRefusalKept` holds.

Others are stated in the modules as definitions no run checks, because the code
breaks them and the cause is of the same kind (a read without a lock, a status
overwritten):

| Definition | What happens |
|---|---|
| `MemoryRebuild!StateCountsActiveClaims` | the summary query misses claims the run has just reactivated (`rebuild.py:235`, autoflush off); `SecondRunExact` shows that a second run repairs it |
| `ClaimRowRace!HardRejectedIsInactive` | a rejection committed between the read and the flush of a rebuild ends rejected and active |
| `AuditChain!SerialLogVerifies` | routes that add rows without hashes make the next chained entry link to GENESIS |
| `PublicationGate!RejectionKept` | `persistence.py:126` resets a rejected incident on every import |
| `PublicationGate!RetractionHides` | a retraction sent twice around an approval writes no column the second time |
| `AuthSessions!NoPairFromRevoked` | two refreshes that read one session both get a pair (`entities.py:1686` says otherwise) |
| `AIReview!BlockStands` | a block committed between the reads and the commit of a publication is overwritten (`ai_review.py:331`) |
| `LegalText!CitedTextIsReviewed` | an import of changed text leaves the approval in place |
| `Correctness!CheckIsStored` | the run routes log `chk.status`, an attribute the row does not have, before they commit |
| `PublicViews!FallbackOnlyWithoutLinks`, `UntruncatedIsWhole` | the panel falls back also when linked sources are hidden (`public.py:442`); duplicates of a join use up a filtered page (`map.py:195`) |
| `Adapters!ReadyDelivers` | `docs/SOURCE_REGISTRY.md:47`: a ready source is refused though its publisher answered |
| `EvidenceStore!LosslessText` | a text that begins with the prefix of encoded bytes is decoded when it is read |

Seen on the way, as the models have it:

- Runs: enabling a source leaves a lifecycle state that refuses every seeded one;
  the ingest command never commits its run; the job path leaves RUNNING when
  persisting or the commit raises; the lock of CourtListener ends before the
  route's commit; `persisted_count` keeps what a rolled-back savepoint stored
  (`runner.py:163`) and counts again what is found stored (`persistence.py:53`,
  `source_runner.py:355`), while an instrument whose sections raise is written and not
  counted.
- Adapters: no version is reported by adapters that create incidents, so none is ever
  stored (`NoIncidents`); HTML items share one identity, so while one waits no
  later run queues anything (`OneRunWaits`).
- Runtime: after a failed flush the worker goes on with a session that stores nothing,
  and its row is lost though the health, or a replay, may record a success; a run an
  exception ended counts nothing, and a refresh counts every row of failures;
  `error_count` counts each error twice, the checkpoint of a run that
  closed as failed is cleared, a failed retry starts again at attempt 1 (its attempts have no bound), health read back from
  rows knows other status words.
- Breakers: half-open admits any number of calls (`circuit_breaker.py:15` speaks
  of one), and a success from before the opening may close it.
- Vault: storing an id again replaces its address before the lifecycle refuses.
- Crawl: pages never answered and handlers given up leave no error; a run an exception
  ended records only that error; the request limit is passed by up to the concurrency
  less one (`LimitPassed`), though `crawlee_runner.py:8` speaks of a hard stop;
  `parsed_count` stays raised when the review item cannot be made, though
  `crawlee_runner.py:424` says it is not.
- Public views: incidents are published automatically without a snapshot;
  `list_cases` leaves out all but the newest 200, to which dots may lead.
- Rate limits: `rate_limit_enabled` may be off in production too; no start-up check asks.
- Graph: neighbourhoods compare numbers without types; a merge target's status is never checked, so chains
  may close; `CanonicalResolver` reads two attributes that do not exist.
- Bulk import: one failed row rolls back its whole file while counters go on;
  `force` cannot delete a run provenance refers to.
- Release gate: the tree is hashed after the checks; two gates overwrite each
  other's proof; a gate killed while it archives leaves the last verdict without some of
  its logs, or its reports without the verdict; an input added after the listing passes
  the freshness check.
- `audit/replay.py` imports a name `chain_digest.py` does not define; most import
  routes of `admin_ingest.py` read `result.persisted_incidents`, which no result has.

## 7. Not modelled

- Pure computation without shared state: text extraction, hashing, embeddings,
  scoring of the AI engines (`ai/*_engine.py`, `temporal_reasoner.py`), evidence
  checks over one snapshot, retrieval queries, geometry and display fields,
  parsing of pages (a page is its rows and links), the wording of reports.
- External services: HTTP, LLM and OCR calls are nondeterministic outcomes.
- `workers/scheduler.py` (APScheduler intervals around a crawl), the in-process
  entity registry, statistics and validation reports of `admin_sources.py`, the
  permission tables of `security/` (no route calls them), the action log all
  incidents of one batch share, trusted court locations of the bulk import, the
  `cl_person_id` it writes to a judge known by name, rows without an id of their own
  (two of them share one provenance key), the
  middleware that truncates over-long chunked bodies, compliance fields of
  `verify_chain` (checks of one row).
- `api/routes/admin_ingestion.py`: its lists are read-only; its retry route
  (`retry_ingestion_run`) starts a run whose row is not committed before the
  adapter returns and lets a source without an automation status through, so it
  is a path of its own that `SourceRuns` and its theorems do not speak about.
- Ingestion links evidence only between runs in `MemoryRebuild`; the overlap of
  a run and the endpoint is in `ClaimRowRace`, on one row.
- Seed data, migrations, frontend, deployment and vendored code.

## 8. What is left

1. `MemoryRebuild` with evidence that arrives during a run.
2. The shared action log of a batch, next to `PublicationGate`.
3. The retry route of `admin_ingestion.py` as a further path of `SourceRuns`, with
   the cases its run without a committed row adds to `SourceRunsProofs`.
