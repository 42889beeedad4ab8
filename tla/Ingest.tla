--------------------------------- MODULE Ingest ---------------------------------
(***************************************************************************)
(* What is fetched, imported and released, each on state of its own: the   *)
(* runs of the source adapters, a crawl of the web monitor, the import of  *)
(* a bulk snapshot and the release gate.  No step of one reads or writes   *)
(* the state of another, so the system of the four is their interleaving.  *)
(***************************************************************************)
EXTENDS Integers, Sequences, FiniteSets

CONSTANTS
    None, Sessions,
    Rows, Sites, Links, Fixed, Targets, PageLimit, MaxItems, MaxRuns,  \* Adapters
    Urls, StartUrls, Content, LinksOf, Deepest, Listed, Disallowed,    \* WebMonitor
    Blocked, MaxRequests, Concurrency,
    Files, MaxCalls,                                                   \* BulkImport
    Steps, Gates, MaxStarts, Edits                                     \* ReleaseGate

VARIABLES
    items, incidents, snapshots, tx, missed, raced,
    page, hashes, flushed, queued, errors, parsed, dead, run,
    runs, stored, traced, call, undone, nextId, calls,
    dir, gate, tree, last, torn, overlap, starts

Adapt == INSTANCE Adapters
Crawl == INSTANCE WebMonitor WITH snapshots <- flushed, items <- queued
Bulk  == INSTANCE BulkImport
Gate  == INSTANCE ReleaseGate

ASSUME IngestAssumption ==
    /\ Adapt!AdaptersAssumption
    /\ Crawl!WebMonitorAssumption
    /\ Bulk!BulkImportAssumption
    /\ Gate!ReleaseGateAssumption

adaptVars == <<items, incidents, snapshots, tx, missed, raced>>
crawlVars == <<page, hashes, flushed, queued, errors, parsed, dead, run>>
bulkVars  == <<runs, stored, traced, call, undone, nextId, calls>>
gateVars  == <<dir, gate, tree, last, torn, overlap, starts>>
vars == <<adaptVars, crawlVars, bulkVars, gateVars>>

Init == Adapt!Init /\ Crawl!Init /\ Bulk!Init /\ Gate!Init

AdaptStep == Adapt!Next /\ UNCHANGED <<crawlVars, bulkVars, gateVars>>
CrawlStep == Crawl!Next /\ UNCHANGED <<adaptVars, bulkVars, gateVars>>
BulkStep  == Bulk!Next /\ UNCHANGED <<adaptVars, crawlVars, gateVars>>
GateStep  == Gate!Next /\ UNCHANGED <<adaptVars, crawlVars, bulkVars>>

Next == AdaptStep \/ CrawlStep \/ BulkStep \/ GateStep

Spec == Init /\ [][Next]_vars

--------------------------------------------------------------------------------
\* What the runs of the adapters and a crawl leave can be traced to what was fetched
\* (ingestion/source_adapters, ingestion/web_monitor).
FetchSafe == Adapt!AdaptersSafe /\ Crawl!WebMonitorSafe

\* A bulk import accounts for its rows and stores none before those it refers to
\* (ingestion/courtlistener_bulk_normalizer.py).
ImportSafe == Bulk!BulkSafe

\* The proof a release gate leaves is of that gate and of its checks
\* (scripts/release_gate.py).
ProofSafe == Gate!GateProofSafe
================================================================================
