-------------------------------- MODULE Runtimes --------------------------------
(***************************************************************************)
(* The subsystems whose state the models keep apart from every other's:    *)
(* the ingestion runtime, the memory runtime, the stage pipeline, the      *)
(* evidence vault, the evidence store and one claim row under overlapping  *)
(* sessions.  No step of one reads or writes the state of another, so the  *)
(* system of the six is their interleaving.                                *)
(***************************************************************************)
EXTENDS Integers, Sequences, FiniteSets

CONSTANTS
    None,
    Sources, Workers, MaxFetched, MaxParsed, BatchSize, MaxRuns, MaxAttempts,  \* IngestionRuntime
    Keys, Entities, Priorities, StaleAfter, ArchiveAfter,           \* MemoryRuntime
    MaxEntries, Ttl, MaxRetries, RetryDelay, MaxTick,
    Stages, Threads, FailureThreshold, RecoveryTicks,               \* PipelineStages
    HalfOpenSuccesses, Unbounded,
    Ids, Held, Tiers, TierTtl,                                      \* EvidenceVault
    Contents, Form, Writers, MaxRows, Garbled,                      \* EvidenceStore
    Rebuilds, Rejects, Reasons, HardReasons, StaleRebuild           \* ClaimRowRace

VARIABLES
    active, schedule, checkpoint, crawl, health, retries, runs, wk,
    tick, claims, cache, pending, inFlight, failed,
    registry, breaker, calls,
    clock, address, state, retention,
    root, files, rows, custody, wr,
    claim, loaded, wants, audited

Ingest   == INSTANCE IngestionRuntime
Memory   == INSTANCE MemoryRuntime
Pipeline == INSTANCE PipelineStages WITH NoStage <- None
Vault    == INSTANCE EvidenceVault WITH
                Contents <- Held, Ttl <- TierTtl, Never <- None,
                tick <- clock, schedule <- retention
Store    == INSTANCE EvidenceStore
Race     == INSTANCE ClaimRowRace WITH
                NoReason <- None, NoRow <- None, row <- claim, audits <- audited

ASSUME RuntimesAssumption ==
    /\ Ingest!IngestionRuntimeAssumption
    /\ Memory!MemoryRuntimeAssumption
    /\ Pipeline!PipelineAssumption
    /\ Vault!VaultAssumption
    /\ Store!EvidenceStoreAssumption
    /\ Race!RaceAssumption

ingestVars   == <<active, schedule, checkpoint, crawl, health, retries, runs, wk>>
memoryVars   == <<tick, claims, cache, pending, inFlight, failed>>
pipelineVars == <<registry, breaker, calls>>
vaultVars    == <<clock, address, state, retention>>
storeVars    == <<root, files, rows, custody, wr>>
raceVars     == <<claim, loaded, wants, audited>>
vars == <<ingestVars, memoryVars, pipelineVars, vaultVars, storeVars, raceVars>>

Init == /\ Ingest!Init /\ Memory!Init /\ Pipeline!Init /\ Vault!Init /\ Store!Init
        /\ Race!Init

IngestStep ==
    Ingest!Next /\ UNCHANGED <<memoryVars, pipelineVars, vaultVars, storeVars, raceVars>>
MemoryStep ==
    Memory!Next /\ UNCHANGED <<ingestVars, pipelineVars, vaultVars, storeVars, raceVars>>
PipelineStep ==
    Pipeline!Next /\ UNCHANGED <<ingestVars, memoryVars, vaultVars, storeVars, raceVars>>
VaultStep ==
    Vault!Next /\ UNCHANGED <<ingestVars, memoryVars, pipelineVars, storeVars, raceVars>>
StoreStep ==
    Store!Next /\ UNCHANGED <<ingestVars, memoryVars, pipelineVars, vaultVars, raceVars>>
RaceStep ==
    Race!Next /\ UNCHANGED <<ingestVars, memoryVars, pipelineVars, vaultVars, storeVars>>

Next == IngestStep \/ MemoryStep \/ PipelineStep \/ VaultStep \/ StoreStep \/ RaceStep

Spec == Init /\ [][Next]_vars

--------------------------------------------------------------------------------
\* A worker's run accounts for its records, and what it leaves behind explains itself
\* (ingestion/runtime).
RuntimeSafe == Ingest!RuntimeSafe

\* Claims age, the cache and the scheduler stay within their limits (memory/runtime).
MemorySafe == Memory!MemorySafe

\* A breaker that opened is left alone for its recovery time (services/pipeline).
BreakerSafe == Pipeline!BreakerSafe

\* The vault's registries agree and nothing outlives its tier (evidence/runtime).
VaultSafe == Vault!VaultSafe

\* What the evidence store took it gives back (services/evidence_store.py).
EvidenceSafe == Store!EvidenceSafe

\* However many sessions overlap, an inactive claim carries the reason of a committed
\* MemoryInvalidation record (memory/invalidation.py).
RowIsAudited == Race!InactiveIsAudited
================================================================================
