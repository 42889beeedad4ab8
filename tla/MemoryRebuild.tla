----------------------------- MODULE MemoryRebuild -----------------------------
(***************************************************************************)
(* The memory layer's database: claims derived from source snapshots,      *)
(* their evidence links, the per-entity state summary and the graph edges  *)
(* made from claims (backend/app/memory/rebuild.py, invalidation.py and    *)
(* memory_graph_bridge.py).                                                *)
(*                                                                         *)
(* A rebuild run is a sequence of steps, one per query or write of         *)
(* run_rebuild, because the session is opened with autoflush=False         *)
(* (db/session.py): a reactivated claim is not visible to the run's own    *)
(* queries until some later statement flushes the session.  The admin      *)
(* endpoint acts between runs here; ClaimRowRace models the two at once.   *)
(* A database error rolls the whole run back, which is the state before    *)
(* StartRebuild, so it needs no action.                                    *)
(***************************************************************************)
EXTENDS Naturals, FiniteSets

CONSTANTS
    Entities,      \* canonical entities with status "active"
    Snapshots,     \* source snapshots, immutable once stored
    Sources,       \* grouping keys: coalesce(source_key, source_url)
    Keys,          \* claim keys (hash of subject, type and normalised text)
    Owner,         \* the entity a claim key is about
    Mapped,        \* the keys whose claim type has a graph predicate
    SourceOf,      \* the grouping key of a snapshot
    FetchedAt,     \* fetched_at of a snapshot
    ExtractedKeys, \* extract_claims: the keys a snapshot's text yields
    Reasons,       \* invalidation reasons, "stale_rebuild" among them
    HardReasons,   \* _HARD_REASONS
    StaleRebuild,  \* the reason run_rebuild passes
    NoReason, NoSnap, NoEntity, NoState

ASSUME DataAssumption ==
    /\ IsFiniteSet(Keys)
    /\ Owner \in [Keys -> Entities]
    /\ Mapped \subseteq Keys
    /\ SourceOf \in [Snapshots -> Sources]
    /\ FetchedAt \in [Snapshots -> Nat]
    /\ ExtractedKeys \in [Snapshots -> SUBSET Keys]

ASSUME ReasonAssumption ==
    /\ HardReasons \subseteq Reasons
    /\ StaleRebuild \in Reasons \ HardReasons
    /\ NoReason \notin Reasons

ASSUME SentinelAssumption ==
    /\ NoSnap \notin Snapshots
    /\ NoEntity \notin Entities
    /\ NoState \notin [keys : SUBSET Keys, count : Nat]

VARIABLES
    linked,    \* EntityEvidenceLink rows: <<entity, snapshot>>
    claims,    \* keys with a MemoryClaim row
    active,    \* those with is_active = True and status = "active"
    reason,    \* invalidation_reason of each claim
    source,    \* source_snapshot_id of each claim
    links,     \* MemoryEvidenceLink rows: <<claim, snapshot>>
    edge,      \* status of the EntityGraphEdge whose object is the claim
    state,     \* MemoryEntityState per entity: checksummed keys and count
    audits     \* MemoryInvalidation rows for claims: <<claim, reason>>

\* The rebuild run in progress, and what its session has not flushed.
VARIABLES
    phase,     \* "idle", "entity", "claims", "stale" or "sync"
    todo,      \* entities the run has still to process
    entity,    \* the entity being processed
    snaps,     \* its current snapshots not yet extracted
    snap,      \* the snapshot whose claims are being upserted
    keys,      \* the keys extracted from it and not yet upserted
    produced,  \* entity_produced_keys
    unflushed, \* claims set active in the session only
    seen       \* active_claims: what the query before the stale loop returned

\* History: entities whose last run completed with nothing changed since.
VARIABLE settled

store    == <<claims, active, reason, source, links, edge, state, audits>>
progress == <<todo, entity, snaps, snap, keys, produced, unflushed, seen>>
vars     == <<linked, store, phase, progress, settled>>

--------------------------------------------------------------------------------
OwnedBy(e)  == {k \in Keys : Owner[k] = e}
ActiveOf(e) == active \cap OwnedBy(e)

\* _get_current_snapshots_for_entity: the latest snapshot of each group.
Current(e) ==
    {s \in Snapshots :
        /\ <<e, s>> \in linked
        /\ \A t \in Snapshots :
              <<e, t>> \in linked /\ SourceOf[t] = SourceOf[s]
                  => FetchedAt[t] <= FetchedAt[s]}

\* Mutant: extraction that also returns claims about other entities.
ExtractedOfAny(e, s) == ExtractedKeys[s]

\* extract_claims for one entity: only keys about that entity come out.
Extracted(e, s) == ExtractedKeys[s] \cap OwnedBy(e)
Produced(e)     == UNION {Extracted(e, s) : s \in Current(e)}

\* Mutant: hard reasons are not looked at.
NeverRefused(k) == FALSE

\* invalidation_reason in _HARD_REASONS.
Refused(k) == reason[k] \in HardReasons

\* What the run's own query sees: rows the database has as active.
VisibleActive(e) == ActiveOf(e) \ unflushed

\* Mutant: no edge is retracted.
RetractNothing(k) == edge

\* invalidate_claim retracts every edge of the claim's snapshot and entity.
Retract(k) ==
    [j \in Keys |->
        IF edge[j] = "active" /\ source[j] = source[k] /\ Owner[j] = Owner[k]
        THEN "retracted" ELSE edge[j]]

\* Mutant: no MemoryInvalidation row is added.
InvalidateUnaudited(k, r) ==
    /\ active' = active \ {k}
    /\ reason' = [reason EXCEPT ![k] = r]
    /\ edge' = Retract(k)
    /\ UNCHANGED <<claims, source, links, state, audits>>

\* invalidate_claim: no look at the claim's current status or reason.
Invalidate(k, r) ==
    /\ active' = active \ {k}
    /\ reason' = [reason EXCEPT ![k] = r]
    /\ edge' = Retract(k)
    /\ audits' = audits \cup {<<k, r>>}
    /\ UNCHANGED <<claims, source, links, state>>

\* The locals of one pass of the entity loop, out of scope after it.
NoLocals ==
    /\ entity' = NoEntity
    /\ snaps' = {} /\ snap' = NoSnap /\ keys' = {}
    /\ produced' = {} /\ unflushed' = {} /\ seen' = {}

Init ==
    /\ linked = {} /\ claims = {} /\ active = {}
    /\ reason = [k \in Keys |-> NoReason]
    /\ source = [k \in Keys |-> NoSnap]
    /\ links = {}
    /\ edge = [k \in Keys |-> "none"]
    /\ state = [e \in Entities |-> NoState]
    /\ audits = {}
    /\ phase = "idle" /\ todo = {} /\ entity = NoEntity
    /\ snaps = {} /\ snap = NoSnap /\ keys = {}
    /\ produced = {} /\ unflushed = {} /\ seen = {}
    /\ settled = {}

--------------------------------------------------------------------------------
\* Ingestion stores a snapshot and links it to an entity it mentions.
Link(e, s) ==
    /\ phase = "idle"
    /\ <<e, s>> \notin linked
    /\ linked' = linked \cup {<<e, s>>}
    /\ settled' = settled \ {e}
    /\ UNCHANGED <<store, phase, progress>>

\* POST /claims/{id}/invalidate, with a reason taken from the request body.
InvalidateClaim(k, r) ==
    /\ phase = "idle"
    /\ k \in claims
    /\ Invalidate(k, r)
    /\ settled' = settled \ {Owner[k]}
    /\ UNCHANGED <<linked, phase, progress>>

\* invalidate_entity_state: claims and count, but no edge is retracted.
InvalidateEntityState(e, r) ==
    /\ phase = "idle"
    /\ state[e] # NoState
    /\ active' = active \ OwnedBy(e)
    /\ reason' = [k \in Keys |-> IF k \in ActiveOf(e) THEN r ELSE reason[k]]
    /\ audits' = audits \cup {<<k, r>> : k \in ActiveOf(e)}
    /\ state' = [state EXCEPT ![e].count = 0]
    /\ settled' = settled \ {e}
    /\ UNCHANGED <<linked, claims, source, links, edge, phase, progress>>

\* POST /rebuild: scope "full" or one entity.
StartRebuild(scope) ==
    /\ phase = "idle"
    /\ phase' = "entity"
    /\ todo' = scope
    /\ UNCHANGED <<linked, store, entity, snaps, snap, keys, produced,
                   unflushed, seen, settled>>

\* Mutant: the entity is not taken off the list.
NextEntityAgain(e) ==
    /\ phase = "entity"
    /\ e \in todo
    /\ \/ /\ Current(e) = {}
          /\ UNCHANGED <<phase, entity, snaps>>
       \/ /\ Current(e) # {}
          /\ phase' = "claims"
          /\ entity' = e
          /\ snaps' = Current(e)
    /\ UNCHANGED <<linked, store, todo, snap, keys, produced, unflushed, seen, settled>>

\* The loop's next entity; one without current snapshots is skipped.
NextEntity(e) ==
    /\ phase = "entity"
    /\ e \in todo
    /\ todo' = todo \ {e}
    /\ \/ /\ Current(e) = {}
          /\ UNCHANGED <<phase, entity, snaps>>
       \/ /\ Current(e) # {}
          /\ phase' = "claims"
          /\ entity' = e
          /\ snaps' = Current(e)
    /\ UNCHANGED <<linked, store, snap, keys, produced, unflushed, seen, settled>>

\* The snapshot loop's next iteration.
Extract(s) ==
    /\ phase = "claims" /\ keys = {}
    /\ s \in snaps
    /\ snap' = s
    /\ snaps' = snaps \ {s}
    /\ keys' = Extracted(entity, s)
    /\ UNCHANGED <<linked, store, phase, todo, entity, produced, unflushed,
                   seen, settled>>

\* extract_claims raised: the run is marked failed and committed as it is.
ExtractFails ==
    /\ phase = "claims" /\ keys = {} /\ snaps # {}
    /\ phase' = "idle"
    /\ todo' = {}
    /\ NoLocals
    /\ UNCHANGED <<linked, store, settled>>

\* _upsert_claims, a key without a row: the claim and its link are flushed.
CreateClaim(k) ==
    /\ phase = "claims" /\ k \in keys
    /\ k \notin claims
    /\ claims' = claims \cup {k}
    /\ active' = active \cup {k}
    /\ source' = [source EXCEPT ![k] = snap]
    /\ links' = links \cup {<<k, snap>>}
    /\ unflushed' = {}
    /\ keys' = keys \ {k}
    /\ produced' = produced \cup {k}
    /\ UNCHANGED <<linked, reason, edge, state, audits, phase, todo, entity,
                   snaps, snap, seen, settled>>

\* _upsert_claims, a known key: a missing link is added and flushed, and only
\* then is the claim set active again, which stays in the session.
RefreshClaim(k) ==
    /\ phase = "claims" /\ k \in keys
    /\ k \in claims
    /\ LET flushed == IF <<k, snap>> \in links THEN unflushed ELSE {}
       IN \/ /\ Refused(k)
             /\ unflushed' = flushed
             /\ UNCHANGED active
          \/ /\ ~Refused(k)
             /\ unflushed' = IF k \in active THEN flushed ELSE flushed \cup {k}
             /\ active' = active \cup {k}
    /\ links' = links \cup {<<k, snap>>}
    /\ keys' = keys \ {k}
    /\ produced' = produced \cup {k}
    /\ UNCHANGED <<linked, claims, reason, source, edge, state, audits, phase,
                   todo, entity, snaps, snap, seen, settled>>

QueryActive ==
    /\ phase = "claims" /\ keys = {} /\ snaps = {}
    /\ phase' = "stale"
    /\ seen' = VisibleActive(entity)
    /\ UNCHANGED <<linked, store, todo, entity, snaps, snap, keys, produced,
                   unflushed, settled>>

\* Mutant: the produced keys are not excluded.
StaleOfAny == {k \in seen \cap active : ~Refused(k)}

\* Active claims that no current snapshot yields any more.
Stale == {k \in seen \cap active : k \notin produced /\ ~Refused(k)}

\* invalidate_claim flushes the session, the reactivated claims included.
InvalidateStale(k) ==
    /\ phase = "stale" /\ k \in Stale
    /\ Invalidate(k, StaleRebuild)
    /\ unflushed' = {}
    /\ UNCHANGED <<linked, phase, todo, entity, snaps, snap, keys, produced,
                   seen, settled>>

\* Mutant: an existing row is never brought up to date.
OutdatedOnce(e, visible) == state[e] = NoState

\* The row is missing or its checksum differs.
Outdated(e, visible) == state[e] # NoState => state[e].keys # visible

\* _rebuild_entity_state: an equal checksum leaves the row, count included.
UpdateState ==
    /\ phase = "stale" /\ Stale = {}
    /\ LET visible == VisibleActive(entity)
           fresh   == [keys |-> visible, count |-> Cardinality(visible)]
       IN \/ /\ Outdated(entity, visible)
             /\ state' = [state EXCEPT ![entity] = fresh]
          \/ /\ ~Outdated(entity, visible)
             /\ UNCHANGED state
    /\ phase' = "sync"
    /\ UNCHANGED <<linked, claims, active, reason, source, links, edge, audits,
                   progress, settled>>

\* sync_claims_to_graph: an edge that exists, retracted or not, is left alone.
SyncGraph ==
    /\ phase = "sync"
    /\ edge' = [k \in Keys |->
                  IF /\ k \in seen \cap produced \cap active \cap Mapped
                     /\ edge[k] = "none"
                  THEN "active" ELSE edge[k]]
    /\ phase' = "entity"
    /\ settled' = settled \cup {entity}
    /\ NoLocals
    /\ UNCHANGED <<linked, claims, active, reason, source, links, state, audits,
                   todo>>

CompleteRun ==
    /\ phase = "entity" /\ todo = {}
    /\ phase' = "idle"
    /\ UNCHANGED <<linked, store, progress, settled>>

--------------------------------------------------------------------------------
RunStep ==
    \/ \E e \in Entities : NextEntity(e)
    \/ \E s \in Snapshots : Extract(s)
    \/ ExtractFails
    \/ \E k \in Keys : CreateClaim(k) \/ RefreshClaim(k) \/ InvalidateStale(k)
    \/ QueryActive
    \/ UpdateState
    \/ SyncGraph
    \/ CompleteRun

Next ==
    \/ \E e \in Entities, s \in Snapshots : Link(e, s)
    \/ \E k \in Keys, r \in Reasons : InvalidateClaim(k, r)
    \/ StartRebuild(Entities)
    \/ \E e \in Entities : StartRebuild({e})
    \/ RunStep

\* The service function no route calls yet is part of the wider interface.
ServiceNext ==
    \/ Next
    \/ \E e \in Entities, r \in Reasons : InvalidateEntityState(e, r)

Spec        == Init /\ [][Next]_vars
ServiceSpec == Init /\ [][ServiceNext]_vars

\* A run is one background call: once started it is executed to its end.
FairSpec == ServiceSpec /\ WF_vars(RunStep)
--------------------------------------------------------------------------------
Phases == {"idle", "entity", "claims", "stale", "sync"}
StateRow == [keys : SUBSET Keys, count : Nat]

\* Every variable keeps the type its column or local has in the code.
TypeOK ==
    /\ linked \subseteq Entities \X Snapshots
    /\ claims \subseteq Keys /\ active \subseteq claims
    /\ reason \in [Keys -> Reasons \cup {NoReason}]
    /\ source \in [Keys -> Snapshots \cup {NoSnap}]
    /\ links \subseteq Keys \X Snapshots
    /\ edge \in [Keys -> {"none", "active", "retracted"}]
    /\ state \in [Entities -> StateRow \cup {NoState}]
    /\ audits \subseteq Keys \X Reasons
    /\ phase \in Phases
    /\ todo \subseteq Entities
    /\ entity \in Entities \cup {NoEntity}
    /\ phase \in {"claims", "stale", "sync"} => entity \in Entities
    /\ snaps \subseteq Snapshots
    /\ snap \in Snapshots \cup {NoSnap}
    /\ keys # {} => snap \in Snapshots
    /\ keys \subseteq Keys /\ produced \subseteq Keys
    /\ unflushed \subseteq Keys /\ seen \subseteq Keys
    /\ settled \subseteq Entities

\* The claims a completed rebuild of e must leave active.
Live(e) == {k \in Produced(e) : reason[k] \notin HardReasons}

\* rebuild.py:177: a claim invalidated for a hard reason is not brought back,
\* whatever runs and invalidations come before and after.
HardRejectedIsInactive ==
    \A k \in claims : reason[k] \in HardReasons => k \notin active

\* invalidation.py: an inactive claim always has the MemoryInvalidation row
\* that says why, also after it was reactivated and invalidated again.
InactiveIsAudited == \A k \in claims \ active : <<k, reason[k]>> \in audits

\* MEMORY_INTEGRATION_CONTRACT.md: every memory record is traceable; a claim
\* keeps a link to the snapshot it was first extracted from, and every link
\* names a snapshot of the claim's entity whose text yields the claim.
EvidenceBacked ==
    /\ \A k \in claims : <<k, source[k]>> \in links
    /\ \A l \in links : /\ <<Owner[l[1]], l[2]>> \in linked
                        /\ l[1] \in claims \cap ExtractedKeys[l[2]]

\* When a run has dealt with an entity, its active claims are those that its
\* current snapshots yield and nobody hard-rejected: superseded evidence no
\* longer supports an active claim and no current claim is left out.
RunReconciles == phase = "sync" => ActiveOf(entity) = Live(entity)

\* A retracted or never made edge is the only edge an inactive claim may have
\* (the graph is derived from active claims only).
EdgeOnlyForActive ==
    \A k \in Keys : edge[k] = "active" => k \in active

\* The summary row counts exactly the active claims, provided that the session
\* was flushed after the last reactivation.
StateExactWhenFlushed ==
    phase = "sync" /\ unflushed = {} =>
        state[entity] = [keys  |-> ActiveOf(entity),
                         count |-> Cardinality(ActiveOf(entity))]

\* A second run over unchanged evidence repairs the summary the first run's
\* unflushed reactivations left behind.
SecondRunExact ==
    phase = "sync" /\ entity \in settled =>
        state[entity] = [keys  |-> ActiveOf(entity),
                         count |-> Cardinality(ActiveOf(entity))]

\* rebuild.py:32: a run never overwrites a hard reason.
RunKeepsHardReasons ==
    [][phase # "idle" =>
         \A k \in Keys : reason[k] \in HardReasons => reason'[k] = reason[k]]_vars

\* memory/__init__.py: keys make updates idempotent: processing an entity again
\* with nothing changed since creates, reactivates, invalidates and links nothing.
SecondRunIsIdempotent ==
    [][phase \notin {"idle", "entity"} /\ entity \in settled =>
         UNCHANGED <<claims, active, reason, links, audits>>]_vars

\* What a reader of the memory layer may rely on, in ClaimLedger's terms.
Standing ==
    [k \in Keys |-> CASE k \notin claims -> "unknown"
                      [] k \in active -> "active"
                      [] k \in claims \ active /\ reason[k] \in HardReasons -> "rejected"
                      [] OTHER -> "withdrawn"]
Ledger == INSTANCE ClaimLedger WITH standing <- Standing

\* Whatever order of runs, failures and invalidations, a claim moves only as
\* ClaimLedger allows; above all no step takes it from "rejected" to "active".
ImplementsLedger == Ledger!Spec

\* A run that started comes to its end: every loop of run_rebuild is finite.
RunTerminates == (phase # "idle") ~> (phase = "idle")

\* rebuild.py:381 "Propagate active claims to the entity graph": once a run
\* over unchanged evidence has synchronised an entity, every active claim of a
\* mapped type has an active edge.
ActiveClaimsReachGraph ==
    [][phase = "sync" /\ phase' # "sync" /\ entity \in settled =>
         \A k \in ActiveOf(entity) \cap Mapped : edge'[k] = "active"]_vars

\* memory/__init__.py:79: the checksum and count are of the entity's "active
\* MemoryClaim dicts", so that a stale summary is detected.
StateCountsActiveClaims ==
    phase = "sync" =>
        /\ state[entity].keys = ActiveOf(entity)
        /\ state[entity].count = Cardinality(ActiveOf(entity))
================================================================================
