------------------------- MODULE MemoryRebuildProofs -------------------------
(***************************************************************************)
(* Theorems about the memory layer for every set of entities, snapshots,   *)
(* keys and reasons: rebuild runs and invalidations (MemoryRebuild), and   *)
(* one claim row under overlapping sessions (ClaimRowRace).                *)
(***************************************************************************)
EXTENDS MemoryRebuild, FiniteSetTheorems, TLAPS

USE DEF store, progress

\* The keys a run's query returns can be counted.
LEMMA VisibleCount ==
    ASSUME NEW e
    PROVE  Cardinality(VisibleActive(e)) \in Nat
<1>1. VisibleActive(e) \subseteq Keys
  BY DEF VisibleActive, ActiveOf, OwnedBy
<1>2. IsFiniteSet(VisibleActive(e))
  BY <1>1, FS_Subset, DataAssumption
<1> QED
  BY <1>2, FS_CardinalityType

LEMMA CurrentType == ASSUME NEW e PROVE Current(e) \subseteq Snapshots
  BY DEF Current

LEMMA TypeInit == Init => TypeOK
  BY DEF Init, TypeOK, Phases

LEMMA TypeStep == TypeOK /\ [ServiceNext]_vars => TypeOK'
<1> SUFFICES ASSUME TypeOK, [ServiceNext]_vars PROVE TypeOK'
  OBVIOUS
<1> USE DEF TypeOK, Phases
<1>1. ASSUME NEW e \in Entities, NEW s \in Snapshots, Link(e, s) PROVE TypeOK'
  BY <1>1 DEF Link
<1>2. ASSUME NEW k \in Keys, NEW r \in Reasons, InvalidateClaim(k, r)
      PROVE TypeOK'
  BY <1>2 DEF InvalidateClaim, Invalidate, Retract
<1>3. ASSUME NEW e \in Entities, NEW r \in Reasons, InvalidateEntityState(e, r)
      PROVE TypeOK'
  <2>1. state' \in [Entities -> StateRow \cup {NoState}]
    BY <1>3 DEF InvalidateEntityState, StateRow
  <2>2. reason' \in [Keys -> Reasons \cup {NoReason}]
    BY <1>3 DEF InvalidateEntityState
  <2>3. audits' \subseteq Keys \X Reasons
    BY <1>3 DEF InvalidateEntityState, ActiveOf, OwnedBy
  <2> QED
    BY <1>3, <2>1, <2>2, <2>3 DEF InvalidateEntityState
<1>4. ASSUME NEW scope \in SUBSET Entities, StartRebuild(scope) PROVE TypeOK'
  BY <1>4 DEF StartRebuild
<1>5. ASSUME NEW e \in Entities, NextEntity(e) PROVE TypeOK'
  BY <1>5, CurrentType DEF NextEntity
<1>6. ASSUME NEW s \in Snapshots, Extract(s) PROVE TypeOK'
  BY <1>6, DataAssumption DEF Extract, Extracted, OwnedBy
<1>7. CASE ExtractFails
  BY <1>7 DEF ExtractFails, NoLocals
<1>8. ASSUME NEW k \in Keys, CreateClaim(k) PROVE TypeOK'
  BY <1>8 DEF CreateClaim
<1>9. ASSUME NEW k \in Keys, RefreshClaim(k) PROVE TypeOK'
  BY <1>9 DEF RefreshClaim, Refused
<1>10. ASSUME NEW k \in Keys, InvalidateStale(k) PROVE TypeOK'
  BY <1>10, ReasonAssumption DEF InvalidateStale, Invalidate, Retract
<1>11. CASE QueryActive
  BY <1>11 DEF QueryActive, VisibleActive, ActiveOf
<1>12. CASE UpdateState
  <2>1. [keys |-> VisibleActive(entity), count |-> Cardinality(VisibleActive(entity))]
          \in StateRow
    BY VisibleCount DEF StateRow, VisibleActive, ActiveOf, OwnedBy
  <2>2. state' \in [Entities -> StateRow \cup {NoState}]
    BY <1>12, <2>1 DEF UpdateState, Outdated
  <2> QED
    BY <1>12, <2>2 DEF UpdateState, Outdated
<1>13. CASE SyncGraph
  <2>1. edge' \in [Keys -> {"none", "active", "retracted"}]
    BY <1>13 DEF SyncGraph
  <2>2. settled' \subseteq Entities
    BY <1>13 DEF SyncGraph
  <2> QED
    BY <1>13, <2>1, <2>2 DEF SyncGraph, NoLocals
<1>14. CASE CompleteRun
  BY <1>14 DEF CompleteRun
<1>15. CASE UNCHANGED vars
  BY <1>15 DEF vars
<1>16. ASSUME NEW e \in Entities, StartRebuild({e}) PROVE TypeOK'
  BY <1>4, <1>16
<1> HIDE DEF TypeOK, Phases
<1> QED
  BY <1>1, <1>2, <1>3, <1>4, <1>16, <1>5, <1>6, <1>7, <1>8, <1>9, <1>10, <1>11, <1>12,
     <1>13, <1>14, <1>15 DEF ServiceNext, Next, RunStep

\* Every variable of the memory layer and of the run keeps its type, with the
\* bulk invalidation and without.
THEOREM TypeCorrect == ServiceSpec => []TypeOK
  BY TypeInit, TypeStep, PTL DEF ServiceSpec

LEMMA SpecIsService == Spec => ServiceSpec
<1>1. [Next]_vars => [ServiceNext]_vars
  BY DEF ServiceNext
<1> QED
  BY <1>1, PTL DEF Spec, ServiceSpec

--------------------------------------------------------------------------------
(* The inductive invariant: what the locals of a run say about the store.   *)

InPass == phase \in {"claims", "stale", "sync"}

\* Between passes the locals are empty.
LocalsInv ==
    ~InPass => snaps = {} /\ keys = {} /\ produced = {} /\ unflushed = {} /\ seen = {}

\* Upserted keys, extracted keys and remaining snapshots cover the evidence.
WorkInv ==
    phase = "claims" =>
        /\ snaps \subseteq Current(entity)
        /\ keys # {} => snap \in Current(entity) /\ keys \subseteq Extracted(entity, snap)
        /\ Produced(entity) =
              produced \cup keys \cup UNION {Extracted(entity, s) : s \in snaps}

\* Every key upserted so far has a claim, active unless hard-rejected.
ProducedInv ==
    InPass =>
        /\ produced \subseteq claims \cap OwnedBy(entity)
        /\ unflushed \subseteq produced
        /\ \A k \in produced : reason[k] \notin HardReasons => k \in active

\* The stale loop sees every active claim that was not produced.
StaleInv ==
    /\ phase \in {"stale", "sync"} => produced = Produced(entity)
    /\ phase = "stale" => ActiveOf(entity) \subseteq seen \cup produced

\* A key without a claim row was never invalidated.
FreshInv == \A k \in Keys \ claims : reason[k] = NoReason

CoreInv ==
    /\ FreshInv
    /\ HardRejectedIsInactive /\ InactiveIsAudited /\ EvidenceBacked
    /\ LocalsInv /\ WorkInv /\ ProducedInv /\ StaleInv /\ RunReconciles

LEMMA CoreInit == Init => CoreInv
  BY DEF Init, CoreInv, HardRejectedIsInactive, InactiveIsAudited, EvidenceBacked,
     FreshInv, LocalsInv, WorkInv, ProducedInv, StaleInv, RunReconciles, InPass

\* What a run reads of the evidence does not change while it runs.
LEMMA EvidenceFrame ==
    ASSUME UNCHANGED linked
    PROVE  /\ \A e : Current(e)' = Current(e)
           /\ \A e : Produced(e)' = Produced(e)
<1>1. \A e : Current(e)' = Current(e)
  BY DEF Current
<1>2. \A e : Produced(e)' = Produced(e)
  BY <1>1 DEF Produced, Extracted, OwnedBy
<1> QED
  BY <1>1, <1>2

\* invalidate_claim and the bulk invalidation keep the three store invariants.
LEMMA InvalidateStore ==
    ASSUME TypeOK, HardRejectedIsInactive, InactiveIsAudited, EvidenceBacked,
           FreshInv, NEW k \in claims, NEW r \in Reasons, Invalidate(k, r),
           UNCHANGED linked
    PROVE  (FreshInv /\ HardRejectedIsInactive /\ InactiveIsAudited /\ EvidenceBacked)'
<1>1. HardRejectedIsInactive'
  BY DEF TypeOK, HardRejectedIsInactive, Invalidate
<1>2. InactiveIsAudited'
  BY DEF TypeOK, InactiveIsAudited, Invalidate
<1>3. EvidenceBacked'
  BY DEF EvidenceBacked, Invalidate
<1>4. FreshInv'
  BY DEF TypeOK, FreshInv, Invalidate
<1> QED
  BY <1>1, <1>2, <1>3, <1>4

LEMMA CoreStep == TypeOK /\ CoreInv /\ [ServiceNext]_vars => CoreInv'
<1> SUFFICES ASSUME TypeOK, CoreInv, [ServiceNext]_vars PROVE CoreInv'
  OBVIOUS
<1> USE DEF InPass
<1>i. /\ FreshInv
      /\ HardRejectedIsInactive /\ InactiveIsAudited /\ EvidenceBacked
      /\ LocalsInv /\ WorkInv /\ ProducedInv /\ StaleInv /\ RunReconciles
  BY DEF CoreInv
<1>1. ASSUME NEW e \in Entities, NEW s \in Snapshots, Link(e, s) PROVE CoreInv'
  <2>1. EvidenceBacked'
    BY <1>1, <1>i DEF Link, EvidenceBacked
  <2>2. (FreshInv /\ HardRejectedIsInactive /\ InactiveIsAudited)'
    BY <1>1, <1>i DEF Link, FreshInv, HardRejectedIsInactive, InactiveIsAudited
  <2>3. (LocalsInv /\ WorkInv /\ ProducedInv /\ StaleInv /\ RunReconciles)'
    BY <1>1, <1>i DEF Link, LocalsInv, WorkInv, ProducedInv, StaleInv, RunReconciles
  <2> QED
    BY <2>1, <2>2, <2>3 DEF CoreInv
<1>2. ASSUME NEW k \in Keys, NEW r \in Reasons, InvalidateClaim(k, r)
      PROVE CoreInv'
  <2>1. (FreshInv /\ HardRejectedIsInactive /\ InactiveIsAudited /\ EvidenceBacked)'
    BY <1>2, <1>i, InvalidateStore DEF InvalidateClaim
  <2>3. (LocalsInv /\ WorkInv /\ ProducedInv /\ StaleInv /\ RunReconciles)'
    BY <1>2, <1>i DEF InvalidateClaim, LocalsInv, WorkInv, ProducedInv, StaleInv,
       RunReconciles
  <2> QED
    BY <2>1, <2>3 DEF CoreInv
<1>3. ASSUME NEW e \in Entities, NEW r \in Reasons, InvalidateEntityState(e, r)
      PROVE CoreInv'
  <2>1. HardRejectedIsInactive'
    BY <1>3, <1>i DEF TypeOK, InvalidateEntityState, HardRejectedIsInactive,
       ActiveOf, OwnedBy
  <2>2. InactiveIsAudited'
    BY <1>3, <1>i DEF TypeOK, InvalidateEntityState, InactiveIsAudited, ActiveOf,
       OwnedBy
  <2>3. EvidenceBacked' /\ FreshInv'
    BY <1>3, <1>i DEF TypeOK, InvalidateEntityState, EvidenceBacked, FreshInv, ActiveOf,
       OwnedBy
  <2>4. (LocalsInv /\ WorkInv /\ ProducedInv /\ StaleInv /\ RunReconciles)'
    BY <1>3, <1>i DEF InvalidateEntityState, LocalsInv, WorkInv, ProducedInv,
       StaleInv, RunReconciles
  <2> QED
    BY <2>1, <2>2, <2>3, <2>4 DEF CoreInv
<1>4. ASSUME NEW scope \in SUBSET Entities, StartRebuild(scope) PROVE CoreInv'
  BY <1>4, <1>i DEF StartRebuild, CoreInv, FreshInv, HardRejectedIsInactive,
     InactiveIsAudited, EvidenceBacked, LocalsInv, WorkInv, ProducedInv, StaleInv,
     RunReconciles
<1>5. ASSUME NEW e \in Entities, NextEntity(e) PROVE CoreInv'
  <2>0. linked' = linked /\ UNCHANGED store
    BY <1>5 DEF NextEntity
  <2>1. (FreshInv /\ HardRejectedIsInactive /\ InactiveIsAudited /\ EvidenceBacked)'
    BY <2>0, <1>i DEF FreshInv, HardRejectedIsInactive, InactiveIsAudited, EvidenceBacked
  <2>2. LocalsInv' /\ StaleInv' /\ RunReconciles' /\ ProducedInv'
    BY <1>5, <1>i DEF NextEntity, LocalsInv, StaleInv, RunReconciles, ProducedInv
  <2>3. WorkInv'
    <3>1. CASE Current(e) = {}
      BY <3>1, <1>5 DEF NextEntity, WorkInv
    <3>2. CASE Current(e) # {}
      <4>1. entity' = e /\ snaps' = Current(e) /\ keys' = {} /\ produced' = {}
        BY <3>2, <1>5, <1>i DEF NextEntity, LocalsInv
      <4>2. Current(entity)' = Current(e) /\ Produced(entity)' = Produced(e)
        BY <4>1, <2>0 DEF Current, Produced, Extracted, OwnedBy
      <4>3. \A s : Extracted(entity, s)' = Extracted(e, s)
        BY <4>1 DEF Extracted, OwnedBy
      <4> QED
        BY <4>1, <4>2, <4>3 DEF WorkInv, Produced
    <3> QED
      BY <3>1, <3>2
  <2> QED
    BY <2>1, <2>2, <2>3 DEF CoreInv
<1>6. ASSUME NEW s \in Snapshots, Extract(s) PROVE CoreInv'
  <2>0. /\ UNCHANGED <<linked, store, phase, entity, produced, unflushed, seen>>
        /\ phase = "claims" /\ keys = {} /\ s \in snaps
        /\ snap' = s /\ snaps' = snaps \ {s} /\ keys' = Extracted(entity, s)
    BY <1>6 DEF Extract
  <2>1. (FreshInv /\ HardRejectedIsInactive /\ InactiveIsAudited /\ EvidenceBacked)'
    BY <2>0, <1>i DEF FreshInv, HardRejectedIsInactive, InactiveIsAudited, EvidenceBacked
  <2>2. LocalsInv' /\ StaleInv' /\ RunReconciles' /\ ProducedInv'
    BY <2>0, <1>i DEF LocalsInv, StaleInv, RunReconciles, ProducedInv, OwnedBy
  <2>3. WorkInv'
    <3>1. Current(entity)' = Current(entity) /\ Produced(entity)' = Produced(entity)
      BY <2>0, EvidenceFrame
    <3>2. \A t : Extracted(entity, t)' = Extracted(entity, t)
      BY <2>0 DEF Extracted, OwnedBy
    <3>3. UNION {Extracted(entity, t) : t \in snaps}
            = Extracted(entity, s) \cup UNION {Extracted(entity, t) : t \in snaps \ {s}}
      BY <2>0
    <3> QED
      BY <2>0, <3>1, <3>2, <3>3, <1>i DEF WorkInv
  <2> QED
    BY <2>1, <2>2, <2>3 DEF CoreInv
<1>7. CASE ExtractFails
  BY <1>7, <1>i DEF ExtractFails, NoLocals, CoreInv, FreshInv, HardRejectedIsInactive,
     InactiveIsAudited, EvidenceBacked, LocalsInv, WorkInv, ProducedInv, StaleInv,
     RunReconciles
<1>8. ASSUME NEW k \in Keys, CreateClaim(k) \/ RefreshClaim(k) PROVE CoreInv'
  <2>0. /\ UNCHANGED <<linked, reason, edge, state, audits, phase, entity, snaps, snap>>
        /\ phase = "claims" /\ k \in keys
        /\ keys' = keys \ {k} /\ produced' = produced \cup {k}
        /\ claims' = claims \cup {k} /\ links' = links \cup {<<k, snap>>}
        /\ unflushed' \subseteq unflushed \cup {k}
    BY <1>8 DEF CreateClaim, RefreshClaim, Refused
  <2>1. snap \in Current(entity) /\ k \in Extracted(entity, snap)
    BY <2>0, <1>i DEF WorkInv
  <2>2. reason[k] \notin HardReasons => active' = active \cup {k}
    BY <1>8 DEF CreateClaim, RefreshClaim, Refused
  <2>3. reason[k] \in HardReasons /\ k \in claims => active' = active
    BY <1>8 DEF CreateClaim, RefreshClaim, Refused
  <2>4. k \notin claims => active' = active \cup {k} /\ source' = [source EXCEPT ![k] = snap]
    BY <1>8 DEF CreateClaim, RefreshClaim, Refused
  <2>5. k \in claims => source' = source
    BY <1>8 DEF CreateClaim, RefreshClaim, Refused
  <2>6. EvidenceBacked'
    <3>1. \A j \in claims' : <<j, source'[j]>> \in links'
      BY <2>0, <2>4, <2>5, <1>i DEF TypeOK, EvidenceBacked
    <3>2. <<Owner[k], snap>> \in linked /\ k \in ExtractedKeys[snap]
      BY <2>1 DEF Current, Extracted, OwnedBy
    <3> QED
      BY <2>0, <3>1, <3>2, <1>i DEF EvidenceBacked
  <2>7. k \notin claims => reason[k] \notin HardReasons
    BY <1>i, ReasonAssumption DEF FreshInv
  <2>8. FreshInv' /\ HardRejectedIsInactive'
    BY <2>0, <2>2, <2>3, <2>7, <1>i DEF TypeOK, FreshInv, HardRejectedIsInactive
  <2>9. InactiveIsAudited'
    BY <2>0, <2>2, <2>3, <2>7, <1>i DEF TypeOK, InactiveIsAudited
  <2>10. LocalsInv' /\ StaleInv' /\ RunReconciles'
    BY <2>0 DEF LocalsInv, StaleInv, RunReconciles
  <2>11. ProducedInv'
    <3>1. k \in OwnedBy(entity) /\ OwnedBy(entity)' = OwnedBy(entity)
      BY <2>0, <2>1 DEF Extracted, OwnedBy
    <3>2. active \subseteq active'
      BY <2>2, <2>3, <2>4
    <3> QED
      BY <2>0, <2>2, <2>3, <3>1, <3>2, <1>i DEF ProducedInv
  <2>12. WorkInv'
    <3>1. Current(entity)' = Current(entity) /\ Produced(entity)' = Produced(entity)
      BY <2>0, EvidenceFrame
    <3>2. \A t : Extracted(entity, t)' = Extracted(entity, t)
      BY <2>0 DEF Extracted, OwnedBy
    <3> QED
      BY <2>0, <3>1, <3>2, <1>i DEF WorkInv
  <2> QED
    BY <2>6, <2>8, <2>9, <2>10, <2>11, <2>12 DEF CoreInv
<1>9. ASSUME NEW k \in Keys, InvalidateStale(k) PROVE CoreInv'
  <2>0. /\ UNCHANGED <<linked, claims, source, links, state, phase, entity, snaps,
                       snap, keys, produced, seen>>
        /\ phase = "stale" /\ k \in active /\ k \notin produced
        /\ active' = active \ {k} /\ reason' = [reason EXCEPT ![k] = StaleRebuild]
        /\ unflushed' = {}
    BY <1>9 DEF InvalidateStale, Invalidate, Stale, Refused
  <2>1. (FreshInv /\ HardRejectedIsInactive /\ InactiveIsAudited /\ EvidenceBacked)'
    <3>1. k \in claims /\ Invalidate(k, StaleRebuild)
      BY <1>9, <2>0 DEF InvalidateStale, TypeOK
    <3> QED
      BY <3>1, <2>0, <1>i, InvalidateStore, ReasonAssumption
  <2>2. ProducedInv'
    BY <2>0, <1>i DEF TypeOK, ProducedInv, OwnedBy
  <2>3. LocalsInv' /\ WorkInv' /\ RunReconciles'
    BY <2>0 DEF LocalsInv, WorkInv, RunReconciles
  <2>4. StaleInv'
    BY <2>0, <1>i, EvidenceFrame DEF StaleInv, ActiveOf, OwnedBy
  <2> QED
    BY <2>1, <2>2, <2>3, <2>4 DEF CoreInv
<1>10. CASE QueryActive
  <2>0. /\ UNCHANGED <<linked, store, entity, snaps, snap, keys, produced, unflushed>>
        /\ phase = "claims" /\ phase' = "stale" /\ keys = {} /\ snaps = {}
        /\ seen' = VisibleActive(entity)
    BY <1>10 DEF QueryActive
  <2>1. (FreshInv /\ HardRejectedIsInactive /\ InactiveIsAudited /\ EvidenceBacked)'
    BY <2>0, <1>i DEF FreshInv, HardRejectedIsInactive, InactiveIsAudited, EvidenceBacked
  <2>2. LocalsInv' /\ WorkInv' /\ ProducedInv' /\ RunReconciles'
    BY <2>0, <1>i DEF LocalsInv, WorkInv, ProducedInv, RunReconciles, OwnedBy
  <2>3. produced = Produced(entity)
    BY <2>0, <1>i DEF WorkInv
  <2>4. StaleInv'
    BY <2>0, <2>3, <1>i, EvidenceFrame DEF StaleInv, ProducedInv, VisibleActive,
       ActiveOf, OwnedBy
  <2> QED
    BY <2>1, <2>2, <2>4 DEF CoreInv
<1>11. CASE UpdateState
  <2>0. /\ UNCHANGED <<linked, claims, active, reason, source, links, edge, audits,
                       progress>>
        /\ phase = "stale" /\ phase' = "sync" /\ Stale = {}
    BY <1>11 DEF UpdateState, Outdated
  <2>1. (FreshInv /\ HardRejectedIsInactive /\ InactiveIsAudited /\ EvidenceBacked)'
    BY <2>0, <1>i DEF FreshInv, HardRejectedIsInactive, InactiveIsAudited, EvidenceBacked
  <2>2. LocalsInv' /\ WorkInv' /\ ProducedInv' /\ StaleInv'
    BY <2>0, <1>i, EvidenceFrame DEF LocalsInv, WorkInv, ProducedInv, StaleInv, OwnedBy
  <2>3. ActiveOf(entity) = Live(entity)
    <3>1. Live(entity) \subseteq ActiveOf(entity)
      BY <2>0, <1>i DEF Live, ActiveOf, StaleInv, ProducedInv
    <3>2. ASSUME NEW j \in ActiveOf(entity) PROVE j \in Live(entity)
      <4>1. reason[j] \notin HardReasons
        BY <3>2, <1>i DEF ActiveOf, HardRejectedIsInactive, TypeOK
      <4>2. j \in produced
        BY <3>2, <4>1, <2>0, <1>i DEF Stale, Refused, StaleInv, ActiveOf
      <4> QED
        BY <4>1, <4>2, <2>0, <1>i DEF Live, StaleInv
    <3> QED
      BY <3>1, <3>2
  <2>4. RunReconciles'
    BY <2>0, <2>3, EvidenceFrame DEF RunReconciles, ActiveOf, Live, OwnedBy
  <2> QED
    BY <2>1, <2>2, <2>4 DEF CoreInv
<1>12. CASE SyncGraph
  BY <1>12, <1>i DEF SyncGraph, NoLocals, CoreInv, FreshInv, HardRejectedIsInactive,
     InactiveIsAudited, EvidenceBacked, LocalsInv, WorkInv, ProducedInv, StaleInv,
     RunReconciles
<1>13. CASE CompleteRun
  BY <1>13, <1>i DEF CompleteRun, CoreInv, FreshInv, HardRejectedIsInactive,
     InactiveIsAudited, EvidenceBacked, LocalsInv, WorkInv, ProducedInv, StaleInv,
     RunReconciles
<1>14. CASE UNCHANGED vars
  BY <1>14, <1>i, EvidenceFrame DEF vars, CoreInv, FreshInv, HardRejectedIsInactive,
     InactiveIsAudited, EvidenceBacked, LocalsInv, WorkInv, ProducedInv, StaleInv,
     RunReconciles, ActiveOf, Live, OwnedBy, Extracted
<1>15. ASSUME NEW e \in Entities, StartRebuild({e}) PROVE CoreInv'
  BY <1>4, <1>15
<1> QED
  BY <1>1, <1>2, <1>3, <1>4, <1>15, <1>5, <1>6, <1>7, <1>8, <1>9, <1>10, <1>11,
     <1>12, <1>13, <1>14 DEF ServiceNext, Next, RunStep

--------------------------------------------------------------------------------
LEMMA CoreCorrect == ServiceSpec => []CoreInv
  BY CoreInit, CoreStep, TypeCorrect, PTL DEF ServiceSpec

\* No order of runs, failed runs and invalidations leaves a hard-rejected claim
\* active.
THEOREM HardRejectionHolds == ServiceSpec => []HardRejectedIsInactive
<1>1. CoreInv => HardRejectedIsInactive
  BY DEF CoreInv
<1> QED
  BY <1>1, CoreCorrect, PTL

\* Every inactive claim has an audit record with the reason it carries.
THEOREM InvalidationsAudited == ServiceSpec => []InactiveIsAudited
<1>1. CoreInv => InactiveIsAudited
  BY DEF CoreInv
<1> QED
  BY <1>1, CoreCorrect, PTL

\* Every claim can be traced to a snapshot that yields it.
THEOREM ClaimsTraceable == ServiceSpec => []EvidenceBacked
<1>1. CoreInv => EvidenceBacked
  BY DEF CoreInv
<1> QED
  BY <1>1, CoreCorrect, PTL

\* A run leaves active exactly the claims of an entity's current evidence that
\* were not hard-rejected.
THEOREM RebuildReconciles == ServiceSpec => []RunReconciles
<1>1. CoreInv => RunReconciles
  BY DEF CoreInv
<1> QED
  BY <1>1, CoreCorrect, PTL

\* rebuild.py:32, for every data set: a step of a run never replaces a hard
\* reason, because the claim that has one is inactive.
THEOREM HardReasonsKept == ServiceSpec => RunKeepsHardReasons
<1>1. ASSUME TypeOK, CoreInv, [ServiceNext]_vars, phase # "idle", NEW k \in Keys,
             reason[k] \in HardReasons
      PROVE  reason'[k] = reason[k]
  <2>1. CASE UNCHANGED reason
    BY <2>1
  <2>2. ASSUME NEW j \in Keys, InvalidateStale(j) PROVE reason'[k] = reason[k]
    BY <1>1, <2>2 DEF InvalidateStale, Invalidate, Stale, Refused, TypeOK
  <2>3. \/ UNCHANGED reason
        \/ \E j \in Keys : InvalidateStale(j)
    BY <1>1 DEF vars, ServiceNext, Next, RunStep, Link, InvalidateClaim,
       InvalidateEntityState, StartRebuild, NextEntity, Extract, ExtractFails,
       CreateClaim, RefreshClaim, Refused, QueryActive, UpdateState, Outdated, SyncGraph, CompleteRun
  <2> QED
    BY <2>1, <2>2, <2>3
<1>2. TypeOK /\ CoreInv /\ [ServiceNext]_vars
        => [phase # "idle" =>
              \A k \in Keys : reason[k] \in HardReasons => reason'[k] = reason[k]]_vars
  BY <1>1
<1> QED
  BY <1>2, TypeCorrect, CoreCorrect, PTL DEF ServiceSpec, RunKeepsHardReasons

--------------------------------------------------------------------------------
(* The graph and the summary row, without the bulk invalidation.             *)

\* A summary row is what some run computed, or absent.
StateInv ==
    /\ \A e \in Entities :
          state[e] # NoState =>
             state[e] = [keys |-> state[e].keys, count |-> Cardinality(state[e].keys)]
    /\ phase = "sync" =>
          state[entity] = [keys  |-> VisibleActive(entity),
                           count |-> Cardinality(VisibleActive(entity))]

DerivedInv == EdgeOnlyForActive /\ StateInv

LEMMA RetractKeepsEdges ==
    ASSUME TypeOK, EdgeOnlyForActive, NEW k \in Keys, NEW r \in Reasons,
           Invalidate(k, r)
    PROVE  EdgeOnlyForActive'
<1> SUFFICES ASSUME NEW j \in Keys, edge'[j] = "active" PROVE j \in active'
  BY DEF EdgeOnlyForActive
<1>1. edge[j] = "active" /\ ~(source[j] = source[k] /\ Owner[j] = Owner[k])
  BY DEF Invalidate, Retract
<1> QED
  BY <1>1 DEF EdgeOnlyForActive, Invalidate

LEMMA DerivedStep ==
    TypeOK /\ CoreInv /\ DerivedInv /\ [Next]_vars => DerivedInv'
<1> SUFFICES ASSUME TypeOK, CoreInv, DerivedInv, [Next]_vars PROVE DerivedInv'
  OBVIOUS
<1>1. EdgeOnlyForActive'
  <2>1. ASSUME NEW k \in Keys, NEW r \in Reasons, InvalidateClaim(k, r)
        PROVE  EdgeOnlyForActive'
    BY <2>1, RetractKeepsEdges DEF InvalidateClaim, DerivedInv
  <2>2. ASSUME NEW k \in Keys, InvalidateStale(k) PROVE EdgeOnlyForActive'
    BY <2>2, RetractKeepsEdges, ReasonAssumption DEF InvalidateStale, DerivedInv
  <2>3. CASE SyncGraph
    BY <2>3 DEF SyncGraph, DerivedInv, EdgeOnlyForActive
  <2>4. CASE UNCHANGED edge /\ active \subseteq active'
    BY <2>4 DEF DerivedInv, EdgeOnlyForActive
  <2>5. \/ UNCHANGED edge /\ active \subseteq active'
        \/ SyncGraph
        \/ \E k \in Keys : InvalidateStale(k)
        \/ \E k \in Keys, r \in Reasons : InvalidateClaim(k, r)
    BY DEF vars, Next, RunStep, Link, StartRebuild, NextEntity, Extract,
       ExtractFails, CreateClaim, RefreshClaim, Refused, QueryActive, UpdateState, Outdated, CompleteRun
  <2> QED
    BY <2>1, <2>2, <2>3, <2>4, <2>5
<1>2. StateInv'
  <2>1. CASE UpdateState
    <3> DEFINE visible == VisibleActive(entity)
               fresh   == [keys |-> visible, count |-> Cardinality(visible)]
    <3>1. UNCHANGED <<active, unflushed, entity>> /\ entity \in Entities /\ phase = "stale"
      BY <2>1 DEF UpdateState, Outdated, TypeOK
    <3>2. state'[entity] = fresh
      BY <2>1, <3>1 DEF UpdateState, Outdated, TypeOK, DerivedInv, StateInv
    <3>3. \A e \in Entities : e # entity => state'[e] = state[e]
      BY <2>1, <3>1 DEF UpdateState, Outdated, TypeOK
    <3>4. VisibleActive(entity)' = visible
      BY <3>1 DEF VisibleActive, ActiveOf, OwnedBy
    <3>5. ASSUME NEW e \in Entities, state'[e] # NoState
          PROVE  state'[e] = [keys |-> state'[e].keys, count |-> Cardinality(state'[e].keys)]
      BY <3>2, <3>3, <3>5 DEF DerivedInv, StateInv
    <3> QED
      BY <3>1, <3>2, <3>4, <3>5 DEF StateInv
  <2>2. CASE UNCHANGED state /\ phase' # "sync"
    BY <2>2 DEF StateInv, DerivedInv
  <2>3. CASE UNCHANGED vars
    BY <2>3 DEF vars, StateInv, DerivedInv, VisibleActive, ActiveOf, OwnedBy
  <2>4. UpdateState \/ (UNCHANGED state /\ phase' # "sync") \/ UNCHANGED vars
    BY DEF Next, RunStep, Link, StartRebuild, NextEntity, Extract, ExtractFails,
       CreateClaim, RefreshClaim, Refused, InvalidateStale, InvalidateClaim, Invalidate,
       QueryActive, SyncGraph, CompleteRun
  <2> QED
    BY <2>1, <2>2, <2>3, <2>4
<1> QED
  BY <1>1, <1>2 DEF DerivedInv

LEMMA DerivedCorrect == Spec => []DerivedInv
<1>1. Init => DerivedInv
  BY DEF Init, DerivedInv, EdgeOnlyForActive, StateInv
<1> QED
  BY <1>1, DerivedStep, TypeCorrect, CoreCorrect, SpecIsService, PTL DEF Spec

\* Whatever runs, fails or is invalidated, an active graph edge rests on an
\* active claim.
THEOREM EdgesRestOnActiveClaims == Spec => []EdgeOnlyForActive
<1>1. DerivedInv => EdgeOnlyForActive
  BY DEF DerivedInv
<1> QED
  BY <1>1, DerivedCorrect, PTL

\* A summary written by a flushed session names and counts the active claims.
THEOREM SummaryExact == Spec => []StateExactWhenFlushed
<1>1. DerivedInv => StateExactWhenFlushed
  BY DEF DerivedInv, StateInv, StateExactWhenFlushed, VisibleActive
<1> QED
  BY <1>1, DerivedCorrect, PTL

--------------------------------------------------------------------------------
(* A second run over unchanged evidence.                                     *)

\* Key k of snapshot s has been upserted: its row and its link are there.
Kept(s, k) == k \in claims /\ <<k, s>> \in links

\* A pass keeps every key of the snapshots it has taken from its list, but for
\* those of the snapshot at hand that are still to come.
LinksInv ==
    InPass => \A s \in Current(entity) \ snaps : \A k \in Extracted(entity, s) :
                 Kept(s, k) \/ (s = snap /\ k \in keys)

\* The stale loop looks at claims of the pass's own entity only.
SeenInv == InPass => seen \subseteq OwnedBy(entity)

\* An entity on record as settled is in the state a run would leave.
SettledInv ==
    \A e \in settled :
        /\ ActiveOf(e) = Live(e)
        /\ \A s \in Current(e) : \A k \in Extracted(e, s) : Kept(s, k)

\* A pass over a settled entity has nothing to reactivate.
FlushedInv == InPass /\ entity \in settled => unflushed = {}

\* The stale loop starts when there is nothing left to upsert.
DoneInv == phase \in {"stale", "sync"} => keys = {} /\ snaps = {}

AgainInv == DoneInv /\ LinksInv /\ SeenInv /\ SettledInv /\ FlushedInv

\* What is known of an entity does not change under steps about other claims.
LEMMA SettledFrame ==
    ASSUME NEW e,
           \A s : <<e, s>> \in linked' <=> <<e, s>> \in linked,
           \A k \in OwnedBy(e) : /\ k \in active' <=> k \in active
                                 /\ reason'[k] = reason[k],
           claims \subseteq claims', links \subseteq links',
           ActiveOf(e) = Live(e),
           \A s \in Current(e) : \A k \in Extracted(e, s) : Kept(s, k)
    PROVE  /\ ActiveOf(e)' = Live(e)'
           /\ (\A s \in Current(e) : \A k \in Extracted(e, s) : Kept(s, k))'
<1>1. Current(e)' = Current(e) /\ OwnedBy(e)' = OwnedBy(e)
  BY DEF Current, OwnedBy
<1>2. \A s : Extracted(e, s)' = Extracted(e, s)
  BY <1>1 DEF Extracted
<1>3. Produced(e)' = Produced(e) /\ Produced(e) \subseteq OwnedBy(e)
  BY <1>1, <1>2 DEF Produced, Extracted
<1>4. ActiveOf(e)' = ActiveOf(e) /\ Live(e)' = Live(e)
  BY <1>1, <1>3 DEF ActiveOf, Live
<1> QED
  BY <1>1, <1>2, <1>4 DEF Kept

\* The steps of a pass over a settled entity find everything in place.
LEMMA SettledPass ==
    ASSUME TypeOK, CoreInv, AgainInv, InPass, entity \in settled, NEW k \in Keys
    PROVE  /\ ~CreateClaim(k) /\ ~InvalidateStale(k)
           /\ RefreshClaim(k) =>
                UNCHANGED <<claims, active, reason, links, audits, unflushed>>
<1>1. /\ ActiveOf(entity) = Live(entity) /\ unflushed = {}
      /\ \A s \in Current(entity) : \A j \in Extracted(entity, s) : Kept(s, j)
  BY DEF AgainInv, SettledInv, FlushedInv
<1>2. ASSUME phase = "claims", k \in keys
      PROVE  /\ Kept(snap, k)
             /\ ~Refused(k) => k \in active
  <2>1. snap \in Current(entity) /\ k \in Extracted(entity, snap)
    BY <1>2 DEF CoreInv, WorkInv
  <2>2. k \in Produced(entity)
    BY <2>1 DEF Produced
  <2> QED
    BY <1>1, <2>1, <2>2 DEF Live, ActiveOf, Refused
<1>3. ~CreateClaim(k)
  BY <1>2 DEF CreateClaim, Kept
<1>4. ASSUME InvalidateStale(k) PROVE FALSE
  <2>1. /\ phase = "stale" /\ k \in seen /\ k \in active /\ k \notin Produced(entity)
    BY <1>4 DEF InvalidateStale, Stale, CoreInv, StaleInv, Refused
  <2>2. k \in ActiveOf(entity)
    BY <2>1 DEF AgainInv, SeenInv, ActiveOf
  <2> QED
    BY <1>1, <2>1, <2>2 DEF Live
<1>5. ASSUME RefreshClaim(k)
      PROVE  UNCHANGED <<claims, active, reason, links, audits, unflushed>>
  BY <1>1, <1>2, <1>5 DEF RefreshClaim, Kept
<1> QED
  BY <1>3, <1>4, <1>5

LEMMA AgainStep ==
    TypeOK /\ CoreInv /\ AgainInv /\ [ServiceNext]_vars => AgainInv'
<1> SUFFICES ASSUME TypeOK, CoreInv, AgainInv, [ServiceNext]_vars PROVE AgainInv'
  OBVIOUS
<1> USE DEF InPass
<1>i. DoneInv /\ LinksInv /\ SeenInv /\ SettledInv /\ FlushedInv
  BY DEF AgainInv
\* A step about the claims of K leaves the settled entities as they are when
\* none of them owns a claim of K.
<1>f. ASSUME NEW K \in SUBSET Keys, linked' = linked,
             claims \subseteq claims', links \subseteq links', settled' \subseteq settled,
             \A k \in Keys \ K : (k \in active' <=> k \in active) /\ reason'[k] = reason[k],
             \A k \in K : Owner[k] \notin settled'
      PROVE  SettledInv'
  <2> SUFFICES ASSUME NEW e \in settled'
               PROVE  (/\ ActiveOf(e) = Live(e)
                       /\ \A s \in Current(e) : \A k \in Extracted(e, s) : Kept(s, k))'
    BY DEF SettledInv
  <2>1. \A k \in OwnedBy(e) : k \in Keys \ K
    BY <1>f DEF OwnedBy
  <2> QED
    BY <1>f, <1>i, <2>1, SettledFrame DEF SettledInv
<1>h. ASSUME UNCHANGED <<linked, claims, active, reason, links, settled>>
      PROVE  SettledInv'
  <2>1. {} \in SUBSET Keys
    OBVIOUS
  <2> QED
    BY <1>h, <1>f, <2>1
\* A step that leaves the locals and the store of the pass alone.
<1>g. ASSUME ~InPass' \/ UNCHANGED <<linked, claims, links, phase, entity, snaps,
                                     snap, keys, seen, unflushed, settled>>,
             ~InPass' \/ InPass
      PROVE  (DoneInv /\ LinksInv /\ SeenInv /\ FlushedInv)'
  BY <1>g, <1>i DEF DoneInv, LinksInv, SeenInv, FlushedInv, Kept, Current, Extracted, OwnedBy
<1>1. ASSUME NEW e \in Entities, NEW s \in Snapshots, Link(e, s) PROVE AgainInv'
  <2>1. (DoneInv /\ LinksInv /\ SeenInv /\ FlushedInv)'
    BY <1>1, <1>g DEF Link
  <2>2. SettledInv'
    <3> SUFFICES ASSUME NEW f \in settled'
                 PROVE  (/\ ActiveOf(f) = Live(f)
                         /\ \A t \in Current(f) : \A k \in Extracted(f, t) : Kept(t, k))'
      BY DEF SettledInv
    <3>1. f # e /\ f \in settled
      BY <1>1 DEF Link
    <3>2. /\ \A t : <<f, t>> \in linked' <=> <<f, t>> \in linked
          /\ UNCHANGED <<active, reason, claims, links>>
      BY <1>1, <3>1 DEF Link
    <3> QED
      BY <1>i, <3>1, <3>2, SettledFrame DEF SettledInv
  <2> QED
    BY <2>1, <2>2 DEF AgainInv
<1>2. ASSUME NEW k \in Keys, NEW r \in Reasons, InvalidateClaim(k, r)
      PROVE AgainInv'
  <2>1. (DoneInv /\ LinksInv /\ SeenInv /\ FlushedInv)'
    BY <1>2, <1>g DEF InvalidateClaim
  <2>2. SettledInv'
    <3>1. /\ UNCHANGED <<linked, claims, links>> /\ settled' = settled \ {Owner[k]}
          /\ active' = active \ {k} /\ reason' = [reason EXCEPT ![k] = r]
      BY <1>2 DEF InvalidateClaim, Invalidate
    <3>2. \A j \in Keys \ {k} : (j \in active' <=> j \in active) /\ reason'[j] = reason[j]
      BY <3>1 DEF TypeOK
    <3> QED
      BY <3>1, <3>2, <1>f
  <2> QED
    BY <2>1, <2>2 DEF AgainInv
<1>3. ASSUME NEW e \in Entities, NEW r \in Reasons, InvalidateEntityState(e, r)
      PROVE AgainInv'
  <2>1. (DoneInv /\ LinksInv /\ SeenInv /\ FlushedInv)'
    BY <1>3, <1>g DEF InvalidateEntityState
  <2>2. SettledInv'
    <3>1. /\ UNCHANGED <<linked, claims, links>> /\ settled' = settled \ {e}
          /\ OwnedBy(e) \in SUBSET Keys /\ \A k \in OwnedBy(e) : Owner[k] = e
          /\ \A j \in Keys \ OwnedBy(e) :
                (j \in active' <=> j \in active) /\ reason'[j] = reason[j]
      BY <1>3 DEF InvalidateEntityState, ActiveOf, OwnedBy
    <3> QED
      BY <3>1, <1>f
  <2> QED
    BY <2>1, <2>2 DEF AgainInv
<1>4. ASSUME NEW scope \in SUBSET Entities, StartRebuild(scope) PROVE AgainInv'
  <2>1. (DoneInv /\ LinksInv /\ SeenInv /\ FlushedInv)'
    BY <1>4, <1>g DEF StartRebuild
  <2>2. SettledInv'
    BY <1>4, <1>h DEF StartRebuild
  <2> QED
    BY <2>1, <2>2 DEF AgainInv
<1>5. ASSUME NEW e \in Entities, NextEntity(e) PROVE AgainInv'
  <2>0. UNCHANGED <<linked, store, unflushed, seen, settled>> /\ phase = "entity"
    BY <1>5 DEF NextEntity
  <2>1. seen' = {} /\ unflushed' = {}
    BY <2>0, <1>i DEF CoreInv, LocalsInv
  <2>2. LinksInv'
    <3>1. CASE Current(e) = {}
      BY <3>1, <1>5 DEF NextEntity, LinksInv
    <3>2. CASE Current(e) # {}
      <4>1. snaps' = Current(e) /\ entity' = e
        BY <3>2, <1>5 DEF NextEntity
      <4>2. Current(entity)' = Current(e)
        BY <2>0, <4>1 DEF Current
      <4> QED
        BY <4>1, <4>2 DEF LinksInv
    <3> QED
      BY <3>1, <3>2
  <2>3. SettledInv'
    BY <2>0, <1>h
  <2> QED
    BY <1>5, <2>1, <2>2, <2>3 DEF NextEntity, AgainInv, DoneInv, SeenInv, FlushedInv
<1>6. ASSUME NEW s \in Snapshots, Extract(s) PROVE AgainInv'
  <2>0. /\ UNCHANGED <<linked, store, phase, entity, produced, unflushed, seen, settled>>
        /\ phase = "claims" /\ keys = {} /\ s \in snaps
        /\ snap' = s /\ snaps' = snaps \ {s} /\ keys' = Extracted(entity, s)
    BY <1>6 DEF Extract
  <2>1. LinksInv'
    <3>1. Current(entity)' = Current(entity)
      BY <2>0, EvidenceFrame
    <3>2. \A t : Extracted(entity, t)' = Extracted(entity, t)
      BY <2>0 DEF Extracted, OwnedBy
    <3> QED
      BY <2>0, <3>1, <3>2, <1>i DEF LinksInv, Kept
  <2>2. (DoneInv /\ SeenInv /\ FlushedInv)'
    BY <2>0, <1>i DEF DoneInv, SeenInv, FlushedInv, OwnedBy
  <2>3. SettledInv'
    BY <2>0, <1>h
  <2> QED
    BY <2>1, <2>2, <2>3 DEF AgainInv
<1>7. CASE ExtractFails
  <2>1. (DoneInv /\ LinksInv /\ SeenInv /\ FlushedInv)'
    BY <1>7, <1>g DEF ExtractFails
  <2>2. SettledInv'
    BY <1>7, <1>h DEF ExtractFails
  <2> QED
    BY <2>1, <2>2 DEF AgainInv
<1>8. ASSUME NEW k \in Keys, CreateClaim(k) \/ RefreshClaim(k) PROVE AgainInv'
  <2>0. /\ UNCHANGED <<linked, reason, phase, entity, snaps, snap, seen, settled>>
        /\ phase = "claims" /\ k \in keys
        /\ keys' = keys \ {k}
        /\ claims' = claims \cup {k} /\ links' = links \cup {<<k, snap>>}
        /\ \A j \in Keys \ {k} : j \in active' <=> j \in active
    BY <1>8 DEF CreateClaim, RefreshClaim, Refused
  <2>1. Owner[k] = entity
    BY <2>0 DEF CoreInv, WorkInv, Extracted, OwnedBy
  <2>2. LinksInv'
    <3>1. Current(entity)' = Current(entity)
      BY <2>0, EvidenceFrame
    <3>2. \A t : Extracted(entity, t)' = Extracted(entity, t)
      BY <2>0 DEF Extracted, OwnedBy
    <3> QED
      BY <2>0, <3>1, <3>2, <1>i DEF LinksInv, Kept
  <2>3. SeenInv' /\ DoneInv'
    BY <2>0, <1>i DEF SeenInv, OwnedBy, DoneInv
  <2>4. FlushedInv' /\ SettledInv'
    <3>1. CASE entity \in settled
      <4>1. UNCHANGED <<claims, active, reason, links, audits, unflushed>>
        BY <1>8, <3>1, <2>0, SettledPass
      <4> QED
        BY <4>1, <2>0, <1>i, <1>h DEF FlushedInv
    <3>2. CASE entity \notin settled
      <4>1. FlushedInv'
        BY <3>2, <2>0 DEF FlushedInv
      <4>2. {k} \in SUBSET Keys
        OBVIOUS
      <4> QED
        BY <3>2, <4>1, <4>2, <2>0, <2>1, <1>f
    <3> QED
      BY <3>1, <3>2
  <2> QED
    BY <2>2, <2>3, <2>4 DEF AgainInv
<1>9. ASSUME NEW k \in Keys, InvalidateStale(k) PROVE AgainInv'
  <2>0. /\ UNCHANGED <<linked, claims, links, phase, entity, snaps, snap, keys, seen, settled>>
        /\ phase = "stale" /\ k \in seen
        /\ active' = active \ {k} /\ reason' = [reason EXCEPT ![k] = StaleRebuild]
        /\ unflushed' = {}
    BY <1>9 DEF InvalidateStale, Invalidate, Stale, Refused
  <2>1. entity \notin settled
    BY <1>9, <2>0, SettledPass
  <2>2. Owner[k] = entity
    BY <2>0, <1>i DEF SeenInv, OwnedBy
  <2>3. SettledInv'
    <3>1. \A j \in Keys \ {k} : (j \in active' <=> j \in active) /\ reason'[j] = reason[j]
      BY <2>0 DEF TypeOK
    <3>2. {k} \in SUBSET Keys
      OBVIOUS
    <3> QED
      BY <2>0, <2>1, <2>2, <3>1, <3>2, <1>f
  <2>4. (DoneInv /\ LinksInv /\ SeenInv /\ FlushedInv)'
    BY <2>0, <1>i DEF DoneInv, LinksInv, SeenInv, FlushedInv, Kept, Current, Extracted, OwnedBy
  <2> QED
    BY <2>3, <2>4 DEF AgainInv
<1>10. CASE QueryActive
  <2>0. /\ UNCHANGED <<linked, store, entity, snaps, snap, keys, unflushed, settled>>
        /\ keys = {} /\ snaps = {}
        /\ phase = "claims" /\ phase' = "stale" /\ seen' = VisibleActive(entity)
    BY <1>10 DEF QueryActive
  <2>1. SettledInv'
    BY <2>0, <1>h
  <2>2. (DoneInv /\ LinksInv /\ SeenInv /\ FlushedInv)'
    BY <2>0, <1>i DEF DoneInv, LinksInv, SeenInv, FlushedInv, Kept, Current, Extracted, OwnedBy,
       VisibleActive, ActiveOf
  <2> QED
    BY <2>1, <2>2 DEF AgainInv
<1>11. CASE UpdateState
  <2>0. /\ UNCHANGED <<linked, claims, active, reason, links, progress, settled>>
        /\ phase = "stale" /\ phase' = "sync"
    BY <1>11 DEF UpdateState, Outdated
  <2>1. SettledInv'
    BY <2>0, <1>h
  <2>2. (DoneInv /\ LinksInv /\ SeenInv /\ FlushedInv)'
    BY <2>0, <1>i DEF DoneInv, LinksInv, SeenInv, FlushedInv, Kept, Current, Extracted, OwnedBy
  <2> QED
    BY <2>1, <2>2 DEF AgainInv
<1>12. CASE SyncGraph
  <2>0. /\ UNCHANGED <<linked, claims, active, reason, links>>
        /\ phase = "sync" /\ phase' = "entity" /\ settled' = settled \cup {entity}
    BY <1>12 DEF SyncGraph
  <2>1. (DoneInv /\ LinksInv /\ SeenInv /\ FlushedInv)'
    BY <2>0, <1>g
  <2>2. /\ ActiveOf(entity) = Live(entity)
        /\ \A s \in Current(entity) : \A k \in Extracted(entity, s) : Kept(s, k)
    BY <2>0, <1>i DEF CoreInv, RunReconciles, DoneInv, LinksInv
  <2>3. SettledInv'
    <3> SUFFICES ASSUME NEW e \in settled'
                 PROVE  (/\ ActiveOf(e) = Live(e)
                         /\ \A s \in Current(e) : \A k \in Extracted(e, s) : Kept(s, k))'
      BY DEF SettledInv
    <3>1. /\ ActiveOf(e) = Live(e)
          /\ \A s \in Current(e) : \A k \in Extracted(e, s) : Kept(s, k)
      BY <2>0, <2>2, <1>i DEF SettledInv
    <3> QED
      BY <2>0, <3>1, SettledFrame
  <2> QED
    BY <2>1, <2>3 DEF AgainInv
<1>13. CASE CompleteRun
  <2>1. (DoneInv /\ LinksInv /\ SeenInv /\ FlushedInv)'
    BY <1>13, <1>g DEF CompleteRun
  <2>2. SettledInv'
    BY <1>13, <1>h DEF CompleteRun
  <2> QED
    BY <2>1, <2>2 DEF AgainInv
<1>14. CASE UNCHANGED vars
  <2>1. (DoneInv /\ LinksInv /\ SeenInv /\ FlushedInv)'
    BY <1>14, <1>g DEF vars
  <2>2. SettledInv'
    BY <1>14, <1>h DEF vars
  <2> QED
    BY <2>1, <2>2 DEF AgainInv
<1>15. ASSUME NEW e \in Entities, StartRebuild({e}) PROVE AgainInv'
  BY <1>4, <1>15
<1> QED
  BY <1>1, <1>2, <1>3, <1>4, <1>15, <1>5, <1>6, <1>7, <1>8, <1>9, <1>10, <1>11,
     <1>12, <1>13, <1>14 DEF ServiceNext, Next, RunStep

LEMMA AgainCorrect == ServiceSpec => []AgainInv
<1>1. Init => AgainInv
  BY DEF Init, AgainInv, DoneInv, LinksInv, SeenInv, SettledInv, FlushedInv, InPass
<1> QED
  BY <1>1, AgainStep, TypeCorrect, CoreCorrect, PTL DEF ServiceSpec

\* The summary row a second run leaves names and counts exactly the active
\* claims, whatever the first run's unflushed reactivations made of it.
THEOREM SecondRunRepairsSummary == Spec => []SecondRunExact
<1>1. DerivedInv /\ AgainInv => SecondRunExact
  BY DEF DerivedInv, StateInv, AgainInv, FlushedInv, InPass, SecondRunExact, VisibleActive
<1> QED
  BY <1>1, DerivedCorrect, AgainCorrect, SpecIsService, PTL

\* A run over evidence that has not changed since the last one creates,
\* reactivates, invalidates and links nothing, for every data set.
THEOREM RebuildIsIdempotent == ServiceSpec => SecondRunIsIdempotent
<1>1. ASSUME TypeOK, CoreInv, AgainInv, [ServiceNext]_vars,
             phase \notin {"idle", "entity"}, entity \in settled
      PROVE  UNCHANGED <<claims, active, reason, links, audits>>
  <2>1. InPass
    BY <1>1 DEF InPass, TypeOK, Phases
  <2>2. \/ UNCHANGED <<claims, active, reason, links, audits>>
        \/ \E k \in Keys : CreateClaim(k) \/ RefreshClaim(k) \/ InvalidateStale(k)
    BY <1>1 DEF vars, ServiceNext, Next, RunStep, Link, InvalidateClaim,
       InvalidateEntityState, StartRebuild, NextEntity, Extract, ExtractFails,
       QueryActive, UpdateState, Outdated, SyncGraph, CompleteRun
  <2> QED
    BY <1>1, <2>1, <2>2, SettledPass
<1>2. TypeOK /\ CoreInv /\ AgainInv /\ [ServiceNext]_vars
        => [phase \notin {"idle", "entity"} /\ entity \in settled =>
              UNCHANGED <<claims, active, reason, links, audits>>]_vars
  BY <1>1
<1> QED
  BY <1>2, TypeCorrect, CoreCorrect, AgainCorrect, PTL
  DEF ServiceSpec, SecondRunIsIdempotent

--------------------------------------------------------------------------------
(* The tables and the run implement ClaimLedger.                            *)

\* The standing of a claim, case by case.
LEMMA StandingCases ==
    ASSUME TypeOK, NEW k \in Keys
    PROVE  /\ k \notin claims => Standing[k] = "unknown"
           /\ k \in active => Standing[k] = "active"
           /\ k \in claims \ active /\ reason[k] \in HardReasons
                => Standing[k] = "rejected"
           /\ k \in claims \ active /\ reason[k] \notin HardReasons
                => Standing[k] = "withdrawn"
  BY DEF Standing, TypeOK

\* A step that gives the claims of K one new standing moves the whole of K.
LEMMA ClaimsMove ==
    ASSUME NEW K, NEW to,
           \A j \in Keys : Standing'[j] = IF j \in K THEN to ELSE Standing[j]
    PROVE  Standing' = [j \in Keys |-> IF j \in K THEN to ELSE Standing[j]]
<1>1. Standing' = [j \in Keys |-> Standing'[j]]
  BY DEF Standing
<1> HIDE DEF Standing
<1> QED
  BY <1>1

LEMMA StandingFrame ==
    ASSUME UNCHANGED <<claims, active, reason>> PROVE UNCHANGED Standing
  BY DEF Standing

LEMMA LedgerStep ==
    TypeOK /\ TypeOK' /\ CoreInv /\ [ServiceNext]_vars => [Ledger!Next]_Standing
<1> SUFFICES ASSUME TypeOK, TypeOK', CoreInv, [ServiceNext]_vars
             PROVE  [Ledger!Next]_Standing
  OBVIOUS
<1> USE DEF Ledger!Next, Ledger!Move, Ledger!Assert, Ledger!Withdraw,
            Ledger!Reject, Ledger!Lift
<1>1. ASSUME NEW k \in Keys, NEW r \in Reasons, k \in claims, Invalidate(k, r)
      PROVE  [Ledger!Next]_Standing
  <2> DEFINE to == IF r \in HardReasons THEN "rejected" ELSE "withdrawn"
  <2>1. /\ claims' = claims /\ k \notin active' /\ reason'[k] = r
        /\ \A j \in Keys : j # k => (j \in active' <=> j \in active) /\ reason'[j] = reason[j]
    BY <1>1 DEF Invalidate, TypeOK
  <2>2. \A j \in Keys : Standing'[j] = IF j \in {k} THEN to ELSE Standing[j]
    BY <1>1, <2>1 DEF Standing
  <2> HIDE DEF to
  <2>3. Standing' = [j \in Keys |-> IF j \in {k} THEN to ELSE Standing[j]]
    BY <2>2, ClaimsMove
  <2> USE DEF to
  <2>4. Standing[k] \in {"active", "rejected", "withdrawn"}
    BY <1>1, StandingCases
  <2>5. Standing[k] = to => Standing' = Standing
    BY <2>2 DEF Standing
  <2>6. {k} \in SUBSET Keys
    OBVIOUS
  <2> HIDE DEF Standing
  <2>7. CASE r \in HardReasons
    <3>1. Standing[k] = "rejected" \/ Ledger!Reject({k})
      BY <2>3, <2>4, <2>7
    <3> QED
      BY <2>5, <2>6, <2>7, <3>1
  <2>8. CASE r \notin HardReasons
    <3>1. Standing[k] = "withdrawn" \/ Ledger!Withdraw({k}) \/ Ledger!Lift(k)
      BY <2>3, <2>4, <2>8
    <3> QED
      BY <2>5, <2>6, <2>8, <3>1
  <2> QED
    BY <2>7, <2>8
<1>2. ASSUME NEW k \in Keys, CreateClaim(k) \/ RefreshClaim(k)
      PROVE  [Ledger!Next]_Standing
  <2>1. /\ reason' = reason /\ claims' = claims \cup {k}
        /\ \A j \in Keys : j # k => (j \in active' <=> j \in active)
        /\ k \notin claims \/ reason[k] \notin HardReasons => k \in active'
        /\ k \in claims /\ reason[k] \in HardReasons => active' = active
    BY <1>2 DEF CreateClaim, RefreshClaim, Refused
  <2>2. CASE k \in claims /\ reason[k] \in HardReasons
    <3>1. UNCHANGED <<claims, active, reason>>
      BY <2>1, <2>2
    <3> QED
      BY <3>1, StandingFrame
  <2>3. CASE k \notin claims \/ reason[k] \notin HardReasons
    <3>1. \A j \in Keys : Standing'[j] = IF j \in {k} THEN "active" ELSE Standing[j]
      BY <2>1, <2>3 DEF Standing
    <3>2. Standing' = [j \in Keys |-> IF j \in {k} THEN "active" ELSE Standing[j]]
      BY <3>1, ClaimsMove
    <3>3. Standing[k] \in {"unknown", "active", "withdrawn"}
      BY <2>3, StandingCases
    <3>4. Standing[k] = "active" => Standing' = Standing
      BY <3>1 DEF Standing
    <3> HIDE DEF Standing
    <3> QED
      BY <3>2, <3>3, <3>4
  <2> QED
    BY <2>2, <2>3
<1>3. ASSUME NEW e \in Entities, NEW r \in Reasons, InvalidateEntityState(e, r)
      PROVE  [Ledger!Next]_Standing
  <2> DEFINE to == IF r \in HardReasons THEN "rejected" ELSE "withdrawn"
  <2>1. /\ claims' = claims /\ ActiveOf(e) \subseteq claims
        /\ \A j \in Keys : IF j \in ActiveOf(e)
                            THEN j \notin active' /\ reason'[j] = r
                            ELSE (j \in active' <=> j \in active) /\ reason'[j] = reason[j]
    BY <1>3 DEF InvalidateEntityState, ActiveOf, OwnedBy, TypeOK
  <2>2. \A j \in Keys : Standing'[j] = IF j \in ActiveOf(e) THEN to ELSE Standing[j]
    BY <2>1 DEF Standing
  <2>3. Standing' = [j \in Keys |-> IF j \in ActiveOf(e) THEN to ELSE Standing[j]]
    BY <2>2, ClaimsMove
  <2>4. ActiveOf(e) \in SUBSET Keys
    BY DEF ActiveOf, OwnedBy
  <2>5. \A k \in ActiveOf(e) : Standing[k] = "active"
    BY StandingCases DEF ActiveOf, OwnedBy
  <2> HIDE DEF Standing, ActiveOf
  <2> QED
    BY <2>3, <2>4, <2>5
<1>4. \/ UNCHANGED <<claims, active, reason>>
      \/ \E k \in Keys : CreateClaim(k) \/ RefreshClaim(k)
      \/ \E k \in claims, r \in Reasons : Invalidate(k, r)
      \/ \E e \in Entities, r \in Reasons : InvalidateEntityState(e, r)
  <2>1. ASSUME NEW k \in Keys, InvalidateStale(k)
        PROVE  k \in claims /\ Invalidate(k, StaleRebuild)
    BY <2>1 DEF InvalidateStale, Stale, Refused, TypeOK
  <2> QED
    BY <2>1, ReasonAssumption DEF vars, ServiceNext, Next, RunStep, Link,
       InvalidateClaim, StartRebuild, NextEntity, Extract, ExtractFails,
       QueryActive, UpdateState, Outdated, SyncGraph, CompleteRun
<1>5. claims \subseteq Keys
  BY DEF TypeOK
<1> QED
  BY <1>1, <1>2, <1>3, <1>4, <1>5, StandingFrame

\* Every claim's history of rows, runs and invalidations is a history of
\* ClaimLedger; in particular nothing takes it from "rejected" to "active".
THEOREM MemoryImplementsLedger == ServiceSpec => ImplementsLedger
<1>1. Init => Ledger!Init
  BY DEF Init, Ledger!Init, Standing
<1> QED
  BY <1>1, LedgerStep, TypeCorrect, CoreCorrect, PTL
  DEF ServiceSpec, ImplementsLedger, Ledger!Spec

================================================================================
