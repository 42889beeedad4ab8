------------------------- MODULE PublicationGateProofs -------------------------
(***************************************************************************)
(* Proofs about PublicationGate, for any incidents, sources, imports and   *)
(* retracting threads.                                                     *)
(***************************************************************************)
EXTENDS PublicationGate, TLAPS

\* Of an open transaction: it wants a status and the flag that goes with it.
Intent ==
    \A w \in Workers : tx[w] # NoTx =>
        tx[w].wants.public = (tx[w].wants.status \in PublicStatuses)

\* Nobody reviews a row that is not stored.
ReviewsStored ==
    \A i \in Incidents : incident[i] = Absent => verdict[i] = NoReview

GateInv ==
    /\ TypeOK /\ Intent /\ ReviewsStored
    /\ PublicIsDecided /\ BlockedNotPublic /\ PublicHasPublicStatus
    /\ ReviewKept /\ HistoryExactUnlessRaced

\* What auto_review writes: a published record is approved and not blocked.
LEMMA PublishedIsSafe ==
    ASSUME NEW r \in Records, Publishes(r)
    PROVE  Suggested(r) \in PublicStatuses /\ r.content \notin Blocked
  BY DEF Publishes, Suggested, MachineApproved, PublicStatuses

\* An imported row is a row; if it is public, auto_review published it.
LEMMA NewRow ==
    ASSUME NEW r \in Records
    PROVE  /\ New(r) \in IncidentRows
           /\ New(r).content = r.content
           /\ New(r).public => Publishes(r) /\ New(r).status \in PublicStatuses
  BY PublishedIsSafe
     DEF New, Suggested, Records, IncidentRows, Publishes, Blocks, MachineApproved,
         ReviewStatuses, PublicStatuses

\* The same for a row that is imported again; its status stands if the fields
\* are the same, unless it was rejected or auto_review's own.
LEMMA RefreshedRow ==
    ASSUME NEW r \in Records, NEW old \in IncidentRows
    PROVE  /\ Refreshed(old, r) \in IncidentRows
           /\ Refreshed(old, r).content = r.content
           /\ Refreshed(old, r).public =>
                 Publishes(r) /\ Refreshed(old, r).status \in PublicStatuses
           /\ old.content = r.content /\ old.status \notin {"rejected", MachineApproved}
                 => Refreshed(old, r).status = old.status
<1>1. Suggested(r) \in ReviewStatuses
  BY DEF Suggested, MachineApproved, ReviewStatuses, PublicStatuses
<1>2. "pending_review" \in ReviewStatuses
  BY DEF ReviewStatuses
<1>3. Refreshed(old, r) \in IncidentRows /\ Refreshed(old, r).content = r.content
  BY <1>1, <1>2 DEF Refreshed, Records, IncidentRows, Publishes
<1>4. Refreshed(old, r).public =>
          Publishes(r) /\ Refreshed(old, r).status \in PublicStatuses
  BY PublishedIsSafe DEF Refreshed, IncidentRows
<1>5. old.content = r.content /\ old.status \notin {"rejected", MachineApproved}
          => Refreshed(old, r).status = old.status
  BY DEF Refreshed, IncidentRows
<1> QED
  BY <1>3, <1>4, <1>5

\* A decided row of either kind keeps its type.
LEMMA DecidedRow ==
    ASSUME NEW s \in ReviewStatuses
    PROVE  /\ \A row \in IncidentRows : Decided(row, s) \in IncidentRows
           /\ \A row \in SourceRows : Decided(row, s) \in SourceRows
<1>1. (s \in PublicStatuses) \in BOOLEAN
  OBVIOUS
<1>2. ASSUME NEW flag \in BOOLEAN
      PROVE  /\ \A row \in IncidentRows :
                    [row EXCEPT !.status = s, !.public = flag] \in IncidentRows
             /\ \A row \in SourceRows :
                    [row EXCEPT !.status = s, !.public = flag] \in SourceRows
  BY DEF IncidentRows, SourceRows
<1> QED
  BY <1>1, <1>2 DEF Decided

\* The UPDATE of a transaction that read the current row stores what it wants.
LEMMA FreshWrite ==
    ASSUME TypeOK, NEW w \in Workers, tx[w] # NoTx
    PROVE  /\ tx[w] \in Transactions
           /\ Written(w) \in SourceRows
           /\ tx[w].loaded = source[tx[w].source] => Written(w) = tx[w].wants
<1>1. tx[w] \in Transactions
  BY DEF TypeOK
<1>2. source[tx[w].source] \in SourceRows
  BY <1>1 DEF TypeOK, Transactions
<1> QED
  BY <1>1, <1>2 DEF Written, Transactions, SourceRows

\* Nothing is stored and no transaction is open.
LEMMA GateInit == Init => GateInv
  BY DEF Init, GateInv, TypeOK, Intent, PublicIsDecided, BlockedNotPublic,
         PublicHasPublicStatus, ReviewKept, HistoryExactUnlessRaced, Stored,
         SourceRows, ReviewStatuses, ReviewsStored

\* An import keeps the invariant: the review of the record decides the flag.
LEMMA ImportStep ==
    ASSUME GateInv, NEW i \in Incidents, NEW r \in Imports[i], Import(i, r)
    PROVE  GateInv'
<1> DEFINE row == incident'[i]
<1>1. r \in Records
  BY GateAssumption
<1>2. /\ row \in IncidentRows
      /\ row.content = r.content
      /\ row.public => Publishes(r) /\ row.status \in PublicStatuses
  <2>1. CASE incident[i] = Absent
    BY <2>1, <1>1, NewRow DEF Import, GateInv, TypeOK
  <2>2. CASE incident[i] # Absent
    BY <2>2, <1>1, RefreshedRow DEF Import, GateInv, TypeOK
  <2> QED
    BY <2>1, <2>2
<1>3. row # Absent
  BY <1>2, GateAssumption
<1>4. \A j \in Incidents : j # i =>
          /\ incident'[j] = incident[j] /\ verdict'[j] = verdict[j]
          /\ cleared'[j] = cleared[j]
  BY DEF Import, GateInv, TypeOK
<1>5. TypeOK'
  BY <1>2 DEF Import, GateInv, TypeOK, Publishes
<1>6. PublicIsDecided'
  <2>1. row.public => cleared'[i] /\ ~Held(i)
    BY <1>2 DEF Import, GateInv, TypeOK, Held
  <2> QED
    BY <2>1, <1>4 DEF PublicIsDecided, Stored, Held, GateInv
<1>7. BlockedNotPublic'
  BY <1>1, <1>2, <1>4, PublishedIsSafe DEF BlockedNotPublic, Stored, GateInv
<1>8. PublicHasPublicStatus'
  BY <1>2, <1>4 DEF PublicHasPublicStatus, Stored, GateInv
<1>9. ReviewKept'
  <2>1. ASSUME verdict'[i] \notin {NoReview, "rejected", MachineApproved}
        PROVE  row.status = verdict'[i]
    <3>1. /\ incident[i] # Absent /\ incident[i].content = r.content
          /\ verdict'[i] = verdict[i]
      BY <2>1 DEF Import, GateInv, TypeOK
    <3>2. incident[i].status = verdict[i]
      BY <2>1, <3>1 DEF GateInv, ReviewKept, Stored
    <3>3. incident[i] \in IncidentRows
      BY <3>1 DEF GateInv, TypeOK
    <3>4. row = Refreshed(incident[i], r)
      BY <3>1 DEF Import, GateInv, TypeOK
    <3> QED
      BY <1>1, <2>1, <3>1, <3>2, <3>3, <3>4, RefreshedRow
  <2> QED
    BY <2>1, <1>4 DEF ReviewKept, Stored, GateInv
<1>10. Intent' /\ HistoryExactUnlessRaced'
  BY DEF Import, GateInv, Intent, HistoryExactUnlessRaced
<1>11. ReviewsStored'
  BY <1>3, <1>4 DEF ReviewsStored, GateInv
<1> QED
  BY <1>5, <1>6, <1>7, <1>8, <1>9, <1>10, <1>11 DEF GateInv

\* An adapter inserts hidden rows only.
LEMMA AdapterStep ==
    ASSUME GateInv, NEW i \in AdapterFed, AdapterInsert(i)
    PROVE  GateInv'
<1>1. i \in Incidents
  BY GateAssumption
<1>2. PICK r \in Imports[i] :
          incident' = [incident EXCEPT ![i] =
              [status |-> "pending_review", public |-> FALSE,
               content |-> r.content, snapshot |-> TRUE]]
  BY DEF AdapterInsert
<1>3. r \in Records
  BY <1>1, GateAssumption
<1>4. /\ incident'[i] \in IncidentRows /\ ~incident'[i].public
      /\ \A j \in Incidents : j # i => incident'[j] = incident[j]
  BY <1>1, <1>2, <1>3 DEF GateInv, TypeOK, IncidentRows, Records, ReviewStatuses
<1>5. TypeOK'
  BY <1>2, <1>4 DEF AdapterInsert, GateInv, TypeOK
<1>6. PublicIsDecided' /\ BlockedNotPublic' /\ PublicHasPublicStatus'
  BY <1>4 DEF AdapterInsert, GateInv, PublicIsDecided, BlockedNotPublic,
              PublicHasPublicStatus, Stored, Held
<1>7. Intent' /\ HistoryExactUnlessRaced'
  BY DEF AdapterInsert, GateInv, Intent, HistoryExactUnlessRaced
<1>8. ReviewKept'
  <2>1. verdict[i] = NoReview
    BY <1>1 DEF AdapterInsert, GateInv, ReviewsStored
  <2> QED
    BY <2>1, <1>4 DEF AdapterInsert, GateInv, ReviewKept, Stored
<1>9. ReviewsStored'
  BY <1>4, GateAssumption DEF AdapterInsert, GateInv, ReviewsStored
<1> QED
  BY <1>5, <1>6, <1>7, <1>8, <1>9 DEF GateInv
\* A reviewer's decision sets status and flag together.
LEMMA DecideIncidentStep ==
    ASSUME GateInv, NEW i \in Incidents, NEW s \in Decisions, DecideIncident(i, s)
    PROVE  GateInv'
<1>1. s \in ReviewStatuses /\ s # NoReview
  BY GateAssumption
<1>2. incident[i] \in IncidentRows
  BY DEF DecideIncident, GateInv, TypeOK
<1>3. /\ incident'[i] = Decided(incident[i], s)
      /\ incident'[i] \in IncidentRows
      /\ incident'[i].status = s
      /\ incident'[i].public => s \in PublicStatuses
  BY <1>1, <1>2, DecidedRow DEF DecideIncident, GateInv, TypeOK, Decided, IncidentRows
<1>4. verdict'[i] = s
  BY DEF DecideIncident, GateInv, TypeOK
<1>5. \A j \in Incidents : j # i =>
          /\ incident'[j] = incident[j] /\ verdict'[j] = verdict[j]
          /\ cleared'[j] = cleared[j]
  BY DEF DecideIncident, GateInv, TypeOK
<1>6. TypeOK'
  BY <1>1, <1>3 DEF DecideIncident, GateInv, TypeOK
<1>7. PublicIsDecided' /\ BlockedNotPublic' /\ PublicHasPublicStatus'
  BY <1>3, <1>4, <1>5
     DEF GateInv, PublicIsDecided, BlockedNotPublic, PublicHasPublicStatus, Stored, Held
<1>8. ReviewKept' /\ ReviewsStored'
  BY <1>3, <1>4, <1>5, GateAssumption DEF GateInv, ReviewKept, ReviewsStored, Stored
<1>9. Intent' /\ HistoryExactUnlessRaced'
  BY DEF DecideIncident, GateInv, Intent, HistoryExactUnlessRaced
<1> QED
  BY <1>6, <1>7, <1>8, <1>9 DEF GateInv

\* A transaction on a source opens with a decided row as its intent.
LEMMA ReadStep ==
    ASSUME GateInv, NEW w \in Workers, NEW k \in LegalSources,
           NEW s \in ReviewStatuses, Read(w, k, Decided(source[k], s))
    PROVE  GateInv'
<1>1. source[k] \in SourceRows /\ Decided(source[k], s) \in SourceRows
  BY DecidedRow DEF GateInv, TypeOK
<1>2. Decided(source[k], s).public = (Decided(source[k], s).status \in PublicStatuses)
  BY <1>1 DEF Decided, SourceRows
<1>3. TypeOK'
  BY <1>1 DEF Read, GateInv, TypeOK, Transactions
<1>4. Intent'
  <2>1. tx'[w].wants = Decided(source[k], s)
    BY DEF Read, GateInv, TypeOK
  <2>2. \A v \in Workers : v # w => tx'[v] = tx[v]
    BY DEF Read, GateInv, TypeOK
  <2> QED
    BY <1>2, <2>1, <2>2 DEF GateInv, Intent
<1>5. /\ PublicIsDecided' /\ BlockedNotPublic' /\ PublicHasPublicStatus'
      /\ ReviewKept' /\ ReviewsStored' /\ HistoryExactUnlessRaced'
  BY DEF Read, GateInv, PublicIsDecided, BlockedNotPublic, PublicHasPublicStatus,
         ReviewKept, ReviewsStored, HistoryExactUnlessRaced, Stored, Held
<1> QED
  BY <1>3, <1>4, <1>5 DEF GateInv

\* A commit over the row that was read stores the intent, whose status it also
\* records; any other commit is a race.
LEMMA CommitStep ==
    ASSUME GateInv, NEW w \in Workers, Commit(w)
    PROVE  GateInv'
<1> DEFINE k == tx[w].source
<1>1. /\ tx[w] # NoTx /\ tx[w] \in Transactions
      /\ Written(w) \in SourceRows
      /\ tx[w].loaded = source[k] => Written(w) = tx[w].wants
  BY FreshWrite DEF Commit, GateInv
<1>2. k \in LegalSources /\ tx[w].wants \in SourceRows
  BY <1>1 DEF Transactions
<1>3. /\ source' = [source EXCEPT ![k] = Written(w)]
      /\ latest' = [latest EXCEPT ![k] = tx[w].wants.status]
      /\ raced' = [raced EXCEPT ![k] = @ \/ tx[w].loaded # source[k]]
      /\ tx' = [tx EXCEPT ![w] = NoTx]
      /\ UNCHANGED <<incident, verdict, cleared>>
  BY DEF Commit
<1>4. TypeOK'
  <2>1. source' \in [LegalSources -> SourceRows]
    BY <1>1, <1>3 DEF GateInv, TypeOK
  <2>2. latest' \in [LegalSources -> ReviewStatuses \cup {NoReview}]
    BY <1>2, <1>3 DEF GateInv, TypeOK, SourceRows
  <2>3. raced' \in [LegalSources -> BOOLEAN]
    BY <1>3 DEF GateInv, TypeOK
  <2>4. tx' \in [Workers -> Transactions \cup {NoTx}]
    BY <1>3 DEF GateInv, TypeOK
  <2> QED
    BY <1>3, <2>1, <2>2, <2>3, <2>4 DEF GateInv, TypeOK
<1>5. Intent'
  BY <1>3 DEF GateInv, TypeOK, Intent
<1>6. HistoryExactUnlessRaced'
  <2>1. ASSUME ~raced'[k]
        PROVE  source'[k] = [status |-> latest'[k], public |-> latest'[k] \in PublicStatuses]
    <3>1. tx[w].loaded = source[k]
      BY <1>2, <1>3, <2>1 DEF GateInv, TypeOK
    <3>2. source'[k] = tx[w].wants /\ latest'[k] = tx[w].wants.status
      BY <1>1, <1>2, <1>3, <3>1 DEF GateInv, TypeOK
    <3>3. tx[w].wants.public = (tx[w].wants.status \in PublicStatuses)
      BY <1>1 DEF GateInv, Intent
    <3> QED
      BY <1>2, <3>2, <3>3 DEF SourceRows
  <2>2. \A j \in LegalSources : j # k =>
            /\ source'[j] = source[j] /\ latest'[j] = latest[j] /\ raced'[j] = raced[j]
    BY <1>3 DEF GateInv, TypeOK
  <2> QED
    BY <2>1, <2>2 DEF GateInv, HistoryExactUnlessRaced
<1>7. /\ PublicIsDecided' /\ BlockedNotPublic' /\ PublicHasPublicStatus'
      /\ ReviewKept' /\ ReviewsStored'
  BY <1>3 DEF GateInv, PublicIsDecided, BlockedNotPublic, PublicHasPublicStatus,
              ReviewKept, ReviewsStored, Stored, Held
<1> QED
  BY <1>4, <1>5, <1>6, <1>7 DEF GateInv

\* A closed session leaves no trace.
LEMMA RollbackStep ==
    ASSUME GateInv, NEW w \in Workers, Rollback(w)
    PROVE  GateInv'
  BY DEF Rollback, GateInv, TypeOK, Intent, PublicIsDecided, BlockedNotPublic,
         PublicHasPublicStatus, ReviewKept, ReviewsStored, HistoryExactUnlessRaced,
         Stored, Held

\* No step changes what the invariant reads.
LEMMA GateStutter == GateInv /\ UNCHANGED vars => GateInv'
  BY DEF vars, GateInv, TypeOK, Intent, PublicIsDecided, BlockedNotPublic,
         PublicHasPublicStatus, ReviewKept, ReviewsStored, HistoryExactUnlessRaced,
         Stored, Held

\* Every step keeps the invariant.
LEMMA GateStep == GateInv /\ [Next]_vars => GateInv'
<1> SUFFICES ASSUME GateInv, [Next]_vars PROVE GateInv'
  OBVIOUS
<1>1. ASSUME NEW i \in Incidents, NEW r \in Imports[i], Import(i, r) PROVE GateInv'
  BY <1>1, ImportStep
<1>2. ASSUME NEW i \in AdapterFed, AdapterInsert(i) PROVE GateInv'
  BY <1>2, AdapterStep
<1>3. ASSUME NEW i \in Incidents, NEW s \in Decisions, DecideIncident(i, s)
      PROVE  GateInv'
  BY <1>3, DecideIncidentStep
<1>4. ASSUME NEW k \in LegalSources, NEW s \in Decisions, ReadToDecide(k, s)
      PROVE  GateInv'
  BY <1>4, ReadStep, GateAssumption DEF ReadToDecide, Workers
<1>5. ASSUME NEW t \in Threads, NEW k \in LegalSources, ReadToRetract(t, k)
      PROVE  GateInv'
  <2>1. "removed_from_public" \in ReviewStatuses
    BY DEF ReviewStatuses
  <2> QED
    BY <1>5, <2>1, ReadStep DEF ReadToRetract, Workers
<1>6. ASSUME NEW w \in Workers, Commit(w) \/ Rollback(w) PROVE GateInv'
  BY <1>6, CommitStep, RollbackStep
<1>7. CASE UNCHANGED vars
  BY <1>7, GateStutter
<1> QED
  BY <1>1, <1>2, <1>3, <1>4, <1>5, <1>6, <1>7 DEF Next

\* The invariant holds for any incidents, sources and retracting threads.
THEOREM GateIsInvariant == Spec => []GateInv
  BY GateInit, GateStep, PTL DEF Spec

\* The rows, transactions and history variables keep their types.
THEOREM GateTypes == Spec => []TypeOK
  BY GateIsInvariant, PTL DEF GateInv

\* No incident of a held source is public without a reviewer's decision on the
\* fields stored, and no other incident without one or a passed auto_review.
THEOREM NothingPublicUndecided == Spec => []PublicIsDecided
  BY GateIsInvariant, PTL DEF GateInv

\* Blocked text is public only if a reviewer approved it.
THEOREM BlockedStaysHidden == Spec => []BlockedNotPublic
  BY GateIsInvariant, PTL DEF GateInv

\* The flag alone suffices to decide whether an incident may be shown.
THEOREM FlagIsEnough == Spec => []PublicHasPublicStatus
  BY GateIsInvariant, PTL DEF GateInv

\* Re-import keeps the reviewers' decisions other than rejections and the
\* status of auto_review.
THEOREM ReviewsSurviveImport == Spec => []ReviewKept
  BY GateIsInvariant, PTL DEF GateInv

\* A difference between a source and its last review comes from a stale read.
THEOREM OnlyRacesHideReviews == Spec => []HistoryExactUnlessRaced
  BY GateIsInvariant, PTL DEF GateInv
================================================================================
