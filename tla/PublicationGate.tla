---------------------------- MODULE PublicationGate ----------------------------
(***************************************************************************)
(* What makes a crime incident or a legal source public: the reviewer's    *)
(* decision and the retraction (api/routes/admin_review.py), the import of *)
(* an incident (ingestion/crime_sources/persistence.py with                *)
(* services/auto_review.py) and the adapter's insert                       *)
(* (ingestion/source_runner.py).                                           *)
(*                                                                         *)
(* One process serves the API (entrypoint.sh).  Decisions and imports are  *)
(* coroutines that do not await between their first query and their        *)
(* commit, so the event loop runs them one at a time.  retract_legal_      *)
(* source is a plain function: it runs in the thread pool, and a decision  *)
(* on the same source can overlap it.                                      *)
(***************************************************************************)
CONSTANTS
    Incidents,      \* CrimeIncident rows, each named by (source_name, external_id)
    LegalSources,   \* LegalSource rows
    Contents,       \* values of the safety-sensitive fields of an incident
    Blocked,        \* the contents auto_review answers with "block"
    Imports,        \* the records an import can hold for each incident
    AdapterFed,     \* the incidents of sources that have an adapter
    Loop, Threads,  \* the event loop, and the threads that run retractions
    Decisions,      \* the statuses reviewers choose
    Absent, NoTx, NoReview

PublicStatuses == {"verified_court_record", "official_police_open_data_report",
                   "news_only_context", "corrected"}
ReviewStatuses == PublicStatuses \cup
    {"pending_review", "disputed", "rejected", "removed_from_public"}
MachineApproved == "official_police_open_data_report"

\* content: the fields; provenance: it has a source URL, and a batch hash unless
\* its source is static reference data; auto: the registry and the source's tier
\* allow automatic publication; snapshot: the importer passes a snapshot id.
Records == [content : Contents, provenance : BOOLEAN, auto : BOOLEAN,
            snapshot : BOOLEAN]
IncidentRows == [status : ReviewStatuses, public : BOOLEAN, content : Contents,
                 snapshot : BOOLEAN]
SourceRows == [status : ReviewStatuses, public : BOOLEAN]

ASSUME GateAssumption ==
    /\ Blocked \subseteq Contents
    /\ Imports \in [Incidents -> SUBSET Records]
    /\ AdapterFed \subseteq Incidents
    /\ Loop \notin Threads
    /\ Decisions \subseteq ReviewStatuses
    /\ Absent \notin IncidentRows
    /\ NoTx \notin [source : LegalSources, loaded : SourceRows, wants : SourceRows]
    /\ NoReview \notin ReviewStatuses

VARIABLES
    incident,   \* Incidents -> row, or Absent
    source,     \* LegalSources -> row
    tx,         \* the open transaction of Loop and of each thread on a source
    verdict,    \* history: the decision that stands for the stored fields
    cleared,    \* history: the last import's auto_review said "publish"
    latest,     \* LegalSources -> new_status of the last EvidenceReview row
    raced       \* history: a transaction committed over a row it had not read

vars == <<incident, source, tx, verdict, cleared, latest, raced>>

Workers == {Loop} \cup Threads

Init ==
    /\ incident = [i \in Incidents |-> Absent]
    /\ source = [k \in LegalSources |-> [status |-> "pending_review", public |-> FALSE]]
    /\ tx = [w \in Workers |-> NoTx]
    /\ verdict = [i \in Incidents |-> NoReview]
    /\ cleared = [i \in Incidents |-> FALSE]
    /\ latest = [k \in LegalSources |-> NoReview]
    /\ raced = [k \in LegalSources |-> FALSE]

--------------------------------------------------------------------------------
(* Import.  The gates of auto_review, in its order: no provenance holds the  *)
(* record before its text is looked at, then the text may block it, then the *)
(* tier decides.  context_only needs a news source with a batch hash, which  *)
(* no importer passes.  Coordinates are validated before, so the confidence  *)
(* of an "auto" record never falls below the threshold.                      *)

Blocks(r)    == r.provenance /\ r.content \in Blocked
Publishes(r) == r.provenance /\ r.content \notin Blocked /\ r.auto
Holds(r)     == ~Blocks(r) /\ ~Publishes(r)

Suggested(r) == IF Publishes(r) THEN MachineApproved ELSE "pending_review"

\* A row added to the session.  A block raises after the row was added, the
\* importer skips the record without expunging it and commits the batch: the
\* row is stored with the column defaults and without its snapshot.
New(r) ==
    [status |-> Suggested(r), public |-> Publishes(r), content |-> r.content,
     snapshot |-> r.snapshot /\ ~Blocks(r)]

\* Mutant: is_public is assigned with the decision only.
RefreshKeepsFlag(old, r) ==
    LET reset == ~Blocks(r) /\ (r.content # old.content \/ old.status = "rejected")
    IN [old EXCEPT !.content = r.content,
                   !.public = IF reset THEN Publishes(r) ELSE @,
                   !.status = IF reset THEN Suggested(r) ELSE @]

\* Mutant: any re-import asks for a new review.
RefreshResets(old, r) ==
    [old EXCEPT !.content = r.content, !.public = Publishes(r),
                !.status = IF Blocks(r) THEN @ ELSE Suggested(r)]

\* Mutant: a hold keeps what the row had.
RefreshHoldKeeps(old, r) ==
    [old EXCEPT !.content = r.content,
                !.public = IF Holds(r) THEN @ ELSE Publishes(r),
                !.status = IF Holds(r) THEN "pending_review" ELSE @]

\* An existing row.  The fields and is_public = record.is_public (every importer
\* passes False) are assigned before the review, so a block leaves them behind.
Refreshed(old, r) ==
    LET reset == ~Blocks(r) /\ (r.content # old.content \/ old.status = "rejected")
    IN [old EXCEPT !.content = r.content,
                   !.public = reset /\ Publishes(r),
                   !.status = IF reset THEN Suggested(r)
                              ELSE IF Holds(r) /\ @ = MachineApproved
                                   THEN "pending_review" ELSE @]

\* persist_crime_incident for one record, and the commit of its batch.  A batch
\* that fails is rolled back as a whole and changes nothing.
Import(i, r) ==
    /\ tx[Loop] = NoTx
    /\ r \in Imports[i]
    /\ incident' = [incident EXCEPT ![i] =
                        IF @ = Absent THEN New(r) ELSE Refreshed(@, r)]
    /\ verdict' = [verdict EXCEPT ![i] =
                        IF incident[i] # Absent /\ incident[i].content = r.content
                        THEN @ ELSE NoReview]
    /\ cleared' = [cleared EXCEPT ![i] = Publishes(r)]
    /\ UNCHANGED <<source, tx, latest, raced>>

\* _insert_crime_incident: adapters insert a row once, hidden and pending, with
\* the snapshot of their run.  They work in other threads, but only on new rows.
AdapterInsert(i) ==
    /\ incident[i] = Absent
    /\ \E r \in Imports[i] :
          incident' = [incident EXCEPT ![i] =
              [status |-> "pending_review", public |-> FALSE,
               content |-> r.content, snapshot |-> TRUE]]
    /\ UNCHANGED <<source, tx, verdict, cleared, latest, raced>>
--------------------------------------------------------------------------------
(* Decisions and retractions. *)

\* Mutant: the flag is only ever raised.
DecidedRaises(row, s) ==
    [row EXCEPT !.status = s, !.public = @ \/ s \in PublicStatuses]

\* The two columns admin_review_decision assigns.
Decided(row, s) == [row EXCEPT !.status = s, !.public = s \in PublicStatuses]

\* admin_review_decision on an incident: publication needs a stored snapshot.
DecideIncident(i, s) ==
    /\ tx[Loop] = NoTx
    /\ incident[i] # Absent
    /\ s \in PublicStatuses => incident[i].snapshot
    /\ incident' = [incident EXCEPT ![i] = Decided(@, s)]
    /\ verdict' = [verdict EXCEPT ![i] = s]
    /\ cleared' = [cleared EXCEPT ![i] = FALSE]
    /\ UNCHANGED <<source, tx, latest, raced>>

Read(w, k, value) ==
    /\ tx[w] = NoTx
    /\ tx' = [tx EXCEPT ![w] = [source |-> k, loaded |-> source[k], wants |-> value]]
    /\ UNCHANGED <<incident, source, verdict, cleared, latest, raced>>

\* admin_review_decision on a legal source, up to its commit.
ReadToDecide(k, s) == Read(Loop, k, Decided(source[k], s))

\* Mutant: the retraction leaves the flag.
ReadToHideStatus(t, k) == Read(t, k, [source[k] EXCEPT !.status = "removed_from_public"])

\* retract_legal_source, up to its commit.
ReadToRetract(t, k) == Read(t, k, Decided(source[k], "removed_from_public"))

\* The UPDATE sets the columns whose value differs from the one read.
Written(w) ==
    LET k == tx[w].source  loaded == tx[w].loaded  wants == tx[w].wants
    IN [status |-> IF wants.status # loaded.status THEN wants.status
                   ELSE source[k].status,
        public |-> IF wants.public # loaded.public THEN wants.public
                   ELSE source[k].public]

\* The commit, with the EvidenceReview row of the same transaction.
Commit(w) ==
    /\ tx[w] # NoTx
    /\ LET k == tx[w].source
       IN /\ source' = [source EXCEPT ![k] = Written(w)]
          /\ latest' = [latest EXCEPT ![k] = tx[w].wants.status]
          /\ raced' = [raced EXCEPT ![k] = @ \/ tx[w].loaded # source[k]]
    /\ tx' = [tx EXCEPT ![w] = NoTx]
    /\ UNCHANGED <<incident, verdict, cleared>>

\* An error before the commit: the session is closed.
Rollback(w) ==
    /\ tx[w] # NoTx
    /\ tx' = [tx EXCEPT ![w] = NoTx]
    /\ UNCHANGED <<incident, source, verdict, cleared, latest, raced>>

Next ==
    \/ \E i \in Incidents : \E r \in Imports[i] : Import(i, r)
    \/ \E i \in AdapterFed : AdapterInsert(i)
    \/ \E i \in Incidents, s \in Decisions : DecideIncident(i, s)
    \/ \E k \in LegalSources, s \in Decisions : ReadToDecide(k, s)
    \/ \E t \in Threads, k \in LegalSources : ReadToRetract(t, k)
    \/ \E w \in Workers : Commit(w) \/ Rollback(w)

Spec == Init /\ [][Next]_vars

--------------------------------------------------------------------------------
Transactions == [source : LegalSources, loaded : SourceRows, wants : SourceRows]

\* The rows, the open transactions and the history keep their types.
TypeOK ==
    /\ incident \in [Incidents -> IncidentRows \cup {Absent}]
    /\ source \in [LegalSources -> SourceRows]
    /\ tx \in [Workers -> Transactions \cup {NoTx}]
    /\ verdict \in [Incidents -> ReviewStatuses \cup {NoReview}]
    /\ cleared \in [Incidents -> BOOLEAN]
    /\ latest \in [LegalSources -> ReviewStatuses \cup {NoReview}]
    /\ raced \in [LegalSources -> BOOLEAN]

Stored == {i \in Incidents : incident[i] # Absent}

\* No record of this incident can be published by auto_review alone.
Held(i) == \A r \in Imports[i] : ~Publishes(r)

\* docs/REVIEW_WORKFLOW.md:9 and auto_review.py: a public incident was published
\* by a reviewer who decided on exactly the fields now stored, or, if its source
\* is not on hold, by the auto_review of the last import.
PublicIsDecided ==
    \A i \in Stored : incident[i].public =>
        verdict[i] \in PublicStatuses \/ (cleared[i] /\ ~Held(i))

\* auto_review.py:12: text that auto_review blocks is stored (see README) but
\* shown only if a reviewer approved that text.
BlockedNotPublic ==
    \A i \in Stored : incident[i].public /\ incident[i].content \in Blocked =>
        verdict[i] \in PublicStatuses

\* services/evidence_chat.py:203 looks at is_public alone: the flag must not be
\* up while the status is one that hides the incident.
PublicHasPublicStatus ==
    \A i \in Stored : incident[i].public => incident[i].status \in PublicStatuses

\* persistence.py:72 "Preserve existing review status unless safety fields
\* changed": a decision other than a rejection, and other than the status
\* auto_review itself writes, stands while the fields stay the same.
ReviewKept ==
    \A i \in Stored :
        verdict[i] \notin {NoReview, "rejected", MachineApproved} =>
            incident[i].status = verdict[i]

\* README.md:403 says the same of every review status, rejections included.
RejectionKept ==
    \A i \in Stored : verdict[i] = "rejected" => incident[i].status = "rejected"

\* What the public endpoints show: serializers/public.py is_public_source.
Served(k) == source[k].public /\ source[k].status \in PublicStatuses

\* admin_review.py:336 "Permanently retract a legal source from public
\* visibility": while a retraction is the last review, the source is not shown.
RetractionHides ==
    \A k \in LegalSources : latest[k] = "removed_from_public" => ~Served(k)

\* The last EvidenceReview row describes the source exactly, unless two
\* transactions on it overlapped: a stale read is the only cause of a difference.
HistoryExactUnlessRaced ==
    \A k \in LegalSources :
        ~raced[k] /\ latest[k] # NoReview =>
            source[k] = [status |-> latest[k], public |-> latest[k] \in PublicStatuses]
================================================================================
