---------------------------- MODULE SourceRunsProofs ----------------------------
(***************************************************************************)
(* Proofs about SourceRuns, for any sources, sessions, replicas, advisory  *)
(* keys and finite results.                                                *)
(***************************************************************************)
EXTENDS SourceRuns, FiniteSetTheorems, TLAPS

\* A session on a run row of its own; the CourtListener run has none yet.
Live(p) == ses[p].pc \in {"fetching", "flushed"} /\ ses[p].path # "court"

\* The row of a session at work is as it was when the run started.
Fresh(p) ==
    LET i == ses[p].run IN
    /\ i \in DOMAIN runs
    /\ runs[i].status = "running" /\ runs[i].stage = "none" /\ ~runs[i].refused
    /\ runs[i].left = "open" /\ runs[i].path = ses[p].path
    /\ runs[i].source = ses[p].source

OwnFresh == \A p \in Sessions : Live(p) => Fresh(p)

\* No two sessions work on one row.
OwnedOnce ==
    \A p, q \in Sessions : Live(p) /\ Live(q) /\ ses[p].run = ses[q].run => p = q

\* How the session of a row parted from it says why the row may be running.
Parted ==
    \A i \in DOMAIN runs :
        /\ runs[i].left = "open" => \E p \in Sessions : Live(p) /\ ses[p].run = i
        /\ runs[i].status = "running" =>
            /\ runs[i].stage = "none" /\ runs[i].left # "closed"
            /\ runs[i].left = "raised" => runs[i].path = "job"
            /\ runs[i].left = "unsaved" => runs[i].path = "cli"

\* What a session brings to its commit.  Only a result that was persisted writes and
\* counts; only the adapter of the CourtListener run raises late, and that run has no
\* row yet; what is counted is written, except by the CourtListener run.
Fits(d) ==
    /\ d.pc = "fetching" => d.new = {} /\ d.upd = {} /\ d.count = 0 /\ d.result = "ok"
    /\ d.result # "ok" => d.new = {} /\ d.upd = {} /\ d.count = 0
    /\ d.path # "court" => d.result # "raised"
    /\ d.path = "court" => d.run = 0
    /\ d.upd \subseteq Instruments
    /\ d.new \ Instruments \subseteq d.counted
    /\ Cardinality(d.counted) <= d.count
    /\ d.path = "court" => d.new \subseteq Events
    /\ d.path # "court" =>
        /\ d.counted \subseteq d.new \cup d.upd
        /\ d.counted \cap Events = {}
        /\ d.counted \cap Instruments = {} => d.count = Cardinality(d.counted)

Brought == \A p \in Sessions : Fits(ses[p])

\* A CourtListener run without errors counts what it inserts or what is stored.
Whole(d) ==
    d.pc = "flushed" /\ d.path = "court" /\ ~d.errors
        => d.counted \subseteq d.new \cup Stored(Court)

Lossless == \A p \in Sessions : Whole(ses[p])

\* A counter that is still zero has counted nothing.
LEMMA NothingCounted ==
    ASSUME NEW S \in SUBSET Recs, Cardinality(S) <= 0
    PROVE  S = {}
  BY FS_Subset, FS_EmptySet, FS_CardinalityType, SourceRunsAssumption

\* Only the CourtListener run counts docket entries.
CountsApart ==
    \A i \in DOMAIN runs : runs[i].path # "court" => runs[i].counted \cap Events = {}

\* Records name runs that have a row, or none.
RowsKnown == \A x \in rows : x.run \in 0..Len(runs)

RunInv ==
    /\ TypeOK /\ OwnFresh /\ OwnedOnce /\ Parted /\ Brought /\ Lossless /\ RowsKnown
    /\ CountsApart /\ CountsExplained /\ JobRefusalKept

--------------------------------------------------------------------------------
\* Sets of records are counted by natural numbers.
LEMMA Counted ==
    ASSUME NEW S \in SUBSET Recs
    PROVE  IsFiniteSet(S) /\ Cardinality(S) \in Nat
  BY FS_Subset, FS_CardinalityType, SourceRunsAssumption

\* The records of a table whose rows name run i, and those of source s.
MineIn(table, i) == {x.rec : x \in {y \in table : y.run = i}}
StoredIn(table, s) == {x.rec : x \in {y \in table : y.source = s}}

\* What CountsExplained says of one run, given its records and those of its source.
Explained(run, mine, stored) ==
    /\ mine \ Instruments \subseteq run.counted
    /\ run.path # "court" => run.counted \ Instruments \subseteq mine
    /\ run.path # "court" \/ run.status = "completed" => run.counted \subseteq stored
    /\ Cardinality(run.counted) <= run.persisted
    /\ run.path # "court" /\ run.counted \cap Instruments = {}
          => run.persisted = Cardinality(run.counted)
    /\ run.refused \/ run.status \in {"running", "failed"}
          => mine = {} /\ run.counted = {} /\ run.persisted = 0

LEMMA CountsAre ==
    /\ CountsExplained <=>
          \A i \in DOMAIN runs :
              Explained(runs[i], MineIn(rows, i), StoredIn(rows, runs[i].source))
    /\ CountsExplained' <=>
          \A i \in DOMAIN runs' :
              Explained(runs'[i], MineIn(rows', i), StoredIn(rows', runs'[i].source))
    /\ Stored(Court) = StoredIn(rows, Court)
    /\ Stored(Court)' = StoredIn(rows', Court)
  BY DEF CountsExplained, Explained, MineIn, StoredIn, Stored

\* A run stays explained when it loses no record it counts but instruments, and more
\* is stored.
LEMMA ExplainedKept ==
    ASSUME NEW run, NEW mine, NEW stored, NEW mine2, NEW stored2,
           Explained(run, mine, stored),
           mine2 \subseteq mine, stored \subseteq stored2,
           run.path # "court" => (mine \ mine2) \cap run.counted \subseteq Instruments
    PROVE  Explained(run, mine2, stored2)
  BY DEF Explained

\* A row that has stored and counted nothing.
LEMMA EmptyExplained ==
    ASSUME NEW run, NEW stored, run.counted = {}, run.persisted = 0
    PROVE  Explained(run, {}, stored)
  BY FS_EmptySet DEF Explained

\* The column left is not looked at.
LEMMA ExplainedAlike ==
    ASSUME NEW run, NEW other, NEW mine, NEW stored, Explained(run, mine, stored),
           other.path = run.path, other.status = run.status, other.refused = run.refused,
           other.counted = run.counted, other.persisted = run.persisted
    PROVE  Explained(other, mine, stored)
  BY DEF Explained

\* Writing records for run i gives it these, takes none but them from any other run,
\* and leaves every record that was stored stored.
LEMMA AddGives ==
    ASSUME NEW s, NEW recs, NEW i, Add(s, recs, i)
    PROVE  /\ \A j : j # i => MineIn(rows', j) \subseteq MineIn(rows, j)
           /\ \A j : MineIn(rows, j) \ MineIn(rows', j) \subseteq recs \cap StoredIn(rows, s)
           /\ MineIn(rows, i) = {} => MineIn(rows', i) = recs
           /\ \A t : StoredIn(rows, t) \subseteq StoredIn(rows', t)
           /\ recs \subseteq StoredIn(rows', s)
<1> DEFINE keep == {x \in rows : x.source # s \/ x.rec \notin recs}
           added == {[source |-> s, rec |-> x, run |-> i] : x \in recs}
<1>1. rows' = keep \cup added
  BY DEF Add
<1>2. \A x \in added : x.source = s /\ x.rec \in recs /\ x.run = i
  OBVIOUS
<1>3. \A x \in recs : \E y \in added : y.source = s /\ y.rec = x /\ y.run = i
  <2> SUFFICES ASSUME NEW x \in recs
               PROVE  \E y \in added : y.source = s /\ y.rec = x /\ y.run = i
    OBVIOUS
  <2> DEFINE y == [source |-> s, rec |-> x, run |-> i]
  <2>1. y \in added /\ y.source = s /\ y.rec = x /\ y.run = i
    OBVIOUS
  <2> HIDE DEF y, added
  <2> QED
    BY <2>1
<1>4. \A x \in rows : x \in keep \/ (x.source = s /\ x.rec \in recs)
  OBVIOUS
<1>5. keep \subseteq rows
  OBVIOUS
<1> HIDE DEF keep, added
<1>6. \A j : j # i => MineIn(rows', j) \subseteq MineIn(rows, j)
  BY <1>1, <1>2, <1>5 DEF MineIn
<1>7. \A j : MineIn(rows, j) \ MineIn(rows', j) \subseteq recs \cap StoredIn(rows, s)
  BY <1>1, <1>4 DEF MineIn, StoredIn
<1>8. MineIn(rows, i) = {} => MineIn(rows', i) = recs
  BY <1>1, <1>2, <1>3, <1>5 DEF MineIn
<1>9. \A t : StoredIn(rows, t) \subseteq StoredIn(rows', t)
  BY <1>1, <1>3, <1>4 DEF StoredIn
<1>10. recs \subseteq StoredIn(rows', s)
  BY <1>1, <1>3 DEF StoredIn
<1> QED
  BY <1>6, <1>7, <1>8, <1>9, <1>10

\* Appending a row keeps the others.
LEMMA Appended ==
    ASSUME runs \in Seq(RunRows), NEW r \in RunRows
    PROVE  /\ Append(runs, r) \in Seq(RunRows)
           /\ Len(Append(runs, r)) = Len(runs) + 1
           /\ DOMAIN Append(runs, r) = DOMAIN runs \cup {Len(runs) + 1}
           /\ \A i \in DOMAIN runs : Append(runs, r)[i] = runs[i] /\ i # Len(runs) + 1
           /\ Append(runs, r)[Len(runs) + 1] = r
           /\ DOMAIN runs = 1..Len(runs) /\ Len(runs) \in Nat
  OBVIOUS

\* A new row is a row.
LEMMA NewRunRow ==
    ASSUME NEW s \in Sources, NEW path \in Paths, NEW status \in Statuses,
           NEW stage \in Stages
    PROVE  NewRun(s, path, status, stage) \in RunRows
  BY DEF NewRun, RunRows

\* The sessions' rest state.
LEMMA IdleRow == Idle \in SessionRows
  BY SourceRunsAssumption DEF Idle, SessionRows, Paths, Results

\* A session at rest brings nothing, and a job that waits to write the health of its
\* source brings what it did.
LEMMA IdleFits == Fits(Idle)
  BY FS_EmptySet DEF Fits, Idle

LEMMA HealthFits ==
    ASSUME NEW d \in SessionRows, Fits(d), d.path # "court"
    PROVE  Fits([d EXCEPT !.pc = "health"])
  BY DEF Fits, SessionRows

--------------------------------------------------------------------------------
\* A step that leaves rows, runs and sessions alone.
LEMMA RegistryStep ==
    ASSUME RunInv, TypeOK', UNCHANGED <<runs, rows, ses>>
    PROVE  RunInv'
<1>1. CountsExplained' /\ CountsApart'
  BY DEF RunInv, CountsExplained, CountsApart, Stored
<1>2. OwnFresh' /\ OwnedOnce' /\ Parted'
  BY DEF RunInv, OwnFresh, OwnedOnce, Parted, Live, Fresh
<1>3. Brought' /\ Lossless' /\ RowsKnown' /\ JobRefusalKept'
  BY DEF RunInv, Brought, Fits, Lossless, Whole, Stored, RowsKnown, JobRefusalKept
<1> QED
  BY <1>1, <1>2, <1>3 DEF RunInv

\* A row is appended that has stored nothing; no run loses what it stored.
LEMMA RowAppended ==
    ASSUME RunInv, UNCHANGED rows, NEW r \in RunRows, runs' = Append(runs, r),
           r.persisted = 0, r.counted = {}
    PROVE  CountsExplained' /\ CountsApart'
<1>1. /\ DOMAIN runs' = DOMAIN runs \cup {Len(runs) + 1}
      /\ \A i \in DOMAIN runs : runs'[i] = runs[i] /\ i # Len(runs) + 1
      /\ runs'[Len(runs) + 1] = r
      /\ DOMAIN runs = 1..Len(runs) /\ Len(runs) \in Nat
  BY Appended DEF RunInv, TypeOK
<1>2. MineIn(rows, Len(runs) + 1) = {}
  BY <1>1 DEF RunInv, RowsKnown, MineIn
<1>3. Explained(r, {}, StoredIn(rows', r.source))
  BY EmptyExplained
<1>4. CountsExplained'
  BY <1>1, <1>2, <1>3, CountsAre DEF RunInv
<1>5. CountsApart'
  BY <1>1 DEF RunInv, CountsApart
<1> QED
  BY <1>4, <1>5

\* A row that is appended closed and with nothing stored.
LEMMA ClosedRowStep ==
    ASSUME RunInv, TypeOK', UNCHANGED <<rows, ses>>,
           NEW r \in RunRows, runs' = Append(runs, r),
           r.status = "failed", r.left = "closed", ~r.refused, r.persisted = 0,
           r.counted = {}
    PROVE  RunInv'
<1>1. runs \in Seq(RunRows)
  BY DEF RunInv, TypeOK
<1>2. /\ Len(runs') = Len(runs) + 1
      /\ DOMAIN runs' = DOMAIN runs \cup {Len(runs) + 1}
      /\ \A i \in DOMAIN runs : runs'[i] = runs[i] /\ i # Len(runs) + 1
      /\ runs'[Len(runs) + 1] = r
      /\ DOMAIN runs = 1..Len(runs) /\ Len(runs) \in Nat
  BY <1>1, Appended
<1>3. OwnFresh' /\ OwnedOnce' /\ Brought' /\ Lossless'
  BY <1>2 DEF RunInv, OwnFresh, OwnedOnce, Brought, Fits, Lossless, Whole, Stored, Live, Fresh
<1>4. Parted'
  BY <1>2 DEF RunInv, Parted, Live
<1>5. RowsKnown'
  BY <1>2 DEF RunInv, RowsKnown
<1>6. CountsExplained' /\ CountsApart'
  BY RowAppended
<1>7. JobRefusalKept'
  BY <1>2 DEF RunInv, JobRefusalKept
<1> QED
  BY <1>3, <1>4, <1>5, <1>6, <1>7 DEF RunInv

\* A session that owns no run row, and does not after the step.
LEMMA OwnerlessStep ==
    ASSUME RunInv, TypeOK', UNCHANGED <<runs, rows>>,
           NEW p \in Sessions, ~Live(p),
           NEW d \in SessionRows, ses' = [ses EXCEPT ![p] = d],
           d.pc \in {"fetching", "flushed"} => d.path = "court",
           Fits(d), Whole(d)
    PROVE  RunInv'
<1>1. ses \in [Sessions -> SessionRows]
  BY DEF RunInv, TypeOK
<1>2. ses'[p] = d /\ \A q \in Sessions : q # p => ses'[q] = ses[q]
  BY <1>1
<1>3. \A q \in Sessions : Live(q)' <=> Live(q)
  BY <1>2 DEF Live
<1>4. CountsExplained' /\ CountsApart'
  BY DEF RunInv, CountsExplained, CountsApart, Stored
<1>5. OwnFresh'
  BY <1>2, <1>3 DEF RunInv, OwnFresh, Fresh
<1>6. OwnedOnce'
  BY <1>2, <1>3 DEF RunInv, OwnedOnce
<1>7. Parted'
  BY <1>2, <1>3 DEF RunInv, Parted
<1>8. Brought' /\ Lossless'
  BY <1>2 DEF RunInv, Brought, Fits, Lossless, Whole, Stored
<1>9. RowsKnown' /\ JobRefusalKept'
  BY DEF RunInv, RowsKnown, JobRefusalKept
<1> QED
  BY <1>4, <1>5, <1>6, <1>7, <1>8, <1>9 DEF RunInv

\* A session at work goes on: its run and its path stay.
LEMMA WorkingStep ==
    ASSUME RunInv, TypeOK', UNCHANGED <<runs, rows>>,
           NEW p \in Sessions, Live(p),
           NEW d \in SessionRows, ses' = [ses EXCEPT ![p] = d],
           d.pc = "flushed", d.path = ses[p].path, d.run = ses[p].run,
           d.source = ses[p].source,
           Fits(d)
    PROVE  RunInv'
<1>1. ses \in [Sessions -> SessionRows]
  BY DEF RunInv, TypeOK
<1>2. ses'[p] = d /\ \A q \in Sessions : q # p => ses'[q] = ses[q]
  BY <1>1
<1>3. \A q \in Sessions : /\ Live(q)' <=> Live(q)
                          /\ ses'[q].run = ses[q].run /\ ses'[q].path = ses[q].path
                          /\ ses'[q].source = ses[q].source
  BY <1>2 DEF Live
<1>4. CountsExplained' /\ CountsApart'
  BY DEF RunInv, CountsExplained, CountsApart, Stored
<1>5. OwnFresh' /\ OwnedOnce'
  BY <1>3 DEF RunInv, OwnFresh, OwnedOnce, Fresh
<1>6. Parted'
  BY <1>3 DEF RunInv, Parted
<1>7. Brought' /\ Lossless'
  BY <1>2, <1>3 DEF RunInv, Brought, Fits, Lossless, Whole, Stored, Live
<1>8. RowsKnown' /\ JobRefusalKept'
  BY DEF RunInv, RowsKnown, JobRefusalKept
<1> QED
  BY <1>4, <1>5, <1>6, <1>7, <1>8 DEF RunInv

\* A run is started: its row is new and the session's own.
LEMMA StartStep ==
    ASSUME RunInv, TypeOK', NEW p \in Sessions, NEW s \in Sources, NEW path \in Paths,
           Start(p, s, path)
    PROVE  RunInv'
<1> DEFINE r == NewRun(s, path, "running", "none")
<1>1. /\ r \in RunRows /\ r.status = "running" /\ r.left = "open" /\ ~r.refused
      /\ r.persisted = 0 /\ r.counted = {} /\ r.stage = "none" /\ r.path = path
      /\ r.source = s
  BY NewRunRow DEF NewRun, Statuses, Stages
<1>2. /\ Len(runs') = Len(runs) + 1
      /\ DOMAIN runs' = DOMAIN runs \cup {Len(runs) + 1}
      /\ \A i \in DOMAIN runs : runs'[i] = runs[i] /\ i # Len(runs) + 1
      /\ runs'[Len(runs) + 1] = r
      /\ DOMAIN runs = 1..Len(runs) /\ Len(runs) \in Nat
  <2>1. runs \in Seq(RunRows)
    BY DEF RunInv, TypeOK
  <2>2. runs' = Append(runs, r)
    BY DEF Start
  <2> HIDE DEF r
  <2> QED
    BY <2>1, <2>2, <1>1, Appended
<1>3. /\ ses'[p].pc = "fetching" /\ ses'[p].path = path /\ path # "court"
      /\ ses'[p].run = Len(runs) + 1 /\ ses'[p].new = {} /\ ses'[p].result = "ok"
      /\ ses'[p].upd = {} /\ ses'[p].counted = {} /\ ses'[p].count = 0
      /\ ses'[p].source = s
      /\ \A q \in Sessions : q # p => ses'[q] = ses[q]
  BY DEF Start, RunInv, TypeOK, Idle
<1>4. ~Live(p) /\ Live(p)' /\ \A q \in Sessions : q # p => (Live(q)' <=> Live(q))
  BY <1>3 DEF Start, Live
<1> HIDE DEF r
<1>5. OwnFresh'
  <2> SUFFICES ASSUME NEW q \in Sessions, Live(q)'
               PROVE  Fresh(q)'
    BY DEF OwnFresh
  <2>1. CASE q = p
    BY <2>1, <1>1, <1>2, <1>3 DEF Fresh
  <2>2. CASE q # p
    BY <2>2, <1>2, <1>3, <1>4 DEF RunInv, OwnFresh, Fresh
  <2> QED
    BY <2>1, <2>2
<1>6. OwnedOnce'
  <2>1. \A q \in Sessions : q # p /\ Live(q) => ses[q].run # Len(runs) + 1
    BY <1>2 DEF RunInv, OwnFresh, Fresh
  <2> QED
    BY <2>1, <1>3, <1>4 DEF RunInv, OwnedOnce
<1>7. Parted'
  <2> SUFFICES ASSUME NEW i \in DOMAIN runs'
               PROVE  /\ runs'[i].left = "open" =>
                            \E q \in Sessions : Live(q)' /\ ses'[q].run = i
                      /\ runs'[i].status = "running" =>
                          /\ runs'[i].stage = "none" /\ runs'[i].left # "closed"
                          /\ runs'[i].left = "raised" => runs'[i].path = "job"
                          /\ runs'[i].left = "unsaved" => runs'[i].path = "cli"
    BY DEF Parted
  <2>1. CASE i \in DOMAIN runs
    BY <2>1, <1>2, <1>3, <1>4 DEF RunInv, Parted
  <2>2. CASE i = Len(runs) + 1
    BY <2>2, <1>1, <1>2, <1>3, <1>4
  <2> QED
    BY <2>1, <2>2, <1>2
<1>8. Brought' /\ Lossless'
  <2>1. Fits(ses'[p])
    BY <1>3, FS_EmptySet DEF Fits
  <2>2. Brought'
    BY <1>3, <2>1 DEF RunInv, Brought
  <2>3. Lossless'
    BY <1>3 DEF Start, RunInv, Lossless, Whole, Stored
  <2> QED
    BY <2>2, <2>3
<1>9. RowsKnown'
  BY <1>2 DEF Start, RunInv, RowsKnown
<1>10. CountsExplained' /\ CountsApart'
  <2>1. runs' = Append(runs, r) /\ UNCHANGED rows
    BY DEF Start, r
  <2> QED
    BY <1>1, <2>1, RowAppended
<1>11. JobRefusalKept'
  BY <1>1, <1>2 DEF RunInv, JobRefusalKept
<1> QED
  BY <1>5, <1>6, <1>7, <1>8, <1>9, <1>10, <1>11 DEF RunInv

\* Records written for a run that had none, or for no run, leave the others explained;
\* each record they replace is an instrument or, of a CourtListener run, any.
LEMMA OthersExplained ==
    ASSUME RunInv, NEW s, NEW recs \in SUBSET Recs, NEW i, Add(s, recs, i),
           recs \cap StoredIn(rows, s) \subseteq Instruments \cup Events,
           NEW j \in DOMAIN runs, j # i
    PROVE  Explained(runs[j], MineIn(rows', j), StoredIn(rows', runs[j].source))
<1>1. Explained(runs[j], MineIn(rows, j), StoredIn(rows, runs[j].source))
  BY CountsAre DEF RunInv
<1>2. /\ MineIn(rows', j) \subseteq MineIn(rows, j)
      /\ StoredIn(rows, runs[j].source) \subseteq StoredIn(rows', runs[j].source)
      /\ MineIn(rows, j) \ MineIn(rows', j) \subseteq recs \cap StoredIn(rows, s)
  BY AddGives
<1>3. runs[j].path # "court" =>
          (MineIn(rows, j) \ MineIn(rows', j)) \cap runs[j].counted \subseteq Instruments
  BY <1>2 DEF RunInv, CountsApart
<1> QED
  BY <1>1, <1>2, <1>3, ExplainedKept

\* Sessions stay whole while no record is deleted.
LEMMA LosslessKept ==
    ASSUME RunInv, NEW s, NEW recs, NEW i, Add(s, recs, i),
           \A q \in Sessions : ses'[q] = ses[q] \/ ses'[q].pc # "flushed"
    PROVE  Lossless'
<1>1. Stored(Court) \subseteq Stored(Court)'
  BY AddGives, CountsAre
<1> SUFFICES ASSUME NEW q \in Sessions, ses'[q].pc = "flushed", ses'[q].path = "court",
                    ~ses'[q].errors
             PROVE  ses'[q].counted \subseteq ses'[q].new \cup Stored(Court)'
  BY DEF Lossless, Whole
<1>2. ses[q].counted \subseteq ses[q].new \cup Stored(Court) /\ ses'[q] = ses[q]
  BY DEF RunInv, Lossless, Whole
<1> QED
  BY <1>1, <1>2

\* A session closes its row, with the records it writes.
LEMMA CloseStep ==
    ASSUME RunInv, TypeOK', NEW p \in Sessions, Live(p),
           NEW status \in Statuses, NEW stage \in Stages, NEW refused \in BOOLEAN,
           NEW recs \in SUBSET Recs, NEW counted \in SUBSET Recs, NEW count \in Nat,
           Close(ses[p].run, status, stage, refused, count, counted),
           Add(ses[p].source, recs, ses[p].run),
           recs \cap StoredIn(rows, ses[p].source) \subseteq Instruments,
           counted \subseteq recs, recs \ Instruments \subseteq counted,
           counted \cap Events = {}, Cardinality(counted) <= count,
           counted \cap Instruments = {} => count = Cardinality(counted),
           status # "running",
           refused \/ status = "failed" => recs = {} /\ count = 0,
           ses[p].path = "job" /\ refused => status \in {"failed", "quarantined"},
           NEW d \in SessionRows, ses' = [ses EXCEPT ![p] = d],
           d.pc \in {"idle", "health"}, Fits(d)
    PROVE  RunInv'
<1> DEFINE i == ses[p].run
<1>1. Fresh(p)
  BY DEF RunInv, OwnFresh
<1>2. runs \in Seq(RunRows) /\ i \in DOMAIN runs /\ i \in Nat \ {0}
  BY <1>1 DEF RunInv, TypeOK, Fresh
<1>3. /\ DOMAIN runs' = DOMAIN runs /\ Len(runs') = Len(runs)
      /\ \A j \in DOMAIN runs : j # i => runs'[j] = runs[j]
      /\ runs'[i].status = status /\ runs'[i].stage = stage /\ runs'[i].refused = refused
      /\ runs'[i].persisted = count /\ runs'[i].counted = counted
      /\ runs'[i].left = "closed"
      /\ runs'[i].path = ses[p].path /\ runs'[i].source = ses[p].source
  BY <1>1, <1>2 DEF Close, Fresh, RunRows
<1>4. ses'[p] = d /\ \A q \in Sessions : q # p => ses'[q] = ses[q]
  BY DEF RunInv, TypeOK
<1>5. \A q \in Sessions : Live(q)' <=> q # p /\ Live(q)
  BY <1>4 DEF Live
<1>6. \A q \in Sessions : Live(q)' => ses[q].run # i
  BY <1>5 DEF RunInv, OwnedOnce
<1>7. OwnFresh'
  BY <1>3, <1>4, <1>5, <1>6 DEF RunInv, OwnFresh, Fresh
<1>8. OwnedOnce'
  BY <1>4, <1>5 DEF RunInv, OwnedOnce
<1>9. Parted'
  <2> SUFFICES ASSUME NEW j \in DOMAIN runs
               PROVE  /\ runs'[j].left = "open" =>
                            \E q \in Sessions : Live(q)' /\ ses'[q].run = j
                      /\ runs'[j].status = "running" =>
                          /\ runs'[j].stage = "none" /\ runs'[j].left # "closed"
                          /\ runs'[j].left = "raised" => runs'[j].path = "job"
                          /\ runs'[j].left = "unsaved" => runs'[j].path = "cli"
    BY <1>3 DEF Parted
  <2>1. CASE j = i
    BY <2>1, <1>3
  <2>2. CASE j # i
    BY <2>2, <1>3, <1>4, <1>5 DEF RunInv, Parted
  <2> QED
    BY <2>1, <2>2
<1>10. Brought' /\ Lossless'
  <2>1. Lossless'
    BY <1>4, LosslessKept
  <2> QED
    BY <1>4, <2>1 DEF RunInv, Brought, Fits
<1>11. RowsKnown'
  BY <1>2, <1>3 DEF Add, RunInv, RowsKnown
<1>12. MineIn(rows, i) = {}
  BY <1>1, CountsAre DEF RunInv, Fresh, Explained
<1>13. CountsExplained'
  <2> SUFFICES ASSUME NEW j \in DOMAIN runs
               PROVE  Explained(runs'[j], MineIn(rows', j), StoredIn(rows', runs'[j].source))
    BY <1>3, CountsAre
  <2>1. CASE j = i
    <3>1. /\ MineIn(rows', i) = recs
          /\ recs \subseteq StoredIn(rows', ses[p].source)
      BY <1>12, AddGives
    <3>2. counted = {} => Cardinality(counted) = 0
      BY FS_EmptySet
    <3> QED
      BY <2>1, <3>1, <3>2, <1>3 DEF Explained
  <2>2. CASE j # i
    BY <2>2, <1>3, OthersExplained
  <2> QED
    BY <2>1, <2>2
<1>14. CountsApart'
  BY <1>3 DEF RunInv, CountsApart
<1>15. JobRefusalKept'
  BY <1>3 DEF RunInv, JobRefusalKept
<1> QED
  BY <1>7, <1>8, <1>9, <1>10, <1>11, <1>13, <1>14, <1>15 DEF RunInv

\* The job whose persisting raises, and the command, leave their row RUNNING.
LEMMA LeaveStep ==
    ASSUME RunInv, TypeOK', NEW p \in Sessions, Live(p), UNCHANGED rows,
           NEW left \in {"raised", "unsaved"},
           runs' = [runs EXCEPT ![ses[p].run].left = left],
           left = "raised" => ses[p].path = "job",
           left = "unsaved" => ses[p].path = "cli",
           ses' = [ses EXCEPT ![p] = Idle]
    PROVE  RunInv'
<1> DEFINE i == ses[p].run
<1>1. Fresh(p)
  BY DEF RunInv, OwnFresh
<1>2. runs \in Seq(RunRows) /\ i \in DOMAIN runs
  BY <1>1 DEF RunInv, TypeOK, Fresh
<1>3. /\ DOMAIN runs' = DOMAIN runs /\ Len(runs') = Len(runs)
      /\ \A j \in DOMAIN runs : /\ j # i => runs'[j] = runs[j]
                                /\ runs'[j].status = runs[j].status
                                /\ runs'[j].stage = runs[j].stage
                                /\ runs'[j].refused = runs[j].refused
                                /\ runs'[j].persisted = runs[j].persisted
                                /\ runs'[j].counted = runs[j].counted
                                /\ runs'[j].source = runs[j].source
                                /\ runs'[j].path = runs[j].path
      /\ runs'[i].left = left
  <2>1. runs[i] \in RunRows
    BY <1>2
  <2>2. runs' = [runs EXCEPT ![i] = [runs[i] EXCEPT !.left = left]]
    OBVIOUS
  <2>3. /\ DOMAIN runs' = DOMAIN runs /\ Len(runs') = Len(runs)
        /\ \A j \in DOMAIN runs : j # i => runs'[j] = runs[j]
        /\ runs'[i] = [runs[i] EXCEPT !.left = left]
    BY <1>2, <2>2
  <2>4. /\ runs'[i].status = runs[i].status /\ runs'[i].stage = runs[i].stage
        /\ runs'[i].refused = runs[i].refused /\ runs'[i].persisted = runs[i].persisted
        /\ runs'[i].path = runs[i].path /\ runs'[i].left = left
        /\ runs'[i].counted = runs[i].counted /\ runs'[i].source = runs[i].source
    BY <2>1, <2>3 DEF RunRows
  <2> HIDE DEF i
  <2> QED
    BY <2>3, <2>4
<1>4. ses'[p] = Idle /\ \A q \in Sessions : q # p => ses'[q] = ses[q]
  BY DEF RunInv, TypeOK
<1>5. \A q \in Sessions : Live(q)' <=> q # p /\ Live(q)
  BY <1>4 DEF Live, Idle
<1>6. \A q \in Sessions : Live(q)' => ses[q].run # i
  BY <1>5 DEF RunInv, OwnedOnce
<1>7. OwnFresh'
  BY <1>3, <1>4, <1>5, <1>6 DEF RunInv, OwnFresh, Fresh
<1>8. OwnedOnce'
  BY <1>4, <1>5 DEF RunInv, OwnedOnce
<1>9. Parted'
  <2> SUFFICES ASSUME NEW j \in DOMAIN runs
               PROVE  /\ runs'[j].left = "open" =>
                            \E q \in Sessions : Live(q)' /\ ses'[q].run = j
                      /\ runs'[j].status = "running" =>
                          /\ runs'[j].stage = "none" /\ runs'[j].left # "closed"
                          /\ runs'[j].left = "raised" => runs'[j].path = "job"
                          /\ runs'[j].left = "unsaved" => runs'[j].path = "cli"
    BY <1>3 DEF Parted
  <2>1. CASE j = i
    BY <2>1, <1>1, <1>3 DEF Fresh
  <2>2. CASE j # i
    BY <2>2, <1>3, <1>4, <1>5 DEF RunInv, Parted
  <2> QED
    BY <2>1, <2>2
<1>10. Brought' /\ Lossless'
  BY <1>4, FS_EmptySet DEF RunInv, Brought, Fits, Lossless, Whole, Stored, Idle
<1>11. RowsKnown' /\ JobRefusalKept' /\ CountsApart'
  BY <1>3 DEF RunInv, RowsKnown, JobRefusalKept, CountsApart
<1>12. CountsExplained'
  <2>1. \A j \in DOMAIN runs :
            Explained(runs[j], MineIn(rows, j), StoredIn(rows, runs[j].source))
    BY CountsAre DEF RunInv
  <2>2. \A j \in DOMAIN runs :
            Explained(runs'[j], MineIn(rows, j), StoredIn(rows, runs[j].source))
    <3> TAKE j \in DOMAIN runs
    <3>1. Explained(runs[j], MineIn(rows, j), StoredIn(rows, runs[j].source))
      BY <2>1
    <3>2. /\ runs'[j].path = runs[j].path /\ runs'[j].status = runs[j].status
          /\ runs'[j].refused = runs[j].refused /\ runs'[j].counted = runs[j].counted
          /\ runs'[j].persisted = runs[j].persisted
      BY <1>3
    <3> QED
      BY <3>1, <3>2 DEF Explained
  <2> QED
    BY <1>3, <2>2, CountsAre
<1> QED
  BY <1>7, <1>8, <1>9, <1>10, <1>11, <1>12 DEF RunInv

\* A reviewer releases a run: it is not running, and its count stays.
LEMMA ReleaseStep ==
    ASSUME RunInv, TypeOK', NEW i \in DOMAIN runs, Release(i)
    PROVE  RunInv'
<1>1. runs \in Seq(RunRows)
  BY DEF RunInv, TypeOK
<1>2. /\ DOMAIN runs' = DOMAIN runs /\ Len(runs') = Len(runs)
      /\ \A j \in DOMAIN runs : /\ j # i => runs'[j] = runs[j]
                                /\ runs'[j].persisted = runs[j].persisted
                                /\ runs'[j].counted = runs[j].counted
                                /\ runs'[j].source = runs[j].source
                                /\ runs'[j].path = runs[j].path
                                /\ runs'[j].left = runs[j].left
      /\ runs'[i].status = "released" /\ ~runs'[i].refused
      /\ runs[i].stage = "quarantine"
  <2> DEFINE r == [runs[i] EXCEPT !.stage = "none", !.refused = FALSE,
                                  !.status = "released"]
  <2>1. runs[i] \in RunRows
    BY <1>1
  <2>2. runs' = [runs EXCEPT ![i] = r] /\ runs[i].stage = "quarantine"
    BY DEF Release
  <2>3. /\ r.status = "released" /\ ~r.refused /\ r.persisted = runs[i].persisted
        /\ r.path = runs[i].path /\ r.left = runs[i].left
        /\ r.counted = runs[i].counted /\ r.source = runs[i].source
    BY <2>1 DEF RunRows
  <2> HIDE DEF r
  <2>4. /\ DOMAIN runs' = DOMAIN runs /\ Len(runs') = Len(runs)
        /\ \A j \in DOMAIN runs : j # i => runs'[j] = runs[j]
        /\ runs'[i] = r
    BY <1>1, <2>2
  <2> QED
    BY <2>2, <2>3, <2>4
<1>3. \A p \in Sessions : Live(p) => ses[p].run # i
  BY <1>2 DEF RunInv, OwnFresh, Fresh
<1>4. OwnFresh' /\ OwnedOnce'
  BY <1>2, <1>3 DEF Release, RunInv, OwnFresh, OwnedOnce, Fresh, Live
<1>5. Parted'
  BY <1>2 DEF Release, RunInv, Parted, Live
<1>6. Brought' /\ Lossless' /\ RowsKnown' /\ CountsApart'
  BY <1>2 DEF Release, RunInv, Brought, Fits, Lossless, Whole, Stored, RowsKnown, CountsApart
<1>7. CountsExplained'
  <2> SUFFICES ASSUME NEW j \in DOMAIN runs
               PROVE  Explained(runs'[j], MineIn(rows, j), StoredIn(rows, runs[j].source))
    BY <1>2, CountsAre DEF Release
  <2>1. Explained(runs[j], MineIn(rows, j), StoredIn(rows, runs[j].source))
    BY CountsAre DEF RunInv
  <2>2. CASE j = i
    BY <2>1, <2>2, <1>2 DEF Explained
  <2>3. CASE j # i
    BY <2>1, <2>3, <1>2
  <2> QED
    BY <2>2, <2>3
<1>8. JobRefusalKept'
  BY <1>2 DEF RunInv, JobRefusalKept
<1> QED
  BY <1>4, <1>5, <1>6, <1>7, <1>8 DEF RunInv

\* An upload stores records that name no run.
LEMMA UploadStep ==
    ASSUME RunInv, TypeOK', NEW s \in Sources, NEW recs \in SUBSET Recs,
           Add(s, recs, 0), recs \cap StoredIn(rows, s) = {}, UNCHANGED <<runs, ses>>
    PROVE  RunInv'
<1>1. DOMAIN runs = 1..Len(runs) /\ Len(runs) \in Nat
  BY DEF RunInv, TypeOK
<1>2. CountsExplained'
  <2>1. \A i \in DOMAIN runs : i # 0
    BY <1>1
  <2> QED
    BY <2>1, OthersExplained, CountsAre
<1>3. OwnFresh' /\ OwnedOnce' /\ Parted'
  BY DEF RunInv, OwnFresh, OwnedOnce, Parted, Live, Fresh
<1>4. RowsKnown'
  BY <1>1 DEF RunInv, RowsKnown, Add
<1>5. Lossless'
  BY LosslessKept
<1>6. Brought' /\ JobRefusalKept' /\ CountsApart'
  BY DEF RunInv, Brought, Fits, JobRefusalKept, CountsApart
<1> QED
  BY <1>2, <1>3, <1>4, <1>5, <1>6 DEF RunInv

\* The CourtListener run appends its row and the records it names in one commit.
LEMMA CourtCommitStep ==
    ASSUME RunInv, TypeOK', NEW p \in Sessions, CourtCommit(p)
    PROVE  RunInv'
<1> DEFINE d == ses[p]
           n == Len(runs) + 1
           status == IF d.result = "raised" THEN "failed" ELSE Ended(d.errors)
           r == [NewRun(Court, "court", status, "none")
                    EXCEPT !.persisted = d.count, !.counted = d.counted]
<1>1. ses \in [Sessions -> SessionRows] /\ runs \in Seq(RunRows)
  BY DEF RunInv, TypeOK
<1>2. /\ d.new \in SUBSET Recs /\ d.counted \in SUBSET Recs /\ d.count \in Nat
      /\ d.errors \in BOOLEAN
  BY <1>1 DEF SessionRows
<1>3. /\ status \in {"failed", "completed", "completed_with_warnings"}
      /\ status = "completed" => ~d.errors
      /\ status = "failed" => d.result = "raised"
  BY <1>2 DEF Ended
<1>4. Fits(d) /\ Whole(d)
  BY DEF RunInv, Brought, Lossless
<1>5. /\ runs' = Append(runs, r) /\ Add(Court, d.new, n)
      /\ d.pc = "flushed" /\ d.path = "court"
      /\ ses' = [ses EXCEPT ![p] = Idle]
  BY DEF CourtCommit
<1>6. status = "failed" => d.counted = {} /\ d.count = 0 /\ d.new = {}
  <2>1. IsFiniteSet(d.counted)
    BY <1>2, Counted
  <2>2. Cardinality(d.counted) = 0 <=> d.counted = {}
    BY <2>1, FS_EmptySet
  <2>3. Cardinality(d.counted) \in Nat
    BY <1>2, Counted
  <2> HIDE DEF d, status
  <2> QED
    BY <1>2, <1>3, <1>4, <2>2, <2>3 DEF Fits
<1> HIDE DEF status
<1>9. /\ r \in RunRows /\ r.status = status /\ r.left = "closed" /\ ~r.refused
      /\ r.persisted = d.count /\ r.counted = d.counted /\ r.stage = "none"
      /\ r.path = "court" /\ r.source = Court
  <2>1. Court \in Sources
    BY SourceRunsAssumption
  <2> QED
    BY <2>1, <1>2, <1>3 DEF NewRun, RunRows, Paths, Statuses, Stages
<1> HIDE DEF r
<1>10. /\ Len(runs') = n
       /\ DOMAIN runs' = DOMAIN runs \cup {n}
       /\ \A i \in DOMAIN runs : runs'[i] = runs[i] /\ i # n
       /\ runs'[n] = r
       /\ DOMAIN runs = 1..Len(runs) /\ Len(runs) \in Nat
  BY <1>1, <1>5, <1>9, Appended
<1>11. ses'[p] = Idle /\ \A q \in Sessions : q # p => ses'[q] = ses[q]
  BY <1>1, <1>5
<1>12. \A q \in Sessions : Live(q)' <=> Live(q)
  BY <1>5, <1>11 DEF Live, Idle
<1>13. ~Live(p)
  BY <1>5 DEF Live
<1>14. OwnFresh'
  BY <1>10, <1>11, <1>12, <1>13 DEF RunInv, OwnFresh, Fresh
<1>15. OwnedOnce'
  BY <1>11, <1>12, <1>13 DEF RunInv, OwnedOnce
<1>16. Parted'
  <2> SUFFICES ASSUME NEW i \in DOMAIN runs'
               PROVE  /\ runs'[i].left = "open" =>
                            \E q \in Sessions : Live(q)' /\ ses'[q].run = i
                      /\ runs'[i].status = "running" =>
                          /\ runs'[i].stage = "none" /\ runs'[i].left # "closed"
                          /\ runs'[i].left = "raised" => runs'[i].path = "job"
                          /\ runs'[i].left = "unsaved" => runs'[i].path = "cli"
    BY DEF Parted
  <2>1. CASE i \in DOMAIN runs
    BY <2>1, <1>10, <1>11, <1>12, <1>13 DEF RunInv, Parted
  <2>2. CASE i = n
    BY <2>2, <1>3, <1>9, <1>10
  <2> QED
    BY <2>1, <2>2, <1>10
<1>17. Brought' /\ Lossless'
  <2>1. Idle.pc # "flushed"
    BY DEF Idle
  <2>2. Lossless'
    BY <1>5, <1>11, <2>1, LosslessKept
  <2> QED
    BY <1>11, <2>2, IdleFits DEF RunInv, Brought
<1>18. RowsKnown'
  BY <1>5, <1>10 DEF RunInv, RowsKnown, Add
<1>19. CountsExplained' /\ CountsApart'
  <2>1. d.new \subseteq Events /\ d.new \ Instruments \subseteq d.counted
    BY <1>4, <1>5 DEF Fits
  <2>2. \A j \in DOMAIN runs :
            Explained(runs[j], MineIn(rows', j), StoredIn(rows', runs[j].source))
    BY <1>2, <1>5, <1>10, <2>1, OthersExplained
  <2>3. MineIn(rows, n) = {}
    BY <1>10 DEF RunInv, RowsKnown, MineIn
  <2>4. /\ MineIn(rows', n) = d.new /\ d.new \subseteq StoredIn(rows', Court)
        /\ StoredIn(rows, Court) \subseteq StoredIn(rows', Court)
    BY <1>5, <2>3, AddGives
  <2>5. status = "completed" => d.counted \subseteq StoredIn(rows', Court)
    BY <1>3, <1>4, <1>5, <2>4, CountsAre DEF Whole
  <2>6. Cardinality(d.counted) <= d.count
    BY <1>4 DEF Fits
  <2>7. Explained(r, d.new, StoredIn(rows', Court))
    <3> HIDE DEF d
    <3> QED
      BY <1>3, <1>6, <1>9, <2>1, <2>5, <2>6 DEF Explained
  <2>8. CountsExplained'
    BY <1>9, <1>10, <2>2, <2>4, <2>7, CountsAre
  <2>9. CountsApart'
    BY <1>9, <1>10 DEF RunInv, CountsApart
  <2> QED
    BY <2>8, <2>9
<1>20. JobRefusalKept'
  BY <1>9, <1>10 DEF RunInv, JobRefusalKept
<1> QED
  BY <1>14, <1>15, <1>16, <1>17, <1>18, <1>19, <1>20 DEF RunInv

\* A replica dies: its sessions leave their rows as they are.
LEMMA CrashStep ==
    ASSUME RunInv, TypeOK', NEW r \in Replicas, Crash(r)
    PROVE  RunInv'
<1> DEFINE dead == {p \in Sessions : Home[p] = r}
           open == {ses[p].run : p \in {q \in dead : ses[q].pc \in {"fetching", "flushed"}}}
<1>1. /\ ses' = [p \in Sessions |-> IF p \in dead THEN Idle ELSE ses[p]]
      /\ runs' = [i \in DOMAIN runs |-> IF i \in open
                                        THEN [runs[i] EXCEPT !.left = "crashed"]
                                        ELSE runs[i]]
      /\ rows' = rows
  BY DEF Crash
<1>2. runs \in Seq(RunRows) /\ \A i \in DOMAIN runs : runs[i] \in RunRows
  BY DEF RunInv, TypeOK
<1>3. DOMAIN runs' = DOMAIN runs
  BY <1>1
<1>4. Len(runs') = Len(runs)
  BY <1>1, <1>2
<1>5. \A i \in DOMAIN runs :
         /\ i \notin open => runs'[i] = runs[i]
         /\ i \in open => runs'[i].left = "crashed"
         /\ runs'[i].status = runs[i].status /\ runs'[i].stage = runs[i].stage
         /\ runs'[i].refused = runs[i].refused /\ runs'[i].path = runs[i].path
         /\ runs'[i].persisted = runs[i].persisted
         /\ runs'[i].counted = runs[i].counted /\ runs'[i].source = runs[i].source
  <2> SUFFICES ASSUME NEW i \in DOMAIN runs
               PROVE  /\ i \notin open => runs'[i] = runs[i]
                      /\ i \in open => runs'[i].left = "crashed"
                      /\ runs'[i].status = runs[i].status
                      /\ runs'[i].stage = runs[i].stage
                      /\ runs'[i].refused = runs[i].refused
                      /\ runs'[i].path = runs[i].path
                      /\ runs'[i].persisted = runs[i].persisted
                      /\ runs'[i].counted = runs[i].counted
                      /\ runs'[i].source = runs[i].source
    OBVIOUS
  <2>1. runs[i] \in RunRows
    BY <1>2
  <2> HIDE DEF open
  <2>2. CASE i \in open
    BY <2>1, <2>2, <1>1 DEF RunRows
  <2>3. CASE i \notin open
    BY <2>3, <1>1
  <2> QED
    BY <2>2, <2>3
<1>6. \A p \in Sessions : /\ p \in dead => ses'[p] = Idle
                          /\ p \notin dead => ses'[p] = ses[p]
  BY <1>1
<1>7. \A p \in Sessions : Live(p)' <=> Live(p) /\ p \notin dead
  BY <1>6 DEF Live, Idle
<1>8. \A p \in dead : Live(p) => ses[p].run \in open
  BY DEF Live
<1>9. \A p \in Sessions : Live(p)' => ses[p].run \notin open
  <2> SUFFICES ASSUME NEW p \in Sessions, Live(p)', NEW q \in dead,
                      ses[q].pc \in {"fetching", "flushed"}, ses[q].run = ses[p].run
               PROVE  FALSE
    OBVIOUS
  <2>1. CASE ses[q].path # "court"
    BY <2>1, <1>7 DEF RunInv, OwnedOnce, Live
  <2>2. CASE ses[q].path = "court"
    BY <2>2, <1>7 DEF RunInv, OwnFresh, Fresh, Brought, Fits, TypeOK
  <2> QED
    BY <2>1, <2>2
<1> HIDE DEF dead, open
<1>10. OwnFresh'
  BY <1>3, <1>5, <1>6, <1>7, <1>9 DEF RunInv, OwnFresh, Fresh
<1>11. OwnedOnce'
  BY <1>6, <1>7 DEF RunInv, OwnedOnce
<1>12. Parted'
  <2> SUFFICES ASSUME NEW i \in DOMAIN runs
               PROVE  /\ runs'[i].left = "open" =>
                            \E q \in Sessions : Live(q)' /\ ses'[q].run = i
                      /\ runs'[i].status = "running" =>
                          /\ runs'[i].stage = "none" /\ runs'[i].left # "closed"
                          /\ runs'[i].left = "raised" => runs'[i].path = "job"
                          /\ runs'[i].left = "unsaved" => runs'[i].path = "cli"
    BY <1>3 DEF Parted
  <2>1. CASE i \in open
    BY <2>1, <1>5 DEF RunInv, Parted
  <2>2. CASE i \notin open
    BY <2>2, <1>5, <1>6, <1>7, <1>8 DEF RunInv, Parted
  <2> QED
    BY <2>1, <2>2
<1>13. Brought' /\ Lossless'
  BY <1>1, <1>6, FS_EmptySet DEF RunInv, Brought, Fits, Lossless, Whole, Stored, Idle
<1>14. RowsKnown'
  BY <1>1, <1>4 DEF RunInv, RowsKnown
<1>15. CountsExplained'
  BY <1>1, <1>3, <1>5, CountsAre, ExplainedAlike DEF RunInv
<1>16. JobRefusalKept' /\ CountsApart'
  BY <1>3, <1>5 DEF RunInv, JobRefusalKept, CountsApart
<1> QED
  BY <1>10, <1>11, <1>12, <1>13, <1>14, <1>15, <1>16 DEF RunInv

--------------------------------------------------------------------------------
(* Type correctness.                                                          *)

\* Replacing a row that exists keeps the table typed.
LEMMA RowReplaced ==
    ASSUME runs \in Seq(RunRows), NEW i \in DOMAIN runs, NEW r \in RunRows
    PROVE  [runs EXCEPT ![i] = r] \in Seq(RunRows)
<1> DEFINE new == [runs EXCEPT ![i] = r]
<1>1. DOMAIN new = 1..Len(runs) /\ Len(runs) \in Nat
  OBVIOUS
<1>2. \A j \in DOMAIN new : new[j] \in RunRows
  OBVIOUS
<1>3. new = [j \in 1..Len(runs) |-> new[j]]
  BY <1>1
<1> QED
  BY <1>1, <1>2, <1>3

\* Only the column left of a row is written.
LEMMA LeftTyped ==
    ASSUME runs \in Seq(RunRows), NEW i \in DOMAIN runs,
           NEW l \in {"open", "closed", "crashed", "raised", "unsaved"}
    PROVE  [runs EXCEPT ![i].left = l] \in Seq(RunRows)
<1> DEFINE r == [runs[i] EXCEPT !.left = l]
<1>1. runs[i] \in RunRows
  OBVIOUS
<1>2. r \in RunRows
  BY <1>1 DEF RunRows
<1>3. [runs EXCEPT ![i].left = l] = [runs EXCEPT ![i] = r]
  OBVIOUS
<1> HIDE DEF r
<1> QED
  BY <1>2, <1>3, RowReplaced

\* A row is closed with a number of records.
LEMMA CloseTyped ==
    ASSUME runs \in Seq(RunRows), NEW i \in DOMAIN runs, NEW status \in Statuses, NEW stage \in Stages,
           NEW refused \in BOOLEAN, NEW count \in Nat, NEW counted \in SUBSET Recs,
           Close(i, status, stage, refused, count, counted)
    PROVE  runs' \in Seq(RunRows)
<1> DEFINE r == [runs[i] EXCEPT !.status = status, !.stage = stage, !.refused = refused,
                                !.persisted = count, !.counted = counted,
                                !.left = "closed"]
<1>1. r \in RunRows
  <2>1. runs[i] \in RunRows
    OBVIOUS
  <2> QED
    BY <2>1 DEF RunRows
<1>2. runs' = [runs EXCEPT ![i] = r]
  BY DEF Close
<1> HIDE DEF r
<1> QED
  BY <1>1, <1>2, RowReplaced

\* The health of a source is one column of its row.
LEMMA HealthTyped ==
    ASSUME src \in [Sources -> RegistryRows], NEW s \in Sources, NEW status,
           Health(s, status)
    PROVE  src' \in [Sources -> RegistryRows]
  BY DEF Health, RegistryRows

\* Rows of records that the sources return.
LEMMA AddTyped ==
    ASSUME rows \subseteq [source : Sources, rec : Recs, run : Nat],
           NEW s \in Sources, NEW recs \in SUBSET Recs, NEW i \in Nat, Add(s, recs, i)
    PROVE  rows' \subseteq [source : Sources, rec : Recs, run : Nat]
  BY DEF Add

\* The status columns of a closed run.
LEMMA FinalTyped ==
    ASSUME NEW path, NEW result, NEW errors
    PROVE  /\ Final(path, result, errors).status
                \in {"completed", "completed_with_warnings", "failed", "quarantined"}
           /\ Final(path, result, errors).stage \in Stages
  BY DEF Final, Ended, Stages

\* The registry's own columns.
LEMMA AdminTyped ==
    ASSUME TypeOK, NEW s \in Sources, Admin(s)
    PROVE  TypeOK'
<1>1. CASE Enable(s)
  BY <1>1 DEF TypeOK, Enable, RegistryRows, Automations
<1>2. CASE Disable(s)
  BY <1>2 DEF TypeOK, Disable, RegistryRows, Automations
<1>3. CASE Repair(s)
  BY <1>3, SourceRunsAssumption DEF TypeOK, Repair, RegistryRows
<1>4. ASSUME NEW a \in Automations, Patch(s, a)
      PROVE  TypeOK'
  BY <1>4 DEF TypeOK, Patch, RegistryRows
<1>5. ASSUME NEW recs \in SUBSET Recs, Upload(s, recs)
      PROVE  TypeOK'
  BY <1>5, AddTyped DEF TypeOK, Upload
<1>6. CASE UploadRefused(s)
  BY <1>6, NewRunRow, Appended DEF TypeOK, UploadRefused, Paths, Statuses, Stages
<1> QED
  BY <1>1, <1>2, <1>3, <1>4, <1>5, <1>6 DEF Admin

\* Runs that start or are refused.
LEMMA BeginTyped ==
    ASSUME TypeOK, NEW p \in Sessions, NEW s \in Sources, NEW path \in Paths,
           Start(p, s, path) \/ Blocked(p, s, path) \/ CourtStart(p) \/ CourtBusy(p)
    PROVE  TypeOK'
<1>1. CASE Start(p, s, path)
  <2>1. runs' \in Seq(RunRows) /\ Len(runs) \in Nat
    BY <1>1, NewRunRow, Appended DEF TypeOK, Start, Statuses, Stages
  <2>2. \A n \in Nat : [Idle EXCEPT !.pc = "fetching", !.path = path, !.source = s,
                                    !.run = n] \in SessionRows
    BY IdleRow DEF SessionRows
  <2>3. ses' \in [Sessions -> SessionRows]
    <3>1. Len(runs) + 1 \in Nat
      BY <2>1
    <3> QED
      BY <1>1, <2>2, <3>1 DEF TypeOK, Start
  <2> QED
    BY <1>1, <2>1, <2>3 DEF TypeOK, Start
<1>2. CASE Blocked(p, s, path)
  BY <1>2, NewRunRow, Appended DEF TypeOK, Blocked, Statuses, Stages
<1>3. CASE CourtStart(p)
  <2>1. [Idle EXCEPT !.pc = "fetching", !.path = "court"] \in SessionRows
    BY IdleRow DEF SessionRows, Paths
  <2> QED
    BY <1>3, <2>1 DEF TypeOK, CourtStart
<1>4. CASE CourtBusy(p)
  BY <1>4, NewRunRow, Appended, SourceRunsAssumption
     DEF TypeOK, CourtBusy, Paths, Statuses, Stages
<1> QED
  BY <1>1, <1>2, <1>3, <1>4

\* The steps of a session at work.
LEMMA WorkTyped ==
    ASSUME RunInv, NEW p \in Sessions, Work(p)
    PROVE  TypeOK'
<1>0. TypeOK /\ (Live(p) => ses[p].run \in DOMAIN runs)
  BY DEF RunInv, OwnFresh, Fresh
<1>1. /\ ses[p] \in SessionRows /\ ses[p].source \in Sources /\ ses[p].run \in Nat
      /\ ses[p].new \in SUBSET Recs /\ ses[p].upd \in SUBSET Recs
      /\ ses[p].counted \in SUBSET Recs /\ ses[p].count \in Nat
      /\ {} \in SUBSET Recs /\ Court \in Sources
  BY <1>0, SourceRunsAssumption DEF TypeOK, SessionRows
<1>2. [ses[p] EXCEPT !.pc = "health"] \in SessionRows
  BY <1>1 DEF SessionRows
<1>3. ASSUME NEW new \in SUBSET Recs, NEW upd \in SUBSET Recs, NEW counted \in SUBSET Recs,
             NEW again \in SUBSET Recs, NEW errors \in BOOLEAN,
             Wrote(p, new, upd, counted, again, errors)
      PROVE  ses' \in [Sessions -> SessionRows]
  <2> DEFINE n == Cardinality(counted) + Cardinality(again)
             d == [ses[p] EXCEPT !.pc = "flushed", !.errors = errors, !.new = new,
                                 !.upd = upd, !.counted = counted, !.count = n]
  <2>1. n \in Nat
    BY Counted
  <2> HIDE DEF n
  <2>2. d \in SessionRows
    BY <1>1, <2>1 DEF SessionRows
  <2>3. ses' = [ses EXCEPT ![p] = d]
    BY <1>3 DEF Wrote, n
  <2> HIDE DEF d
  <2> QED
    BY <1>0, <2>2, <2>3 DEF TypeOK
<1>14. ASSUME NEW recs \in SUBSET Recs, NEW part, NEW again, NEW errors \in BOOLEAN,
              Flush(p, recs, part, again, errors)
       PROVE  TypeOK'
  <2> DEFINE new == recs \ Stored(ses[p].source)
             upd == (recs \cap Instruments) \ new
             counted == (new \cup upd) \ part
  <2>1. /\ new \in SUBSET Recs /\ upd \in SUBSET Recs /\ counted \in SUBSET Recs
        /\ again \in SUBSET Recs /\ Wrote(p, new, upd, counted, again, errors)
        /\ UNCHANGED <<src, runs, rows, plock, alock, key>>
    BY <1>14 DEF Flush
  <2> HIDE DEF new, upd, counted
  <2>2. ses' \in [Sessions -> SessionRows]
    BY <1>3, <2>1
  <2> QED
    BY <1>0, <2>1, <2>2 DEF TypeOK
<1>15. ASSUME NEW kept \in SUBSET Events, NEW lost \in SUBSET Events, NEW again,
              NEW errors \in BOOLEAN, CourtFlush(p, kept, lost, again, errors)
       PROVE  TypeOK'
  <2> DEFINE new == kept \ Stored(Court)
             counted == kept \cup lost
  <2>1. /\ new \in SUBSET Recs /\ counted \in SUBSET Recs
        /\ again \in SUBSET Recs /\ Wrote(p, new, {}, counted, again, errors)
        /\ Unlock(p) /\ UNCHANGED <<src, runs, rows, key>>
    BY <1>15, SourceRunsAssumption DEF CourtFlush
  <2> HIDE DEF new, counted
  <2>2. ses' \in [Sessions -> SessionRows]
    BY <1>1, <1>3, <2>1
  <2> QED
    BY <1>0, <2>1, <2>2 DEF TypeOK, Unlock
<1>4. ASSUME NEW result \in Results, NEW errors \in BOOLEAN, Refuse(p, result, errors)
      PROVE  TypeOK'
  <2>1. [ses[p] EXCEPT !.pc = "flushed", !.errors = errors, !.result = result]
            \in SessionRows
    BY <1>1 DEF SessionRows
  <2> QED
    BY <1>0, <1>4, <2>1 DEF TypeOK, Refuse
<1>5. CASE AdapterRaises(p)
  <2>0. ses[p].run \in DOMAIN runs
    BY <1>0, <1>5 DEF AdapterRaises, Live
  <2>1. Close(ses[p].run, "failed", IF ses[p].path = "api" THEN "failed" ELSE "none",
              FALSE, 0, {})
    BY <1>5 DEF AdapterRaises
  <2>2. runs' \in Seq(RunRows)
    <3>1. "failed" \in Statuses /\ FALSE \in BOOLEAN
      BY DEF Statuses
    <3>2. (IF ses[p].path = "api" THEN "failed" ELSE "none") \in Stages
      BY DEF Stages
    <3> QED
      BY <1>0, <1>1, <2>0, <2>1, <3>1, <3>2, CloseTyped DEF TypeOK
  <2>3. src' \in [Sources -> RegistryRows]
    BY <1>0, <1>1, <1>5, HealthTyped DEF TypeOK, AdapterRaises
  <2>4. ses' \in [Sessions -> SessionRows]
    BY <1>0, <1>2, <1>5, IdleRow DEF TypeOK, AdapterRaises
  <2> QED
    BY <1>0, <1>5, <2>2, <2>3, <2>4 DEF TypeOK, AdapterRaises
<1>6. CASE Commit(p)
  <2> DEFINE d == ses[p]
             f == Final(d.path, d.result, d.errors)
  <2>0. ses[p].run \in DOMAIN runs
    BY <1>0, <1>6 DEF Commit, Live
  <2>1. f.status \in Statuses /\ f.stage \in Stages
    BY FinalTyped DEF Statuses
  <2>2. Close(d.run, f.status, f.stage, d.result # "ok", d.count, d.counted)
    BY <1>6 DEF Commit
  <2>3. (d.result # "ok") \in BOOLEAN
    OBVIOUS
  <2>4. runs' \in Seq(RunRows)
    <3> HIDE DEF f
    <3> QED
      BY <1>0, <1>1, <2>0, <2>1, <2>2, <2>3, CloseTyped DEF TypeOK
  <2>5. src' \in [Sources -> RegistryRows]
    BY <1>0, <1>1, <1>6, HealthTyped DEF TypeOK, Commit
  <2>6. ses' \in [Sessions -> SessionRows]
    BY <1>0, <1>2, <1>6, IdleRow DEF TypeOK, Commit
  <2>7. rows' \subseteq [source : Sources, rec : Recs, run : Nat]
    <3>1. d.new \cup d.upd \in SUBSET Recs
      BY <1>1
    <3> QED
      BY <1>0, <1>1, <1>6, <3>1, AddTyped DEF TypeOK, Commit
  <2> QED
    BY <1>0, <1>6, <2>4, <2>5, <2>6, <2>7 DEF TypeOK, Commit
<1>7. CASE ApiFails(p)
  <2>0. ses[p].run \in DOMAIN runs
    BY <1>0, <1>7 DEF ApiFails, Live
  <2>1. Close(ses[p].run, "failed", "failed", FALSE, 0, {})
    BY <1>7 DEF ApiFails
  <2>2. runs' \in Seq(RunRows)
    <3>1. "failed" \in Statuses /\ FALSE \in BOOLEAN
      BY DEF Statuses
    <3>2. "failed" \in Stages
      BY DEF Stages
    <3> QED
      BY <1>0, <1>1, <2>0, <2>1, <3>1, <3>2, CloseTyped DEF TypeOK
  <2>3. src' \in [Sources -> RegistryRows]
    BY <1>0, <1>1, <1>7, HealthTyped DEF TypeOK, ApiFails
  <2> QED
    BY <1>0, <1>7, <2>2, <2>3, IdleRow DEF TypeOK, ApiFails
<1>8. CASE JobFails(p)
  <2>1. ses[p].run \in DOMAIN runs
    BY <1>0, <1>8 DEF JobFails, Live
  <2>2. runs' \in Seq(RunRows)
    BY <1>0, <1>8, <2>1, LeftTyped DEF TypeOK, JobFails
  <2> QED
    BY <1>0, <1>8, <2>2, IdleRow DEF TypeOK, JobFails
<1>9. CASE JobHealth(p)
  <2>1. src' \in [Sources -> RegistryRows]
    BY <1>0, <1>1, <1>9, HealthTyped DEF TypeOK, JobHealth
  <2> QED
    BY <1>0, <1>9, <2>1, IdleRow DEF TypeOK, JobHealth
<1>10. CASE CliDiscards(p)
  <2>1. ses[p].run \in DOMAIN runs
    BY <1>0, <1>10 DEF CliDiscards, Live
  <2>2. runs' \in Seq(RunRows)
    BY <1>0, <1>10, <2>1, LeftTyped DEF TypeOK, CliDiscards
  <2> QED
    BY <1>0, <1>10, <2>2, IdleRow DEF TypeOK, CliDiscards
<1>11. CASE CourtRaises(p)
  <2>1. [ses[p] EXCEPT !.pc = "flushed", !.result = "raised"] \in SessionRows
    BY <1>1 DEF SessionRows, Results
  <2> QED
    BY <1>0, <1>11, <2>1 DEF TypeOK, CourtRaises, Unlock
<1>12. CASE CourtCommit(p)
  <2> DEFINE d == ses[p]
             status == IF d.result = "raised" THEN "failed" ELSE Ended(d.errors)
             n == NewRun(Court, "court", status, "none")
             r == [n EXCEPT !.persisted = d.count, !.counted = d.counted]
  <2>2. status \in Statuses
    BY DEF Ended, Statuses
  <2>3. /\ runs' = Append(runs, r) /\ Add(Court, d.new, Len(runs) + 1)
        /\ ses' = [ses EXCEPT ![p] = Idle]
        /\ src' = src \/ Health(Court, status)
    BY <1>12 DEF CourtCommit
  <2> HIDE DEF status
  <2>4. n \in RunRows
    BY <1>1, <2>2, NewRunRow DEF Paths, Stages
  <2> HIDE DEF n
  <2>5. r \in RunRows
    BY <1>1, <2>4 DEF RunRows
  <2>6. runs' \in Seq(RunRows) /\ Len(runs) \in Nat
    <3> HIDE DEF r
    <3> QED
      BY <1>0, <2>3, <2>5, Appended DEF TypeOK
  <2>7. src' \in [Sources -> RegistryRows]
    BY <1>0, <1>1, <2>3, HealthTyped DEF TypeOK
  <2>8. rows' \subseteq [source : Sources, rec : Recs, run : Nat]
    BY <1>0, <1>1, <2>3, <2>6, AddTyped DEF TypeOK
  <2> QED
    BY <1>0, <1>12, <2>3, <2>6, <2>7, <2>8, IdleRow DEF TypeOK, CourtCommit
<1>13. CASE CourtAborts(p)
  BY <1>0, <1>13, IdleRow DEF TypeOK, CourtAborts
<1> QED
  BY <1>4, <1>5, <1>6, <1>7, <1>8, <1>9, <1>10, <1>11, <1>12, <1>13, <1>14, <1>15, Zenon
     DEF Work

\* A release and a crash.
LEMMA RestTyped ==
    ASSUME TypeOK
    PROVE  /\ \A i \in DOMAIN runs : Release(i) => TypeOK'
           /\ \A r \in Replicas : Crash(r) => TypeOK'
<1>1. ASSUME NEW i \in DOMAIN runs, Release(i)
      PROVE  TypeOK'
  <2> DEFINE r == [runs[i] EXCEPT !.stage = "none", !.refused = FALSE,
                                  !.status = "released"]
  <2>1. r \in RunRows
    <3>1. runs[i] \in RunRows
      BY DEF TypeOK
    <3> QED
      BY <3>1 DEF RunRows, Statuses, Stages
  <2>2. runs' = [runs EXCEPT ![i] = r]
    BY <1>1 DEF Release
  <2> HIDE DEF r
  <2>3. runs' \in Seq(RunRows)
    BY <2>1, <2>2, RowReplaced DEF TypeOK
  <2> QED
    BY <1>1, <2>3 DEF TypeOK, Release
<1>2. ASSUME NEW r \in Replicas, Crash(r)
      PROVE  TypeOK'
  <2>1. ses' \in [Sessions -> SessionRows]
    BY <1>2, IdleRow DEF TypeOK, Crash
  <2>2. runs' \in Seq(RunRows)
    <3>1. \A i \in DOMAIN runs : [runs[i] EXCEPT !.left = "crashed"] \in RunRows
      <4>1. \A i \in DOMAIN runs : runs[i] \in RunRows
        BY DEF TypeOK
      <4> QED
        BY <4>1 DEF RunRows
    <3> DEFINE open == {ses[p].run : p \in {q \in {q \in Sessions : Home[q] = r} :
                                            ses[q].pc \in {"fetching", "flushed"}}}
    <3>2. runs' = [i \in DOMAIN runs |-> IF i \in open
                                         THEN [runs[i] EXCEPT !.left = "crashed"]
                                         ELSE runs[i]]
      BY <1>2 DEF Crash
    <3> HIDE DEF open
    <3>3. \A i \in DOMAIN runs : runs'[i] \in RunRows
      BY <3>1, <3>2 DEF TypeOK
    <3>4. runs' = [i \in 1..Len(runs) |-> runs'[i]] /\ Len(runs) \in Nat
      BY <3>2 DEF TypeOK
    <3> QED
      BY <3>3, <3>4 DEF TypeOK
  <2>3. key' \in [Replicas -> Keys]
    BY <1>2 DEF TypeOK, Crash
  <2>4. alock' \in [Keys -> Sessions \cup {NoOne}]
    BY <1>2 DEF TypeOK, Crash
  <2> QED
    BY <1>2, <2>1, <2>2, <2>3, <2>4 DEF TypeOK, Crash
<1> QED
  BY <1>1, <1>2

\* No step leaves the types.
LEMMA TypeNext == RunInv /\ [Next]_vars => TypeOK'
<1> SUFFICES ASSUME RunInv, [Next]_vars
             PROVE  TypeOK'
  OBVIOUS
<1>0. TypeOK
  BY DEF RunInv
<1>1. CASE UNCHANGED vars
  BY <1>0, <1>1 DEF TypeOK, vars
<1>2. CASE Next
  <2>1. "api" \in Paths /\ Court \in Sources
    BY SourceRunsAssumption DEF Paths
  <2> QED
    BY <1>0, <1>2, <2>1, AdminTyped, BeginTyped, WorkTyped, RestTyped, Zenon DEF Next
<1> QED
  BY <1>1, <1>2

\* The first state has the types.
LEMMA TypeInit == Init => TypeOK
<1> SUFFICES ASSUME Init
             PROVE  TypeOK
  OBVIOUS
<1>1. ses \in [Sessions -> SessionRows]
  BY IdleRow DEF Init
<1> QED
  BY <1>1 DEF Init, TypeOK

--------------------------------------------------------------------------------
(* Each step keeps the invariant.                                             *)

\* The steps of a session at work.
LEMMA WorkKeeps ==
    ASSUME RunInv, TypeOK', NEW p \in Sessions, Work(p)
    PROVE  RunInv'
<1>0. /\ TypeOK /\ ses[p] \in SessionRows
      /\ ses[p].new \in SUBSET Recs /\ ses[p].upd \in SUBSET Recs
      /\ ses[p].counted \in SUBSET Recs /\ ses[p].count \in Nat /\ {} \in SUBSET Recs
      /\ Fits(ses[p]) /\ (Live(p) => Fresh(p))
  BY DEF RunInv, TypeOK, SessionRows, OwnFresh, Brought
<1>1. [ses[p] EXCEPT !.pc = "health"] \in SessionRows
  BY <1>0 DEF SessionRows
<1>14. ASSUME NEW new \in SUBSET Recs, NEW upd \in SUBSET Recs, NEW counted \in SUBSET Recs,
              NEW again \in SUBSET Recs, NEW errors \in BOOLEAN,
              Wrote(p, new, upd, counted, again, errors)
       PROVE  \E d \in SessionRows :
                  /\ ses' = [ses EXCEPT ![p] = d]
                  /\ d.pc = "flushed" /\ d.path = ses[p].path /\ d.run = ses[p].run
                  /\ d.source = ses[p].source /\ d.result = ses[p].result
                  /\ d.errors = errors /\ d.new = new /\ d.upd = upd
                  /\ d.counted = counted
                  /\ d.count = Cardinality(counted) + Cardinality(again)
  <2> DEFINE n == Cardinality(counted) + Cardinality(again)
             d == [ses[p] EXCEPT !.pc = "flushed", !.errors = errors, !.new = new,
                                 !.upd = upd, !.counted = counted, !.count = n]
  <2>1. n \in Nat
    BY Counted
  <2>2. ses' = [ses EXCEPT ![p] = d]
    BY <1>14 DEF Wrote
  <2> HIDE DEF n
  <2>3. /\ d \in SessionRows /\ d.pc = "flushed" /\ d.path = ses[p].path
        /\ d.run = ses[p].run /\ d.source = ses[p].source /\ d.result = ses[p].result
        /\ d.errors = errors /\ d.new = new /\ d.upd = upd
        /\ d.counted = counted /\ d.count = n
    BY <1>0, <2>1 DEF SessionRows
  <2> HIDE DEF d
  <2> QED
    BY <2>2, <2>3 DEF n
<1>2. ASSUME NEW recs \in SUBSET Recs, NEW part, NEW again, NEW errors \in BOOLEAN,
             Flush(p, recs, part, again, errors)
      PROVE  RunInv'
  <2> DEFINE new == recs \ Stored(ses[p].source)
             upd == (recs \cap Instruments) \ new
             counted == (new \cup upd) \ part
  <2>1. /\ UNCHANGED <<runs, rows>> /\ Live(p)
        /\ ses[p].pc = "fetching" /\ ses[p].path # "court"
        /\ Wrote(p, new, upd, counted, again, errors)
    BY <1>2 DEF Flush, Live
  <2>2. /\ new \in SUBSET Recs /\ upd \in SUBSET Recs /\ counted \in SUBSET Recs
        /\ again \in SUBSET Recs /\ upd \subseteq Instruments
        /\ new \ Instruments \subseteq counted /\ counted \subseteq new \cup upd
        /\ counted \cap Events = {}
        /\ counted \cap Instruments = {} => again = {}
    BY <1>2 DEF Flush
  <2>3. /\ Cardinality(counted) \in Nat /\ Cardinality(again) \in Nat
        /\ again = {} => Cardinality(again) = 0
    BY <2>2, Counted, FS_EmptySet
  <2> HIDE DEF new, upd, counted
  <2>4. PICK d \in SessionRows :
                  /\ ses' = [ses EXCEPT ![p] = d]
                  /\ d.pc = "flushed" /\ d.path = ses[p].path /\ d.run = ses[p].run
                  /\ d.source = ses[p].source /\ d.result = ses[p].result
                  /\ d.errors = errors /\ d.new = new /\ d.upd = upd
                  /\ d.counted = counted
                  /\ d.count = Cardinality(counted) + Cardinality(again)
    BY <2>1, <2>2, <1>14
  <2>5. Fits(d)
    BY <1>0, <2>1, <2>2, <2>3, <2>4 DEF Fits
  <2> QED
    BY <2>1, <2>4, <2>5, WorkingStep
<1>3. ASSUME NEW kept \in SUBSET Events, NEW lost \in SUBSET Events, NEW again,
             NEW errors \in BOOLEAN, CourtFlush(p, kept, lost, again, errors)
      PROVE  RunInv'
  <2> DEFINE new == kept \ Stored(Court)
             counted == kept \cup lost
  <2>1. /\ UNCHANGED <<runs, rows>> /\ ~Live(p)
        /\ ses[p].pc = "fetching" /\ ses[p].path = "court"
        /\ Wrote(p, new, {}, counted, again, errors)
    BY <1>3 DEF CourtFlush, Live
  <2>2. /\ new \in SUBSET Recs /\ counted \in SUBSET Recs /\ again \in SUBSET Recs
        /\ new \subseteq counted /\ new \subseteq Events
        /\ ~errors => counted \subseteq new \cup Stored(Court)
    BY <1>3, SourceRunsAssumption DEF CourtFlush
  <2>3. Cardinality(counted) \in Nat /\ Cardinality(again) \in Nat
    BY <2>2, Counted
  <2> HIDE DEF new, counted
  <2>4. PICK d \in SessionRows :
                  /\ ses' = [ses EXCEPT ![p] = d]
                  /\ d.pc = "flushed" /\ d.path = ses[p].path /\ d.run = ses[p].run
                  /\ d.source = ses[p].source /\ d.result = ses[p].result
                  /\ d.errors = errors /\ d.new = new /\ d.upd = {}
                  /\ d.counted = counted
                  /\ d.count = Cardinality(counted) + Cardinality(again)
    BY <1>0, <2>1, <2>2, <1>14
  <2>5. Fits(d)
    BY <1>0, <2>1, <2>2, <2>3, <2>4 DEF Fits
  <2>6. Whole(d)
    BY <2>2, <2>4 DEF Whole
  <2> QED
    BY <2>1, <2>4, <2>5, <2>6, OwnerlessStep
<1>4. ASSUME NEW result \in Results, NEW errors \in BOOLEAN, Refuse(p, result, errors)
      PROVE  RunInv'
  <2> DEFINE d == [ses[p] EXCEPT !.pc = "flushed", !.errors = errors, !.result = result]
  <2>1. /\ ses' = [ses EXCEPT ![p] = d] /\ UNCHANGED <<runs, rows>> /\ Live(p)
        /\ ses[p].pc = "fetching" /\ ses[p].path # "court" /\ result # "raised"
    BY <1>4 DEF Refuse, Live
  <2>2. /\ d \in SessionRows /\ d.pc = "flushed" /\ d.path = ses[p].path
        /\ d.run = ses[p].run /\ d.result = result /\ d.new = ses[p].new
        /\ d.source = ses[p].source /\ d.upd = ses[p].upd
        /\ d.counted = ses[p].counted /\ d.count = ses[p].count
    BY <1>0 DEF SessionRows
  <2> HIDE DEF d
  <2>3. Fits(d)
    BY <1>0, <2>1, <2>2, NothingCounted DEF Fits
  <2> QED
    BY <2>1, <2>2, <2>3, WorkingStep
<1>5. CASE AdapterRaises(p)
  <2> DEFINE d == IF ses[p].path = "job" THEN [ses[p] EXCEPT !.pc = "health"] ELSE Idle
             stage == IF ses[p].path = "api" THEN "failed" ELSE "none"
  <2>1. /\ ses' = [ses EXCEPT ![p] = d] /\ UNCHANGED rows /\ Live(p)
        /\ ses[p].pc = "fetching" /\ ses[p].path # "court"
        /\ Close(ses[p].run, "failed", stage, FALSE, 0, {})
    BY <1>5 DEF AdapterRaises, Live
  <2>3. /\ d \in SessionRows /\ d.pc \in {"idle", "health"} /\ Fits(d)
    BY <1>0, <1>1, <2>1, IdleRow, IdleFits, HealthFits DEF Idle, SessionRows
  <2>4. stage \in Stages /\ "failed" \in Statuses
    BY DEF Stages, Statuses
  <2>5. Add(ses[p].source, {}, ses[p].run)
    BY <2>1 DEF Add
  <2> HIDE DEF d, stage
  <2>6. Cardinality({}) = 0 /\ 0 \in Nat /\ FALSE \in BOOLEAN
    BY FS_EmptySet
  <2>7. /\ {} \cap StoredIn(rows, ses[p].source) \subseteq Instruments
        /\ {} \ Instruments \subseteq {} /\ {} \cap Events = {}
        /\ Cardinality({}) <= 0
    BY <2>6
  <2> QED
    BY <1>0, <2>1, <2>3, <2>4, <2>5, <2>6, <2>7, CloseStep
<1>6. CASE Commit(p)
  <2> DEFINE d == IF ses[p].path = "job" THEN [ses[p] EXCEPT !.pc = "health"] ELSE Idle
             f == Final(ses[p].path, ses[p].result, ses[p].errors)
  <2>1. /\ ses' = [ses EXCEPT ![p] = d] /\ Live(p)
        /\ ses[p].pc = "flushed" /\ ses[p].path \in {"api", "job"}
        /\ Close(ses[p].run, f.status, f.stage, ses[p].result # "ok", ses[p].count,
                 ses[p].counted)
        /\ Add(ses[p].source, ses[p].new \cup ses[p].upd, ses[p].run)
        /\ ses[p].new \cap Stored(ses[p].source) = {}
    BY <1>6 DEF Commit, Collides, Live
  <2>2. /\ f.status \in Statuses /\ f.stage \in Stages /\ f.status # "running"
        /\ (ses[p].result # "ok") \in BOOLEAN
    BY FinalTyped DEF Statuses
  <2>3. ses[p].result # "ok" => ses[p].new = {} /\ ses[p].upd = {} /\ ses[p].count = 0
    BY <1>0 DEF Fits
  <2>4. ses[p].result \in Results /\ ses[p].result # "raised"
    BY <1>0, <2>1 DEF Fits, SessionRows
  <2>5. f.status = "failed" => ses[p].result = "contract"
    BY DEF Final, Ended
  <2>6. ses[p].path = "job" /\ ses[p].result # "ok" => f.status \in {"failed", "quarantined"}
    BY <2>4 DEF Final, Results
  <2>7. /\ d \in SessionRows /\ d.pc \in {"idle", "health"} /\ Fits(d)
    BY <1>0, <1>1, <2>1, IdleRow, IdleFits, HealthFits DEF Idle, SessionRows
  <2>8. ses[p].result # "ok" \/ f.status = "failed"
            => ses[p].new \cup ses[p].upd = {} /\ ses[p].count = 0
    BY <2>3, <2>5
  <2>9. /\ ses[p].upd \subseteq Instruments
        /\ ses[p].new \ Instruments \subseteq ses[p].counted
        /\ ses[p].counted \subseteq ses[p].new \cup ses[p].upd
        /\ ses[p].counted \cap Events = {}
        /\ Cardinality(ses[p].counted) <= ses[p].count
        /\ ses[p].counted \cap Instruments = {}
              => ses[p].count = Cardinality(ses[p].counted)
    BY <1>0, <2>1 DEF Fits
  <2>10. /\ (ses[p].new \cup ses[p].upd) \cap StoredIn(rows, ses[p].source)
                \subseteq Instruments
         /\ (ses[p].new \cup ses[p].upd) \ Instruments \subseteq ses[p].counted
         /\ ses[p].new \cup ses[p].upd \in SUBSET Recs
    BY <1>0, <2>1, <2>9 DEF Stored, StoredIn
  <2> DEFINE recs == ses[p].new \cup ses[p].upd
  <2>11. /\ Add(ses[p].source, recs, ses[p].run) /\ recs \in SUBSET Recs
         /\ recs \cap StoredIn(rows, ses[p].source) \subseteq Instruments
         /\ recs \ Instruments \subseteq ses[p].counted
         /\ ses[p].counted \subseteq recs
         /\ ses[p].result # "ok" \/ f.status = "failed" => recs = {} /\ ses[p].count = 0
         /\ (ses[p].result # "ok") \in BOOLEAN
         /\ Close(ses[p].run, f.status, f.stage, ses[p].result # "ok", ses[p].count, ses[p].counted)
         /\ ses[p].path = "job" /\ ses[p].result # "ok" => f.status \in {"failed", "quarantined"}
    BY <2>1, <2>2, <2>6, <2>8, <2>9, <2>10
  <2> DEFINE counted == ses[p].counted
             count == ses[p].count
             status == f.status
             stage == f.stage
  <2>12. /\ Add(ses[p].source, recs, ses[p].run) /\ recs \in SUBSET Recs
         /\ counted \in SUBSET Recs /\ count \in Nat /\ (ses[p].result # "ok") \in BOOLEAN
         /\ status \in Statuses /\ stage \in Stages
         /\ Close(ses[p].run, status, stage, ses[p].result # "ok", count, counted)
    BY <1>0, <2>2, <2>11
  <2>13. /\ recs \cap StoredIn(rows, ses[p].source) \subseteq Instruments
         /\ counted \subseteq recs /\ recs \ Instruments \subseteq counted
         /\ counted \cap Events = {} /\ Cardinality(counted) <= count
         /\ counted \cap Instruments = {} => count = Cardinality(counted)
         /\ status # "running"
         /\ ses[p].result # "ok" \/ status = "failed" => recs = {} /\ count = 0
         /\ ses[p].path = "job" /\ ses[p].result # "ok" => status \in {"failed", "quarantined"}
    BY <2>2, <2>9, <2>11
  <2>14. ses' = [ses EXCEPT ![p] = d] /\ Live(p)
    BY <2>1
  <2> HIDE DEF d, f, recs, counted, count, status, stage
  <2> QED
    BY <2>7, <2>12, <2>13, <2>14, CloseStep
<1>7. CASE ApiFails(p)
  <2>1. /\ ses' = [ses EXCEPT ![p] = Idle] /\ UNCHANGED rows /\ Live(p)
        /\ ses[p].path = "api"
        /\ Close(ses[p].run, "failed", "failed", FALSE, 0, {})
    BY <1>7 DEF ApiFails, Live
  <2>2. Idle \in SessionRows /\ Idle.pc = "idle" /\ Fits(Idle)
    BY IdleRow, IdleFits DEF Idle
  <2>3. "failed" \in Stages /\ "failed" \in Statuses
    BY DEF Stages, Statuses
  <2>4. Add(ses[p].source, {}, ses[p].run)
    BY <2>1 DEF Add
  <2>5. Cardinality({}) = 0 /\ 0 \in Nat /\ FALSE \in BOOLEAN
    BY FS_EmptySet
  <2>6. /\ {} \cap StoredIn(rows, ses[p].source) \subseteq Instruments
        /\ {} \ Instruments \subseteq {} /\ {} \cap Events = {}
        /\ Cardinality({}) <= 0
    BY <2>5
  <2> QED
    BY <1>0, <2>1, <2>2, <2>3, <2>4, <2>5, <2>6, CloseStep
<1>8. CASE JobFails(p)
  BY <1>8, LeaveStep DEF JobFails, Live
<1>9. CASE CliDiscards(p)
  BY <1>9, LeaveStep DEF CliDiscards, Live
<1>10. CASE JobHealth(p) \/ CourtAborts(p)
  <2>1. /\ ses' = [ses EXCEPT ![p] = Idle] /\ UNCHANGED <<runs, rows>> /\ ~Live(p)
    BY <1>10 DEF JobHealth, CourtAborts, Live
  <2>2. Idle \in SessionRows /\ Idle.pc = "idle" /\ Fits(Idle) /\ Whole(Idle)
    BY IdleRow, IdleFits DEF Idle, Whole
  <2> QED
    BY <2>1, <2>2, OwnerlessStep
<1>11. CASE CourtRaises(p)
  <2> DEFINE d == [ses[p] EXCEPT !.pc = "flushed", !.result = "raised"]
  <2>1. /\ ses' = [ses EXCEPT ![p] = d] /\ UNCHANGED <<runs, rows>> /\ ~Live(p)
        /\ ses[p].pc = "fetching" /\ ses[p].path = "court"
    BY <1>11 DEF CourtRaises, Live
  <2>2. /\ d \in SessionRows /\ d.pc = "flushed" /\ d.path = "court"
        /\ d.run = ses[p].run /\ d.new = ses[p].new /\ d.result = "raised"
        /\ d.upd = ses[p].upd /\ d.counted = ses[p].counted /\ d.count = ses[p].count
    BY <1>0, <2>1 DEF SessionRows, Results
  <2> HIDE DEF d
  <2>3. Fits(d) /\ Whole(d)
    BY <1>0, <2>1, <2>2, NothingCounted DEF Fits, Whole
  <2> QED
    BY <2>1, <2>2, <2>3, OwnerlessStep
<1>12. CASE CourtCommit(p)
  BY <1>12, CourtCommitStep
<1> QED
  BY <1>2, <1>3, <1>4, <1>5, <1>6, <1>7, <1>8, <1>9, <1>10, <1>11, <1>12, Zenon DEF Work

\* Starting a run, or being refused one.
LEMMA BeginKeeps ==
    ASSUME RunInv, TypeOK', NEW p \in Sessions, NEW s \in Sources, NEW path \in Paths,
           Start(p, s, path) \/ Blocked(p, s, path) \/ CourtStart(p) \/ CourtBusy(p)
    PROVE  RunInv'
<1>1. CASE Start(p, s, path)
  BY <1>1, StartStep
<1>2. ASSUME NEW t \in Sources, NEW way \in Paths, UNCHANGED <<rows, ses>>,
             runs' = Append(runs, NewRun(t, way, "failed", "none"))
      PROVE  RunInv'
  <2> DEFINE r == NewRun(t, way, "failed", "none")
  <2>1. r \in RunRows
    BY NewRunRow DEF Statuses, Stages
  <2>2. r.status = "failed" /\ r.left = "closed" /\ ~r.refused /\ r.persisted = 0
        /\ r.counted = {}
    BY DEF NewRun
  <2> HIDE DEF r
  <2>3. runs' = Append(runs, r)
    BY <1>2 DEF r
  <2> QED
    BY <1>2, <2>1, <2>2, <2>3, ClosedRowStep
<1>3. CASE Blocked(p, s, path)
  BY <1>2, <1>3 DEF Blocked
<1>4. CASE CourtBusy(p)
  BY <1>2, <1>4, SourceRunsAssumption DEF CourtBusy, Paths
<1>5. CASE CourtStart(p)
  <2> DEFINE d == [Idle EXCEPT !.pc = "fetching", !.path = "court"]
  <2>1. /\ ses' = [ses EXCEPT ![p] = d] /\ UNCHANGED <<runs, rows>> /\ ~Live(p)
    BY <1>5 DEF CourtStart, Live
  <2>2. /\ d \in SessionRows /\ d.pc = "fetching" /\ d.path = "court" /\ d.run = 0
        /\ d.new = {} /\ d.result = "ok" /\ d.upd = {} /\ d.counted = {} /\ d.count = 0
    BY IdleRow DEF Idle, SessionRows, Paths
  <2> HIDE DEF d
  <2>3. Fits(d) /\ Whole(d)
    BY <2>2, FS_EmptySet DEF Fits, Whole
  <2> QED
    BY <2>1, <2>2, <2>3, OwnerlessStep
<1> QED
  BY <1>1, <1>3, <1>4, <1>5

\* The registry's operations and the uploads.
LEMMA AdminKeeps ==
    ASSUME RunInv, TypeOK', NEW s \in Sources, Admin(s)
    PROVE  RunInv'
<1>1. ASSUME UNCHANGED <<runs, rows, ses>>
      PROVE  RunInv'
  BY <1>1, RegistryStep
<1>2. CASE Enable(s) \/ Disable(s) \/ Repair(s) \/ \E a \in Automations : Patch(s, a)
  BY <1>1, <1>2 DEF Enable, Disable, Repair, Patch
<1>3. ASSUME NEW recs \in SUBSET Recs, Upload(s, recs)
      PROVE  RunInv'
  <2>1. recs \ Stored(s) \in SUBSET Recs /\ (recs \ Stored(s)) \cap StoredIn(rows, s) = {}
    BY DEF Stored, StoredIn
  <2> QED
    BY <1>3, <2>1, UploadStep DEF Upload
<1>4. CASE UploadRefused(s)
  <2> DEFINE r == NewRun(s, "api", "failed", "none")
  <2>1. r \in RunRows
    BY NewRunRow DEF Paths, Statuses, Stages
  <2>2. r.status = "failed" /\ r.left = "closed" /\ ~r.refused /\ r.persisted = 0
        /\ r.counted = {}
    BY DEF NewRun
  <2>3. runs' = Append(runs, r) /\ UNCHANGED <<rows, ses>>
    BY <1>4 DEF UploadRefused
  <2> HIDE DEF r
  <2> QED
    BY <2>1, <2>2, <2>3, ClosedRowStep
<1> QED
  BY <1>2, <1>3, <1>4 DEF Admin

\* The invariant is inductive.
LEMMA RunNext == RunInv /\ [Next]_vars => RunInv'
<1> SUFFICES ASSUME RunInv, [Next]_vars
             PROVE  RunInv'
  OBVIOUS
<1>1. TypeOK'
  BY TypeNext
<1>2. CASE UNCHANGED vars
  BY <1>1, <1>2, RegistryStep DEF vars
<1>3. CASE Next
  <2>1. "api" \in Paths /\ Court \in Sources
    BY SourceRunsAssumption DEF Paths
  <2> QED
    BY <1>1, <1>3, <2>1, WorkKeeps, BeginKeeps, AdminKeeps, ReleaseStep, CrashStep, Zenon
       DEF Next
<1> QED
  BY <1>2, <1>3

\* It holds at the start, when there is no row and no session at work.
LEMMA RunInit == Init => RunInv
<1> SUFFICES ASSUME Init
             PROVE  RunInv
  OBVIOUS
<1>1. runs = <<>> /\ rows = {} /\ \A p \in Sessions : ses[p] = Idle
  BY DEF Init
<1>2. OwnFresh /\ OwnedOnce /\ Brought /\ Lossless
  BY <1>1, IdleFits DEF OwnFresh, OwnedOnce, Brought, Lossless, Whole, Live, Idle
<1>3. Parted /\ RowsKnown /\ JobRefusalKept /\ CountsApart
  BY <1>1 DEF Parted, RowsKnown, JobRefusalKept, CountsApart
<1>4. CountsExplained
  BY <1>1 DEF CountsExplained
<1> QED
  BY <1>2, <1>3, <1>4, TypeInit DEF RunInv

\* So it holds in every state.
LEMMA RunInvHolds == Spec => []RunInv
  BY RunInit, RunNext, PTL DEF Spec

\* The registry, the runs, the records, the sessions and the locks keep their types.
THEOREM RunTypes == Spec => []TypeOK
<1>1. RunInv => TypeOK
  BY DEF RunInv
<1> QED
  BY <1>1, RunInvHolds, PTL

\* A row that says RUNNING has one session at work, or its replica died, or it is a
\* job's whose persisting raised or the command's (ingestion_run.py:197, ingest.py:181).
THEOREM RunningExplained == Spec => []RunningIsExplained
<1>1. RunInv => RunningIsExplained
  <2> SUFFICES ASSUME RunInv, NEW i \in DOMAIN runs, runs[i].status = "running"
               PROVE  \/ /\ runs[i].left = "open"
                         /\ \E p \in Sessions :
                                Owns(p, i) /\ \A q \in Sessions : Owns(q, i) => q = p
                      \/ runs[i].left = "crashed"
                      \/ runs[i].left = "raised" /\ runs[i].path = "job"
                      \/ runs[i].left = "unsaved" /\ runs[i].path = "cli"
    BY DEF RunningIsExplained
  <2>1. \A p \in Sessions : Owns(p, i) <=> Live(p) /\ ses[p].run = i
    BY DEF Owns, Live
  <2>2. CASE runs[i].left = "open"
    <3>1. PICK p \in Sessions : Live(p) /\ ses[p].run = i
      BY <2>2 DEF RunInv, Parted
    <3>2. \A q \in Sessions : Owns(q, i) => q = p
      BY <2>1, <3>1 DEF RunInv, OwnedOnce
    <3> QED
      BY <2>1, <2>2, <3>1, <3>2
  <2>3. CASE runs[i].left # "open"
    <3>1. runs[i].left \in {"open", "closed", "crashed", "raised", "unsaved"}
      <4>1. runs[i] \in RunRows
        BY DEF RunInv, TypeOK
      <4> QED
        BY <4>1 DEF RunRows
    <3> QED
      BY <2>3, <3>1 DEF RunInv, Parted
  <2> QED
    BY <2>2, <2>3
<1> QED
  BY <1>1, RunInvHolds, PTL

\* What a run row counts is explained by the records, whatever fails or races: what
\* its run wrote is counted, what it counted is stored unless it is a CourtListener run
\* that ended with errors, and a refused or failed run wrote and counted nothing
\* (source_runner.py:355, runner.py:163, persistence.py:53).
THEOREM CountsAreExplained == Spec => []CountsExplained
<1>1. RunInv => CountsExplained
  BY DEF RunInv
<1> QED
  BY <1>1, RunInvHolds, PTL

\* The job path keeps a refusal until a reviewer releases the run
\* (ingestion_run.py:160-180).
THEOREM JobRefusalsKept == Spec => []JobRefusalKept
<1>1. RunInv => JobRefusalKept
  BY DEF RunInv
<1> QED
  BY <1>1, RunInvHolds, PTL

--------------------------------------------------------------------------------
(* The two locks of the CourtListener run.                                    *)

\* The session is between taking the two locks and giving them back.
Fetching(p) == ses[p].pc = "fetching" /\ ses[p].path = "court"

\* Each lock names the session that fetches behind it, and no other.
LocksMatch ==
    /\ \A p \in Sessions, r \in Replicas : plock[r] = p <=> Fetching(p) /\ Home[p] = r
    /\ \A p \in Sessions, k \in Keys : alock[k] = p <=> Fetching(p) /\ KeyOf(p) = k

\* A step that touches neither the locks nor who fetches.
LEMMA LocksAlone ==
    ASSUME LocksMatch, UNCHANGED <<plock, alock, key>>,
           \A p \in Sessions : Fetching(p)' <=> Fetching(p)
    PROVE  LocksMatch'
  BY DEF LocksMatch, KeyOf

\* A run ends its fetch and gives both locks back.
LEMMA LocksReturned ==
    ASSUME LocksMatch, TypeOK, NEW p \in Sessions, Fetching(p), Unlock(p), UNCHANGED key,
           \A q \in Sessions : Fetching(q)' <=> q # p /\ Fetching(q)
    PROVE  LocksMatch'
<1>1. Home[p] \in Replicas /\ KeyOf(p) \in Keys
  BY SourceRunsAssumption DEF TypeOK, KeyOf
<1>2. \A r \in Replicas : plock'[r] = IF r = Home[p] THEN NoOne ELSE plock[r]
  BY DEF Unlock, TypeOK
<1>3. \A k \in Keys : alock'[k] = IF k = KeyOf(p) THEN NoOne ELSE alock[k]
  BY DEF Unlock, TypeOK
<1>4. \A q \in Sessions : KeyOf(q)' = KeyOf(q)
  BY DEF KeyOf
<1>5. plock[Home[p]] = p /\ alock[KeyOf(p)] = p
  BY <1>1 DEF LocksMatch
<1>6. \A q \in Sessions, r \in Replicas : plock'[r] = q <=> Fetching(q)' /\ Home[q] = r
  BY <1>2, <1>5, SourceRunsAssumption DEF LocksMatch
<1>7. \A q \in Sessions, k \in Keys : alock'[k] = q <=> Fetching(q)' /\ KeyOf(q)' = k
  BY <1>3, <1>4, <1>5, SourceRunsAssumption DEF LocksMatch
<1> QED
  BY <1>6, <1>7 DEF LocksMatch

\* A run takes both locks, which are free.
LEMMA LocksTaken ==
    ASSUME LocksMatch, TypeOK, NEW p \in Sessions, CourtStart(p)
    PROVE  LocksMatch'
<1>1. Home[p] \in Replicas /\ KeyOf(p) \in Keys
  BY SourceRunsAssumption DEF TypeOK, KeyOf
<1>2. plock[Home[p]] = NoOne /\ alock[KeyOf(p)] = NoOne /\ UNCHANGED key
  BY DEF CourtStart
<1>3. \A r \in Replicas : plock'[r] = IF r = Home[p] THEN p ELSE plock[r]
  BY DEF CourtStart, TypeOK
<1>4. \A k \in Keys : alock'[k] = IF k = KeyOf(p) THEN p ELSE alock[k]
  BY DEF CourtStart, TypeOK
<1>5. \A q \in Sessions : KeyOf(q)' = KeyOf(q)
  BY <1>2 DEF KeyOf
<1>6. Fetching(p)' /\ ~Fetching(p)
  BY DEF CourtStart, Fetching, TypeOK, Idle
<1>7. \A q \in Sessions : q # p => (Fetching(q)' <=> Fetching(q))
  BY DEF CourtStart, Fetching, TypeOK
<1>8. \A q \in Sessions, r \in Replicas : plock'[r] = q <=> Fetching(q)' /\ Home[q] = r
  BY <1>1, <1>2, <1>3, <1>6, <1>7, SourceRunsAssumption DEF LocksMatch
<1>9. \A q \in Sessions, k \in Keys : alock'[k] = q <=> Fetching(q)' /\ KeyOf(q)' = k
  BY <1>1, <1>2, <1>4, <1>5, <1>6, <1>7, SourceRunsAssumption DEF LocksMatch
<1> QED
  BY <1>8, <1>9 DEF LocksMatch

\* A replica dies with its locks, and with its key.
LEMMA LocksCrash ==
    ASSUME LocksMatch, TypeOK, NEW r \in Replicas, Crash(r)
    PROVE  LocksMatch'
<1> DEFINE dead == {p \in Sessions : Home[p] = r}
<1>1. \A p \in Sessions : Fetching(p)' <=> p \notin dead /\ Fetching(p)
  <2>1. \A p \in Sessions : ses'[p] = IF p \in dead THEN Idle ELSE ses[p]
    BY DEF Crash
  <2> QED
    BY <2>1 DEF Fetching, Idle
<1>2. \A p \in Sessions : p \notin dead => KeyOf(p)' = KeyOf(p)
  BY SourceRunsAssumption DEF Crash, KeyOf, TypeOK
<1>3. \A t \in Replicas : plock'[t] = IF t = r THEN NoOne ELSE plock[t]
  BY DEF Crash, TypeOK
<1>4. \A k \in Keys : alock'[k] = IF alock[k] \in dead THEN NoOne ELSE alock[k]
  BY DEF Crash
<1>5. \A p \in Sessions, t \in Replicas : plock'[t] = p <=> Fetching(p)' /\ Home[p] = t
  BY <1>1, <1>3, SourceRunsAssumption DEF LocksMatch
<1>6. \A p \in Sessions, k \in Keys : alock'[k] = p <=> Fetching(p)' /\ KeyOf(p)' = k
  BY <1>1, <1>2, <1>4, SourceRunsAssumption DEF LocksMatch
<1> QED
  BY <1>5, <1>6 DEF LocksMatch

\* The steps of a session at work.
LEMMA LocksWork ==
    ASSUME LocksMatch, TypeOK, NEW p \in Sessions, Work(p)
    PROVE  LocksMatch'
<1>1. ASSUME NEW d, ses' = [ses EXCEPT ![p] = d], d.pc # "fetching", ~Fetching(p),
             UNCHANGED <<plock, alock, key>>
      PROVE  LocksMatch'
  <2>1. \A q \in Sessions : Fetching(q)' <=> Fetching(q)
    BY <1>1 DEF Fetching, TypeOK
  <2> QED
    BY <1>1, <2>1, LocksAlone
<1>2. ASSUME NEW d, ses' = [ses EXCEPT ![p] = d], d.pc # "fetching", Fetching(p),
             Unlock(p), UNCHANGED key
      PROVE  LocksMatch'
  <2>1. \A q \in Sessions : Fetching(q)' <=> q # p /\ Fetching(q)
    BY <1>2 DEF Fetching, TypeOK
  <2> QED
    BY <1>2, <2>1, LocksReturned
<1>3. ses[p] \in SessionRows
  BY DEF TypeOK
<1>9. ASSUME NEW new, NEW upd, NEW counted, NEW again, NEW errors,
             Wrote(p, new, upd, counted, again, errors)
      PROVE  \E d : ses' = [ses EXCEPT ![p] = d] /\ d.pc # "fetching"
  <2> DEFINE n == Cardinality(counted) + Cardinality(again)
             d == [ses[p] EXCEPT !.pc = "flushed", !.errors = errors, !.new = new,
                                 !.upd = upd, !.counted = counted, !.count = n]
  <2>1. ses' = [ses EXCEPT ![p] = d]
    BY <1>9 DEF Wrote
  <2>2. d.pc # "fetching"
    BY <1>3 DEF SessionRows
  <2> HIDE DEF d
  <2> QED
    BY <2>1, <2>2
<1>4. ASSUME NEW recs, NEW part, NEW again, NEW errors, Flush(p, recs, part, again, errors)
      PROVE  LocksMatch'
  <2>1. /\ \E d : ses' = [ses EXCEPT ![p] = d] /\ d.pc # "fetching"
        /\ ~Fetching(p) /\ UNCHANGED <<plock, alock, key>>
    BY <1>4, <1>9 DEF Flush, Fetching
  <2> QED
    BY <1>1, <2>1
<1>10. ASSUME NEW kept, NEW lost, NEW again, NEW errors,
              CourtFlush(p, kept, lost, again, errors)
       PROVE  LocksMatch'
  <2>1. /\ \E d : ses' = [ses EXCEPT ![p] = d] /\ d.pc # "fetching"
        /\ Fetching(p) /\ Unlock(p) /\ UNCHANGED key
    BY <1>9, <1>10 DEF CourtFlush, Fetching
  <2> QED
    BY <1>2, <2>1
<1>5. ASSUME NEW result \in Results, NEW errors \in BOOLEAN, Refuse(p, result, errors)
      PROVE  LocksMatch'
  <2> DEFINE d == [ses[p] EXCEPT !.pc = "flushed", !.errors = errors, !.result = result]
  <2>1. d.pc # "fetching"
    BY <1>3 DEF SessionRows
  <2> QED
    BY <1>1, <1>5, <2>1 DEF Refuse, Fetching
<1>6. CASE AdapterRaises(p) \/ Commit(p)
  <2> DEFINE d == IF ses[p].path = "job" THEN [ses[p] EXCEPT !.pc = "health"] ELSE Idle
  <2>1. d.pc # "fetching"
    BY <1>3 DEF SessionRows, Idle
  <2>2. /\ ses' = [ses EXCEPT ![p] = d] /\ UNCHANGED <<plock, alock, key>> /\ ~Fetching(p)
    BY <1>6 DEF AdapterRaises, Commit, Fetching
  <2> HIDE DEF d
  <2> QED
    BY <1>1, <2>1, <2>2
<1>7. CASE ApiFails(p) \/ JobFails(p) \/ JobHealth(p) \/ CliDiscards(p)
             \/ CourtCommit(p) \/ CourtAborts(p)
  <2>1. Idle.pc # "fetching"
    BY DEF Idle
  <2>2. /\ ses' = [ses EXCEPT ![p] = Idle] /\ UNCHANGED <<plock, alock, key>>
        /\ ~Fetching(p)
    BY <1>7 DEF ApiFails, JobFails, JobHealth, CliDiscards, CourtCommit, CourtAborts,
                Fetching
  <2> QED
    BY <1>1, <2>1, <2>2
<1>8. CASE CourtRaises(p)
  <2> DEFINE d == [ses[p] EXCEPT !.pc = "flushed", !.result = "raised"]
  <2>1. d.pc # "fetching"
    BY <1>3 DEF SessionRows
  <2>2. /\ ses' = [ses EXCEPT ![p] = d] /\ Unlock(p) /\ UNCHANGED key /\ Fetching(p)
    BY <1>8 DEF CourtRaises, Fetching
  <2> HIDE DEF d
  <2> QED
    BY <1>2, <2>1, <2>2
<1> QED
  BY <1>4, <1>5, <1>6, <1>7, <1>8, <1>10, Zenon DEF Work

\* The locks match in every state.
LEMMA LocksNext == RunInv /\ LocksMatch /\ [Next]_vars => LocksMatch'
<1> SUFFICES ASSUME RunInv, LocksMatch, [Next]_vars
             PROVE  LocksMatch'
  OBVIOUS
<1>0. TypeOK
  BY DEF RunInv
<1>1. ASSUME UNCHANGED <<ses, plock, alock, key>>
      PROVE  LocksMatch'
  BY <1>1, LocksAlone DEF Fetching
<1>2. CASE UNCHANGED vars
  BY <1>1, <1>2 DEF vars
<1>3. ASSUME NEW p \in Sessions, NEW s \in Sources, NEW path \in Paths, Start(p, s, path)
      PROVE  LocksMatch'
  <2>1. \A q \in Sessions : Fetching(q)' <=> Fetching(q)
    BY <1>0, <1>3 DEF Start, Fetching, TypeOK, Idle
  <2> QED
    BY <1>3, <2>1, LocksAlone DEF Start
<1>4. ASSUME NEW p \in Sessions, NEW s \in Sources, NEW path \in Paths, Blocked(p, s, path)
      PROVE  LocksMatch'
  BY <1>1, <1>4 DEF Blocked
<1>5. ASSUME NEW p \in Sessions, CourtStart(p) \/ CourtBusy(p) \/ Work(p)
      PROVE  LocksMatch'
  <2>1. CASE CourtBusy(p)
    BY <1>1, <2>1 DEF CourtBusy
  <2> QED
    BY <1>0, <1>5, <2>1, LocksTaken, LocksWork
<1>6. ASSUME NEW s \in Sources, Admin(s)
      PROVE  LocksMatch'
  BY <1>1, <1>6 DEF Admin, Enable, Disable, Repair, Patch, Upload, UploadRefused
<1>7. ASSUME NEW i \in DOMAIN runs, Release(i)
      PROVE  LocksMatch'
  BY <1>1, <1>7 DEF Release
<1>8. ASSUME NEW r \in Replicas, Crash(r)
      PROVE  LocksMatch'
  BY <1>0, <1>8, LocksCrash
<1>9. CASE Next
  BY <1>3, <1>4, <1>5, <1>6, <1>7, <1>8, <1>9, Zenon DEF Next
<1> QED
  BY <1>2, <1>9

\* Two CourtListener runs never fetch behind one process lock or one advisory key,
\* in any number of replicas that start and die (runner.py:92, 112, 206).
THEOREM CourtRunsExclude == Spec => []CourtExclusion
<1>1. Init => LocksMatch
  BY SourceRunsAssumption DEF Init, LocksMatch, Fetching, Idle, KeyOf
<1>2. Spec => []LocksMatch
  BY <1>1, LocksNext, RunInvHolds, PTL DEF Spec
<1>3. RunInv /\ LocksMatch => CourtExclusion
  <2> SUFFICES ASSUME TypeOK, LocksMatch
               PROVE  CourtExclusion
    BY DEF RunInv
  <2>1. \A p, q \in Sessions : Fetching(p) /\ Fetching(q) /\ p # q =>
            Home[p] # Home[q] /\ KeyOf(p) # KeyOf(q)
    BY SourceRunsAssumption DEF LocksMatch, TypeOK, KeyOf
  <2> QED
    BY <2>1 DEF CourtExclusion, LocksMatch, Fetching
<1> QED
  BY <1>2, <1>3, RunInvHolds, PTL
================================================================================
