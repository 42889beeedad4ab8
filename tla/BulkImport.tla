------------------------------ MODULE BulkImport ------------------------------
(***************************************************************************)
(* The import of a CourtListener bulk snapshot, file by file, by the admin *)
(* route (one session; the run row and the rows of a file in one           *)
(* transaction) and by the script (the run row committed first).  A row    *)
(* whose insert fails rolls the WHOLE transaction back and the file goes   *)
(* on: what was rolled back stays counted, and a run row the route had not *)
(* committed is gone.                                                      *)
(***************************************************************************)
EXTENDS Integers, Sequences, FiniteSets

CONSTANTS
    Files,     \* the files in the order of the import: [stem, rows]
    Sessions,
    MaxCalls,  \* bound: imports started
    None

\* A row: its key (None when a required column is empty) and the keys it refers to.
Stems == {"courts", "people", "positions", "dockets", "clusters", "opinions"}

\* Only a row of positions, dockets or clusters names what must be there before it.
BulkImportAssumption ==
    /\ Files # <<>> /\ Files \in Seq({Files[f] : f \in DOMAIN Files})
    /\ \A f \in DOMAIN Files :
        LET rows == Files[f].rows IN
        /\ Files[f].stem \in Stems /\ rows \in Seq({rows[k] : k \in DOMAIN rows})
        /\ Files[f].stem \in {"courts", "people", "opinions"} =>
             \A k \in DOMAIN rows : rows[k].needs = {}

VARIABLES
    runs,    \* file -> Absent, or its CourtListenerBulkRun
    stored,  \* the committed records: [key, needs, run]
    traced,  \* the records of the committed CLBulkProvenance rows
    call,    \* session -> Idle, or the import under way
    undone,  \* the runs whose last import to end rolled back on the way
    nextId,
    calls

vars == <<runs, stored, traced, call, undone, nextId, calls>>

Idle == [at |-> 0]
Keys(records) == {r.key : r \in records}
Zero == [persisted |-> 0, skipped |-> 0, errors |-> 0]
Row(id, status, count) == [id |-> id, status |-> status, count |-> count]
Absent == Row(0, "none", Zero)

Init ==
    /\ runs = [f \in DOMAIN Files |-> Absent]
    /\ stored = {} /\ traced = {}
    /\ call = [s \in Sessions |-> Idle]
    /\ undone = {} /\ nextId = 1 /\ calls = 0

--------------------------------------------------------------------------------
(* What becomes of a row, given the keys the transaction sees.                *)

Courts(row, seen) ==
    IF row.key = None THEN "error" ELSE IF row.key \in seen THEN "skipped" ELSE "stored"

\* By the person's id, then by the normalised name.
People(row, seen) ==
    IF row.key = None THEN "error" ELSE IF row.key \in seen THEN "skipped" ELSE "stored"

\* The key is the judge's seat: a judge who has a court keeps it.
Positions(row, seen) ==
    IF row.key = None \/ ~ row.needs \subseteq seen \/ row.key \in seen
    THEN "skipped" ELSE "stored"

Dockets(row, seen) ==
    IF row.key = None \/ ~ row.needs \subseteq seen THEN "error"
    ELSE IF row.key \in seen THEN "skipped" ELSE "stored"

\* The event, its legal source, their link and the correctness check are one record here.
Clusters(row, seen) ==
    IF row.key = None THEN "error"
    ELSE IF ~ row.needs \subseteq seen \/ row.key \in seen THEN "skipped" ELSE "stored"

Opinions(row, seen) ==
    IF row.key = None \/ row.key \in seen THEN "skipped" ELSE "stored"

Outcome(stem, row, seen) ==
    CASE stem = "courts"    -> Courts(row, seen)
      [] stem = "people"    -> People(row, seen)
      [] stem = "positions" -> Positions(row, seen)
      [] stem = "dockets"   -> Dockets(row, seen)
      [] stem = "clusters"  -> Clusters(row, seen)
      [] stem = "opinions"  -> Opinions(row, seen)

Counted(count, outcome) ==
    CASE outcome = "stored"  -> [count EXCEPT !.persisted = @ + 1]
      [] outcome = "skipped" -> [count EXCEPT !.skipped = @ + 1]
      [] outcome = "error"   -> [count EXCEPT !.skipped = @ + 1, !.errors = @ + 1]

--------------------------------------------------------------------------------
(* One file of a call.  call[s] is [via, force, at, phase, id, loose, kept,    *)
(* next, count, recs, links, broken]: the file, the run's id, whether the     *)
(* transaction holds the run row no longer (loose), whether the row was there *)
(* before (kept), the next row, the counts, what the transaction holds and    *)
(* whether it rolled back.                                                    *)

Enter(s, via, force) ==
    /\ call[s] = Idle /\ calls < MaxCalls
    /\ calls' = calls + 1
    /\ call' = [call EXCEPT ![s] = [via |-> via, force |-> force, at |-> 1, phase |-> "file"]]
    /\ UNCHANGED <<runs, stored, traced, undone, nextId>>

After(c) == IF c.at = Len(Files) THEN Idle
            ELSE [via |-> c.via, force |-> c.force, at |-> c.at + 1, phase |-> "file"]

Working(s) == call[s] # Idle /\ call[s].phase = "rows"

\* The run row is locked by another transaction that has inserted or updated it.
Locked(s, f) == \E t \in Sessions \ {s} :
    Working(t) /\ call[t].at = f /\ call[t].via = "route" /\ ~call[t].loose

Done(run) == run.status \in {"done", "done_with_errors"}

\* The file is not there, or already done and not forced.
Skip(s) ==
    /\ call[s] # Idle /\ call[s].phase = "file"
    /\ LET c == call[s] IN
       /\ \/ Files[c.at].rows = <<>>
          \/ Done(runs[c.at]) /\ ~c.force
       /\ call' = [call EXCEPT ![s] = After(c)]
    /\ UNCHANGED <<runs, stored, traced, undone, nextId, calls>>

\* Provenance rows refer to the run: a forced import cannot delete it.
Referred(id) ==
    \/ \E p \in traced : p.run = id
    \/ \E s \in Sessions : Working(s) /\ \E p \in call[s].links : p.run = id

Opened(c, id, loose, kept) ==
    [via |-> c.via, force |-> c.force, at |-> c.at, phase |-> "rows", id |-> id,
     loose |-> loose, kept |-> kept, next |-> 1, count |-> Zero, recs |-> {}, links |-> {},
     broken |-> FALSE]

\* get_or_create_bulk_run, the deletion when forced, mark_run_started.  The route works on
\* in the same transaction; the script commits and opens another session.
Begin(s) ==
    /\ call[s] # Idle /\ call[s].phase = "file"
    /\ LET c == call[s]
           old == runs[c.at]
           new == old = Absent \/ c.force
           id == IF new THEN nextId ELSE old.id IN
       /\ Files[c.at].rows # <<>> /\ ~Locked(s, c.at)
       /\ c.force \/ ~Done(old)
       /\ new /\ old # Absent => ~Referred(old.id)
       /\ nextId' = IF new THEN nextId + 1 ELSE nextId
       /\ IF c.via = "route"
          THEN /\ call' = [call EXCEPT ![s] = Opened(c, id, FALSE, ~new)]
               /\ UNCHANGED runs
          ELSE /\ call' = [call EXCEPT ![s].phase = "open"]
               /\ runs' = [runs EXCEPT ![c.at] =
                            IF new THEN Row(id, "running", Zero) ELSE [@ EXCEPT !.status = "running"]]
    /\ UNCHANGED <<stored, traced, undone, calls>>

\* The script's second session reads the run again, by the file's name.
Open(s) ==
    /\ call[s] # Idle /\ call[s].phase = "open"
    /\ runs[call[s].at] # Absent
    /\ call' = [call EXCEPT ![s] = Opened(call[s], runs[call[s].at].id, TRUE, TRUE)]
    /\ UNCHANGED <<runs, stored, traced, undone, nextId, calls>>

CurrentRow(s) == Files[call[s].at].rows[call[s].next]
RowOutcome(s) ==
    Outcome(Files[call[s].at].stem, CurrentRow(s), Keys(stored) \cup Keys(call[s].recs))

HasRow(s) == Working(s) /\ call[s].next <= Len(Files[call[s].at].rows)

\* The run row a provenance row refers to: in the tables, or in this transaction.
RunThere(c) ==
    \/ c.via = "route" /\ ~c.loose
    \/ runs[c.at].id = c.id

Deleting(s, f) == Locked(s, f) /\ runs[f] # Absent /\ \E t \in Sessions \ {s} :
    Working(t) /\ call[t].at = f /\ ~call[t].loose /\ ~call[t].kept

\* The insert waits for a transaction that holds the same key, and its provenance for one
\* that deletes the run.
TakeRow(s) ==
    /\ HasRow(s)
    /\ LET c == call[s]
           outcome == RowOutcome(s)
           record == [key |-> CurrentRow(s).key, needs |-> CurrentRow(s).needs, run |-> c.id]
           kept == outcome = "stored" IN
       /\ kept => \A t \in Sessions \ {s} : Working(t) => record.key \notin Keys(call[t].recs)
       /\ kept => ~Deleting(s, c.at)
       /\ call' = [call EXCEPT ![s] =
            [c EXCEPT !.next = @ + 1, !.count = Counted(@, outcome),
                      !.recs = IF kept THEN @ \cup {record} ELSE @,
                      !.links = IF kept /\ RunThere(c) THEN @ \cup {record} ELSE @]]
    /\ UNCHANGED <<runs, stored, traced, undone, nextId, calls>>

RolledBack(c, outcome) ==
    [c EXCEPT !.next = @ + 1, !.count = Counted(@, outcome),
              !.recs = {}, !.links = {}, !.loose = TRUE,
              !.broken = TRUE]

\* Mutant: the row is counted before its insert.
BreakRowCounted(s) ==
    /\ HasRow(s) /\ RowOutcome(s) = "stored"
    /\ call' = [call EXCEPT ![s] =
                 [RolledBack(@, "error") EXCEPT !.count.persisted = @ + 1]]
    /\ UNCHANGED <<runs, stored, traced, undone, nextId, calls>>

\* The insert fails (a value too long, a duplicate, a deadlock): db.rollback().
BreakRow(s) ==
    /\ HasRow(s) /\ RowOutcome(s) = "stored"
    /\ \E outcome \in {"skipped", "error"} :
        call' = [call EXCEPT ![s] = RolledBack(call[s], outcome)]
    /\ UNCHANGED <<runs, stored, traced, undone, nextId, calls>>

Status(count) == IF count.errors = 0 THEN "done" ELSE "done_with_errors"

\* mark_run_done and the commit.  A run row the route's rollback has undone is not written
\* again.
Finish(s) ==
    /\ Working(s) /\ call[s].next > Len(Files[call[s].at].rows)
    /\ ~Locked(s, call[s].at)
    /\ LET c == call[s]
           row == Row(c.id, Status(c.count), c.count) IN
       /\ c.kept => runs[c.at].id = c.id
       /\ runs' = IF c.kept \/ ~c.loose THEN [runs EXCEPT ![c.at] = row] ELSE runs
       /\ stored' = stored \cup c.recs
       /\ traced' = traced \cup c.links
       /\ undone' = IF c.broken THEN undone \cup {c.id} ELSE undone \ {c.id}
       /\ call' = [call EXCEPT ![s] = After(c)]
    /\ UNCHANGED <<nextId, calls>>

\* Outside the rows' own try (a malformed line, the run row deleted meanwhile): the route
\* commits what it holds with a failed run; the script's session is closed, and a third one
\* marks whatever run the file has.
Fail(s) ==
    /\ Working(s) /\ ~Locked(s, call[s].at)
    /\ LET c == call[s]
           route == c.via = "route" IN
       /\ route => (c.kept => runs[c.at].id = c.id)
       /\ runs' = [runs EXCEPT ![c.at] =
                    IF route /\ ~c.loose /\ ~c.kept THEN Row(c.id, "failed", Zero)
                    ELSE IF @ = Absent \/ (route /\ ~c.kept) THEN @
                    ELSE [@ EXCEPT !.status = "failed"]]
       /\ stored' = IF route THEN stored \cup c.recs ELSE stored
       /\ traced' = IF route THEN traced \cup c.links ELSE traced
       /\ call' = [call EXCEPT ![s] = After(c)]
    /\ UNCHANGED <<undone, nextId, calls>>

\* A crash, a failed audit entry or commit, an exception outside every try.
Abort(s) ==
    /\ call[s] # Idle
    /\ call' = [call EXCEPT ![s] = Idle]
    /\ UNCHANGED <<runs, stored, traced, undone, nextId, calls>>

Next ==
    \E s \in Sessions :
        \/ \E via \in {"route", "script"}, force \in BOOLEAN : Enter(s, via, force)
        \/ Skip(s) \/ Begin(s) \/ Open(s) \/ TakeRow(s) \/ BreakRow(s)
        \/ Finish(s) \/ Fail(s) \/ Abort(s)

Spec == Init /\ [][Next]_vars

--------------------------------------------------------------------------------
TypeOK ==
    /\ \A f \in DOMAIN Files : runs[f] = Absent \/ runs[f].id \in 1..nextId - 1
    /\ traced \subseteq stored /\ undone \subseteq 1..nextId - 1

\* Every row read is counted once, as persisted or as skipped, in a run that is done
\* (courtlistener_bulk_normalizer.py:124).
Balanced ==
    \A f \in DOMAIN Files : Done(runs[f]) =>
        LET count == runs[f].count IN
        /\ count.persisted + count.skipped = Len(Files[f].rows)
        /\ count.errors <= count.skipped

\* A run that is done, and lost nothing to a rollback, leaves no row of its file out but
\* those it reported or whose references were missing: the next import may skip it
\* (courtlistener_bulk_normalizer.py:380).
DoneIsWhole ==
    \A f \in DOMAIN Files :
        runs[f].status = "done" /\ runs[f].id \notin undone =>
            \A k \in DOMAIN Files[f].rows :
                LET row == Files[f].rows[k] IN
                row.key # None /\ row.needs = {} => row.key \in Keys(stored)

\* What a run that is still there has stored can be traced to it, and what is traced to a
\* run names one that is there (models/entities.py:760).
Traced ==
    /\ \A r \in stored : (\E f \in DOMAIN Files : runs[f].id = r.run) =>
            r \in traced
    /\ \A p \in traced : \E f \in DOMAIN Files : runs[f].id = p.run

\* A record is stored after those it refers to, whatever was rolled back between
\* (courtlistener_bulk_normalizer.py:527).
NeedsStored == \A r \in stored : r.needs \subseteq Keys(stored)

BulkSafe == TypeOK /\ Balanced /\ DoneIsWhole /\ Traced /\ NeedsStored
================================================================================
