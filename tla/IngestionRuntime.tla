---------------------------- MODULE IngestionRuntime ----------------------------
(***************************************************************************)
(* The ingestion runtime (ingestion/runtime): IngestionWorker.run over one *)
(* adapter, the in-memory singletons it shares with every other thread of  *)
(* the process (checkpoints, crawl states, health, schedule, retry queue), *)
(* and replay, which calls a worker in its turn.  The ingestion_runs rows  *)
(* are written in the worker's own session, which the caller commits; a    *)
(* flush that fails rolls all of it back, and the worker goes on.          *)
(***************************************************************************)
EXTENDS Integers, Sequences, FiniteSets

CONSTANTS
    Sources, Workers,
    MaxFetched,  \* bound on the raw records of one fetch
    MaxParsed,   \* bound on the records parse_many makes of a raw one
    BatchSize,   \* _CHECKPOINT_BATCH_SIZE, 50 in the code
    MaxRuns,     \* bound on the run rows
    MaxAttempts, \* bound on the attempts of a retry item
    None

IngestionRuntimeAssumption ==
    /\ MaxFetched \in Nat /\ MaxParsed \in Nat /\ BatchSize \in Nat \ {0}
    /\ MaxRuns \in Nat /\ MaxAttempts \in Nat
    /\ None \notin Nat

VARIABLES
    active,     \* Sources -> SourceRegistry.is_active
    schedule,   \* Sources -> [enabled, next_run is due]
    checkpoint, \* Sources -> the run that saved it and its offset, or None
    crawl,      \* Sources -> [total_fetched, page], or None
    health,     \* Sources -> _HealthMetrics
    retries,    \* [Sources \X run ids -> attempt and due], a partial function
    runs,       \* the run rows
    wk          \* Workers -> the call under way

vars == <<active, schedule, checkpoint, crawl, health, retries, runs, wk>>

Statuses == {"running", "completed", "completed_with_warnings", "failed"}
\* replay: pipeline_stage is "replay"; errs: the length of the errors list.  History:
\* unparsed counts the parse errors among them, fatal is a run an exception ended, kept
\* a row its session could still commit when the call returned.
Runs == [source : Sources, status : Statuses, replay : BOOLEAN, fetched : Nat, parsed : Nat,
         persisted : Nat, skipped : Nat, errs : Nat, errcount : Nat, unparsed : Nat,
         fatal : BOOLEAN, kept : BOOLEAN]
NewRun(s, replay) ==
    [source |-> s, status |-> "running", replay |-> replay, fetched |-> 0, parsed |-> 0,
     persisted |-> 0, skipped |-> 0, errs |-> 0, errcount |-> 0, unparsed |-> 0,
     fatal |-> FALSE, kept |-> TRUE]

\* The locals of run(): run is the row, left the raw records to go, todo the parsed ones
\* of the raw record at hand; outer is the row of the replay that made the call, 0 for
\* none; dead says the session was deactivated by a failed flush.
Idle == [pc |-> "idle", run |-> 0, outer |-> 0, left |-> 0, todo |-> 0, parsed |-> 0,
         persisted |-> 0, skipped |-> 0, errors |-> 0, batch |-> 0, dead |-> FALSE]

NoHealth == [consecutive |-> 0, total |-> 0, success |-> 0, failure |-> 0]

Init ==
    /\ active = [s \in Sources |-> TRUE]
    /\ schedule = [s \in Sources |-> [enabled |-> TRUE, due |-> TRUE]]
    /\ checkpoint = [s \in Sources |-> None]
    /\ crawl = [s \in Sources |-> None]
    /\ health = [s \in Sources |-> NoHealth]
    /\ retries = <<>>
    /\ runs = <<>>
    /\ wk = [w \in Workers |-> Idle]

Src(w) == runs[wk[w].run].source

--------------------------------------------------------------------------------
(* The worker.                                                                *)

\* The gate, the open run, the cursor and the crawl state.  A caller starts a source
\* that due_sources lists; nothing keeps two threads from starting the same one.
Start(w, s) ==
    /\ wk[w].pc = "idle"
    /\ schedule[s].enabled /\ schedule[s].due
    /\ active[s]
    /\ Len(runs) < MaxRuns
    /\ runs' = Append(runs, NewRun(s, FALSE))
    /\ crawl' = [crawl EXCEPT ![s] = [total |-> 0, page |-> 0]]
    /\ wk' = [wk EXCEPT ![w] = [Idle EXCEPT !.pc = "fetch", !.run = Len(runs) + 1]]
    /\ UNCHANGED <<active, schedule, checkpoint, health, retries>>

\* replay(): its own row, then worker.run, whose gate lets the source in.
Replay(w, s) ==
    /\ wk[w].pc = "idle"
    /\ checkpoint[s] # None
    /\ active[s]
    /\ Len(runs) + 1 < MaxRuns
    /\ runs' = runs \o <<NewRun(s, TRUE), NewRun(s, FALSE)>>
    /\ crawl' = [crawl EXCEPT ![s] = [total |-> 0, page |-> 0]]
    /\ wk' = [wk EXCEPT ![w] = [Idle EXCEPT !.pc = "fetch", !.run = Len(runs) + 2,
                                            !.outer = Len(runs) + 1]]
    /\ UNCHANGED <<active, schedule, checkpoint, health, retries>>

\* The gate raises before run()'s try, so replay() closes its row as failed and keeps
\* the checkpoint.
ReplayRefused(w, s) ==
    /\ wk[w].pc = "idle"
    /\ checkpoint[s] # None
    /\ ~active[s]
    /\ Len(runs) < MaxRuns
    /\ runs' = Append(runs, [NewRun(s, TRUE) EXCEPT !.status = "failed", !.errs = 1,
                                                    !.errcount = 1, !.fatal = TRUE])
    /\ UNCHANGED <<active, schedule, checkpoint, crawl, health, retries, wk>>

Fetched(w, n) ==
    /\ wk[w].pc = "fetch"
    /\ runs' = [runs EXCEPT ![wk[w].run].fetched = n]
    /\ wk' = [wk EXCEPT ![w].pc = "records", ![w].left = n]
    /\ UNCHANGED <<active, schedule, checkpoint, crawl, health, retries>>

Success(h) == [consecutive |-> 0, total |-> h.total + 1,
               success |-> h.success + 1, failure |-> h.failure]
Failure(h) == [consecutive |-> h.consecutive + 1, total |-> h.total + 1,
               success |-> h.success, failure |-> h.failure + 1]

\* append_error, and what the except clause makes of a row.
WithError(r) == [r EXCEPT !.errs = @ + 1, !.errcount = r.errs + 1]
Raised(r, dead) == [WithError(r) EXCEPT !.status = "failed", !.fatal = TRUE, !.kept = ~dead]

\* The end of replay(), if this call came from it: worker.run returns its row whatever
\* happened inside, so the replay is complete and the checkpoint is cleared.
OuterClosed(w, rows, persisted) ==
    IF wk[w].outer = 0 THEN rows
    ELSE [rows EXCEPT ![wk[w].outer].status = "completed",
                      ![wk[w].outer].persisted = persisted,
                      ![wk[w].outer].kept = ~wk[w].dead]

\* run()'s except clause, but for the checkpoint and the crawl state.
Ends(w, r) ==
    /\ runs' = OuterClosed(w, [runs EXCEPT ![wk[w].run] = Raised(r, wk[w].dead)], r.persisted)
    /\ health' = [health EXCEPT ![r.source] = Failure(@)]
    /\ schedule' = [schedule EXCEPT ![r.source].due = FALSE]
    /\ wk' = [wk EXCEPT ![w] = Idle]
    /\ UNCHANGED <<active, retries>>

\* Mutant: the exception path leaves the crawl state.
FatalKeepsCrawl(w, r) ==
    /\ Ends(w, r)
    /\ checkpoint' = IF wk[w].outer = 0 THEN checkpoint
                     ELSE [checkpoint EXCEPT ![r.source] = None]
    /\ UNCHANGED crawl

\* run()'s except clause.
Fatal(w, r) ==
    /\ Ends(w, r)
    /\ checkpoint' = IF wk[w].outer = 0 THEN checkpoint
                     ELSE [checkpoint EXCEPT ![r.source] = None]
    /\ crawl' = [crawl EXCEPT ![r.source] = None]

FetchFails(w) ==
    /\ wk[w].pc = "fetch"
    /\ Fatal(w, runs[wk[w].run])

NotParsed(r) == [WithError(r) EXCEPT !.unparsed = @ + 1]

\* parse_many raises: an error, and the record is left out of the batch.
ParseFails(w) ==
    /\ wk[w].pc = "records" /\ wk[w].left > 0
    /\ runs' = [runs EXCEPT ![wk[w].run] = NotParsed(@)]
    /\ wk' = [wk EXCEPT ![w].left = @ - 1, ![w].errors = @ + 1]
    /\ UNCHANGED <<active, schedule, checkpoint, crawl, health, retries>>

\* parse_many: any number of records, none of a docket without entries.
Parse(w, n) ==
    /\ wk[w].pc = "records" /\ wk[w].left > 0
    /\ wk' = [wk EXCEPT ![w].pc = "parsed", ![w].left = @ - 1, ![w].todo = n,
                        ![w].parsed = @ + n]
    /\ UNCHANGED <<active, schedule, checkpoint, crawl, health, retries, runs>>

Outcomes == {"persisted", "skipped", "persist_error", "flush_error"}

\* Mutant: a record whose persisting raised is counted, not reported.
RecordUnreported(w, outcome) ==
    /\ wk[w].pc = "parsed" /\ wk[w].todo > 0
    /\ wk[w].dead => outcome \in {"skipped", "persist_error"}
    /\ wk' = [wk EXCEPT ![w].todo = @ - 1,
            ![w].errors = IF outcome \in {"persist_error", "flush_error"} THEN @ + 1 ELSE @,
            ![w].skipped = IF outcome = "skipped" THEN @ + 1 ELSE @,
            ![w].persisted = IF outcome = "persisted" THEN @ + 1 ELSE @,
            ![w].dead = @ \/ outcome = "flush_error"]
    /\ UNCHANGED <<active, schedule, checkpoint, crawl, health, retries, runs>>

\* A parsed record: new, a duplicate or one persist_parsed_record skips, one whose
\* persisting raises.  After a failed flush the session refuses every statement: dedupe
\* swallows that, so a record without a docket number is skipped and all others raise.
Record(w, outcome) ==
    /\ wk[w].pc = "parsed" /\ wk[w].todo > 0
    /\ wk[w].dead => outcome \in {"skipped", "persist_error"}
    /\ runs' = IF outcome \in {"persist_error", "flush_error"}
               THEN [runs EXCEPT ![wk[w].run] = WithError(@)] ELSE runs
    /\ wk' = [wk EXCEPT ![w].todo = @ - 1,
            ![w].errors = IF outcome \in {"persist_error", "flush_error"} THEN @ + 1 ELSE @,
            ![w].skipped = IF outcome = "skipped" THEN @ + 1 ELSE @,
            ![w].persisted = IF outcome = "persisted" THEN @ + 1 ELSE @,
            ![w].dead = @ \/ outcome = "flush_error"]
    /\ UNCHANGED <<active, schedule, checkpoint, crawl, health, retries>>

\* The raw record is done; after each full batch of them the checkpoint and the crawl
\* state are advanced.
BatchFull(w) == (wk[w].batch + 1) % BatchSize = 0

RawDone(w) ==
    LET s == Src(w) IN
    /\ wk[w].pc = "parsed" /\ wk[w].todo = 0
    /\ ~(BatchFull(w) /\ crawl[s] = None)
    /\ checkpoint' = IF BatchFull(w)
                     THEN [checkpoint EXCEPT ![s] = [run |-> wk[w].run, offset |-> wk[w].batch + 1]]
                     ELSE checkpoint
    /\ crawl' = IF BatchFull(w)
                THEN [crawl EXCEPT ![s] = [total |-> @.total + wk[w].batch + 1, page |-> @.page + 1]]
                ELSE crawl
    /\ wk' = [wk EXCEPT ![w].pc = "records", ![w].batch = @ + 1]
    /\ UNCHANGED <<active, schedule, health, retries, runs>>

\* A crawl state another worker has finished is a fatal KeyError, after the checkpoint
\* was saved.
AdvanceFails(w) ==
    LET s == Src(w) IN
    /\ wk[w].pc = "parsed" /\ wk[w].todo = 0
    /\ BatchFull(w) /\ crawl[s] = None
    /\ Ends(w, runs[wk[w].run])
    /\ checkpoint' = [checkpoint EXCEPT ![s] =
            IF wk[w].outer # 0 THEN None
            ELSE [run |-> wk[w].run, offset |-> wk[w].batch + 1]]
    /\ UNCHANGED crawl

FinalStatus(errors, persisted) ==
    IF errors = 0 THEN "completed"
    ELSE IF persisted > 0 THEN "completed_with_warnings" ELSE "failed"

\* The final counts: append_error has already set error_count, the errors are added again.
Counted(r, d) ==
    [r EXCEPT !.parsed = @ + d.parsed, !.persisted = @ + d.persisted,
              !.skipped = @ + d.skipped, !.errcount = @ + d.errors,
              !.status = FinalStatus(d.errors, d.persisted), !.kept = ~d.dead]

\* The counts, the close, the cleared checkpoint, health and schedule.
Finish(w) ==
    LET d == wk[w]
        s == Src(w)
    IN
    /\ d.pc = "records" /\ d.left = 0
    /\ runs' = OuterClosed(w, [runs EXCEPT ![d.run] = Counted(@, d)], d.persisted)
    /\ checkpoint' = [checkpoint EXCEPT ![s] = None]
    /\ crawl' = [crawl EXCEPT ![s] = None]
    /\ health' = [health EXCEPT ![s] = IF FinalStatus(d.errors, d.persisted) = "failed"
                                        THEN Failure(@) ELSE Success(@)]
    /\ schedule' = [schedule EXCEPT ![s].due = FALSE]
    /\ wk' = [wk EXCEPT ![w] = Idle]
    /\ UNCHANGED <<active, retries>>

--------------------------------------------------------------------------------
(* The retry queue, the schedule and the process.                             *)

Attempts(k) == IF k \in DOMAIN retries THEN retries[k].attempt ELSE 0

\* enqueue for a failed run.
Enqueue(i) ==
    LET k == <<runs[i].source, i>> IN
    /\ runs[i].status = "failed"
    /\ Attempts(k) < MaxAttempts
    /\ retries' = [x \in DOMAIN retries \cup {k} |->
            IF x # k THEN retries[x] ELSE [attempt |-> Attempts(k) + 1, due |-> FALSE]]
    /\ UNCHANGED <<active, schedule, checkpoint, crawl, health, runs, wk>>

\* dequeue_due: what is due leaves the queue with its attempt count.
DequeueDue ==
    /\ \E k \in DOMAIN retries : retries[k].due
    /\ retries' = [x \in {k \in DOMAIN retries : ~retries[k].due} |-> retries[x]]
    /\ UNCHANGED <<active, schedule, checkpoint, crawl, health, runs, wk>>

\* Time passes: an interval or a retry delay is over.
Elapse ==
    /\ \/ \E s \in Sources :
            /\ ~schedule[s].due
            /\ schedule' = [schedule EXCEPT ![s].due = TRUE]
            /\ UNCHANGED retries
       \/ \E k \in DOMAIN retries :
            /\ ~retries[k].due
            /\ retries' = [retries EXCEPT ![k].due = TRUE]
            /\ UNCHANGED schedule
    /\ UNCHANGED <<active, checkpoint, crawl, health, runs, wk>>

SetActive(s) ==
    /\ active' = [active EXCEPT ![s] = ~@]
    /\ UNCHANGED <<schedule, checkpoint, crawl, health, retries, runs, wk>>

SetEnabled(s) ==
    /\ schedule' = [schedule EXCEPT ![s].enabled = ~@]
    /\ UNCHANGED <<active, checkpoint, crawl, health, retries, runs, wk>>

\* refresh_from_db: the committed rows, oldest first.  It counts the words "complete"
\* and "partial", which no row uses, so every row is a failure.
Refresh(s) ==
    LET n == Cardinality({i \in DOMAIN runs : /\ runs[i].source = s
                                              /\ runs[i].status # "running" /\ runs[i].kept})
    IN
    /\ health' = [health EXCEPT ![s] = [consecutive |-> n, total |-> n, success |-> 0, failure |-> n]]
    /\ UNCHANGED <<active, schedule, checkpoint, crawl, retries, runs, wk>>

\* The process restarts: the in-memory state is gone; the schedule is registered anew.
Restart ==
    /\ \A w \in Workers : wk[w].pc = "idle"
    /\ schedule' = [s \in Sources |-> [enabled |-> TRUE, due |-> TRUE]]
    /\ checkpoint' = [s \in Sources |-> None]
    /\ crawl' = [s \in Sources |-> None]
    /\ health' = [s \in Sources |-> NoHealth]
    /\ retries' = <<>>
    /\ UNCHANGED <<active, runs, wk>>

Work(w) ==
    \/ \E n \in 0..MaxFetched : Fetched(w, n)
    \/ FetchFails(w) \/ ParseFails(w)
    \/ \E n \in 0..MaxParsed : Parse(w, n)
    \/ \E o \in Outcomes : Record(w, o)
    \/ RawDone(w) \/ AdvanceFails(w) \/ Finish(w)

Next ==
    \/ \E w \in Workers, s \in Sources : Start(w, s) \/ Replay(w, s) \/ ReplayRefused(w, s)
    \/ \E w \in Workers : Work(w)
    \/ \E i \in DOMAIN runs : Enqueue(i)
    \/ DequeueDue \/ Elapse \/ Restart
    \/ \E s \in Sources : SetActive(s) \/ SetEnabled(s) \/ Refresh(s)

Spec == Init /\ [][Next]_vars

--------------------------------------------------------------------------------
TypeOK ==
    /\ active \in [Sources -> BOOLEAN]
    /\ schedule \in [Sources -> [enabled : BOOLEAN, due : BOOLEAN]]
    /\ checkpoint \in [Sources -> [run : Nat, offset : Nat] \cup {None}]
    /\ crawl \in [Sources -> [total : Nat, page : Nat] \cup {None}]
    /\ health \in [Sources -> [consecutive : Nat, total : Nat, success : Nat, failure : Nat]]
    /\ \A k \in DOMAIN retries : retries[k] \in [attempt : Nat, due : BOOLEAN]
    /\ runs \in Seq(Runs)

OnRun(i) == {w \in Workers : wk[w].pc # "idle" /\ i \in {wk[w].run, wk[w].outer}}

\* A worker's run closed in the ordinary way accounts for every record it parsed: each
\* was persisted, skipped or is one entry of the errors list, whose other entries are raw
\* records that did not parse; and error_count is twice the list
\* (ingestion_worker.py:144-205).  A run whose session was lost never says completed.
CountsBalance ==
    \A i \in DOMAIN runs :
        LET r == runs[i] IN
        /\ r.status = "running" <=> OnRun(i) # {}
        /\ r.status # "running" /\ ~r.fatal /\ ~r.replay =>
            /\ r.parsed = r.persisted + r.skipped + (r.errs - r.unparsed)
            /\ r.unparsed <= r.fetched /\ r.unparsed <= r.errs
            /\ r.errcount = 2 * r.errs
            /\ ~r.kept => r.errs > r.unparsed /\ r.status # "completed"

\* A checkpoint belongs to a run at work or to one an exception ended: only those can
\* be replayed, also when two workers crawl the same source (ingestion_worker.py:186,
\* 213, 239; replay_engine.py:86).  It never marks more raw records than the run fetched.
CheckpointExplained ==
    \A s \in Sources : checkpoint[s] # None =>
        LET r == checkpoint[s].run IN
        /\ r \in DOMAIN runs
        /\ runs[r].fatal \/ OnRun(r) # {}
        /\ checkpoint[s].offset <= runs[r].fetched

\* A crawl state exists only while some worker crawls the source
\* (crawl_state.py:137, called on both ends of run()).
CrawlOwned ==
    \A s \in Sources : crawl[s] # None =>
        \E w \in Workers : wk[w].pc # "idle" /\ Src(w) = s

\* The health counters add up through runs, refreshes and restarts
\* (source_health.py:85-127, 181-204).
HealthAdds ==
    \A s \in Sources :
        LET h == health[s] IN
        h.total = h.success + h.failure /\ h.consecutive <= h.failure

RuntimeSafe == TypeOK /\ CountsBalance /\ CheckpointExplained /\ CrawlOwned /\ HealthAdds
================================================================================
