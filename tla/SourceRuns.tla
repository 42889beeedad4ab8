------------------------------- MODULE SourceRuns -------------------------------
(***************************************************************************)
(* The source registry and the ingestion runs of its sources: who may      *)
(* start a run (ingestion/source_registry_ctl.py), the four ways to run    *)
(* one (api/routes/admin_sources.py, workers/jobs/ingestion_run.py,        *)
(* cli/commands/ingest.py, ingestion/runner.py), what a run stores         *)
(* (ingestion/source_runner.py), quarantine, and the two locks around the  *)
(* CourtListener run.                                                      *)
(*                                                                         *)
(* Each session is a request thread, a worker job or a command.  A run     *)
(* commits its RUNNING row, talks to the network, flushes its records and  *)
(* commits them; the steps of other sessions fall between these.           *)
(***************************************************************************)
EXTENDS Integers, Sequences, FiniteSets

CONSTANTS
    Sources,        \* the sources of class machine_ingest
    Court,          \* the source run_courtlistener_ingestion reads
    SpecAutomation, \* Sources -> automation_status in the YAML registry
    SpecLifecycle,  \* Sources -> lifecycle_state in the YAML registry
    Recs,           \* the records a source can give: incidents and review items
    Instruments,    \* the legal instruments among them, which are written again
    Events,         \* the docket entries among them, which only the runner writes
    Twice,          \* bound: the records that may come up twice within one run
    Sessions, Replicas, Home,   \* each session runs in the replica Home[p]
    Keys,           \* advisory lock keys: hash() of one string, per process
    MaxRuns,        \* bound on the ingestion_runs rows
    NoOne

Automations == {"machine_ready_disabled", "machine_ready_enabled", "other"}
Lifecycles  == {"none", "runnable", "runnable_disabled", "other"}

ASSUME SourceRunsAssumption ==
    /\ Court \in Sources
    /\ SpecAutomation \in [Sources -> Automations]
    /\ SpecLifecycle \in [Sources -> Lifecycles]
    /\ Home \in [Sessions -> Replicas]
    /\ Keys # {}
    /\ IsFiniteSet(Recs)
    /\ Instruments \subseteq Recs /\ Events \subseteq Recs
    /\ Instruments \cap Events = {}
    /\ MaxRuns \in Nat
    /\ NoOne \notin Sessions

VARIABLES
    src,     \* Sources -> the registry row
    runs,    \* the ingestion_runs rows, in order of id
    rows,    \* the stored records, each with the run that last wrote it
    ses,     \* Sessions -> what the session is doing
    plock,   \* Replicas -> the session that holds _ingestion_lock
    alock,   \* Keys -> the session whose connection holds the advisory lock
    key      \* Replicas -> INGESTION_LOCK_KEY in that process

vars == <<src, runs, rows, ses, plock, alock, key>>

Paths    == {"api", "job", "cli", "court"}
Statuses == {"running", "completed", "completed_with_warnings", "failed",
             "quarantined", "released"}
Stages   == {"none", "completed", "failed", "quarantine"}
Results  == {"ok", "contract", "oversize", "raised"}

RegistryRows == [active : BOOLEAN, automation : Automations, lifecycle : Lifecycles,
                 error : BOOLEAN]
\* refused: quarantine_reason is set.  History fields: counted, the records behind
\* persisted_count; left, how the session that started the run parted from it.
RunRows == [source : Sources, path : Paths, status : Statuses, stage : Stages,
            refused : BOOLEAN, persisted : Nat, counted : SUBSET Recs,
            left : {"open", "closed", "crashed", "raised", "unsaved"}]
\* new and upd: the rows inserted and those written again, not yet committed;
\* count: the counter raised for the records counted; result: what the adapter gave.
SessionRows == [pc : {"idle", "fetching", "flushed", "health"}, path : Paths,
                source : Sources, run : Nat, new : SUBSET Recs, upd : SUBSET Recs,
                counted : SUBSET Recs, count : Nat, result : Results,
                errors : BOOLEAN]
Idle == [pc |-> "idle", path |-> "api", source |-> Court, run |-> 0, new |-> {},
         upd |-> {}, counted |-> {}, count |-> 0, result |-> "ok", errors |-> FALSE]

Seeded(s) == [active |-> FALSE, automation |-> SpecAutomation[s],
              lifecycle |-> SpecLifecycle[s], error |-> FALSE]
\* A row older than the lifecycle_state column, which the migration left NULL.
Legacy == [active |-> FALSE, automation |-> "machine_ready_disabled",
           lifecycle |-> "none", error |-> FALSE]

Init ==
    /\ src \in {f \in [Sources -> RegistryRows] :
                    \A s \in Sources : f[s] \in {Seeded(s), Legacy}}
    /\ runs = <<>>
    /\ rows = {}
    /\ ses = [p \in Sessions |-> Idle]
    /\ plock = [r \in Replicas |-> NoOne]
    /\ alock = [k \in Keys |-> NoOne]
    /\ key \in [Replicas -> Keys]

--------------------------------------------------------------------------------
(* The registry.                                                              *)

\* check_ingestion_allowed, called by the API, the command and the runner.
Allowed(s) ==
    /\ src[s].active
    /\ src[s].lifecycle \in {"none", "runnable"}
    /\ src[s].automation = "machine_ready_enabled"

\* The guards of run_ingestion_job: class, is_active, allowed_domains, parser.
JobAllowed(s) == src[s].active

\* enable_source and sources_enable: configuration and adapter are complete.
Enable(s) ==
    /\ src[s].lifecycle \in {"none", "runnable_disabled"}
    /\ src[s].automation = "machine_ready_disabled"
    /\ src' = [src EXCEPT ![s].active = TRUE,
                          ![s].automation = "machine_ready_enabled"]
    /\ UNCHANGED <<runs, rows, ses, plock, alock, key>>

Disable(s) ==
    /\ src' = [src EXCEPT ![s].active = FALSE,
                          ![s].automation = IF @ = "machine_ready_enabled"
                                            THEN "machine_ready_disabled" ELSE @]
    /\ UNCHANGED <<runs, rows, ses, plock, alock, key>>

\* update_source accepts any automation_status and refuses is_active.
Patch(s, a) ==
    /\ src' = [src EXCEPT ![s].automation = a]
    /\ UNCHANGED <<runs, rows, ses, plock, alock, key>>

\* repair_canada_first_defaults: every field of the specification but is_active.
Repair(s) ==
    /\ src' = [src EXCEPT ![s].automation = SpecAutomation[s],
                          ![s].lifecycle = SpecLifecycle[s]]
    /\ UNCHANGED <<runs, rows, ses, plock, alock, key>>

--------------------------------------------------------------------------------
(* Run rows.                                                                  *)

NewRun(s, path, status, stage) ==
    [source |-> s, path |-> path, status |-> status, stage |-> stage,
     refused |-> FALSE, persisted |-> 0, counted |-> {},
     left |-> IF status = "running" THEN "open" ELSE "closed"]

\* Room for another row, those of the open CourtListener transactions included.
Room == Len(runs) + Cardinality({p \in Sessions : ses[p].pc # "idle"
                                                    /\ ses[p].path = "court"}) < MaxRuns

\* record_failed_ingestion_attempt, or the FAILED row of the runner.
Blocked(p, s, path) ==
    /\ ses[p].pc = "idle"
    /\ path \in {"api", "court"}
    /\ path = "court" => s = Court
    /\ ~Allowed(s)
    /\ Room
    /\ runs' = Append(runs, NewRun(s, path, "failed", "none"))
    /\ UNCHANGED <<src, rows, ses, plock, alock, key>>

\* The RUNNING row is committed before the adapter runs.
Start(p, s, path) ==
    /\ ses[p].pc = "idle"
    /\ path \in {"api", "job", "cli"}
    /\ IF path = "job" THEN JobAllowed(s) ELSE Allowed(s)
    /\ Room
    /\ runs' = Append(runs, NewRun(s, path, "running", "none"))
    /\ ses' = [ses EXCEPT ![p] = [Idle EXCEPT !.pc = "fetching", !.path = path,
                                              !.source = s, !.run = Len(runs) + 1]]
    /\ UNCHANGED <<src, rows, plock, alock, key>>

Stored(s) == {x.rec : x \in {y \in rows : y.source = s}}

\* Session p has written new and upd and has counted these records, the ones in
\* again twice.
Wrote(p, new, upd, counted, again, errors) ==
    ses' = [ses EXCEPT ![p].pc = "flushed", ![p].errors = errors,
                       ![p].new = new, ![p].upd = upd, ![p].counted = counted,
                       ![p].count = Cardinality(counted) + Cardinality(again)]

\* persist_ingestion_result: of the records, those not yet stored for this source
\* are inserted and the instruments already stored are written again.  An instrument
\* the result holds twice counts twice; one whose sections raise (part) stays written
\* and is not counted.
Flush(p, recs, part, again, errors) ==
    LET new == recs \ Stored(ses[p].source)
        upd == (recs \cap Instruments) \ new
    IN
    /\ ses[p].pc = "fetching" /\ ses[p].path # "court"
    /\ recs \subseteq Recs \ Events
    /\ part \subseteq recs \cap Instruments
    /\ again \subseteq (recs \cap Instruments \cap Twice) \ part
    /\ Wrote(p, new, upd, (new \cup upd) \ part, again, errors)
    /\ UNCHANGED <<src, runs, rows, plock, alock, key>>

\* Mutant: the snapshot and the records are written before the contract is checked.
RefuseLate(p, result, errors) ==
    /\ ses[p].pc = "fetching" /\ ses[p].path # "court"
    /\ result \in {"contract", "oversize"}
    /\ ses' = [ses EXCEPT ![p].pc = "flushed", ![p].errors = errors,
                          ![p].result = result,
                          ![p].new = (Recs \ Events) \ Stored(ses[p].source)]
    /\ UNCHANGED <<src, runs, rows, plock, alock, key>>

\* persist_ingestion_result refuses the result: a broken contract or another
\* source's key (quarantine_run), or content too large to store (_create_snapshot).
Refuse(p, result, errors) ==
    /\ ses[p].pc = "fetching" /\ ses[p].path # "court"
    /\ result \in {"contract", "oversize"}
    /\ ses' = [ses EXCEPT ![p].pc = "flushed", ![p].errors = errors,
                          ![p].result = result]
    /\ UNCHANGED <<src, runs, rows, plock, alock, key>>

Ended(errors) == IF errors THEN "completed_with_warnings" ELSE "completed"

\* Mutant: run_ingestion_job leaves the status of every result to the end.
FinalOverwrites(path, result, errors) ==
    [status |-> Ended(errors), stage |-> "completed"]

\* The status columns at the commit.  quarantine_run sets status failed; the API
\* keeps only the status quarantined, which _create_snapshot sets without a stage.
Final(path, result, errors) ==
    CASE result = "oversize" ->
            [status |-> "quarantined",
             stage  |-> IF path = "api" THEN "quarantine" ELSE "none"]
      [] result = "contract" /\ path = "job" ->
            [status |-> "failed", stage |-> "quarantine"]
      [] OTHER ->
            [status |-> Ended(errors),
             stage  |-> IF path = "api" THEN "completed" ELSE "none"]

\* update_source_health: only a completed run without errors clears the error.
Health(s, status) ==
    src' = [src EXCEPT ![s].error = CASE status = "completed" -> FALSE
                                      [] status = "completed_with_warnings" -> @
                                      [] OTHER -> TRUE]

Close(i, status, stage, refused, count, counted) ==
    runs' = [runs EXCEPT ![i].status = status, ![i].stage = stage,
                         ![i].refused = refused, ![i].persisted = count,
                         ![i].counted = counted, ![i].left = "closed"]

\* Run i writes these records; an instrument's row names the snapshot of the last run.
Add(s, recs, i) ==
    rows' = {x \in rows : x.source # s \/ x.rec \notin recs}
                \cup {[source |-> s, rec |-> x, run |-> i] : x \in recs}

\* The adapter raises.  The API rolls back and closes the run with the health;
\* the job and the command commit the run, and the job its health after that.
AdapterRaises(p) ==
    LET s == ses[p].source IN
    /\ ses[p].pc = "fetching" /\ ses[p].path # "court"
    /\ Close(ses[p].run, "failed", IF ses[p].path = "api" THEN "failed" ELSE "none",
             FALSE, 0, {})
    /\ ses' = [ses EXCEPT ![p] = IF @.path = "job"
                                 THEN [@ EXCEPT !.pc = "health"] ELSE Idle]
    /\ IF ses[p].path = "api" THEN Health(s, "failed") ELSE UNCHANGED src
    /\ UNCHANGED <<rows, plock, alock, key>>

\* uq_crime_incident_source_external: another session stored one of them first.
Collides(p) == ses[p].new \cap Stored(ses[p].source) # {}

\* Mutant: persisted_count takes the records the adapter returned.
CommitCountsAll(p) ==
    LET d == ses[p]
        f == Final(d.path, d.result, d.errors)
    IN
    /\ d.pc = "flushed" /\ d.path \in {"api", "job"}
    /\ ~Collides(p)
    /\ Add(d.source, d.new \cup d.upd, d.run)
    /\ Close(d.run, f.status, f.stage, d.result # "ok", Cardinality(Recs), d.counted)
    /\ ses' = [ses EXCEPT ![p] = IF d.path = "job"
                                 THEN [d EXCEPT !.pc = "health"] ELSE Idle]
    /\ IF d.path = "api" THEN Health(d.source, f.status) ELSE UNCHANGED src
    /\ UNCHANGED <<plock, alock, key>>

\* The records and the run row, and for the API the health, in one transaction.
Commit(p) ==
    LET d == ses[p]
        f == Final(d.path, d.result, d.errors)
    IN
    /\ d.pc = "flushed" /\ d.path \in {"api", "job"}
    /\ ~Collides(p)
    /\ Add(d.source, d.new \cup d.upd, d.run)
    /\ Close(d.run, f.status, f.stage, d.result # "ok", d.count, d.counted)
    /\ ses' = [ses EXCEPT ![p] = IF d.path = "job"
                                 THEN [d EXCEPT !.pc = "health"] ELSE Idle]
    /\ IF d.path = "api" THEN Health(d.source, f.status) ELSE UNCHANGED src
    /\ UNCHANGED <<plock, alock, key>>

\* Mutant: the API lets the exception through, as the job does.
ApiFailsOpen(p) ==
    /\ ses[p].pc = "flushed" /\ ses[p].path = "api"
    /\ runs' = [runs EXCEPT ![ses[p].run].left = "raised"]
    /\ ses' = [ses EXCEPT ![p] = Idle]
    /\ UNCHANGED <<src, rows, plock, alock, key>>

\* A statement, the audit record or the commit fails (always on a collision): the
\* API rolls back and closes the run as failed.
ApiFails(p) ==
    /\ ses[p].pc = "flushed" /\ ses[p].path = "api"
    /\ Close(ses[p].run, "failed", "failed", FALSE, 0, {})
    /\ Health(ses[p].source, "failed")
    /\ ses' = [ses EXCEPT ![p] = Idle]
    /\ UNCHANGED <<rows, plock, alock, key>>

\* The same in run_ingestion_job, which catches nothing there: the session is
\* closed and the run row stays RUNNING.
JobFails(p) ==
    /\ ses[p].pc = "flushed" /\ ses[p].path = "job"
    /\ runs' = [runs EXCEPT ![ses[p].run].left = "raised"]
    /\ ses' = [ses EXCEPT ![p] = Idle]
    /\ UNCHANGED <<src, rows, plock, alock, key>>

JobHealth(p) ==
    /\ ses[p].pc = "health"
    /\ Health(ses[p].source, runs[ses[p].run].status)
    /\ ses' = [ses EXCEPT ![p] = Idle]
    /\ UNCHANGED <<runs, rows, plock, alock, key>>

\* The command "ingest run" refreshes the row and never commits: closing its
\* session rolls the records back and leaves the row RUNNING.
CliDiscards(p) ==
    /\ ses[p].pc = "flushed" /\ ses[p].path = "cli"
    /\ runs' = [runs EXCEPT ![ses[p].run].left = "unsaved"]
    /\ ses' = [ses EXCEPT ![p] = Idle]
    /\ UNCHANGED <<src, rows, plock, alock, key>>

\* release_run: a run listed in quarantine.
Release(i) ==
    /\ runs[i].stage = "quarantine"
    /\ runs' = [runs EXCEPT ![i].stage = "none", ![i].refused = FALSE,
                            ![i].status = "released"]
    /\ UNCHANGED <<src, rows, ses, plock, alock, key>>

\* The CSV and JSON uploads of admin_ingest.py: one transaction, no run row; only
\* an inactive source is refused, with a FAILED row.
Upload(s, recs) ==
    /\ src[s].active
    /\ recs \subseteq Recs \ (Instruments \cup Events)
    /\ Add(s, recs \ Stored(s), 0)
    /\ UNCHANGED <<src, runs, ses, plock, alock, key>>

UploadRefused(s) ==
    /\ ~src[s].active
    /\ Room
    /\ runs' = Append(runs, NewRun(s, "api", "failed", "none"))
    /\ UNCHANGED <<src, rows, ses, plock, alock, key>>

--------------------------------------------------------------------------------
(* The CourtListener run: the process lock, then the advisory lock, fetch and  *)
(* persist; the route commits after both locks are released.                   *)

KeyOf(p) == key[Home[p]]

\* Mutant: the advisory lock is not tried.
CourtStartUnlocked(p) ==
    /\ ses[p].pc = "idle"
    /\ Allowed(Court)
    /\ Room
    /\ plock' = [plock EXCEPT ![Home[p]] = p]
    /\ ses' = [ses EXCEPT ![p] = [Idle EXCEPT !.pc = "fetching", !.path = "court"]]
    /\ UNCHANGED <<src, runs, rows, alock, key>>

CourtStart(p) ==
    /\ ses[p].pc = "idle"
    /\ Allowed(Court)
    /\ Room
    /\ plock[Home[p]] = NoOne
    /\ alock[KeyOf(p)] = NoOne
    /\ plock' = [plock EXCEPT ![Home[p]] = p]
    /\ alock' = [alock EXCEPT ![KeyOf(p)] = p]
    /\ ses' = [ses EXCEPT ![p] = [Idle EXCEPT !.pc = "fetching", !.path = "court"]]
    /\ UNCHANGED <<src, runs, rows, key>>

\* Either lock is taken: a FAILED row.  The finally clause gives the process lock
\* back when the advisory lock was refused.
CourtBusy(p) ==
    /\ ses[p].pc = "idle"
    /\ Allowed(Court)
    /\ Room
    /\ plock[Home[p]] # NoOne \/ alock[KeyOf(p)] # NoOne
    /\ runs' = Append(runs, NewRun(Court, "court", "failed", "none"))
    /\ UNCHANGED <<src, rows, ses, plock, alock, key>>

\* Mutant: an exception of the adapter skips the advisory unlock.
UnlockOne(p) ==
    /\ plock' = [plock EXCEPT ![Home[p]] = NoOne]
    /\ UNCHANGED alock

Unlock(p) ==
    /\ plock' = [plock EXCEPT ![Home[p]] = NoOne]
    /\ alock' = [alock EXCEPT ![KeyOf(p)] = NoOne]

\* Each raw record is parsed and persisted in a savepoint.  kept: the docket entries
\* of the savepoints released, inserted unless stored; lost: those counted before
\* their savepoint was rolled back, which the counter keeps; again: those that came
\* up once more and were found.  An entry another open transaction has inserted is
\* waited for.
CourtFlush(p, kept, lost, again, errors) ==
    LET new == kept \ Stored(Court) IN
    /\ ses[p].pc = "fetching" /\ ses[p].path = "court"
    /\ kept \subseteq Events /\ lost \subseteq Events
    /\ lost # {} => errors
    /\ again \subseteq (kept \cup lost) \cap Twice
    /\ \A q \in Sessions : ses[q].path = "court" => ses[q].new \cap new = {}
    /\ Unlock(p)
    /\ Wrote(p, new, {}, kept \cup lost, again, errors)
    /\ UNCHANGED <<src, runs, rows, key>>

CourtRaises(p) ==
    /\ ses[p].pc = "fetching" /\ ses[p].path = "court"
    /\ Unlock(p)
    /\ ses' = [ses EXCEPT ![p].pc = "flushed", ![p].result = "raised"]
    /\ UNCHANGED <<src, runs, rows, key>>

\* The route's commit: the docket entries, the run row and the health.
CourtCommit(p) ==
    LET d == ses[p]
        status == IF d.result = "raised" THEN "failed" ELSE Ended(d.errors)
    IN
    /\ d.pc = "flushed" /\ d.path = "court"
    /\ runs' = Append(runs, [NewRun(Court, "court", status, "none")
                                EXCEPT !.persisted = d.count, !.counted = d.counted])
    /\ Add(Court, d.new, Len(runs) + 1)
    /\ IF d.result = "raised" THEN UNCHANGED src ELSE Health(Court, status)
    /\ ses' = [ses EXCEPT ![p] = Idle]
    /\ UNCHANGED <<plock, alock, key>>

\* The audit record fails: nothing is stored, not even the run.
CourtAborts(p) ==
    /\ ses[p].pc = "flushed" /\ ses[p].path = "court"
    /\ ses' = [ses EXCEPT ![p] = Idle]
    /\ UNCHANGED <<src, runs, rows, plock, alock, key>>

--------------------------------------------------------------------------------
\* Replica r dies and starts again: open transactions are rolled back, its locks
\* and its connections are gone, and hash() of the key string has a new value.
Crash(r) ==
    LET dead == {p \in Sessions : Home[p] = r}
        open == {ses[p].run : p \in {q \in dead : ses[q].pc \in {"fetching", "flushed"}}}
    IN
    /\ \E p \in dead : ses[p].pc # "idle"
    /\ ses' = [p \in Sessions |-> IF p \in dead THEN Idle ELSE ses[p]]
    /\ runs' = [i \in DOMAIN runs |-> IF i \in open
                                      THEN [runs[i] EXCEPT !.left = "crashed"] ELSE runs[i]]
    /\ plock' = [plock EXCEPT ![r] = NoOne]
    /\ alock' = [k \in Keys |-> IF alock[k] \in dead THEN NoOne ELSE alock[k]]
    /\ key' \in {[key EXCEPT ![r] = k] : k \in Keys}
    /\ UNCHANGED <<src, rows>>

\* What a session does once its run is started.
Work(p) ==
    \/ \E recs \in SUBSET Recs, errors \in BOOLEAN :
           \E part \in SUBSET recs, again \in SUBSET (recs \cap Twice) :
               Flush(p, recs, part, again, errors)
    \/ \E kept, lost \in SUBSET Events, errors \in BOOLEAN :
           \E again \in SUBSET ((kept \cup lost) \cap Twice) :
               CourtFlush(p, kept, lost, again, errors)
    \/ \E result \in Results, errors \in BOOLEAN : Refuse(p, result, errors)
    \/ AdapterRaises(p) \/ Commit(p) \/ ApiFails(p) \/ JobFails(p) \/ JobHealth(p)
    \/ CliDiscards(p) \/ CourtRaises(p) \/ CourtCommit(p) \/ CourtAborts(p)

Admin(s) ==
    \/ Enable(s) \/ Disable(s) \/ Repair(s)
    \/ \E a \in Automations : Patch(s, a)
    \/ \E recs \in SUBSET Recs : Upload(s, recs)
    \/ UploadRefused(s)

Next ==
    \/ \E p \in Sessions, s \in Sources, path \in Paths :
           Start(p, s, path) \/ Blocked(p, s, path)
    \/ \E p \in Sessions : CourtStart(p) \/ CourtBusy(p) \/ Work(p)
    \/ \E s \in Sources : Admin(s)
    \/ \E i \in DOMAIN runs : Release(i)
    \/ \E r \in Replicas : Crash(r)

Spec == Init /\ [][Next]_vars

--------------------------------------------------------------------------------
TypeOK ==
    /\ src \in [Sources -> RegistryRows]
    /\ runs \in Seq(RunRows)
    /\ rows \subseteq [source : Sources, rec : Recs, run : Nat]
    /\ ses \in [Sessions -> SessionRows]
    /\ plock \in [Replicas -> Sessions \cup {NoOne}]
    /\ alock \in [Keys -> Sessions \cup {NoOne}]
    /\ key \in [Replicas -> Keys]

Owns(p, i) ==
    ses[p].pc \in {"fetching", "flushed"} /\ ses[p].path # "court" /\ ses[p].run = i

\* A row that says RUNNING has exactly one session at work on it, or its replica
\* died, or it belongs to a job whose persisting raised or to the command, the two
\* paths that do not close it (admin_sources.py:877, ingestion_run.py:197,
\* cli/commands/ingest.py:181).
RunningIsExplained ==
    \A i \in DOMAIN runs : runs[i].status = "running" =>
        \/ /\ runs[i].left = "open"
           /\ \E p \in Sessions : Owns(p, i) /\ \A q \in Sessions : Owns(q, i) => q = p
        \/ runs[i].left = "crashed"
        \/ runs[i].left = "raised" /\ runs[i].path = "job"
        \/ runs[i].left = "unsaved" /\ runs[i].path = "cli"

\* Whatever fails, races or dies, what a run row counts is explained by the records:
\* a record its run wrote is among those it counted, unless it is an instrument whose
\* sections raised; the job, the API and the command count no record but those stored,
\* each once, the instruments apart that came up twice; a CourtListener run counts
\* what was lost with a savepoint only when it ends with errors; and a run that was
\* refused, failed or never closed wrote and counted nothing
\* (source_runner.py:355, runner.py:163, persistence.py:53).
CountsExplained ==
    \A i \in DOMAIN runs :
        LET run  == runs[i]
            mine == {x.rec : x \in {y \in rows : y.run = i}}
        IN
        /\ mine \ Instruments \subseteq run.counted
        /\ run.path # "court" => run.counted \ Instruments \subseteq mine
        /\ run.path # "court" \/ run.status = "completed" => run.counted \subseteq Stored(run.source)
        /\ Cardinality(run.counted) <= run.persisted
        /\ run.path # "court" /\ run.counted \cap Instruments = {}
              => run.persisted = Cardinality(run.counted)
        /\ run.refused \/ run.status \in {"running", "failed"}
              => mine = {} /\ run.counted = {} /\ run.persisted = 0

\* At most one CourtListener run fetches per replica, and per advisory key; the
\* locks are held by those sessions and by no other (runner.py:92, 112, 206).
CourtExclusion ==
    LET Busy == {p \in Sessions : ses[p].pc = "fetching" /\ ses[p].path = "court"} IN
    /\ \A p, q \in Busy : p # q => Home[p] # Home[q] /\ KeyOf(p) # KeyOf(q)
    /\ \A p \in Sessions, r \in Replicas : plock[r] = p <=> p \in Busy /\ Home[p] = r
    /\ \A p \in Sessions, k \in Keys : alock[k] = p <=> p \in Busy /\ KeyOf(p) = k

\* The guard at admin_sources.py:859 and its regression tests
\* (test_admin_source_run_status_truth.py:163) say that a refused run is never
\* reported completed.
RefusalKept ==
    \A i \in DOMAIN runs :
        runs[i].refused => runs[i].status \notin {"completed", "completed_with_warnings"}

\* The queue's and the worker's path closes a refused run as refused, and it stays
\* so until a reviewer releases it (ingestion_run.py:160-180, quarantine.py:37).
JobRefusalKept ==
    \A i \in DOMAIN runs : runs[i].path = "job" /\ runs[i].refused =>
        runs[i].status \in {"failed", "quarantined"}

================================================================================
