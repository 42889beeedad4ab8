----------------------------- MODULE IngestionQueue -----------------------------
(***************************************************************************)
(* InProcessIngestionQueue (workers/ingestion_queue.py): threads enqueue   *)
(* jobs, run the next one or a given one, and poll records, under a lock   *)
(* each method takes and gives back.  run_job moves its job to the front,  *)
(* releases the lock and calls run_next, which takes it again; the job     *)
(* itself runs outside the lock.                                           *)
(***************************************************************************)
EXTENDS Integers, Sequences, FiniteSets

CONSTANTS
    Jobs,        \* the uuids enqueue draws, one for each call
    Threads,
    MaxHistory,  \* max_history
    NoJob

ASSUME IngestionQueueAssumption ==
    /\ IsFiniteSet(Jobs) /\ IsFiniteSet(Threads)
    /\ MaxHistory \in Nat
    /\ NoJob \notin Jobs

VARIABLES
    pending,   \* _pending
    rec,       \* _records: a function on the ids recorded, to the state
    stamp,     \* Jobs -> finished_at, 0 before the job ends (history: kept on eviction)
    th,        \* Threads -> what the thread is doing
    asked,     \* history: the jobs some run_job has moved to the front
    used       \* history: the ids enqueue has drawn

vars == <<pending, rec, stamp, th, asked, used>>

States == {"pending", "running", "completed", "failed"}
Calls  == [pc : {"idle", "moved", "running", "evict"}, job : Jobs \cup {NoJob}]
Idle   == [pc |-> "idle", job |-> NoJob]

Rng(s)      == {s[i] : i \in DOMAIN s}
Finished    == {j \in DOMAIN rec : rec[j] \in {"completed", "failed"}}
\* remove(j), then insert(0, j).
Front(j)    ==
    LET at == CHOOSE i \in DOMAIN pending : pending[i] = j IN
    IF j \notin Rng(pending) THEN pending
    ELSE [i \in DOMAIN pending |->
              IF i = 1 THEN j ELSE IF i <= at THEN pending[i - 1] ELSE pending[i]]
\* time.time() read under the lock.
Now         == Cardinality({j \in Jobs : stamp[j] > 0}) + 1

Init ==
    /\ pending = <<>>
    /\ rec = [j \in {} |-> "pending"]
    /\ stamp = [j \in Jobs |-> 0]
    /\ th = [t \in Threads |-> Idle]
    /\ asked = {}
    /\ used = {}

Enqueue(t) ==
    /\ th[t].pc = "idle"
    /\ \E j \in Jobs \ used :
        /\ used' = used \cup {j}
        /\ rec' = [k \in DOMAIN rec \cup {j} |-> IF k = j THEN "pending" ELSE rec[k]]
        /\ pending' = Append(pending, j)
    /\ UNCHANGED <<stamp, th, asked>>

\* run_job, up to the end of its with block.  A job that is not pending is returned
\* as it is, so the call changes nothing.
RunJob(t, j) ==
    /\ th[t].pc = "idle"
    /\ j \in DOMAIN rec /\ rec[j] = "pending"
    /\ pending' = Front(j)
    /\ asked' = asked \cup {j}
    /\ th' = [th EXCEPT ![t] = [pc |-> "moved", job |-> NoJob]]
    /\ UNCHANGED <<rec, stamp, used>>

\* Mutant: the head is read under the lock and removed when the job has run.
PopLate(t) ==
    /\ th[t].pc \in {"idle", "moved"}
    /\ pending # <<>>
    /\ rec' = [rec EXCEPT ![Head(pending)] = "running"]
    /\ th' = [th EXCEPT ![t] = [pc |-> "running", job |-> Head(pending)]]
    /\ UNCHANGED <<pending, stamp, asked, used>>

\* Mutant: the last job is taken.
PopLast(t) ==
    /\ th[t].pc \in {"idle", "moved"}
    /\ pending # <<>>
    /\ pending' = SubSeq(pending, 1, Len(pending) - 1)
    /\ rec' = [rec EXCEPT ![pending[Len(pending)]] = "running"]
    /\ th' = [th EXCEPT ![t] = [pc |-> "running", job |-> pending[Len(pending)]]]
    /\ UNCHANGED <<stamp, asked, used>>

\* run_next: called by itself, or by run_job whatever is at the front by then.
Pop(t) ==
    /\ th[t].pc \in {"idle", "moved"}
    /\ pending # <<>>
    /\ pending' = Tail(pending)
    /\ rec' = [rec EXCEPT ![Head(pending)] = "running"]
    /\ th' = [th EXCEPT ![t] = [pc |-> "running", job |-> Head(pending)]]
    /\ UNCHANGED <<stamp, asked, used>>

\* run_job finds the queue empty: it returns None.
PopNothing(t) ==
    /\ th[t].pc = "moved"
    /\ pending = <<>>
    /\ th' = [th EXCEPT ![t] = Idle]
    /\ UNCHANGED <<pending, rec, stamp, asked, used>>

\* run_ingestion_job returns; ok is the "ok" of its result.
Finish(t, ok) ==
    /\ th[t].pc = "running"
    /\ rec' = [rec EXCEPT ![th[t].job] = IF ok THEN "completed" ELSE "failed"]
    /\ stamp' = [stamp EXCEPT ![th[t].job] = Now]
    /\ th' = [th EXCEPT ![t] = [pc |-> "evict", job |-> NoJob]]
    /\ UNCHANGED <<pending, asked, used>>

\* run_ingestion_job raises: the record fails and the thread returns, evicting nothing.
Raise(t) ==
    /\ th[t].pc = "running"
    /\ rec' = [rec EXCEPT ![th[t].job] = "failed"]
    /\ stamp' = [stamp EXCEPT ![th[t].job] = Now]
    /\ th' = [th EXCEPT ![t] = Idle]
    /\ UNCHANGED <<pending, asked, used>>

\* Mutant: the newest finished records are removed.
NewestFinished ==
    {j \in Finished : Cardinality({k \in Finished : stamp[k] < stamp[j]}) >= MaxHistory}

\* The finished records that have max_history newer ones.
Surplus ==
    {j \in Finished : Cardinality({k \in Finished : stamp[k] > stamp[j]}) >= MaxHistory}

\* _evict_old_records.
Evict(t) ==
    /\ th[t].pc = "evict"
    /\ rec' = [j \in DOMAIN rec \ Surplus |-> rec[j]]
    /\ th' = [th EXCEPT ![t] = Idle]
    /\ UNCHANGED <<pending, stamp, asked, used>>

Work(t) ==
    Pop(t) \/ PopNothing(t) \/ Finish(t, TRUE) \/ Finish(t, FALSE) \/ Raise(t) \/ Evict(t)

Next ==
    \E t \in Threads : Enqueue(t) \/ (\E j \in Jobs : RunJob(t, j)) \/ Work(t)

Spec == Init /\ [][Next]_vars

--------------------------------------------------------------------------------
TypeOK ==
    /\ pending \in Seq(Jobs)
    /\ DOMAIN rec \subseteq Jobs /\ rec \in [DOMAIN rec -> States]
    /\ stamp \in [Jobs -> Nat]
    /\ th \in [Threads -> Calls]
    /\ asked \subseteq Jobs
    /\ used \subseteq Jobs

Runs(t, j) == th[t].pc = "running" /\ th[t].job = j

\* The list and the records agree: what is pending is listed once, and every running
\* job has one thread (ingestion_queue.py:113-121, 150-164).
QueueAgrees ==
    /\ Rng(pending) = {j \in DOMAIN rec : rec[j] = "pending"}
    /\ \A i, k \in DOMAIN pending : pending[i] = pending[k] => i = k
    /\ \A j \in DOMAIN rec : rec[j] = "running" => \E t \in Threads : Runs(t, j)
    /\ \A t \in Threads, j \in Jobs : Runs(t, j) =>
        /\ j \in DOMAIN rec /\ rec[j] = "running"
        /\ \A u \in Threads : Runs(u, j) => u = t

\* A caller that polls one of the max_history jobs that finished last finds its
\* record, whatever else ran meanwhile (ingestion_queue.py:184-196).
RecentKept ==
    \A j \in used : j \notin DOMAIN rec =>
        Cardinality({k \in Jobs : stamp[k] > stamp[j]}) >= MaxHistory

\* run_job gives the lock back before run_next takes it, so another thread may get
\* its job and it another's: still, a job asked for and pending is within reach of
\* the calls under way, so no request is forgotten (ingestion_queue.py:150-166).
NoneStranded ==
    LET movers == {t \in Threads : th[t].pc = "moved"} IN
    \A i \in DOMAIN pending : pending[i] \in asked => i <= Cardinality(movers)

QueueSafe == TypeOK /\ QueueAgrees /\ RecentKept /\ NoneStranded

\* The queue implements JobLedger: no job runs twice and none is evicted before it
\* has finished, however the threads interleave.
JobState(j) ==
    IF j \in DOMAIN rec THEN rec[j] ELSE IF j \in used THEN "gone" ELSE "new"
Ledger == INSTANCE JobLedger WITH job <- [j \in Jobs |-> JobState(j)]
ImplementsJobLedger == Ledger!Spec
================================================================================
