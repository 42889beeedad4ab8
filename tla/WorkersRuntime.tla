----------------------------- MODULE WorkersRuntime -----------------------------
(***************************************************************************)
(* WorkersRuntime (workers/workers_runtime.py) with its priority heap      *)
(* (job_queue.py), inline retries (retry_policy.py), result store          *)
(* (job_result.py), metrics, heartbeat and in-flight tracking, and the     *)
(* pipelines planned by pipeline_coordinator.py.  It runs in one thread;   *)
(* a handler may submit jobs while it runs.                                *)
(***************************************************************************)
EXTENDS Integers, Sequences, FiniteSets

CONSTANTS
    Names,        \* job names
    Ids,          \* job ids submit is called with; a pipeline step has its own id
    Priorities,   \* a subset of 1..10
    Steps,        \* the steps of the pipelines submitted, distinct from Ids
    Deps,         \* Steps -> SUBSET Steps
    StepPriority, \* Steps -> 1..10
    StepRank,     \* Steps -> Nat: the alphabetical order of their names
    Base,         \* base_priority of submit_pipeline
    StepName,     \* the job name of the steps
    MaxAttempts,  \* RetryPolicy.max_attempts
    MaxResults,   \* ResultStore max_size
    MaxEnvelopes, \* bound on the jobs submitted
    NoJob

Keys == Ids \cup Steps

WorkersAssumption ==
    /\ IsFiniteSet(Steps)
    /\ Base \in Int
    /\ Priorities \subseteq 1..10
    /\ Deps \in [Steps -> SUBSET Steps]
    /\ StepPriority \in [Steps -> 1..10]
    /\ StepRank \in [Steps -> Nat]
    /\ \A s, t \in Steps : StepRank[s] = StepRank[t] => s = t
    /\ StepName \in Names
    /\ MaxAttempts \in Nat \ {0} /\ MaxResults \in Nat \ {0} /\ MaxEnvelopes \in Nat
    /\ Ids \cap Steps = {} /\ NoJob \notin Keys

VARIABLES
    heap,      \* JobQueue: the envelopes queued
    cur,       \* the envelope being executed, with its attempt, or NoJob
    tracked,   \* DeadlockDetector._in_flight: ids
    busy,      \* the heartbeat says BUSY
    results,   \* ResultStore._all, oldest first
    history,   \* ResultStore._results: Keys -> list
    metrics,   \* WorkerMetrics totals
    routed,    \* TaskRouter: the names with a handler
    count,     \* envelopes made so far; it orders enqueued_at
    began      \* history: the ids dequeued, in order

vars == <<heap, cur, tracked, busy, results, history, metrics, routed, count, began>>

Envelopes == [id : Keys, name : Names, prio : 1..10, at : Nat]
NotRunning == [env |-> NoJob, attempt |-> 0]

\* JobEnvelope.__lt__
Less(e, f) == e.prio < f.prio \/ (e.prio = f.prio /\ e.at < f.at)

Init ==
    /\ heap = {}
    /\ cur = NotRunning
    /\ tracked = {}
    /\ busy = FALSE
    /\ results = <<>>
    /\ history = [k \in Keys |-> <<>>]
    /\ metrics = [enqueued |-> 0, succeeded |-> 0, dead |-> 0, retried |-> 0]
    /\ routed \in SUBSET Names
    /\ count = 0
    /\ began = <<>>

Queued(id) == \E e \in heap : e.id = id

\* submit: KeyError for a name without handler, ValueError for a queued id.
Submit(id, name, prio) ==
    /\ name \in routed
    /\ ~Queued(id)
    /\ count < MaxEnvelopes
    /\ heap' = heap \cup {[id |-> id, name |-> name, prio |-> prio, at |-> count]}
    /\ count' = count + 1
    /\ metrics' = [metrics EXCEPT !.enqueued = @ + 1]
    /\ UNCHANGED <<cur, tracked, busy, results, history, routed, began>>

\* Kahn's algorithm with the ready steps sorted by (priority, name): each step of a plan
\* is the first of those whose dependencies come before it.
Ready(done) == {s \in Steps \ done : Deps[s] \subseteq done}
Before(s, t) ==
    \/ StepPriority[s] < StepPriority[t]
    \/ StepPriority[s] = StepPriority[t] /\ StepRank[s] <= StepRank[t]
IsPlan(order) == \A i \in DOMAIN order :
    LET ready == Ready({order[j] : j \in 1..(i - 1)}) IN
    order[i] \in ready /\ \A t \in ready : Before(order[i], t)
Orders == [1..Cardinality(Steps) -> Steps]

Clamped(n) == IF n < 1 THEN 1 ELSE IF n > 10 THEN 10 ELSE n
Effective(s) == Clamped(StepPriority[s] + Base - 5)

SubmitInOrder(order) ==
    /\ StepName \in routed
    /\ \A s \in Steps : ~Queued(s) /\ \A i \in DOMAIN began : began[i] # s
    /\ count + Len(order) <= MaxEnvelopes
    /\ heap' = heap \cup {[id |-> order[i], name |-> StepName, prio |-> Effective(order[i]),
                           at |-> count + i - 1] : i \in DOMAIN order}
    /\ count' = count + Len(order)
    /\ metrics' = [metrics EXCEPT !.enqueued = @ + Len(order)]
    /\ UNCHANGED <<cur, tracked, busy, results, history, routed, began>>

\* Mutant: the steps are submitted in the order of their names.
SubmitByName ==
    /\ \E order \in Orders : IsPlan(order)
    /\ \E order \in Orders :
        /\ \A i, j \in DOMAIN order : i < j => StepRank[order[i]] < StepRank[order[j]]
        /\ SubmitInOrder(order)

\* submit_pipeline: steps that have no plan of all of them depend on each other in a
\* cycle and are refused.  The model submits the pipeline once.
SubmitPipeline == \E order \in Orders : IsPlan(order) /\ SubmitInOrder(order)

\* Mutant: the evicted result stays in the history of its job.
RecordKeeping(id, status, attempt) ==
    LET r == [id |-> id, status |-> status, attempt |-> attempt]
    IN
    /\ results' = Append(IF Len(results) >= MaxResults THEN Tail(results) ELSE results, r)
    /\ history' = [history EXCEPT ![id] = Append(@, r)]

\* ResultStore.record: a full buffer drops its oldest result, also from the history of
\* that job when it is the oldest there.
Record(id, status, attempt) ==
    LET r    == [id |-> id, status |-> status, attempt |-> attempt]
        full == Len(results) >= MaxResults
        kept == IF full /\ history[Head(results).id] # <<>>
                        /\ Head(history[Head(results).id]) = Head(results)
                THEN [history EXCEPT ![Head(results).id] = Tail(@)]
                ELSE history
    IN
    /\ results' = Append(IF full THEN Tail(results) ELSE results, r)
    /\ history' = [kept EXCEPT ![id] = Append(@, r)]

\* Mutant: a job without a handler is left at the head of the queue.
DequeueRouted ==
    /\ cur = NotRunning
    /\ \E e \in heap :
        /\ \A f \in heap \ {e} : Less(e, f)
        /\ e.name \in routed
        /\ heap' = heap \ {e}
        /\ began' = Append(began, e.id)
        /\ cur' = [env |-> e, attempt |-> 1]
        /\ tracked' = tracked \cup {e.id}
        /\ busy' = TRUE
    /\ UNCHANGED <<routed, count, results, history, metrics>>

\* execute_one up to the first call of the handler.
Dequeue ==
    /\ cur = NotRunning
    /\ \E e \in heap :
        /\ \A f \in heap \ {e} : Less(e, f)
        /\ heap' = heap \ {e}
        /\ began' = Append(began, e.id)
        /\ IF e.name \in routed
           THEN /\ cur' = [env |-> e, attempt |-> 1]
                /\ tracked' = tracked \cup {e.id}
                /\ busy' = TRUE
                /\ UNCHANGED <<results, history, metrics>>
           ELSE /\ Record(e.id, "dead", 1)
                /\ metrics' = [metrics EXCEPT !.dead = @ + 1]
                /\ UNCHANGED <<cur, tracked, busy>>
    /\ UNCHANGED <<routed, count>>

Succeed ==
    /\ cur # NotRunning
    /\ Record(cur.env.id, "success", cur.attempt)
    /\ tracked' = tracked \ {cur.env.id}
    /\ busy' = FALSE
    /\ metrics' = [metrics EXCEPT !.succeeded = @ + 1]
    /\ cur' = NotRunning
    /\ UNCHANGED <<heap, routed, count, began>>

\* The handler raises; retryable: the policy accepts the exception.  The next attempt
\* is tracked and announced again before the handler is called.
Retry ==
    /\ cur # NotRunning
    /\ cur.attempt < MaxAttempts
    /\ Record(cur.env.id, "retry", cur.attempt)
    /\ metrics' = [metrics EXCEPT !.retried = @ + 1]
    /\ cur' = [cur EXCEPT !.attempt = @ + 1]
    /\ UNCHANGED <<heap, tracked, busy, routed, count, began>>

\* Mutant: a job that gives up is not taken off the in-flight table.
DieTracked ==
    /\ cur # NotRunning
    /\ Record(cur.env.id, "dead", cur.attempt)
    /\ busy' = FALSE
    /\ metrics' = [metrics EXCEPT !.dead = @ + 1]
    /\ cur' = NotRunning
    /\ UNCHANGED <<heap, tracked, routed, count, began>>

\* The last attempt, or an exception the policy does not retry.
Die ==
    /\ cur # NotRunning
    /\ Record(cur.env.id, "dead", cur.attempt)
    /\ tracked' = tracked \ {cur.env.id}
    /\ busy' = FALSE
    /\ metrics' = [metrics EXCEPT !.dead = @ + 1]
    /\ cur' = NotRunning
    /\ UNCHANGED <<heap, routed, count, began>>

\* TaskRouter.deregister; the jobs already queued stay.
Deregister(n) ==
    /\ n \in routed
    /\ routed' = routed \ {n}
    /\ UNCHANGED <<heap, cur, tracked, busy, results, history, metrics, count, began>>

Execute == Dequeue \/ Succeed \/ Retry \/ Die

Next ==
    \/ \E id \in Ids, n \in Names, p \in Priorities : Submit(id, n, p)
    \/ SubmitPipeline
    \/ Execute
    \/ \E n \in Names : Deregister(n)

\* drain: the caller goes on until the queue is empty.
Spec == Init /\ [][Next]_vars /\ WF_vars(Execute)

--------------------------------------------------------------------------------
Statuses == {"success", "retry", "dead"}
Outcomes == [id : Keys, status : Statuses, attempt : 1..MaxAttempts]

TypeOK ==
    /\ heap \subseteq Envelopes
    /\ cur = NotRunning \/ cur \in [env : Envelopes, attempt : 1..MaxAttempts]
    /\ tracked \subseteq Keys
    /\ busy \in BOOLEAN
    /\ results \in Seq(Outcomes)
    /\ history \in [Keys -> Seq(Outcomes)]
    /\ metrics \in [enqueued : Nat, succeeded : Nat, dead : Nat, retried : Nat]
    /\ routed \subseteq Names
    /\ count \in Nat
    /\ began \in Seq(Keys)

\* Every submitted job is queued, running, or counted once as succeeded or dead,
\* through retries, missing handlers and ids used again (worker_metrics.py:60-90).
NoJobLost ==
    metrics.enqueued = metrics.succeeded + metrics.dead + Cardinality(heap)
                        + (IF cur = NotRunning THEN 0 ELSE 1)

\* A job is in the in-flight table exactly while its handler runs, so stalled_jobs
\* reports no job that has ended (workers_runtime.py:137-171, 213).
TrackedWhileRunning ==
    /\ tracked = IF cur = NotRunning THEN {} ELSE {cur.env.id}
    /\ busy = (cur # NotRunning)

\* h is the list of the results of job k in the buffer, in their order: entry i is the
\* one at place at[i].
ListsResultsOf(k, h) ==
    \E at \in [1..Len(h) -> 1..Len(results)] :
        /\ \A i, j \in 1..Len(h) : i < j => at[i] < at[j]
        /\ \A i \in 1..Len(h) : h[i] = results[at[i]]
        /\ \A p \in 1..Len(results) : results[p].id = k <=> \E i \in 1..Len(h) : at[i] = p

\* The ring buffer and the histories by job hold the same results, also when the
\* buffer is full (job_result.py:55-66).
StoreAgrees ==
    /\ Len(results) <= MaxResults
    /\ \A k \in Keys : ListsResultsOf(k, history[k])

\* A pipeline step that is not more urgent than its dependency starts after it; only a
\* step with a lower priority number overtakes what it depends on, because the heap
\* knows priorities and not dependencies (workers_runtime.py:256-279).
StepsInOrder ==
    \A i \in DOMAIN began : began[i] \in Steps =>
        \A d \in Deps[began[i]] :
            StepPriority[d] <= StepPriority[began[i]] => \E j \in 1..(i-1) : began[j] = d

WorkersSafe == TypeOK /\ NoJobLost /\ TrackedWhileRunning /\ StoreAgrees /\ StepsInOrder

\* What is queued is executed in the end: retries are bounded and the heap is fair as
\* long as submissions are finite (workers_runtime.py:229-254).
QueueDrains == \A id \in Keys : Queued(id) ~> ~Queued(id)
================================================================================
