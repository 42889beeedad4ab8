--------------------------------- MODULE Queues ---------------------------------
(***************************************************************************)
(* The two job queues of app/workers: the ingestion queue run by threads   *)
(* (IngestionQueue) and the priority heap of a WorkersRuntime.  They share *)
(* no state.                                                               *)
(***************************************************************************)
EXTENDS IngestionQueue

CONSTANTS
    Names, Ids, Priorities, Steps, Deps, StepPriority, StepRank, Base, StepName,
    MaxAttempts, MaxResults, MaxEnvelopes

VARIABLES heap, cur, tracked, busy, results, history, metrics, routed, count, began

W == INSTANCE WorkersRuntime

ASSUME QueuesAssumption == W!WorkersAssumption

workersVars ==
    <<heap, cur, tracked, busy, results, history, metrics, routed, count, began>>

\* The heap loses no job, its books agree, and pipeline steps start in order
\* (workers/workers_runtime.py, job_result.py, worker_metrics.py).
WorkersSafe == W!WorkersSafe

\* Whoever drains the heap empties it (workers/workers_runtime.py).
QueueDrains == W!QueueDrains
================================================================================
