------------------------------- MODULE JobLedger -------------------------------
(***************************************************************************)
(* What the in-process ingestion queue promises of a job                   *)
(* (workers/ingestion_queue.py): it is executed at most once, by one       *)
(* thread, and its record leaves the history only when it has finished.    *)
(***************************************************************************)
CONSTANT Jobs

VARIABLE job    \* Jobs -> where the job is in its life

Succ(s) ==
    CASE s = "new"     -> {"pending"}
      [] s = "pending" -> {"running"}
      [] s = "running" -> {"completed", "failed"}
      [] s \in {"completed", "failed"} -> {"gone"}
      [] OTHER -> {}

Init == job = [j \in Jobs |-> "new"]

Step(j) == \E s \in Succ(job[j]) : job' = [job EXCEPT ![j] = s]

\* _evict_old_records removes several finished records at once.
Evict(S) ==
    /\ \A j \in S : job[j] \in {"completed", "failed"}
    /\ job' = [j \in Jobs |-> IF j \in S THEN "gone" ELSE job[j]]

Next == (\E j \in Jobs : Step(j)) \/ (\E S \in SUBSET Jobs : Evict(S))

Spec == Init /\ [][Next]_job
================================================================================
