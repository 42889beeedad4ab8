-------------------------------- MODULE MCQueues --------------------------------
\* A behaviour belongs to one of the queues: run by the threads of an IngestionQueue, or
\* by the one of a WorkersRuntime.
EXTENDS Queues

CONSTANTS s1, s2, s3

VARIABLE which

\* A pipeline of three steps: s1 needs s2, s3 needs s1 and is the most urgent.
MCDeps == [s \in {s1, s2, s3} |-> CASE s = s1 -> {s2} [] s = s3 -> {s1} [] OTHER -> {}]
MCStepPriority == [s \in {s1, s2, s3} |-> IF s = s3 THEN 2 ELSE 5]
MCStepRank == [s \in {s1, s2, s3} |-> CASE s = s1 -> 1 [] s = s2 -> 2 [] OTHER -> 3]

MCInit ==
    /\ Init /\ W!Init
    /\ which \in {"queue", "workers"}
    /\ which = "queue" => routed = {}
MCNext ==
    /\ UNCHANGED which
    /\ \/ which = "queue" /\ Next /\ UNCHANGED workersVars
       \/ which = "workers" /\ W!Next /\ UNCHANGED vars
MCSpec == MCInit /\ [][MCNext]_<<which, vars, workersVars>> /\ WF_workersVars(W!Execute)
================================================================================
