------------------------------ MODULE MCSourceRuns ------------------------------
\* The CourtListener source, seeded as the specification has it or a legacy row; two
\* sessions, each in a replica of its own.  One record of each kind: an incident, a
\* legal instrument and a docket entry.
EXTENDS SourceRuns, TLC

CONSTANTS laws, p1, p2, r1, r2, k1, k2, item, act, entry

MCSpecAutomation == [s \in {laws} |-> "machine_ready_disabled"]
MCSpecLifecycle == [s \in {laws} |-> "runnable_disabled"]
MCHome == [p \in {p1, p2} |-> IF p = p1 THEN r1 ELSE r2]

\* The two sessions with their replicas, and the two keys, are interchangeable.
Swap(a, b) == (a :> b) @@ (b :> a)
SwapReplicas == Swap(p1, p2) @@ Swap(r1, r2)
MCSymmetry == {SwapReplicas} \cup Permutations({k1, k2})
================================================================================
