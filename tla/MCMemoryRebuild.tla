--------------------------- MODULE MCMemoryRebuild ---------------------------
(* Instances of MemoryRebuild for TLC.                                       *)
EXTENDS MemoryRebuild, TLC

CONSTANTS e1, e2, s1, s2, s3, srcA, srcB, k1, k2, k3

\* s2 supersedes s1 (same source) and no longer yields k2, which s3, of
\* another source, still yields.
MCOwner     == [k \in Keys |-> IF k = k3 THEN e2 ELSE e1]
MCSourceOf  == [s \in Snapshots |-> IF s = s3 THEN srcB ELSE srcA]
MCFetchedAt == [s \in Snapshots |-> IF s = s2 THEN 2 ELSE 1]
MCExtracted ==
    [s \in Snapshots |->
        Keys \cap (CASE s = s1 -> {k1, k2, k3}
                     [] s = s2 -> {k1, k3}
                     [] s = s3 -> {k2})]
================================================================================
