----------------------------- MODULE ClaimLedger -----------------------------
(***************************************************************************)
(* What the memory layer promises about one claim, whatever the tables,    *)
(* sessions and runs behind it: evidence may assert a claim, superseding   *)
(* evidence or a soft invalidation withdraws it, a hard invalidation       *)
(* rejects it, and a rejected claim is not asserted again until somebody   *)
(* lifts the rejection by invalidating it anew for a soft reason.          *)
(***************************************************************************)
CONSTANT Keys
VARIABLE standing

Init == standing = [k \in Keys |-> "unknown"]

\* All claims of K move at once.
Move(K, from, to) ==
    /\ \A k \in K : standing[k] \in from
    /\ standing' = [k \in Keys |-> IF k \in K THEN to ELSE standing[k]]

Assert(k)   == Move({k}, {"unknown", "withdrawn"}, "active")
Lift(k)     == Move({k}, {"rejected"}, "withdrawn")
Withdraw(K) == Move(K, {"active"}, "withdrawn")
Reject(K)   == Move(K, {"active", "withdrawn"}, "rejected")

Next ==
    \/ \E k \in Keys : Assert(k) \/ Lift(k)
    \/ \E K \in SUBSET Keys : Withdraw(K) \/ Reject(K)

Spec == Init /\ [][Next]_standing
================================================================================
