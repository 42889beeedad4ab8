----------------------------- MODULE ClaimRowRace -----------------------------
(***************************************************************************)
(* One MemoryClaim row under concurrent ORM sessions: rebuild runs in      *)
(* background tasks (api/routes/admin_memory.py) and the invalidate        *)
(* endpoint.  A session reads the committed row once (SQLAlchemy keeps the *)
(* instance in its identity map), assigns columns, and at flush writes     *)
(* only the columns whose value differs from the one it read.  PostgreSQL  *)
(* runs the sessions at READ COMMITTED, and no query of the code locks the *)
(* row or compares a version.  A row lock is held only from flush to       *)
(* commit, so flush and commit are one step here.                          *)
(***************************************************************************)
CONSTANTS
    Rebuilds,      \* sessions that execute run_rebuild
    Rejects,       \* sessions that execute invalidate_claim_endpoint
    Reasons, HardReasons, StaleRebuild, NoReason, NoRow

RaceAssumption ==
    /\ Rebuilds \cap Rejects = {}
    /\ HardReasons \subseteq Reasons
    /\ StaleRebuild \in Reasons \ HardReasons
    /\ NoReason \notin Reasons
    /\ NoRow \notin [active : BOOLEAN, reason : Reasons \cup {NoReason}]

VARIABLES
    row,      \* the committed row, or NoRow
    loaded,   \* what each session read
    wants,    \* what each session assigned; NoRow outside a transaction
    audits    \* reasons with a committed MemoryInvalidation row

vars == <<row, loaded, wants, audits>>

Sessions == Rebuilds \cup Rejects
Rows     == [active : BOOLEAN, reason : Reasons \cup {NoReason}]

Init ==
    /\ row = NoRow
    /\ loaded = [t \in Sessions |-> NoRow]
    /\ wants = [t \in Sessions |-> NoRow]
    /\ audits = {}

\* A session reads the row and decides what to assign to the instance.
Read(t, value) ==
    /\ wants[t] = NoRow
    /\ loaded' = [loaded EXCEPT ![t] = row]
    /\ wants' = [wants EXCEPT ![t] = value]
    /\ UNCHANGED <<row, audits>>

\* _upsert_claims: the claim is extracted from current evidence.
ReadToCreate(t) ==
    /\ row = NoRow
    /\ Read(t, [active |-> TRUE, reason |-> NoReason])

ReadToReactivate(t) ==
    /\ row # NoRow /\ row.reason \notin HardReasons
    /\ Read(t, [row EXCEPT !.active = TRUE])

\* The stale loop of run_rebuild: the claim is extracted no longer.
ReadToWithdraw(t) ==
    /\ row # NoRow /\ row.active /\ row.reason \notin HardReasons
    /\ Read(t, [active |-> FALSE, reason |-> StaleRebuild])

\* invalidate_claim from the endpoint.
ReadToInvalidate(t, r) ==
    /\ row # NoRow
    /\ Read(t, [active |-> FALSE, reason |-> r])

\* The UPDATE sets a column only if the session changed it.
Written(t) ==
    [active |-> IF wants[t].active # loaded[t].active
                THEN wants[t].active ELSE row.active,
     reason |-> IF wants[t].reason # loaded[t].reason
                THEN wants[t].reason ELSE row.reason]

Close(t) ==
    /\ loaded' = [loaded EXCEPT ![t] = NoRow]
    /\ wants' = [wants EXCEPT ![t] = NoRow]

\* INSERT of a new claim; claim_key is unique, so a second one rolls back.
CommitInsert(t) ==
    /\ wants[t] # NoRow /\ loaded[t] = NoRow
    /\ row = NoRow
    /\ row' = wants[t]
    /\ Close(t)
    /\ UNCHANGED audits

\* Mutant: the invalidation record is left out.
CommitUnaudited(t) ==
    /\ wants[t] # NoRow /\ loaded[t] # NoRow
    /\ row' = Written(t)
    /\ Close(t)
    /\ UNCHANGED audits

\* UPDATE of the row, with the invalidation record in the same transaction.
CommitUpdate(t) ==
    /\ wants[t] # NoRow /\ loaded[t] # NoRow
    /\ row' = Written(t)
    /\ \/ /\ wants[t].active
          /\ UNCHANGED audits
       \/ /\ ~wants[t].active
          /\ audits' = audits \cup {wants[t].reason}
    /\ Close(t)

\* An exception, a failed audit entry or a unique violation.
Rollback(t) ==
    /\ wants[t] # NoRow
    /\ Close(t)
    /\ UNCHANGED <<row, audits>>

Next ==
    \/ \E t \in Rebuilds :
          ReadToCreate(t) \/ ReadToReactivate(t) \/ ReadToWithdraw(t)
    \/ \E t \in Rejects, r \in Reasons : ReadToInvalidate(t, r)
    \/ \E t \in Sessions : CommitInsert(t) \/ CommitUpdate(t) \/ Rollback(t)

Spec == Init /\ [][Next]_vars

--------------------------------------------------------------------------------
\* The row, and the sessions' copies keep their types.
TypeOK ==
    /\ row \in Rows \cup {NoRow}
    /\ loaded \in [Sessions -> Rows \cup {NoRow}]
    /\ wants \in [Sessions -> Rows \cup {NoRow}]
    /\ audits \subseteq Reasons

\* invalidation.py: however many sessions overlap, an inactive claim carries
\* the reason of a committed audit record.
InactiveIsAudited == row # NoRow => (row.active \/ row.reason \in audits)

\* rebuild.py:177 "reactivate unless the claim was hard-rejected".
HardRejectedIsInactive ==
    row # NoRow => (row.reason \in HardReasons => ~row.active)
================================================================================
