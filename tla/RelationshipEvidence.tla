-------------------------- MODULE RelationshipEvidence --------------------------
(***************************************************************************)
(* The evidence of relationships and the reviewers who verify it           *)
(* (services/relationship_evidence.py, api/routes/evidence.py): a request  *)
(* reads the row, writes the columns it changed and adds an audit entry;   *)
(* nothing keeps two of them apart until one has flushed.                  *)
(***************************************************************************)
EXTENDS Naturals, Sequences

CONSTANTS
    Pairs,     \* from-entity/to-entity pairs with one relationship type
    Sessions,  \* requests in progress
    Reviewers, \* actor ids
    MaxLog,    \* bound on the audit entries
    None

EvidenceAssumption ==
    /\ None \notin Reviewers
    /\ None \notin [by : Reviewers \cup {None}, at : BOOLEAN]

VARIABLES
    evidence, \* Pairs -> None, or verified_by and whether verified_at is set
    log,      \* the audit entries of the evidence routes, in commit order
    tx,       \* Sessions -> the request that has not ended
    raced     \* history: a request wrote over a row that was not what it had read

vars == <<evidence, log, tx, raced>>

Idle == [op |-> "idle"]

Init ==
    /\ evidence = [p \in Pairs |-> None]
    /\ log = <<>>
    /\ tx = [r \in Sessions |-> Idle]
    /\ raced = FALSE

\* create_evidence of the route: flush and audit entry in one transaction; a second row for
\* the pair meets the unique constraint.
CreateEvidence(p) ==
    /\ evidence[p] = None /\ Len(log) < MaxLog
    /\ evidence' = [evidence EXCEPT ![p] = [by |-> None, at |-> FALSE]]
    /\ log' = Append(log, [op |-> "create", of |-> p, by |-> None])
    /\ UNCHANGED <<tx, raced>>

\* verify_evidence, unverify_evidence: the row is queried ...
ReadEvidence(r, p, op, a) ==
    /\ tx[r] = Idle /\ evidence[p] # None /\ Len(log) < MaxLog
    /\ tx' = [tx EXCEPT ![r] = [op |-> op, of |-> p, actor |-> a, read |-> evidence[p],
                                flushed |-> FALSE]]
    /\ UNCHANGED <<evidence, log, raced>>

\* The columns an UPDATE names: those the request set to another value than it read.
\* verified_at is a new time at each verification.
NamesBy(d) == (IF d.op = "verify" THEN d.actor ELSE None) # d.read.by
NamesAt(d) == d.op = "verify" \/ d.read.at

Locked(p) == \E r \in Sessions : tx[r] # Idle /\ tx[r].of = p /\ tx[r].flushed

\* ... and its changed columns are flushed, which holds the row until the end.
FlushEvidence(r) ==
    LET d == tx[r] IN
    /\ d # Idle /\ ~d.flushed
    /\ NamesBy(d) \/ NamesAt(d)
    /\ ~Locked(d.of)
    /\ tx' = [tx EXCEPT ![r].flushed = TRUE]
    /\ raced' = (raced \/ evidence[d.of] # d.read)
    /\ UNCHANGED <<evidence, log>>

\* The audit entry and the commit; a request that changed no column has flushed nothing.
CommitEvidence(r) ==
    LET d == tx[r] IN
    /\ d # Idle /\ Len(log) < MaxLog
    /\ d.flushed \/ ~(NamesBy(d) \/ NamesAt(d))
    /\ evidence' = [evidence EXCEPT ![d.of] =
                        [by |-> IF NamesBy(d) THEN IF d.op = "verify" THEN d.actor ELSE None
                                ELSE @.by,
                         at |-> IF NamesAt(d) THEN d.op = "verify" ELSE @.at]]
    /\ log' = Append(log, [op |-> d.op, of |-> d.of, by |-> d.actor])
    /\ raced' = (raced \/ evidence[d.of] # d.read)
    /\ tx' = [tx EXCEPT ![r] = Idle]

\* The audit entry fails: 500 after a rollback.
AbortEvidence(r) ==
    /\ tx[r] # Idle
    /\ tx' = [tx EXCEPT ![r] = Idle]
    /\ UNCHANGED <<evidence, log, raced>>

Next ==
    \/ \E p \in Pairs : CreateEvidence(p)
    \/ \E r \in Sessions :
        \/ \E p \in Pairs, op \in {"verify", "unverify"}, a \in Reviewers : ReadEvidence(r, p, op, a)
        \/ FlushEvidence(r) \/ CommitEvidence(r) \/ AbortEvidence(r)

Spec == Init /\ [][Next]_vars

--------------------------------------------------------------------------------

TypeOK ==
    /\ evidence \in [Pairs -> {None} \cup [by : Reviewers \cup {None}, at : BOOLEAN]]
    /\ log \in Seq([op : {"create", "verify", "unverify"}, of : Pairs, by : Reviewers \cup {None}])

\* Who a row names verified it, by the log; and unless two requests raced, the row is whole
\* and says what the last entry on it says (api/routes/evidence.py:242-346).
EvidenceLogged ==
    \A p \in Pairs :
        LET mine == {k \in DOMAIN log : log[k].of = p /\ log[k].op # "create"}
            last == CHOOSE k \in mine : \A j \in mine : j <= k
        IN  evidence[p] # None =>
            /\ evidence[p].by # None =>
                \E k \in mine : log[k].op = "verify" /\ log[k].by = evidence[p].by
            /\ ~raced =>
                /\ evidence[p].at = (evidence[p].by # None)
                /\ evidence[p].by = IF mine = {} \/ log[last].op = "unverify" THEN None
                                    ELSE log[last].by

RelationshipsSafe == TypeOK /\ EvidenceLogged
================================================================================
