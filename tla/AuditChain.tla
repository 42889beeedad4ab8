------------------------------ MODULE AuditChain ------------------------------
(***************************************************************************)
(* The hash-linked audit log (backend/app/audit/append_log.py,             *)
(* chain_digest.py, integrity_chain.py) under concurrent transactions.     *)
(*                                                                         *)
(* append_audit_entry takes the time, reads the entry_hash of the visible  *)
(* row with the largest id, inserts its row and commits with the caller's  *)
(* mutation; no lock is held between these steps.  Some routes insert an   *)
(* AuditLog row directly, without any hash (api/routes/auth.py,            *)
(* admin_review.py).                                                       *)
(*                                                                         *)
(* SHA-256 is taken to be collision free.  A row's digest covers its id,   *)
(* its contents and the previous digest, and an id of the sequence is used *)
(* once, so a digest stands for the set of ids on the row's chain: the     *)
(* GENESIS hash is {}.                                                     *)
(***************************************************************************)
EXTENDS Naturals

CONSTANTS
    Sessions,   \* database sessions of concurrent requests
    Direct,     \* those whose route inserts an AuditLog row itself
    MaxId,      \* bound on ids handed out
    MaxClock    \* bound on clock readings

ASSUME ChainAssumption ==
    /\ Direct \subseteq Sessions
    /\ MaxId \in Nat /\ MaxClock \in Nat

VARIABLES
    rows,      \* committed AuditLog rows
    tx,        \* each session's transaction
    nextId,    \* the id sequence; it never goes back
    clock,     \* readings of the clock so far
    overlapped \* history: two transactions were open at once

vars == <<rows, tx, nextId, clock, overlapped>>

Row == [id : Nat, at : Nat, chained : BOOLEAN, prev : SUBSET Nat]
Tx  == [mode : {"idle", "stamped", "read", "open"}, at : Nat,
        prev : SUBSET Nat, rows : SUBSET Row]
NoTx == [mode |-> "idle", at |-> 0, prev |-> {}, rows |-> {}]

Init ==
    /\ rows = {}
    /\ tx = [t \in Sessions |-> NoTx]
    /\ nextId = 1 /\ clock = 0
    /\ overlapped = FALSE

--------------------------------------------------------------------------------
\* row_digest: the row's own fields chained to the previous digest.
Digest(r, prev) == prev \cup {r.id}

\* Mutant: the rows of all open transactions are visible.
VisibleDirty(t) == rows \cup UNION {tx[u].rows : u \in Sessions}

\* READ COMMITTED: committed rows and the session's own.
Visible(t) == rows \cup tx[t].rows

\* Mutant: the first row in id order is taken for the last.
PrevHashOfFirst(R) ==
    LET First == {r \in R : r.chained /\ \A q \in R : r.id <= q.id}
    IN IF First = {} THEN {} ELSE LET f == CHOOSE r \in First : TRUE IN Digest(f, f.prev)

\* Mutant: the chain is recomputed over all rows, as verify_chain does.
PrevHashRecomputed(R) == {r.id : r \in R}

\* The row with the largest id, if it has an entry_hash.
LastHashed(R) == {r \in R : r.chained /\ \A q \in R : q.id <= r.id}

\* previous_entry_hash of the next entry: the last row's hash, else GENESIS.
PrevHash(R) ==
    IF LastHashed(R) = {} THEN {}
    ELSE LET last == CHOOSE r \in LastHashed(R) : TRUE IN Digest(last, last.prev)

\* The clock is read before the last row is.
Stamp(t) ==
    /\ tx[t].mode = "idle" \/ (tx[t].mode = "open" /\ t \notin Direct)
    /\ clock < MaxClock
    /\ clock' = clock + 1
    /\ tx' = [tx EXCEPT ![t].mode = "stamped", ![t].at = clock + 1]
    /\ overlapped' = (overlapped \/ \E u \in Sessions \ {t} : tx[u].mode # "idle")
    /\ UNCHANGED <<rows, nextId>>

ReadLast(t) ==
    /\ tx[t].mode = "stamped" /\ t \notin Direct
    /\ tx' = [tx EXCEPT ![t].mode = "read", ![t].prev = PrevHash(Visible(t))]
    /\ UNCHANGED <<rows, nextId, clock, overlapped>>

Insert(t, row) ==
    /\ nextId <= MaxId
    /\ tx' = [tx EXCEPT ![t].mode = "open", ![t].rows = @ \cup {row}]
    /\ nextId' = nextId + 1
    /\ UNCHANGED <<rows, clock, overlapped>>

\* db.add and flush of the hashed entry.
InsertChained(t) ==
    /\ tx[t].mode = "read"
    /\ Insert(t, [id |-> nextId, at |-> tx[t].at, chained |-> TRUE,
                  prev |-> tx[t].prev])

\* A route's own AuditLog row: no hash columns, created_at from the server.
InsertDirect(t) ==
    /\ tx[t].mode = "stamped" /\ t \in Direct
    /\ Insert(t, [id |-> nextId, at |-> tx[t].at, chained |-> FALSE,
                  prev |-> {}])

Commit(t) ==
    /\ tx[t].mode = "open"
    /\ rows' = rows \cup tx[t].rows
    /\ tx' = [tx EXCEPT ![t] = NoTx]
    /\ UNCHANGED <<nextId, clock, overlapped>>

\* The mutation or the append failed (log_mutation with fail_closed), or the
\* process died: the ids are used up, the rows are gone.
Rollback(t) ==
    /\ tx[t].mode # "idle"
    /\ tx' = [tx EXCEPT ![t] = NoTx]
    /\ UNCHANGED <<rows, nextId, clock, overlapped>>

Next == \E t \in Sessions :
    \/ Stamp(t) \/ ReadLast(t)
    \/ InsertChained(t) \/ InsertDirect(t)
    \/ Commit(t) \/ Rollback(t)

Spec == Init /\ [][Next]_vars

--------------------------------------------------------------------------------
Chained == {r \in rows : r.chained}

\* verify_chain recomputes every digest in id order, so what it expects as the
\* previous hash of r is the chain of all rows before r.
Expected(r) == {q.id : q \in {p \in rows : p.id < r.id}}

Broken(r) == r.chained /\ r.prev # Expected(r)

\* verify_chain on a log that is not empty.
Verifies ==
    \A r \in rows : ~Broken(r) /\ \A q \in rows : q.id < r.id => q.at <= r.at

--------------------------------------------------------------------------------
\* The columns keep their types and the sequence is ahead of every id.
TypeOK ==
    /\ rows \subseteq Row
    /\ \A r \in rows : r.id < nextId
    /\ tx \in [Sessions -> Tx]
    /\ nextId \in Nat \ {0} /\ clock \in Nat
    /\ overlapped \in BOOLEAN

\* append_log.py:52: an entry links to committed rows only: whatever is rolled
\* back, every row on a committed entry's chain is committed too.
LinksResolve == \A r \in Chained : r.prev \subseteq {q.id : q \in Chained}

\* As long as requests do not overlap and all entries are appended by
\* append_audit_entry, verify_chain accepts the log, whatever was rolled back.
QuietChainVerifies == ~overlapped /\ rows = Chained => Verifies

\* An entry that verify_chain rejects makes it reject every later entry: the
\* chain never recovers from a lost race or from a row without a hash.
BreakIsPermanent ==
    \A r, s \in Chained : r.id < s.id /\ Broken(r) => Broken(s)

\* append_log.py:3 "All admin mutations MUST call append_audit_entry", so that
\* a log no two requests wrote at once is accepted by verify_chain.
SerialLogVerifies == ~overlapped => Verifies
================================================================================
