--------------------------- MODULE AuditChainProofs ---------------------------
(***************************************************************************)
(* Proofs about the audit log, for any sessions and any bounds.            *)
(***************************************************************************)
EXTENDS AuditChain, TLAPS

AllRows == rows \cup UNION {tx[t].rows : t \in Sessions}

\* An id is used once, by a row of one transaction.
IdInv ==
    /\ \A r \in AllRows : r.id < nextId
    /\ \A r, q \in AllRows : r.id = q.id => r = q

\* p is the chain of rows of R: each of its ids belongs to an entry of R that
\* is linked to exactly the part of p before it.
ChainIn(R, p) ==
    \A i \in p : \E q \in R : q.chained /\ q.id = i /\ q.prev = {j \in p : j < i}

ChainInv ==
    /\ \A r \in AllRows : \A i \in r.prev : i < r.id
    /\ \A r \in rows : ChainIn(rows, r.prev)
    /\ \A t \in Sessions : \A r \in tx[t].rows : ChainIn(Visible(t), r.prev)
    /\ \A t \in Sessions : tx[t].mode = "read" =>
          ChainIn(Visible(t), tx[t].prev) /\ \A i \in tx[t].prev : i < nextId

LEMMA TypeInit == Init => TypeOK /\ IdInv /\ ChainInv
<1> SUFFICES ASSUME Init PROVE TypeOK /\ IdInv /\ ChainInv
  OBVIOUS
<1>1. AllRows = {}
  BY DEF Init, AllRows, NoTx
<1>2. TypeOK
  <2>1. NoTx \in Tx
    BY DEF NoTx, Tx
  <2>2. tx \in [Sessions -> Tx]
    BY <2>1 DEF Init
  <2>3. rows \subseteq Row /\ \A r \in rows : r.id < nextId
    BY DEF Init
  <2>4. nextId = 1 /\ clock = 0 /\ overlapped \in BOOLEAN
    BY DEF Init
  <2>5. nextId \in Nat \ {0} /\ clock \in Nat
    BY <2>4
  <2> QED
    BY <2>2, <2>3, <2>4, <2>5 DEF TypeOK
<1>3. \A t \in Sessions : tx[t].rows = {} /\ tx[t].mode = "idle"
  BY DEF Init, NoTx
<1>4. rows = {}
  BY DEF Init
<1> QED
  BY <1>1, <1>2, <1>3, <1>4 DEF IdInv, ChainInv

\* One session's transaction changes, the others stay.
LEMMA TxUpdate ==
    ASSUME TypeOK, NEW t \in Sessions, NEW new \in Tx,
           tx' = [tx EXCEPT ![t] = new]
    PROVE  /\ tx' \in [Sessions -> Tx]
           /\ tx'[t] = new
           /\ \A u \in Sessions \ {t} : tx'[u] = tx[u]
  BY DEF TypeOK

\* The previous hash is that of an entry of R, or GENESIS.
LEMMA PrevHashCases ==
    ASSUME NEW R
    PROVE  \/ PrevHash(R) = {} /\ LastHashed(R) = {}
           \/ \E q \in LastHashed(R) : PrevHash(R) = q.prev \cup {q.id}
  BY DEF PrevHash, Digest

LEMMA TypeStep == TypeOK /\ IdInv /\ [Next]_vars => TypeOK'
<1> SUFFICES ASSUME TypeOK, IdInv, [Next]_vars PROVE TypeOK'
  OBVIOUS
<1> USE DEF TypeOK, Tx
<1>1. ASSUME NEW t \in Sessions, Stamp(t) PROVE TypeOK'
  <2>1. tx' = [tx EXCEPT ![t] = [tx[t] EXCEPT !.mode = "stamped", !.at = clock + 1]]
    BY <1>1 DEF Stamp
  <2> QED
    BY <1>1, <2>1 DEF Stamp
<1>2. ASSUME NEW t \in Sessions, ReadLast(t) PROVE TypeOK'
  <2>1. Visible(t) \subseteq Row
    BY DEF Visible
  <2>2. PrevHash(Visible(t)) \subseteq Nat
    BY <2>1, PrevHashCases DEF LastHashed, Row
  <2> QED
    BY <1>2, <2>2 DEF ReadLast
<1>3. ASSUME NEW t \in Sessions, NEW row \in Row, Insert(t, row) PROVE TypeOK'
  <2>1. tx' = [tx EXCEPT ![t] = [tx[t] EXCEPT !.mode = "open", !.rows = @ \cup {row}]]
    BY <1>3 DEF Insert
  <2>2. tx[t].rows \cup {row} \in SUBSET Row /\ tx[t] \in Tx
    OBVIOUS
  <2>3. [tx[t] EXCEPT !.mode = "open", !.rows = @ \cup {row}] \in Tx
    BY <2>2
  <2>4. tx' \in [Sessions -> Tx]
    BY <2>1, <2>3, TxUpdate
  <2>5. nextId' \in Nat \ {0} /\ \A r \in rows : r.id < nextId'
    BY <1>3 DEF Insert, Row
  <2> HIDE DEF Tx
  <2> QED
    BY <1>3, <2>4, <2>5 DEF Insert
<1>4. ASSUME NEW t \in Sessions, InsertChained(t) \/ InsertDirect(t) PROVE TypeOK'
  <2>1. \E row \in Row : Insert(t, row)
    BY <1>4 DEF InsertChained, InsertDirect, Row
  <2> QED
    BY <1>3, <2>1
<1>5. ASSUME NEW t \in Sessions, Commit(t) PROVE TypeOK'
  <2>1. NoTx \in Tx /\ tx[t].rows \subseteq AllRows
    BY DEF NoTx, AllRows
  <2>2. tx' \in [Sessions -> Tx]
    BY <1>5, <2>1 DEF Commit
  <2> QED
    BY <1>5, <2>1, <2>2 DEF Commit, IdInv
<1>6. ASSUME NEW t \in Sessions, Rollback(t) PROVE TypeOK'
  <2>1. NoTx \in Tx
    BY DEF NoTx
  <2> QED
    BY <1>6, <2>1 DEF Rollback
<1>7. CASE UNCHANGED vars
  BY <1>7 DEF vars
<1> QED
  BY <1>1, <1>2, <1>4, <1>5, <1>6, <1>7 DEF Next

\* The four things a step can do to the rows of committed and open transactions.
LEMMA RowsStep ==
    ASSUME TypeOK, TypeOK', [Next]_vars
    PROVE  \/ /\ rows' = rows /\ nextId' = nextId
              /\ \A u \in Sessions : tx'[u].rows = tx[u].rows
           \/ \E t \in Sessions : \E row \in Row :
                 /\ rows' = rows /\ nextId' = nextId + 1
                 /\ row.id = nextId
                 /\ row.prev = {} \/ (tx[t].mode = "read" /\ row.prev = tx[t].prev)
                 /\ tx'[t].rows = tx[t].rows \cup {row}
                 /\ \A u \in Sessions \ {t} : tx'[u].rows = tx[u].rows
           \/ \E t \in Sessions :
                 /\ rows' = Visible(t) \/ rows' = rows
                 /\ nextId' = nextId
                 /\ tx'[t].rows = {} /\ tx'[t].mode = "idle"
                 /\ \A u \in Sessions \ {t} : tx'[u].rows = tx[u].rows
<1> USE DEF TypeOK
<1>1. ASSUME NEW t \in Sessions, Stamp(t)
      PROVE  /\ rows' = rows /\ nextId' = nextId
             /\ \A u \in Sessions : tx'[u].rows = tx[u].rows
  BY <1>1 DEF Stamp, Tx
<1>2. ASSUME NEW t \in Sessions, ReadLast(t)
      PROVE  /\ rows' = rows /\ nextId' = nextId
             /\ \A u \in Sessions : tx'[u].rows = tx[u].rows
  BY <1>2 DEF ReadLast, Tx
<1>3. ASSUME NEW t \in Sessions, NEW row \in Row, Insert(t, row)
      PROVE  /\ rows' = rows /\ nextId' = nextId + 1
             /\ tx'[t].rows = tx[t].rows \cup {row}
             /\ \A u \in Sessions \ {t} : tx'[u].rows = tx[u].rows
  BY <1>3 DEF Insert, Tx
<1>4. ASSUME NEW t \in Sessions, InsertChained(t) \/ InsertDirect(t)
      PROVE  \E row \in Row :
                 /\ Insert(t, row) /\ row.id = nextId
                 /\ row.prev = {} \/ (tx[t].mode = "read" /\ row.prev = tx[t].prev)
  <2> DEFINE hashed == [id |-> nextId, at |-> tx[t].at, chained |-> TRUE,
                        prev |-> tx[t].prev]
             plain  == [id |-> nextId, at |-> tx[t].at, chained |-> FALSE,
                        prev |-> {}]
  <2>1. tx[t].at \in Nat /\ tx[t].prev \in SUBSET Nat
    BY DEF Tx
  <2>2. hashed \in Row /\ plain \in Row
    BY <2>1 DEF Row
  <2>3. CASE InsertChained(t)
    BY <2>2, <2>3 DEF InsertChained
  <2>4. CASE InsertDirect(t)
    BY <2>2, <2>4 DEF InsertDirect
  <2> QED
    BY <1>4, <2>3, <2>4
<1>5. ASSUME NEW t \in Sessions, Commit(t) \/ Rollback(t)
      PROVE  /\ rows' = Visible(t) \/ rows' = rows
             /\ nextId' = nextId
             /\ tx'[t].rows = {} /\ tx'[t].mode = "idle"
             /\ \A u \in Sessions \ {t} : tx'[u].rows = tx[u].rows
  BY <1>5 DEF Commit, Rollback, Visible, NoTx
<1>6. CASE UNCHANGED vars
  BY <1>6 DEF vars
<1>7. ASSUME NEW t \in Sessions, InsertChained(t) \/ InsertDirect(t)
      PROVE  \E row \in Row :
                 /\ rows' = rows /\ nextId' = nextId + 1
                 /\ row.id = nextId
                 /\ row.prev = {} \/ (tx[t].mode = "read" /\ row.prev = tx[t].prev)
                 /\ tx'[t].rows = tx[t].rows \cup {row}
                 /\ \A u \in Sessions \ {t} : tx'[u].rows = tx[u].rows
  BY <1>3, <1>4, <1>7
<1> QED
  BY <1>1, <1>2, <1>5, <1>6, <1>7 DEF Next

LEMMA IdStep == TypeOK /\ TypeOK' /\ IdInv /\ [Next]_vars => IdInv'
<1> SUFFICES ASSUME TypeOK, TypeOK', IdInv, [Next]_vars PROVE IdInv'
  OBVIOUS
<1>1. CASE /\ rows' = rows /\ nextId' = nextId
           /\ \A u \in Sessions : tx'[u].rows = tx[u].rows
  <2>1. AllRows' = AllRows
    BY <1>1 DEF AllRows
  <2> QED
    BY <1>1, <2>1 DEF IdInv
<1>2. ASSUME NEW t \in Sessions, NEW row \in Row,
             rows' = rows, nextId' = nextId + 1, row.id = nextId,
             tx'[t].rows = tx[t].rows \cup {row},
             \A u \in Sessions \ {t} : tx'[u].rows = tx[u].rows
      PROVE  IdInv'
  <2>1. AllRows' = AllRows \cup {row}
    BY <1>2 DEF AllRows
  <2>2. AllRows \subseteq Row
    BY DEF AllRows, TypeOK, Tx
  <2>3. \A r \in AllRows : r.id \in Nat /\ r.id < nextId
    BY <2>2 DEF IdInv, Row
  <2> QED
    BY <1>2, <2>1, <2>3 DEF IdInv, TypeOK
<1>3. ASSUME NEW t \in Sessions,
             rows' = Visible(t) \/ rows' = rows, nextId' = nextId,
             tx'[t].rows = {}, tx'[t].mode = "idle",
             \A u \in Sessions \ {t} : tx'[u].rows = tx[u].rows
      PROVE  IdInv'
  <2>1. AllRows' \subseteq AllRows
    BY <1>3 DEF AllRows, Visible
  <2> QED
    BY <1>3, <2>1 DEF IdInv
<1> QED
  BY <1>1, <1>2, <1>3, RowsStep

\* A session that has read the last row either did so before or does it now.
LEMMA ReadStep ==
    ASSUME TypeOK, [Next]_vars, NEW u \in Sessions, tx'[u].mode = "read"
    PROVE  \/ tx[u].mode = "read" /\ tx'[u].prev = tx[u].prev
           \/ tx'[u].prev = PrevHash(Visible(u))
<1> USE DEF TypeOK, Tx
<1>1. ASSUME NEW t \in Sessions, Stamp(t) \/ ReadLast(t)
      PROVE  \/ tx[u].mode = "read" /\ tx'[u].prev = tx[u].prev
             \/ tx'[u].prev = PrevHash(Visible(u))
  BY <1>1 DEF Stamp, ReadLast
<1>2. ASSUME NEW t \in Sessions, NEW row, Insert(t, row)
      PROVE  tx[u].mode = "read" /\ tx'[u].prev = tx[u].prev
  BY <1>2 DEF Insert
<1>3. ASSUME NEW t \in Sessions, Commit(t) \/ Rollback(t)
      PROVE  tx[u].mode = "read" /\ tx'[u].prev = tx[u].prev
  BY <1>3 DEF Commit, Rollback, NoTx
<1>4. CASE UNCHANGED vars
  BY <1>4 DEF vars
<1>5. ASSUME NEW t \in Sessions, InsertChained(t) \/ InsertDirect(t)
      PROVE  \E row : Insert(t, row)
  BY <1>5 DEF InsertChained, InsertDirect
<1> QED
  BY <1>1, <1>2, <1>3, <1>4, <1>5 DEF Next

LEMMA ChainInMore ==
    ASSUME NEW R, NEW S, R \subseteq S, NEW p, ChainIn(R, p)
    PROVE  ChainIn(S, p)
  BY DEF ChainIn

\* Linking to an entry extends that entry's chain by its own id.
LEMMA LinkExtends ==
    ASSUME NEW R \in SUBSET Row, NEW q \in R, q.chained,
           \A i \in q.prev : i < q.id, ChainIn(R, q.prev)
    PROVE  ChainIn(R, q.prev \cup {q.id})
<1> DEFINE p == q.prev \cup {q.id}
<1>1. q.id \in Nat /\ q.prev \subseteq Nat
  BY DEF Row
<1>2. q.prev = {j \in p : j < q.id}
  BY <1>1
<1>3. ASSUME NEW i \in q.prev
      PROVE  \E x \in R : x.chained /\ x.id = i /\ x.prev = {j \in p : j < i}
  <2>1. {j \in p : j < i} = {j \in q.prev : j < i}
    BY <1>1, <1>3
  <2> QED
    BY <2>1, <1>3 DEF ChainIn
<1> QED
  BY <1>2, <1>3 DEF ChainIn

\* What a session reads as previous hash is a chain of rows it sees.
LEMMA ReadsChain ==
    ASSUME TypeOK, IdInv, ChainInv, NEW t \in Sessions
    PROVE  /\ ChainIn(Visible(t), PrevHash(Visible(t)))
           /\ \A i \in PrevHash(Visible(t)) : i < nextId
<1>1. CASE PrevHash(Visible(t)) = {}
  BY <1>1 DEF ChainIn
<1>2. ASSUME NEW q \in LastHashed(Visible(t)),
             PrevHash(Visible(t)) = q.prev \cup {q.id}
      PROVE  /\ ChainIn(Visible(t), PrevHash(Visible(t)))
             /\ \A i \in PrevHash(Visible(t)) : i < nextId
  <2>1. Visible(t) \in SUBSET Row /\ Visible(t) \subseteq AllRows
    BY DEF Visible, AllRows, TypeOK, Tx
  <2>2. q \in Visible(t) /\ q.chained
    BY DEF LastHashed
  <2>3. ChainIn(Visible(t), q.prev)
    BY <2>2, ChainInMore DEF ChainInv, Visible
  <2>4. q.id < nextId /\ \A i \in q.prev : i < q.id
    BY <2>1, <2>2 DEF IdInv, ChainInv
  <2>5. q.id \in Nat /\ q.prev \subseteq Nat /\ nextId \in Nat
    BY <2>1, <2>2 DEF Row, TypeOK
  <2>6. ChainIn(Visible(t), q.prev \cup {q.id})
    BY <2>1, <2>2, <2>3, <2>4, LinkExtends
  <2> QED
    BY <1>2, <2>4, <2>5, <2>6
<1> QED
  BY <1>1, <1>2, PrevHashCases

LEMMA ChainStep ==
    TypeOK /\ TypeOK' /\ IdInv /\ ChainInv /\ [Next]_vars => ChainInv'
<1> SUFFICES ASSUME TypeOK, TypeOK', IdInv, ChainInv, [Next]_vars
             PROVE  ChainInv'
  OBVIOUS
<1>1. ASSUME NEW u \in Sessions, tx'[u].mode = "read",
             Visible(u) \subseteq Visible(u)', nextId <= nextId'
      PROVE  ChainIn(Visible(u)', tx'[u].prev) /\ \A i \in tx'[u].prev : i < nextId'
  <2>1. ChainIn(Visible(u), tx'[u].prev) /\ \A i \in tx'[u].prev : i < nextId
    BY <1>1, ReadStep, ReadsChain DEF ChainInv
  <2>2. tx'[u].prev \subseteq Nat /\ nextId \in Nat /\ nextId' \in Nat
    BY DEF TypeOK, Tx
  <2> QED
    BY <1>1, <2>1, <2>2, ChainInMore
<1>2. CASE /\ rows' = rows /\ nextId' = nextId
           /\ \A u \in Sessions : tx'[u].rows = tx[u].rows
  <2>1. AllRows' = AllRows
    BY <1>2 DEF AllRows
  <2>2. \A u \in Sessions : Visible(u)' = Visible(u)
    BY <1>2 DEF Visible
  <2>3. nextId <= nextId'
    BY <1>2 DEF TypeOK
  <2> QED
    BY <1>1, <1>2, <2>1, <2>2, <2>3 DEF ChainInv
<1>3. ASSUME NEW t \in Sessions, NEW row \in Row,
             rows' = rows, nextId' = nextId + 1, row.id = nextId,
             row.prev = {} \/ (tx[t].mode = "read" /\ row.prev = tx[t].prev),
             tx'[t].rows = tx[t].rows \cup {row},
             \A u \in Sessions \ {t} : tx'[u].rows = tx[u].rows
      PROVE  ChainInv'
  <2>1. AllRows' = AllRows \cup {row}
    BY <1>3 DEF AllRows
  <2>2. \A u \in Sessions : Visible(u) \subseteq Visible(u)'
    BY <1>3 DEF Visible
  <2>3. nextId <= nextId'
    BY <1>3 DEF TypeOK
  <2>4. ChainIn(Visible(t), row.prev) /\ \A i \in row.prev : i < row.id
    BY <1>3 DEF ChainInv, ChainIn
  <2>5. \A r \in AllRows' : \A i \in r.prev : i < r.id
    BY <2>1, <2>4 DEF ChainInv
  <2>6. \A u \in Sessions : \A r \in tx'[u].rows : ChainIn(Visible(u), r.prev)
    BY <1>3, <2>4 DEF ChainInv
  <2>7. \A u \in Sessions : \A r \in tx'[u].rows : ChainIn(Visible(u)', r.prev)
    BY <2>2, <2>6, ChainInMore
  <2>8. \A r \in rows' : ChainIn(rows', r.prev)
    BY <1>3 DEF ChainInv
  <2> QED
    BY <1>1, <2>2, <2>3, <2>5, <2>7, <2>8 DEF ChainInv
<1>4. ASSUME NEW t \in Sessions,
             rows' = Visible(t) \/ rows' = rows, nextId' = nextId,
             tx'[t].rows = {}, tx'[t].mode = "idle",
             \A u \in Sessions \ {t} : tx'[u].rows = tx[u].rows
      PROVE  ChainInv'
  <2>1. AllRows' \subseteq AllRows
    BY <1>4 DEF AllRows, Visible
  <2>2. \A u \in Sessions \ {t} : Visible(u) \subseteq Visible(u)'
    BY <1>4 DEF Visible
  <2>3. nextId <= nextId'
    BY <1>4 DEF TypeOK
  <2>4. \A r \in rows' : ChainIn(rows', r.prev)
    BY <1>4, ChainInMore DEF ChainInv, Visible
  <2>5. \A u \in Sessions : \A r \in tx'[u].rows : ChainIn(Visible(u)', r.prev)
    BY <1>4, <2>2, ChainInMore DEF ChainInv
  <2>6. tx'[t].mode # "read"
    BY <1>4
  <2> QED
    BY <1>1, <2>1, <2>2, <2>3, <2>4, <2>5, <2>6 DEF ChainInv
<1> QED
  BY <1>2, <1>3, <1>4, RowsStep

--------------------------------------------------------------------------------
\* While requests do not overlap, the one open transaction extends a log that
\* verifies.  Finite or not, each set of rows has a last one.
HasLast(R) == R = {} \/ \E m \in R : \A q \in R : q.id <= m.id

AllChained(R) == \A r \in R : r.chained

LastInv ==
    /\ HasLast(rows)
    /\ \A t \in Sessions : HasLast(tx[t].rows)
    /\ \A t \in Sessions : tx[t].mode = "idle" => tx[t].rows = {}

InOrder(R) ==
    AllChained(R) =>
        \A r \in R : /\ r.prev = {q.id : q \in {p \in R : p.id < r.id}}
                    /\ \A q \in R : q.id < r.id => q.at <= r.at

Quiet ==
    /\ \A t, u \in Sessions :
          tx[t].mode # "idle" /\ tx[u].mode # "idle" => t = u
    /\ InOrder(rows) /\ \A r \in rows : r.at <= clock
    /\ \A t \in Sessions :
          /\ InOrder(Visible(t))
          /\ \A r \in Visible(t) : r.at <= clock
          /\ tx[t].mode \in {"stamped", "read"} =>
                tx[t].at <= clock /\ \A r \in Visible(t) : r.at <= tx[t].at
          /\ tx[t].mode = "read" /\ AllChained(Visible(t)) =>
                tx[t].prev = {r.id : r \in Visible(t)}

QuietInv == ~overlapped => Quiet

LEMMA QuietInit == Init => LastInv /\ QuietInv
<1> SUFFICES ASSUME Init PROVE LastInv /\ QuietInv
  OBVIOUS
<1>1. rows = {} /\ \A t \in Sessions : tx[t].rows = {} /\ tx[t].mode = "idle"
  BY DEF Init, NoTx
<1> QED
  BY <1>1 DEF LastInv, QuietInv, Quiet, HasLast, InOrder, Visible

LEMMA LastOfTwo ==
    ASSUME NEW R \in SUBSET Row, NEW S \in SUBSET Row, HasLast(R), HasLast(S)
    PROVE  HasLast(R \cup S)
<1>1. CASE R = {} \/ S = {}
  BY <1>1 DEF HasLast
<1>2. ASSUME NEW m \in R, NEW n \in S,
             \A q \in R : q.id <= m.id, \A q \in S : q.id <= n.id
      PROVE  HasLast(R \cup S)
  <2>1. \A q \in R \cup S : q.id \in Nat
    BY DEF Row
  <2>2. CASE m.id <= n.id
    BY <1>2, <2>1, <2>2 DEF HasLast
  <2>3. CASE n.id <= m.id
    BY <1>2, <2>1, <2>3 DEF HasLast
  <2> QED
    BY <2>1, <2>2, <2>3
<1> QED
  BY <1>1, <1>2 DEF HasLast

LEMMA LastStep == TypeOK /\ TypeOK' /\ IdInv /\ LastInv /\ [Next]_vars => LastInv'
<1> SUFFICES ASSUME TypeOK, TypeOK', IdInv, LastInv, [Next]_vars PROVE LastInv'
  OBVIOUS
<1>1. HasLast(rows')
  <2>1. \A t \in Sessions : HasLast(Visible(t))
    BY LastOfTwo DEF LastInv, Visible, TypeOK, Tx
  <2> QED
    BY <2>1, RowsStep DEF LastInv
<1>2. \A u \in Sessions : HasLast(tx'[u].rows)
  <2>1. ASSUME NEW t \in Sessions, NEW row \in Row, row.id = nextId
        PROVE  HasLast(tx[t].rows \cup {row})
    <3>1. \A r \in tx[t].rows : r.id \in Nat /\ r.id < nextId
      BY DEF IdInv, AllRows, TypeOK, Tx, Row
    <3> QED
      BY <2>1, <3>1 DEF HasLast, TypeOK
  <2>2. HasLast({})
    BY DEF HasLast
  <2> QED
    BY <2>1, <2>2, RowsStep DEF LastInv
<1>3. ASSUME NEW u \in Sessions, tx'[u].mode = "idle" PROVE tx'[u].rows = {}
  <2>1. ASSUME NEW t \in Sessions, Stamp(t) \/ ReadLast(t)
        PROVE  tx'[u].rows = {}
    BY <1>3, <2>1 DEF Stamp, ReadLast, TypeOK, Tx, LastInv
  <2>2. ASSUME NEW t \in Sessions, NEW row, Insert(t, row)
        PROVE  tx'[u].rows = {}
    BY <1>3, <2>2 DEF Insert, TypeOK, Tx, LastInv
  <2>3. ASSUME NEW t \in Sessions, Commit(t) \/ Rollback(t)
        PROVE  tx'[u].rows = {}
    BY <1>3, <2>3 DEF Commit, Rollback, NoTx, TypeOK, Tx, LastInv
  <2>4. CASE UNCHANGED vars
    BY <1>3, <2>4 DEF vars, LastInv
  <2>5. ASSUME NEW t \in Sessions, InsertChained(t) \/ InsertDirect(t)
        PROVE  \E row : Insert(t, row)
    BY <2>5 DEF InsertChained, InsertDirect
  <2> QED
    BY <2>1, <2>2, <2>3, <2>4, <2>5 DEF Next
<1> QED
  BY <1>1, <1>2, <1>3 DEF LastInv

\* On a log in order the last entry's hash is the chain of all rows.
LEMMA LastHash ==
    ASSUME NEW R \in SUBSET Row, HasLast(R), InOrder(R), AllChained(R)
    PROVE  PrevHash(R) = {r.id : r \in R}
<1>1. CASE R = {}
  BY <1>1, PrevHashCases DEF LastHashed
<1>2. CASE R # {}
  <2>1. LastHashed(R) # {}
    BY <1>2 DEF LastHashed, HasLast, AllChained
  <2>2. PICK q \in LastHashed(R) : PrevHash(R) = q.prev \cup {q.id}
    BY <2>1, PrevHashCases
  <2>3. q \in R /\ \A r \in R : r.id <= q.id
    BY DEF LastHashed
  <2>4. q.prev = {r.id : r \in {p \in R : p.id < q.id}}
    BY <2>3 DEF InOrder
  <2>5. \A r \in R : r.id \in Nat
    BY DEF Row
  <2>6. \A i : i \in PrevHash(R) <=> \E r \in R : r.id = i
    BY <2>2, <2>3, <2>4, <2>5
  <2> QED
    BY <2>6
<1> QED
  BY <1>1, <1>2

LEMMA QuietStep ==
    TypeOK /\ TypeOK' /\ IdInv /\ LastInv /\ QuietInv /\ [Next]_vars => QuietInv'
<1> SUFFICES ASSUME TypeOK, TypeOK', IdInv, LastInv, QuietInv, [Next]_vars,
                    ~overlapped'
             PROVE  QuietInv'
  BY DEF QuietInv
<1>0. ~overlapped
  BY DEF Next, Stamp, ReadLast, InsertChained, InsertDirect, Insert, Commit,
         Rollback, vars
<1>q. Quiet
  BY <1>0 DEF QuietInv
<1>1. ASSUME NEW t \in Sessions, Stamp(t) PROVE QuietInv'
  <2>1. \A u \in Sessions \ {t} : tx[u].mode = "idle"
    BY <1>1 DEF Stamp
  <2>2. /\ tx'[t].mode = "stamped" /\ tx'[t].at = clock + 1
        /\ tx'[t].rows = tx[t].rows /\ rows' = rows /\ clock' = clock + 1
        /\ \A u \in Sessions \ {t} : tx'[u] = tx[u]
    BY <1>1 DEF Stamp, TypeOK, Tx
  <2>3. \A u \in Sessions : Visible(u)' = Visible(u)
    BY <2>2 DEF Visible
  <2>4. \A u \in Sessions : \A r \in Visible(u) : r.at \in Nat
    BY DEF Visible, TypeOK, Tx, Row
  <2>5. \A r \in rows : r.at \in Nat
    BY DEF TypeOK, Row
  <2> QED
    BY <1>q, <2>1, <2>2, <2>3, <2>4, <2>5 DEF QuietInv, Quiet, TypeOK
<1>2. ASSUME NEW t \in Sessions, ReadLast(t) PROVE QuietInv'
  <2>1. /\ tx[t].mode = "stamped" /\ tx'[t].mode = "read"
        /\ tx'[t].at = tx[t].at /\ tx'[t].prev = PrevHash(Visible(t))
        /\ tx'[t].rows = tx[t].rows /\ rows' = rows /\ clock' = clock
        /\ \A u \in Sessions \ {t} : tx'[u] = tx[u]
    BY <1>2 DEF ReadLast, TypeOK, Tx
  <2>2. \A u \in Sessions : Visible(u)' = Visible(u)
    BY <2>1 DEF Visible
  <2>3. Visible(t) \in SUBSET Row /\ HasLast(Visible(t))
    BY LastOfTwo DEF LastInv, Visible, TypeOK, Tx
  <2>4. AllChained(Visible(t)) => tx'[t].prev = {r.id : r \in Visible(t)}
    BY <1>q, <2>1, <2>3, LastHash DEF Quiet
  <2> QED
    BY <1>q, <2>1, <2>2, <2>4 DEF QuietInv, Quiet
<1>3. ASSUME NEW t \in Sessions, NEW row \in Row, Insert(t, row),
             tx[t].mode \in {"stamped", "read"},
             row.id = nextId, row.at = tx[t].at,
             row.chained => tx[t].mode = "read" /\ row.prev = tx[t].prev
      PROVE  QuietInv'
  <2>1. /\ tx'[t].mode = "open" /\ tx'[t].rows = tx[t].rows \cup {row}
        /\ rows' = rows /\ clock' = clock
        /\ \A u \in Sessions \ {t} : tx'[u] = tx[u]
    BY <1>3 DEF Insert, TypeOK, Tx
  <2>2. /\ Visible(t)' = Visible(t) \cup {row}
        /\ \A u \in Sessions \ {t} : Visible(u)' = Visible(u)
    BY <2>1 DEF Visible
  <2>3. \A r \in Visible(t) : r.id \in Nat /\ r.id < nextId /\ r.at <= row.at
    BY <1>q, <1>3 DEF Quiet, Visible, IdInv, AllRows, TypeOK, Tx, Row
  <2>4. InOrder(Visible(t) \cup {row})
    <3> SUFFICES ASSUME AllChained(Visible(t) \cup {row}),
                        NEW r \in Visible(t) \cup {row}
                 PROVE  LET R == Visible(t) \cup {row}
                        IN /\ r.prev = {q.id : q \in {p \in R : p.id < r.id}}
                           /\ \A q \in R : q.id < r.id => q.at <= r.at
      BY DEF InOrder
    <3>1. AllChained(Visible(t)) /\ row.chained
      BY DEF AllChained
    <3>2. CASE r = row
      <4>1. row.prev = {q.id : q \in Visible(t)}
        BY <1>q, <1>3, <3>1 DEF Quiet
      <4>2. {p \in Visible(t) \cup {row} : p.id < row.id} = Visible(t)
        BY <1>3, <2>3 DEF TypeOK
      <4> QED
        BY <1>3, <2>3, <3>2, <4>1, <4>2 DEF TypeOK
    <3>3. CASE r \in Visible(t)
      <4>1. {p \in Visible(t) \cup {row} : p.id < r.id} = {p \in Visible(t) : p.id < r.id}
        BY <1>3, <2>3, <3>3 DEF TypeOK
      <4>2. /\ r.prev = {q.id : q \in {p \in Visible(t) : p.id < r.id}}
            /\ \A q \in Visible(t) : q.id < r.id => q.at <= r.at
        BY <1>q, <3>1, <3>3 DEF Quiet, InOrder
      <4>3. ~(row.id < r.id)
        BY <1>3, <2>3, <3>3 DEF TypeOK
      <4> QED
        BY <4>1, <4>2, <4>3
    <3> QED
      BY <3>2, <3>3
  <2>5. row.at <= clock
    BY <1>q, <1>3 DEF Quiet
  <2> QED
    BY <1>q, <1>3, <2>1, <2>2, <2>4, <2>5 DEF QuietInv, Quiet
<1>4. ASSUME NEW t \in Sessions, Commit(t) \/ Rollback(t) PROVE QuietInv'
  <2>1. /\ tx[t].mode # "idle"
        /\ rows' = Visible(t) \/ rows' = rows
        /\ tx'[t].rows = {} /\ tx'[t].mode = "idle" /\ clock' = clock
        /\ \A u \in Sessions \ {t} : tx'[u] = tx[u]
    BY <1>4 DEF Commit, Rollback, NoTx, Visible, TypeOK
  <2>2. \A u \in Sessions \ {t} : tx[u].mode = "idle" /\ tx[u].rows = {}
    BY <1>q, <2>1 DEF Quiet, LastInv
  <2>3. \A u \in Sessions : Visible(u)' = rows' /\ tx'[u].mode = "idle"
    BY <2>1, <2>2 DEF Visible
  <2>4. InOrder(rows') /\ \A r \in rows' : r.at <= clock'
    BY <1>q, <2>1 DEF Quiet
  <2> QED
    BY <2>3, <2>4 DEF QuietInv, Quiet
<1>5. CASE UNCHANGED vars
  BY <1>5 DEF vars, QuietInv, Quiet, Visible
<1>6. ASSUME NEW t \in Sessions, InsertChained(t) \/ InsertDirect(t)
      PROVE  QuietInv'
  <2> DEFINE hashed == [id |-> nextId, at |-> tx[t].at, chained |-> TRUE,
                        prev |-> tx[t].prev]
             plain  == [id |-> nextId, at |-> tx[t].at, chained |-> FALSE,
                        prev |-> {}]
  <2>1. tx[t].at \in Nat /\ tx[t].prev \in SUBSET Nat /\ nextId \in Nat
    BY DEF Tx, TypeOK
  <2>2. hashed \in Row /\ plain \in Row
    BY <2>1 DEF Row
  <2>3. CASE InsertChained(t)
    <3>1. tx[t].mode = "read" /\ Insert(t, hashed)
      BY <2>3 DEF InsertChained
    <3> QED
      BY <1>3, <2>2, <3>1
  <2>4. CASE InsertDirect(t)
    <3>1. tx[t].mode = "stamped" /\ Insert(t, plain)
      BY <2>4 DEF InsertDirect
    <3> QED
      BY <1>3, <2>2, <3>1
  <2> QED
    BY <1>6, <2>3, <2>4
<1> QED
  BY <1>1, <1>2, <1>4, <1>5, <1>6 DEF Next

--------------------------------------------------------------------------------
LEMMA Invariants ==
    Spec => [](TypeOK /\ IdInv /\ ChainInv /\ LastInv /\ QuietInv)
  BY TypeInit, QuietInit, TypeStep, IdStep, ChainStep, LastStep, QuietStep, PTL
  DEF Spec

\* Every reachable state of the log and its transactions is well typed.
THEOREM ChainTypeCorrect == Spec => []TypeOK
  BY Invariants, PTL

\* No committed entry links to a row that was rolled back (append_log.py:52-58
\* reads committed rows and the session's own).
THEOREM EntriesLinkToCommitted == Spec => []LinksResolve
<1>1. ChainInv => LinksResolve
  BY DEF ChainInv, ChainIn, LinksResolve, Chained
<1> QED
  BY <1>1, Invariants, PTL

\* verify_chain never recovers: after the first entry it rejects it rejects all
\* later ones.
THEOREM ChainNeverHeals == Spec => []BreakIsPermanent
<1>1. TypeOK /\ IdInv /\ ChainInv => BreakIsPermanent
  <2> SUFFICES ASSUME TypeOK, IdInv, ChainInv,
                      NEW r \in Chained, NEW s \in Chained,
                      r.id < s.id, s.prev = Expected(s)
               PROVE  r.prev = Expected(r)
    BY DEF BreakIsPermanent, Broken, Chained
  <2>1. r \in rows /\ s \in rows /\ rows \subseteq AllRows
    BY DEF Chained, AllRows
  <2>2. r.id \in s.prev
    BY <2>1 DEF Expected
  <2>3. PICK q \in rows : q.id = r.id /\ q.prev = {j \in s.prev : j < r.id}
    BY <2>1, <2>2 DEF ChainInv, ChainIn
  <2>4. q = r
    BY <2>1, <2>3 DEF IdInv
  <2>5. \A x \in rows : x.id \in Nat
    BY DEF TypeOK, Row
  <2>6. {j \in s.prev : j < r.id} = Expected(r)
    BY <2>1, <2>5 DEF Expected
  <2> QED
    BY <2>3, <2>4, <2>6
<1> QED
  BY <1>1, Invariants, PTL

\* Requests that follow each other, whatever is rolled back, leave a log that
\* verify_chain accepts.
THEOREM SerialRequestsVerify == Spec => []QuietChainVerifies
<1>1. QuietInv => QuietChainVerifies
  BY DEF QuietInv, Quiet, QuietChainVerifies, Verifies, Broken, Expected, InOrder,
         AllChained, Chained
<1> QED
  BY <1>1, Invariants, PTL
================================================================================
