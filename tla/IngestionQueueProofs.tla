-------------------------- MODULE IngestionQueueProofs --------------------------
(***************************************************************************)
(* Proofs about the ingestion queue, for any finite sets of jobs and       *)
(* threads and any length of the history, and about the workers' heap, for *)
(* any jobs and pipelines.                                                 *)
(***************************************************************************)
EXTENDS Queues, FiniteSetTheorems, TLAPS

\* Ids are drawn once, jobs are run by the threads that popped them, and only a
\* record that is finished has a time.
Drawn ==
    /\ DOMAIN rec \subseteq used /\ asked \subseteq used
    /\ \A t \in Threads : th[t].pc = "running" => th[t].job \in Jobs
    /\ \A j \in Jobs : stamp[j] > 0 =>
        j \in used /\ (j \in DOMAIN rec => rec[j] \in {"completed", "failed"})

QueueInv == QueueSafe /\ Drawn

Movers == {t \in Threads : th[t].pc = "moved"}
Newer(j) == {k \in Jobs : stamp[k] > stamp[j]}

--------------------------------------------------------------------------------
\* What Front does to a list without repetitions: the job comes first, those before it
\* move back by one.
LEMMA FrontMoves ==
    ASSUME TypeOK, QueueAgrees, NEW j \in Rng(pending)
    PROVE  /\ Front(j) \in Seq(Jobs)
           /\ DOMAIN Front(j) = DOMAIN pending
           /\ Rng(Front(j)) = Rng(pending)
           /\ \A i, k \in DOMAIN pending : Front(j)[i] = Front(j)[k] => i = k
           /\ \A i \in DOMAIN pending : \/ Front(j)[i] = j /\ i = 1
                                        \/ i > 1 /\ i - 1 \in DOMAIN pending
                                             /\ Front(j)[i] = pending[i - 1]
                                        \/ Front(j)[i] = pending[i]
<1> DEFINE at == CHOOSE i \in DOMAIN pending : pending[i] = j
           new == [i \in DOMAIN pending |->
                      IF i = 1 THEN j ELSE IF i <= at THEN pending[i - 1] ELSE pending[i]]
<1>1. Front(j) = new
  BY DEF Front
<1>2. /\ DOMAIN pending = 1..Len(pending) /\ Len(pending) \in Nat
      /\ \A i \in DOMAIN pending : pending[i] \in Jobs
  BY DEF TypeOK
<1>3. at \in DOMAIN pending /\ pending[at] = j
  BY DEF Rng
<1>4. \A i, k \in DOMAIN pending : pending[i] = pending[k] => i = k
  BY DEF QueueAgrees
<1> HIDE DEF at
<1>5. DOMAIN new = DOMAIN pending
  OBVIOUS
<1>6. /\ 1 \in DOMAIN pending /\ new[1] = j
      /\ \A i \in DOMAIN pending : i > 1 /\ i <= at =>
            i - 1 \in DOMAIN pending /\ i - 1 # at /\ new[i] = pending[i - 1]
      /\ \A i \in DOMAIN pending : i > at => new[i] = pending[i]
  BY <1>2, <1>3
<1> HIDE DEF new
<1>7. \A i \in DOMAIN pending : new[i] \in Jobs
  BY <1>2, <1>3, <1>6
<1>8. new \in Seq(Jobs)
  <2>1. new = [i \in 1..Len(pending) |-> new[i]]
    BY <1>2 DEF new
  <2> QED
    BY <2>1, <1>2, <1>7
<1>9. \A i, k \in DOMAIN pending : new[i] = new[k] => i = k
  <2> SUFFICES ASSUME NEW i \in DOMAIN pending, NEW k \in DOMAIN pending,
                      new[i] = new[k], i < k
               PROVE  FALSE
    BY <1>2
  <2>1. CASE i = 1
    BY <2>1, <1>2, <1>3, <1>4, <1>6
  <2>2. CASE i > 1 /\ i <= at
    BY <2>2, <1>2, <1>3, <1>4, <1>6
  <2>3. CASE i > at
    BY <2>3, <1>2, <1>3, <1>4, <1>6
  <2> QED
    BY <2>1, <2>2, <2>3, <1>2, <1>3
<1>10. \A i \in DOMAIN pending : new[i] \in Rng(pending)
  BY <1>2, <1>3, <1>6 DEF Rng
<1>11. \A i \in DOMAIN pending : \E k \in DOMAIN pending : new[k] = pending[i]
  <2> SUFFICES ASSUME NEW i \in DOMAIN pending
               PROVE  \E k \in DOMAIN pending : new[k] = pending[i]
    OBVIOUS
  <2>1. CASE i = at
    BY <2>1, <1>3, <1>6
  <2>2. CASE i > at
    BY <2>2, <1>6
  <2>3. CASE i < at
    <3>1. i + 1 \in DOMAIN pending /\ i + 1 > 1 /\ i + 1 <= at
      BY <2>3, <1>2, <1>3
    <3>2. new[i + 1] = pending[(i + 1) - 1] /\ (i + 1) - 1 = i
      BY <3>1, <1>2, <1>6
    <3> QED
      BY <3>1, <3>2
  <2> QED
    BY <2>1, <2>2, <2>3, <1>2, <1>3
<1>12. Rng(new) = Rng(pending)
  BY <1>5, <1>10, <1>11 DEF Rng
<1>13. \A i \in DOMAIN pending : \/ new[i] = j /\ i = 1
                                 \/ i > 1 /\ i - 1 \in DOMAIN pending
                                      /\ new[i] = pending[i - 1]
                                 \/ new[i] = pending[i]
  BY <1>2, <1>3, <1>6
<1> QED
  BY <1>1, <1>5, <1>8, <1>9, <1>12, <1>13

\* One more and one less.
LEMMA MoversCounted ==
    /\ IsFiniteSet(Movers) /\ Cardinality(Movers) \in Nat
    /\ \A t \in Threads : t \notin Movers =>
           Cardinality(Movers \cup {t}) = Cardinality(Movers) + 1
    /\ \A t \in Movers : Cardinality(Movers \ {t}) = Cardinality(Movers) - 1
<1>1. IsFiniteSet(Movers)
  BY FS_Subset, IngestionQueueAssumption DEF Movers
<1> QED
  BY <1>1, FS_CardinalityType, FS_AddElement, FS_RemoveElement

\* More records are newer than before, so as many at least.
LEMMA NewerGrows ==
    ASSUME NEW S \in SUBSET Jobs, NEW T \in SUBSET Jobs, S \subseteq T
    PROVE  Cardinality(S) \in Nat /\ Cardinality(T) \in Nat /\ Cardinality(S) <= Cardinality(T)
  BY FS_Subset, FS_CardinalityType, IngestionQueueAssumption

\* A step that leaves the calls that moved a job and the list alone.
LEMMA StrandedAlone ==
    ASSUME NoneStranded, UNCHANGED <<pending, asked>>, Movers' = Movers
    PROVE  NoneStranded'
  BY DEF NoneStranded, Movers

--------------------------------------------------------------------------------
LEMMA EnqueueKeeps ==
    ASSUME QueueInv, NEW t \in Threads, Enqueue(t)
    PROVE  QueueInv'
<1>0. TypeOK /\ QueueAgrees /\ RecentKept /\ NoneStranded /\ Drawn
  BY DEF QueueInv, QueueSafe
<1>1. PICK j \in Jobs \ used :
          /\ used' = used \cup {j}
          /\ rec' = [k \in DOMAIN rec \cup {j} |-> IF k = j THEN "pending" ELSE rec[k]]
          /\ pending' = Append(pending, j)
          /\ UNCHANGED <<stamp, th, asked>>
  BY DEF Enqueue
<1>2. j \notin DOMAIN rec /\ j \notin asked
  BY <1>0 DEF Drawn
<1>3. /\ DOMAIN pending = 1..Len(pending) /\ Len(pending) \in Nat
      /\ DOMAIN pending' = 1..(Len(pending) + 1)
      /\ \A i \in DOMAIN pending : pending'[i] = pending[i]
      /\ pending'[Len(pending) + 1] = j
  BY <1>0, <1>1 DEF TypeOK
<1>4. /\ DOMAIN rec' = DOMAIN rec \cup {j} /\ rec'[j] = "pending"
      /\ \A k \in DOMAIN rec : rec'[k] = rec[k]
  BY <1>1, <1>2
<1>5. TypeOK'
  <2>1. pending' \in Seq(Jobs)
    BY <1>0, <1>1 DEF TypeOK
  <2>2. DOMAIN rec' \subseteq Jobs /\ rec' \in [DOMAIN rec' -> States]
    BY <1>0, <1>1, <1>4 DEF TypeOK, States
  <2> QED
    BY <1>0, <1>1, <2>1, <2>2 DEF TypeOK
<1>6. QueueAgrees'
  <2>1. \A i \in DOMAIN pending : pending[i] \in DOMAIN rec /\ rec[pending[i]] = "pending"
    BY <1>0 DEF QueueAgrees, Rng
  <2>2. Rng(pending)' = Rng(pending) \cup {j}
    BY <1>3 DEF Rng
  <2>3. Rng(pending)' = {k \in DOMAIN rec' : rec'[k] = "pending"}
    BY <1>0, <1>2, <1>4, <2>2 DEF QueueAgrees
  <2>4. \A i, k \in DOMAIN pending' : pending'[i] = pending'[k] => i = k
    BY <1>0, <1>2, <1>3, <2>1 DEF QueueAgrees
  <2>5. \A k \in DOMAIN rec' : rec'[k] = "running" => \E u \in Threads : Runs(u, k)'
    BY <1>0, <1>1, <1>4 DEF QueueAgrees, Runs
  <2>6. \A u \in Threads, k \in Jobs : Runs(u, k)' =>
            /\ k \in DOMAIN rec' /\ rec'[k] = "running"
            /\ \A v \in Threads : Runs(v, k)' => v = u
    BY <1>0, <1>1, <1>4 DEF QueueAgrees, Runs
  <2> QED
    BY <2>3, <2>4, <2>5, <2>6 DEF QueueAgrees
<1>7. RecentKept'
  BY <1>0, <1>1, <1>4 DEF RecentKept
<1>8. NoneStranded'
  BY <1>0, <1>1, <1>2, <1>3 DEF NoneStranded
<1>9. Drawn'
  BY <1>0, <1>1, <1>4 DEF Drawn
<1> QED
  BY <1>5, <1>6, <1>7, <1>8, <1>9 DEF QueueInv, QueueSafe

LEMMA RunJobKeeps ==
    ASSUME QueueInv, NEW t \in Threads, NEW j \in Jobs, RunJob(t, j)
    PROVE  QueueInv'
<1>0. TypeOK /\ QueueAgrees /\ RecentKept /\ NoneStranded /\ Drawn
  BY DEF QueueInv, QueueSafe
<1>1. /\ th[t].pc = "idle" /\ j \in DOMAIN rec /\ rec[j] = "pending"
      /\ pending' = Front(j) /\ asked' = asked \cup {j}
      /\ th' = [th EXCEPT ![t] = [pc |-> "moved", job |-> NoJob]]
      /\ UNCHANGED <<rec, stamp, used>>
  BY DEF RunJob
<1>2. j \in Rng(pending)
  BY <1>0, <1>1 DEF QueueAgrees
<1>3. /\ pending' \in Seq(Jobs) /\ DOMAIN pending' = DOMAIN pending
      /\ Rng(pending)' = Rng(pending)
      /\ \A i, k \in DOMAIN pending : pending'[i] = pending'[k] => i = k
      /\ \A i \in DOMAIN pending : \/ pending'[i] = j /\ i = 1
                                   \/ i > 1 /\ i - 1 \in DOMAIN pending
                                        /\ pending'[i] = pending[i - 1]
                                   \/ pending'[i] = pending[i]
  <2>1. Rng(pending)' = Rng(Front(j))
    BY <1>1 DEF Rng
  <2> QED
    BY <1>0, <1>1, <1>2, <2>1, FrontMoves
<1>4. /\ th'[t] = [pc |-> "moved", job |-> NoJob] /\ t \notin Movers
      /\ \A u \in Threads : u # t => th'[u] = th[u]
  BY <1>0, <1>1 DEF TypeOK, Movers
<1>5. \A u \in Threads, k \in Jobs : Runs(u, k)' <=> Runs(u, k)
  BY <1>1, <1>4 DEF Runs
<1>6. TypeOK'
  <2>1. [pc |-> "moved", job |-> NoJob] \in Calls
    BY DEF Calls
  <2>2. th' \in [Threads -> Calls]
    BY <1>0, <1>1, <2>1 DEF TypeOK
  <2> QED
    BY <1>0, <1>1, <1>3, <2>2 DEF TypeOK
<1>7. QueueAgrees'
  BY <1>0, <1>1, <1>3, <1>5 DEF QueueAgrees, TypeOK
<1>8. RecentKept'
  BY <1>0, <1>1 DEF RecentKept
<1>9. NoneStranded'
  <2>1. Movers' = Movers \cup {t}
    BY <1>4 DEF Movers
  <2>2. Cardinality(Movers') = Cardinality(Movers) + 1 /\ Cardinality(Movers) \in Nat
    BY <1>4, <2>1, MoversCounted
  <2>3. \A i \in DOMAIN pending : pending[i] \in asked => i <= Cardinality(Movers)
    BY <1>0 DEF NoneStranded, Movers
  <2>4. DOMAIN pending \subseteq Nat
    BY <1>0 DEF TypeOK
  <2> SUFFICES ASSUME NEW i \in DOMAIN pending, pending'[i] \in asked \cup {j}
               PROVE  i <= Cardinality(Movers')
    BY <1>1, <1>3 DEF NoneStranded, Movers
  <2>6. 1 \in DOMAIN pending /\ pending'[1] = j
    BY <1>0, <1>1, <1>2 DEF TypeOK, Rng, Front
  <2>7. CASE i = 1
    BY <2>2, <2>7
  <2>8. CASE i # 1
    <3>1. pending'[i] # j
      BY <1>3, <2>6, <2>8
    <3> QED
      BY <1>3, <2>2, <2>3, <2>4, <2>8, <3>1
  <2> QED
    BY <2>7, <2>8
<1>10. Drawn'
  BY <1>0, <1>1, <1>4 DEF Drawn
<1> QED
  BY <1>6, <1>7, <1>8, <1>9, <1>10 DEF QueueInv, QueueSafe

LEMMA PopKeeps ==
    ASSUME QueueInv, NEW t \in Threads, Pop(t)
    PROVE  QueueInv'
<1> DEFINE j == Head(pending)
<1>0. TypeOK /\ QueueAgrees /\ RecentKept /\ NoneStranded /\ Drawn
  BY DEF QueueInv, QueueSafe
<1>1. /\ th[t].pc \in {"idle", "moved"} /\ pending # <<>> /\ pending' = Tail(pending)
      /\ rec' = [rec EXCEPT ![j] = "running"]
      /\ th' = [th EXCEPT ![t] = [pc |-> "running", job |-> j]]
      /\ UNCHANGED <<stamp, asked, used>>
  BY DEF Pop
<1>2. /\ DOMAIN pending = 1..Len(pending) /\ Len(pending) \in Nat /\ Len(pending) > 0
      /\ j = pending[1] /\ j \in Jobs
      /\ pending' \in Seq(Jobs) /\ DOMAIN pending' = 1..(Len(pending) - 1)
      /\ \A i \in DOMAIN pending' : i + 1 \in DOMAIN pending /\ pending'[i] = pending[i + 1]
  BY <1>0, <1>1 DEF TypeOK
<1>3. j \in DOMAIN rec /\ rec[j] = "pending"
  BY <1>0, <1>2 DEF QueueAgrees, Rng
<1> HIDE DEF j
<1>4. /\ DOMAIN rec' = DOMAIN rec /\ rec'[j] = "running"
      /\ \A k \in DOMAIN rec : k # j => rec'[k] = rec[k]
  BY <1>0, <1>1, <1>3 DEF TypeOK
<1>5. /\ th'[t] = [pc |-> "running", job |-> j]
      /\ \A u \in Threads : u # t => th'[u] = th[u]
  BY <1>0, <1>1 DEF TypeOK
<1>6. ~\E u \in Threads : Runs(u, j)
  BY <1>0, <1>2, <1>3 DEF QueueAgrees
<1>7. \A u \in Threads, k \in Jobs : Runs(u, k)' <=> (Runs(u, k) \/ (u = t /\ k = j))
  BY <1>1, <1>5 DEF Runs
<1>8. TypeOK'
  <2>1. [pc |-> "running", job |-> j] \in Calls
    BY <1>2 DEF Calls
  <2>2. th' \in [Threads -> Calls]
    BY <1>0, <1>1, <2>1 DEF TypeOK
  <2>3. rec' \in [DOMAIN rec' -> States]
    BY <1>0, <1>1, <1>4 DEF TypeOK, States
  <2> QED
    BY <1>0, <1>1, <1>2, <1>4, <2>2, <2>3 DEF TypeOK
<1>9. QueueAgrees'
  <2>1. \A i, k \in DOMAIN pending : pending[i] = pending[k] => i = k
    BY <1>0 DEF QueueAgrees
  <2>2. Rng(pending)' = Rng(pending) \ {j}
    <3>1. \A i \in DOMAIN pending' : pending'[i] \in Rng(pending) /\ pending'[i] # j
      BY <1>2, <2>1 DEF Rng
    <3>2. \A i \in DOMAIN pending : pending[i] # j =>
              i - 1 \in DOMAIN pending' /\ pending'[i - 1] = pending[i]
      BY <1>2
    <3> QED
      BY <3>1, <3>2 DEF Rng
  <2>3. Rng(pending)' = {k \in DOMAIN rec' : rec'[k] = "pending"}
    BY <1>0, <1>3, <1>4, <2>2 DEF QueueAgrees
  <2>4. \A i, k \in DOMAIN pending' : pending'[i] = pending'[k] => i = k
    BY <1>2, <2>1
  <2>5. \A k \in DOMAIN rec' : rec'[k] = "running" => \E u \in Threads : Runs(u, k)'
    BY <1>0, <1>2, <1>4, <1>7 DEF QueueAgrees, TypeOK
  <2>6. \A u \in Threads, k \in Jobs : Runs(u, k)' =>
            /\ k \in DOMAIN rec' /\ rec'[k] = "running"
            /\ \A v \in Threads : Runs(v, k)' => v = u
    BY <1>0, <1>3, <1>4, <1>6, <1>7 DEF QueueAgrees
  <2> QED
    BY <2>3, <2>4, <2>5, <2>6 DEF QueueAgrees
<1>10. RecentKept'
  BY <1>0, <1>1, <1>4 DEF RecentKept
<1>11. NoneStranded'
  <2>1. \A i \in DOMAIN pending : pending[i] \in asked => i <= Cardinality(Movers)
    BY <1>0 DEF NoneStranded, Movers
  <2>2. Movers' = Movers \ {t}
    BY <1>5 DEF Movers
  <2>3. Cardinality(Movers') >= Cardinality(Movers) - 1 /\ Cardinality(Movers) \in Nat
    <3>1. CASE t \in Movers
      BY <3>1, <2>2, MoversCounted
    <3>2. CASE t \notin Movers
      <4>1. Movers' = Movers
        BY <3>2, <2>2
      <4> QED
        BY <4>1, MoversCounted
    <3> QED
      BY <3>1, <3>2
  <2>4. Cardinality(Movers') \in Nat
    <3>1. CASE t \in Movers
      <4>1. Cardinality(Movers') \in Nat
        BY <2>2, MoversCounted, FS_RemoveElement, FS_CardinalityType
      <4> QED
        BY <4>1
    <3>2. CASE t \notin Movers
      <4>1. Movers' = Movers
        BY <3>2, <2>2
      <4> QED
        BY <4>1, MoversCounted
    <3> QED
      BY <3>1, <3>2
  <2> SUFFICES ASSUME NEW i \in DOMAIN pending', pending'[i] \in asked
               PROVE  i <= Cardinality(Movers')
    BY <1>1 DEF NoneStranded, Movers
  <2>5. i + 1 <= Cardinality(Movers) /\ i \in Nat
    BY <1>2, <2>1
  <2> QED
    BY <2>3, <2>4, <2>5
<1>12. Drawn'
  BY <1>0, <1>1, <1>2, <1>3, <1>4, <1>5 DEF Drawn, TypeOK
<1> QED
  BY <1>8, <1>9, <1>10, <1>11, <1>12 DEF QueueInv, QueueSafe

LEMMA PopNothingKeeps ==
    ASSUME QueueInv, NEW t \in Threads, PopNothing(t)
    PROVE  QueueInv'
<1>0. TypeOK /\ QueueAgrees /\ RecentKept /\ NoneStranded /\ Drawn
  BY DEF QueueInv, QueueSafe
<1>1. /\ th[t].pc = "moved" /\ pending = <<>> /\ th' = [th EXCEPT ![t] = Idle]
      /\ UNCHANGED <<pending, rec, stamp, asked, used>>
  BY DEF PopNothing
<1>2. th'[t] = Idle /\ \A u \in Threads : u # t => th'[u] = th[u]
  BY <1>0, <1>1 DEF TypeOK
<1>3. \A u \in Threads, k \in Jobs : Runs(u, k)' <=> Runs(u, k)
  BY <1>1, <1>2 DEF Runs, Idle
<1>4. TypeOK'
  <2>1. Idle \in Calls
    BY DEF Idle, Calls
  <2> QED
    BY <1>0, <1>1, <2>1 DEF TypeOK
<1>5. QueueAgrees'
  <2>1. Rng(pending)' = Rng(pending)
    BY <1>1 DEF Rng
  <2> QED
    BY <1>0, <1>1, <1>3, <2>1 DEF QueueAgrees, TypeOK
<1>6. RecentKept' /\ NoneStranded' /\ Drawn'
  BY <1>0, <1>1, <1>2 DEF RecentKept, NoneStranded, Drawn, Idle
<1> QED
  BY <1>4, <1>5, <1>6 DEF QueueInv, QueueSafe

\* The job of the thread ends: its record gets its state and its time.
LEMMA EndKeeps ==
    ASSUME QueueInv, NEW t \in Threads, th[t].pc = "running",
           NEW state \in {"completed", "failed"}, NEW c \in Calls,
           c.pc \in {"idle", "evict"},
           rec' = [rec EXCEPT ![th[t].job] = state],
           stamp' = [stamp EXCEPT ![th[t].job] = Now],
           th' = [th EXCEPT ![t] = c],
           UNCHANGED <<pending, asked, used>>
    PROVE  QueueInv'
<1> DEFINE j == th[t].job
<1>0. TypeOK /\ QueueAgrees /\ RecentKept /\ NoneStranded /\ Drawn
  BY DEF QueueInv, QueueSafe
<1>1. j \in Jobs /\ Runs(t, j) /\ j \in DOMAIN rec /\ rec[j] = "running"
  BY <1>0 DEF Drawn, QueueAgrees, Runs
<1>2. rec' = [rec EXCEPT ![j] = state] /\ stamp' = [stamp EXCEPT ![j] = Now]
  OBVIOUS
<1> HIDE DEF j
<1>3. /\ DOMAIN rec' = DOMAIN rec /\ rec'[j] = state
      /\ \A k \in DOMAIN rec : k # j => rec'[k] = rec[k]
  BY <1>0, <1>1, <1>2 DEF TypeOK
<1>4. th'[t] = c /\ \A u \in Threads : u # t => th'[u] = th[u]
  BY <1>0 DEF TypeOK
<1>5. \A u \in Threads, k \in Jobs : Runs(u, k)' <=> u # t /\ Runs(u, k)
  BY <1>4 DEF Runs
<1>6. Now \in Nat /\ Now > 0
  <2>1. {k \in Jobs : stamp[k] > 0} \in SUBSET Jobs
    OBVIOUS
  <2>2. Cardinality({k \in Jobs : stamp[k] > 0}) \in Nat
    BY <2>1, NewerGrows
  <2> QED
    BY <2>2 DEF Now
<1>7. /\ stamp'[j] = Now /\ \A k \in Jobs : k # j => stamp'[k] = stamp[k]
      /\ stamp' \in [Jobs -> Nat] /\ stamp[j] = 0
  <2>1. stamp[j] \in Nat /\ ~(stamp[j] > 0)
    BY <1>0, <1>1 DEF TypeOK, Drawn
  <2>2. stamp[j] = 0
    BY <2>1
  <2>3. stamp' \in [Jobs -> Nat]
    BY <1>0, <1>2, <1>6 DEF TypeOK
  <2>4. stamp'[j] = Now /\ \A k \in Jobs : k # j => stamp'[k] = stamp[k]
    BY <1>0, <1>1, <1>2 DEF TypeOK
  <2> QED
    BY <2>2, <2>3, <2>4
<1>8. TypeOK'
  <2>1. rec' \in [DOMAIN rec' -> States]
    BY <1>0, <1>2, <1>3 DEF TypeOK, States
  <2>2. th' \in [Threads -> Calls]
    BY <1>0 DEF TypeOK
  <2> QED
    BY <1>0, <1>3, <1>7, <2>1, <2>2 DEF TypeOK
<1>9. QueueAgrees'
  <2>1. Rng(pending)' = Rng(pending)
    BY DEF Rng
  <2>2. Rng(pending)' = {k \in DOMAIN rec' : rec'[k] = "pending"}
    BY <1>0, <1>1, <1>3, <2>1 DEF QueueAgrees
  <2>3. \A k \in DOMAIN rec' : rec'[k] = "running" => \E u \in Threads : Runs(u, k)'
    <3> SUFFICES ASSUME NEW k \in DOMAIN rec, rec'[k] = "running"
                 PROVE  \E u \in Threads : Runs(u, k)'
      BY <1>3
    <3>1. k # j /\ rec[k] = "running" /\ k \in Jobs
      BY <1>0, <1>3 DEF TypeOK
    <3>2. PICK u \in Threads : Runs(u, k)
      BY <1>0, <3>1 DEF QueueAgrees
    <3>3. u # t
      BY <1>1, <3>1, <3>2 DEF Runs
    <3> QED
      BY <1>5, <3>1, <3>2, <3>3
  <2>4. \A u \in Threads, k \in Jobs : Runs(u, k)' =>
            /\ k \in DOMAIN rec' /\ rec'[k] = "running"
            /\ \A v \in Threads : Runs(v, k)' => v = u
    <3> SUFFICES ASSUME NEW u \in Threads, NEW k \in Jobs, u # t, Runs(u, k)
                 PROVE  /\ k \in DOMAIN rec' /\ rec'[k] = "running"
                        /\ \A v \in Threads : Runs(v, k)' => v = u
      BY <1>5
    <3>1. k \in DOMAIN rec /\ rec[k] = "running" /\ \A v \in Threads : Runs(v, k) => v = u
      BY <1>0 DEF QueueAgrees
    <3>2. k # j
      BY <1>1, <3>1
    <3> QED
      BY <1>3, <1>5, <3>1, <3>2
  <2> QED
    BY <1>0, <2>2, <2>3, <2>4 DEF QueueAgrees
<1>10. RecentKept'
  <2> SUFFICES ASSUME NEW k \in used, k \notin DOMAIN rec, k \in Jobs
               PROVE  Cardinality(Newer(k)') >= MaxHistory
    BY <1>0, <1>3 DEF RecentKept, Newer, TypeOK
  <2>1. Cardinality(Newer(k)) >= MaxHistory
    BY <1>0 DEF RecentKept, Newer
  <2>2. Newer(k) \subseteq Newer(k)'
    <3>1. k # j /\ \A m \in Newer(k) : m \in Jobs /\ stamp[m] > stamp[k]
      BY <1>1 DEF Newer
    <3>2. j \notin Newer(k)
      BY <1>0, <1>7, <3>1 DEF TypeOK
    <3> QED
      BY <1>7, <3>1, <3>2 DEF Newer
  <2>3. Newer(k) \in SUBSET Jobs /\ Newer(k)' \in SUBSET Jobs
    BY DEF Newer
  <2> QED
    BY <2>1, <2>2, <2>3, NewerGrows, IngestionQueueAssumption
<1>11. NoneStranded'
  <2>1. Movers' = Movers
    BY <1>4 DEF Movers
  <2> QED
    BY <1>0, <2>1, StrandedAlone
<1>12. Drawn'
  BY <1>0, <1>1, <1>3, <1>4, <1>7 DEF Drawn
<1> QED
  BY <1>8, <1>9, <1>10, <1>11, <1>12 DEF QueueInv, QueueSafe

LEMMA EvictKeeps ==
    ASSUME QueueInv, NEW t \in Threads, Evict(t)
    PROVE  QueueInv'
<1>0. TypeOK /\ QueueAgrees /\ RecentKept /\ NoneStranded /\ Drawn
  BY DEF QueueInv, QueueSafe
<1>1. /\ th[t].pc = "evict" /\ th' = [th EXCEPT ![t] = Idle]
      /\ rec' = [j \in DOMAIN rec \ Surplus |-> rec[j]]
      /\ UNCHANGED <<pending, stamp, asked, used>>
  BY DEF Evict
<1>2. \A j \in Surplus : j \in DOMAIN rec /\ rec[j] \in {"completed", "failed"}
  BY DEF Surplus, Finished
<1>3. /\ DOMAIN rec' = DOMAIN rec \ Surplus
      /\ \A k \in DOMAIN rec' : rec'[k] = rec[k]
  BY <1>1
<1>4. th'[t] = Idle /\ \A u \in Threads : u # t => th'[u] = th[u]
  BY <1>0, <1>1 DEF TypeOK
<1>5. \A u \in Threads, k \in Jobs : Runs(u, k)' <=> Runs(u, k)
  BY <1>1, <1>4 DEF Runs, Idle
<1>6. TypeOK'
  <2>1. Idle \in Calls
    BY DEF Idle, Calls
  <2>2. rec' \in [DOMAIN rec' -> States] /\ DOMAIN rec' \subseteq Jobs
    BY <1>0, <1>1, <1>3 DEF TypeOK
  <2> QED
    BY <1>0, <1>1, <2>1, <2>2 DEF TypeOK
<1>7. QueueAgrees'
  <2>1. Rng(pending)' = Rng(pending)
    BY <1>1 DEF Rng
  <2>2. Rng(pending)' = {k \in DOMAIN rec' : rec'[k] = "pending"}
    BY <1>0, <1>2, <1>3, <2>1 DEF QueueAgrees
  <2>3. \A k \in DOMAIN rec' : rec'[k] = "running" => \E u \in Threads : Runs(u, k)'
    BY <1>0, <1>3, <1>5 DEF QueueAgrees, TypeOK
  <2>4. \A u \in Threads, k \in Jobs : Runs(u, k)' =>
            /\ k \in DOMAIN rec' /\ rec'[k] = "running"
            /\ \A v \in Threads : Runs(v, k)' => v = u
    BY <1>0, <1>2, <1>3, <1>5 DEF QueueAgrees
  <2> QED
    BY <1>0, <1>1, <2>2, <2>3, <2>4 DEF QueueAgrees
<1>8. RecentKept'
  <2> SUFFICES ASSUME NEW k \in used, k \notin DOMAIN rec', k \in Jobs
               PROVE  Cardinality(Newer(k)) >= MaxHistory
    BY <1>0, <1>1 DEF RecentKept, Newer, TypeOK
  <2>1. CASE k \notin DOMAIN rec
    BY <1>0, <2>1 DEF RecentKept, Newer
  <2>2. CASE k \in Surplus
    <3> DEFINE S == {m \in Finished : stamp[m] > stamp[k]}
    <3>1. Cardinality(S) >= MaxHistory
      BY <2>2 DEF Surplus
    <3>2. S \subseteq Newer(k) /\ S \in SUBSET Jobs /\ Newer(k) \in SUBSET Jobs
      BY <1>0 DEF Newer, Finished, TypeOK
    <3> HIDE DEF S
    <3> QED
      BY <3>1, <3>2, NewerGrows, IngestionQueueAssumption
  <2> QED
    BY <1>3, <2>1, <2>2
<1>9. NoneStranded'
  <2>1. Movers' = Movers
    BY <1>1, <1>4 DEF Movers, Idle
  <2> QED
    BY <1>0, <1>1, <2>1, StrandedAlone
<1>10. Drawn'
  BY <1>0, <1>1, <1>3, <1>4 DEF Drawn, Idle
<1> QED
  BY <1>6, <1>7, <1>8, <1>9, <1>10 DEF QueueInv, QueueSafe

\* The invariant is inductive.
LEMMA QueueNext == QueueInv /\ [Next]_vars => QueueInv'
<1> SUFFICES ASSUME QueueInv, [Next]_vars
             PROVE  QueueInv'
  OBVIOUS
<1>1. CASE UNCHANGED vars
  <2>1. TypeOK' /\ Drawn'
    BY <1>1 DEF vars, QueueInv, QueueSafe, TypeOK, Drawn
  <2>2. QueueAgrees'
    BY <1>1 DEF vars, QueueInv, QueueSafe, QueueAgrees, Rng, Runs
  <2>3. RecentKept' /\ NoneStranded'
    BY <1>1 DEF vars, QueueInv, QueueSafe, RecentKept, NoneStranded
  <2> QED
    BY <2>1, <2>2, <2>3 DEF QueueInv, QueueSafe
<1>2. ASSUME NEW t \in Threads, NEW ok \in BOOLEAN, Finish(t, ok)
      PROVE  QueueInv'
  <2> DEFINE state == IF ok THEN "completed" ELSE "failed"
             c == [pc |-> "evict", job |-> NoJob]
  <2>1. state \in {"completed", "failed"} /\ c \in Calls /\ c.pc = "evict"
    BY DEF Calls
  <2>2. /\ th[t].pc = "running" /\ rec' = [rec EXCEPT ![th[t].job] = state]
        /\ stamp' = [stamp EXCEPT ![th[t].job] = Now]
        /\ th' = [th EXCEPT ![t] = c] /\ UNCHANGED <<pending, asked, used>>
    BY <1>2 DEF Finish
  <2> HIDE DEF state, c
  <2> QED
    BY <2>1, <2>2, EndKeeps
<1>3. ASSUME NEW t \in Threads, Raise(t)
      PROVE  QueueInv'
  <2>1. Idle \in Calls /\ Idle.pc = "idle"
    BY DEF Idle, Calls
  <2> QED
    BY <1>3, <2>1, EndKeeps DEF Raise
<1>4. CASE Next
  BY <1>2, <1>3, <1>4, EnqueueKeeps, RunJobKeeps, PopKeeps, PopNothingKeeps, EvictKeeps,
     Zenon DEF Next, Work
<1> QED
  BY <1>1, <1>4

\* Nothing is queued, run or recorded at the start.
LEMMA QueueInit == Init => QueueInv
<1> SUFFICES ASSUME Init
             PROVE  QueueInv
  OBVIOUS
<1>1. /\ pending = <<>> /\ DOMAIN rec = {} /\ used = {} /\ asked = {}
      /\ \A t \in Threads : th[t] = Idle
      /\ \A j \in Jobs : stamp[j] = 0
  BY DEF Init
<1>2. TypeOK
  <2>1. Idle \in Calls
    BY DEF Idle, Calls
  <2> QED
    BY <2>1 DEF Init, TypeOK
<1>3. QueueAgrees
  <2>1. Rng(pending) = {}
    BY <1>1 DEF Rng
  <2> QED
    BY <1>1, <2>1 DEF QueueAgrees, Runs, Idle
<1>4. RecentKept /\ NoneStranded /\ Drawn
  BY <1>1 DEF RecentKept, NoneStranded, Drawn, Idle
<1> QED
  BY <1>2, <1>3, <1>4 DEF QueueInv, QueueSafe

\* The list and the records agree, the newest records stay, and a job that a run_job
\* asked for is within reach of the calls under way (ingestion_queue.py:150-196).
THEOREM QueueIsSafe == Spec => []QueueSafe
<1>1. QueueInv => QueueSafe
  BY DEF QueueInv
<1> QED
  BY <1>1, QueueInit, QueueNext, PTL DEF Spec

--------------------------------------------------------------------------------
(* The queue implements JobLedger.                                            *)

\* The refinement mapping.
Bar == [j \in Jobs |-> JobState(j)]

\* A step in which one job goes on in its life and the others stay is a ledger step.
LEMMA LedgerStep ==
    ASSUME NEW j \in Jobs, JobState(j)' \in Ledger!Succ(JobState(j)),
           \A k \in Jobs : k # j => JobState(k)' = JobState(k)
    PROVE  Ledger!Next
<1>1. Bar' = [Bar EXCEPT ![j] = JobState(j)']
  BY DEF Bar
<1>2. Bar[j] = JobState(j)
  BY DEF Bar
<1>3. Ledger!Step(j)
  BY <1>1, <1>2 DEF Ledger!Step, Bar
<1> QED
  BY <1>3 DEF Ledger!Next

\* Every step of the queue is one of the ledger, or leaves every job where it is.
LEMMA LedgerNext == QueueInv /\ [Next]_vars => [Ledger!Next]_Bar
<1> SUFFICES ASSUME QueueInv, [Next]_vars
             PROVE  [Ledger!Next]_Bar
  OBVIOUS
<1>0. TypeOK /\ QueueAgrees /\ Drawn
  BY DEF QueueInv, QueueSafe
<1>1. ASSUME UNCHANGED <<rec, used>>
      PROVE  UNCHANGED Bar
  BY <1>1 DEF Bar, JobState
<1>2. CASE UNCHANGED vars
  BY <1>1, <1>2 DEF vars
<1>3. ASSUME NEW t \in Threads, Enqueue(t)
      PROVE  Ledger!Next
  <2>1. PICK j \in Jobs \ used :
          /\ used' = used \cup {j}
          /\ rec' = [k \in DOMAIN rec \cup {j} |-> IF k = j THEN "pending" ELSE rec[k]]
    BY <1>3 DEF Enqueue
  <2>2. JobState(j) = "new" /\ JobState(j)' = "pending"
    BY <1>0, <2>1 DEF JobState, Drawn
  <2>3. \A k \in Jobs : k # j => JobState(k)' = JobState(k)
    BY <2>1 DEF JobState
  <2>4. JobState(j)' \in Ledger!Succ(JobState(j))
    BY <2>2 DEF Ledger!Succ
  <2> QED
    BY <2>3, <2>4, LedgerStep
<1>4. ASSUME NEW t \in Threads, Pop(t)
      PROVE  Ledger!Next
  <2>0. PICK j \in Jobs : j = Head(pending) /\ j \in Rng(pending)
    <3>1. Head(pending) \in Jobs /\ Head(pending) \in Rng(pending)
      BY <1>0, <1>4 DEF Pop, TypeOK, Rng
    <3> QED
      BY <3>1
  <2>1. j \in Jobs /\ j \in Rng(pending)
    BY <2>0
  <2>2. j \in DOMAIN rec /\ rec[j] = "pending"
    BY <1>0, <2>1 DEF QueueAgrees
  <2>3. rec' = [rec EXCEPT ![j] = "running"] /\ used' = used
    BY <1>4, <2>0 DEF Pop
  <2>4. JobState(j) = "pending" /\ JobState(j)' = "running"
    BY <2>2, <2>3 DEF JobState
  <2>5. \A k \in Jobs : k # j => JobState(k)' = JobState(k)
    BY <2>3 DEF JobState
  <2>6. JobState(j)' \in Ledger!Succ(JobState(j))
    BY <2>4 DEF Ledger!Succ
  <2> QED
    BY <2>1, <2>5, <2>6, LedgerStep
<1>5. ASSUME NEW t \in Threads, th[t].pc = "running",
             NEW state \in {"completed", "failed"},
             rec' = [rec EXCEPT ![th[t].job] = state], used' = used
      PROVE  Ledger!Next
  <2>0. PICK j \in Jobs : j = th[t].job
    BY <1>0, <1>5 DEF Drawn
  <2>1. j \in Jobs /\ j \in DOMAIN rec /\ rec[j] = "running"
    BY <1>0, <1>5, <2>0 DEF QueueAgrees, Runs
  <2>2. rec' = [rec EXCEPT ![j] = state]
    BY <1>5, <2>0
  <2>3. JobState(j) = "running" /\ JobState(j)' = state
    BY <2>1, <2>2 DEF JobState
  <2>4. \A k \in Jobs : k # j => JobState(k)' = JobState(k)
    BY <1>5, <2>2 DEF JobState
  <2>5. JobState(j)' \in Ledger!Succ(JobState(j))
    BY <2>3 DEF Ledger!Succ
  <2> QED
    BY <2>1, <2>4, <2>5, LedgerStep
<1>6. ASSUME NEW t \in Threads, Finish(t, TRUE) \/ Finish(t, FALSE) \/ Raise(t)
      PROVE  Ledger!Next
  BY <1>5, <1>6 DEF Finish, Raise
<1>7. ASSUME NEW t \in Threads, Evict(t)
      PROVE  Ledger!Next
  <2>1. rec' = [j \in DOMAIN rec \ Surplus |-> rec[j]] /\ used' = used
    BY <1>7 DEF Evict
  <2>2. Surplus \subseteq Jobs /\ \A j \in Surplus : j \in DOMAIN rec /\ j \in used
                                     /\ rec[j] \in {"completed", "failed"}
    BY <1>0 DEF Surplus, Finished, TypeOK, Drawn
  <2>3. \A j \in Jobs : JobState(j)' = IF j \in Surplus THEN "gone" ELSE JobState(j)
    BY <2>1, <2>2 DEF JobState
  <2>4. \A j \in Surplus : Bar[j] \in {"completed", "failed"}
    BY <2>2 DEF Bar, JobState
  <2>5. Bar' = [j \in Jobs |-> IF j \in Surplus THEN "gone" ELSE Bar[j]]
    BY <2>3 DEF Bar
  <2>6. Ledger!Evict(Surplus)
    BY <2>4, <2>5 DEF Ledger!Evict, Bar
  <2> QED
    BY <2>2, <2>6 DEF Ledger!Next
<1>8. ASSUME NEW t \in Threads, NEW j \in Jobs, RunJob(t, j)
      PROVE  UNCHANGED Bar
  BY <1>1, <1>8 DEF RunJob
<1>9. ASSUME NEW t \in Threads, PopNothing(t)
      PROVE  UNCHANGED Bar
  BY <1>1, <1>9 DEF PopNothing
<1>10. CASE Next
  BY <1>3, <1>4, <1>6, <1>7, <1>8, <1>9, <1>10, Zenon DEF Next, Work
<1> QED
  BY <1>2, <1>10

\* No job runs twice, and no record leaves the history before its job has finished,
\* however the threads interleave (ingestion_queue.py:108-200).
THEOREM QueueIsLedger == Spec => ImplementsJobLedger
<1>1. Init => Ledger!Init
  BY DEF Init, Ledger!Init, JobState
<1>2. [Ledger!Next]_Bar => [Ledger!Next]_[j \in Jobs |-> JobState(j)]
  BY DEF Bar
<1> QED
  BY <1>1, <1>2, LedgerNext, QueueInit, QueueNext, PTL DEF Spec, ImplementsJobLedger, Ledger!Spec

--------------------------------------------------------------------------------
(* The result store: a buffer of all results and a list for each job.         *)

ListsBy(k, h, m, all, n) ==
    \E at \in [1..m -> 1..n] :
        /\ \A i, j \in 1..m : i < j => at[i] < at[j]
        /\ \A i \in 1..m : h[i] = all[at[i]]
        /\ \A p \in 1..n : all[p].id = k <=> \E i \in 1..m : at[i] = p

\* What ListsResultsOf says of the lists and the buffer.
Lists(k, h, all) == ListsBy(k, h, Len(h), all, Len(all))

\* A result of job k at the end of the buffer goes to the end of k's list, another's
\* leaves the list alone.
LEMMA ListsAppend ==
    ASSUME NEW S, NEW h \in Seq(S), NEW all \in Seq(S), NEW k, NEW r \in S, Lists(k, h, all)
    PROVE  Lists(k, IF r.id = k THEN Append(h, r) ELSE h, Append(all, r))
<1> DEFINE m == Len(h)
           n == Len(all)
<1>0. m \in Nat /\ n \in Nat /\ Len(h) = m /\ Len(all) = n /\ DOMAIN h = 1..m /\ DOMAIN all = 1..n
  OBVIOUS
<1>1. PICK at \in [1..m -> 1..n] :
        /\ \A i, j \in 1..m : i < j => at[i] < at[j]
        /\ \A i \in 1..m : h[i] = all[at[i]]
        /\ \A p \in 1..n : all[p].id = k <=> \E i \in 1..m : at[i] = p
  <2>1. ListsBy(k, h, m, all, n)
    BY <1>0 DEF Lists
  <2> QED
    BY <2>1, Zenon DEF ListsBy
<1>2. /\ Len(Append(all, r)) = n + 1
      /\ DOMAIN Append(all, r) = 1..(n + 1)
      /\ \A p \in 1..n : Append(all, r)[p] = all[p]
      /\ Append(all, r)[n + 1] = r
  BY <1>0
<1> HIDE DEF m, n
<1>3. CASE r.id = k
  <2> DEFINE to == [i \in 1..(m + 1) |-> IF i = m + 1 THEN n + 1 ELSE at[i]]
  <2>1. /\ Len(Append(h, r)) = m + 1
        /\ DOMAIN Append(h, r) = 1..(m + 1)
        /\ \A p \in 1..m : Append(h, r)[p] = h[p]
        /\ Append(h, r)[m + 1] = r
    BY <1>0
  <2>2. to \in [1..(m + 1) -> 1..(n + 1)]
    BY <1>0, <1>1
  <2>3. \A i, j \in 1..(m + 1) : i < j => to[i] < to[j]
    BY <1>0, <1>1
  <2>4. \A i \in 1..(m + 1) : Append(h, r)[i] = Append(all, r)[to[i]]
    BY <1>0, <1>1, <1>2, <2>1
  <2>5. ASSUME NEW p \in 1..(n + 1)
        PROVE  Append(all, r)[p].id = k <=> \E i \in 1..(m + 1) : to[i] = p
    <3>1. CASE p = n + 1
      BY <3>1, <1>0, <1>2, <1>3
    <3>2. CASE p \in 1..n
      <4>1. Append(all, r)[p].id = k <=> \E i \in 1..m : at[i] = p
        BY <3>2, <1>1, <1>2
      <4>2. (\E i \in 1..m : at[i] = p) <=> \E i \in 1..(m + 1) : to[i] = p
        BY <3>2, <1>0
      <4> QED
        BY <4>1, <4>2
    <3> QED
      BY <3>1, <3>2, <1>0
  <2> HIDE DEF to
  <2>6. ListsBy(k, Append(h, r), m + 1, Append(all, r), n + 1)
    BY <2>2, <2>3, <2>4, <2>5 DEF ListsBy
  <2> QED
    BY <1>2, <1>3, <2>1, <2>6 DEF Lists
<1>4. CASE r.id # k
  <2>1. at \in [1..m -> 1..(n + 1)]
    BY <1>0, <1>1
  <2>2. \A i \in 1..m : h[i] = Append(all, r)[at[i]]
    BY <1>1, <1>2
  <2>3. \A p \in 1..(n + 1) : Append(all, r)[p].id = k <=> \E i \in 1..m : at[i] = p
    BY <1>0, <1>1, <1>2, <1>4
  <2>4. ListsBy(k, h, m, Append(all, r), n + 1)
    BY <1>1, <2>1, <2>2, <2>3 DEF ListsBy
  <2> QED
    BY <1>0, <1>2, <1>4, <2>4 DEF Lists
<1> QED
  BY <1>3, <1>4

\* The oldest result of the buffer is the oldest of its job's list; dropping both leaves
\* every list what it is.
LEMMA ListsTail ==
    ASSUME NEW S, NEW h \in Seq(S), NEW all \in Seq(S), NEW k, all # <<>>, Lists(k, h, all)
    PROVE  IF Head(all).id = k
           THEN h # <<>> /\ Head(h) = Head(all) /\ Lists(k, Tail(h), Tail(all))
           ELSE Lists(k, h, Tail(all))
<1> DEFINE m == Len(h)
           n == Len(all) - 1
<1>0. /\ m \in Nat /\ n \in Nat /\ Len(h) = m /\ Len(Tail(all)) = n /\ DOMAIN h = 1..m /\ DOMAIN all = 1..(n + 1)
      /\ Head(all) = all[1]
      /\ DOMAIN Tail(all) = 1..n /\ \A p \in 1..n : Tail(all)[p] = all[p + 1]
  OBVIOUS
<1>1. PICK at \in [1..m -> 1..(n + 1)] :
        /\ \A i, j \in 1..m : i < j => at[i] < at[j]
        /\ \A i \in 1..m : h[i] = all[at[i]]
        /\ \A p \in 1..(n + 1) : all[p].id = k <=> \E i \in 1..m : at[i] = p
  <2>1. ListsBy(k, h, m, all, n + 1)
    BY <1>0 DEF Lists
  <2> QED
    BY <2>1, Zenon DEF ListsBy
<1>2. CASE Head(all).id = k
  <2>1. m > 0 /\ at[1] = 1
    <3>1. PICK i \in 1..m : at[i] = 1
      BY <1>0, <1>1, <1>2
    <3>2. 1 \in 1..m /\ at[1] \in 1..(n + 1) /\ i \in Int
      BY <1>0, <1>1, <3>1
    <3>3. 1 < i => at[1] < at[i]
      BY <1>1, <3>2
    <3> QED
      BY <1>0, <3>1, <3>2, <3>3
  <2>2. /\ h # <<>> /\ Head(h) = Head(all)
        /\ Len(Tail(h)) = m - 1
        /\ DOMAIN Tail(h) = 1..(m - 1) /\ \A p \in 1..(m - 1) : Tail(h)[p] = h[p + 1]
    BY <1>0, <1>1, <2>1
  <2> DEFINE to == [i \in 1..(m - 1) |-> at[i + 1] - 1]
  <2> HIDE DEF m, n
  <2>3. to \in [1..(m - 1) -> 1..n]
    <3> SUFFICES ASSUME NEW i \in 1..(m - 1) PROVE at[i + 1] - 1 \in 1..n
      OBVIOUS
    <3>1. i + 1 \in 1..m /\ 1 \in 1..m /\ 1 < i + 1
      BY <1>0, <2>1
    <3> QED
      BY <3>1, <1>0, <1>1, <2>1
  <2>4. \A i, j \in 1..(m - 1) : i < j => to[i] < to[j]
    <3> SUFFICES ASSUME NEW i \in 1..(m - 1), NEW j \in 1..(m - 1), i < j
                 PROVE  at[i + 1] - 1 < at[j + 1] - 1
      OBVIOUS
    <3>1. i + 1 \in 1..m /\ j + 1 \in 1..m /\ i + 1 < j + 1
      BY <1>0
    <3> QED
      BY <3>1, <1>0, <1>1
  <2>5. \A i \in 1..(m - 1) : Tail(h)[i] = Tail(all)[to[i]]
    <3> SUFFICES ASSUME NEW i \in 1..(m - 1) PROVE Tail(h)[i] = Tail(all)[to[i]]
      OBVIOUS
    <3>1. i + 1 \in 1..m /\ to[i] = at[i + 1] - 1 /\ to[i] \in 1..n
      BY <1>0, <2>3
    <3> QED
      BY <3>1, <1>0, <1>1, <2>2
  <2>6. ASSUME NEW p \in 1..n
        PROVE  Tail(all)[p].id = k <=> \E i \in 1..(m - 1) : to[i] = p
    <3>1. Tail(all)[p].id = k <=> \E i \in 1..m : at[i] = p + 1
      BY <1>0, <1>1
    <3>2. ASSUME NEW i \in 1..m, at[i] = p + 1 PROVE i - 1 \in 1..(m - 1) /\ to[i - 1] = p
      BY <3>2, <1>0, <1>1, <2>1
    <3>3. ASSUME NEW i \in 1..(m - 1), to[i] = p PROVE i + 1 \in 1..m /\ at[i + 1] = p + 1
      <4>1. i + 1 \in 1..m
        BY <1>0
      <4>2. to[i] = at[i + 1] - 1 /\ at[i + 1] \in Int /\ p \in Int
        BY <4>1, <1>0, <1>1
      <4> QED
        BY <3>3, <4>1, <4>2
    <3> QED
      BY <3>1, <3>2, <3>3
  <2> HIDE DEF to
  <2>7. Lists(k, Tail(h), Tail(all))
    <3>1. ListsBy(k, Tail(h), m - 1, Tail(all), n)
      BY <2>3, <2>4, <2>5, <2>6 DEF ListsBy
    <3> QED
      BY <3>1, <1>0, <2>2 DEF Lists
  <2> QED
    BY <1>2, <2>2, <2>7
<1>3. CASE Head(all).id # k
  <2>1. \A i \in 1..m : at[i] # 1
    BY <1>0, <1>1, <1>3
  <2> DEFINE to == [i \in 1..m |-> at[i] - 1]
  <2> HIDE DEF m, n
  <2>2. to \in [1..m -> 1..n]
    BY <1>0, <1>1, <2>1
  <2>3. \A i, j \in 1..m : i < j => to[i] < to[j]
    BY <1>0, <1>1
  <2>4. \A i \in 1..m : h[i] = Tail(all)[to[i]]
    BY <1>0, <1>1, <2>1, <2>2
  <2>5. ASSUME NEW p \in 1..n PROVE Tail(all)[p].id = k <=> \E i \in 1..m : to[i] = p
    <3>1. Tail(all)[p].id = k <=> \E i \in 1..m : at[i] = p + 1
      BY <1>0, <1>1
    <3>2. ASSUME NEW i \in 1..m PROVE to[i] = p <=> at[i] = p + 1
      <4>1. to[i] = at[i] - 1 /\ at[i] \in Int /\ p \in Int
        BY <1>0, <1>1
      <4> QED
        BY <4>1
    <3> QED
      BY <3>1, <3>2
  <2> HIDE DEF to
  <2>6. ListsBy(k, h, m, Tail(all), n)
    BY <2>2, <2>3, <2>4, <2>5 DEF ListsBy
  <2> QED
    BY <1>0, <1>3, <2>6 DEF Lists
<1> QED
  BY <1>2, <1>3

--------------------------------------------------------------------------------
(* The heap of the workers.                                                   *)

\* Envelopes are numbered as they are made.
Numbered == IsFiniteSet(heap) /\ \A e \in heap : e.at < count

\* A step in the heap has its effective priority, and each step it depends on has begun
\* or is in the heap with a smaller number.
Planned ==
    \A e \in heap : e.id \in Steps =>
        /\ e.prio = W!Effective(e.id)
        /\ \A d \in Deps[e.id] : \/ \E j \in 1..Len(began) : began[j] = d
                                \/ \E g \in heap : g.id = d /\ g.at < e.at

WorkersInv == WorkersSafe /\ Numbered /\ Planned

Running == IF cur = W!NotRunning THEN 0 ELSE 1

LEMMA SameFinite ==
    (\A S : W!Cardinality(S) = Cardinality(S)) /\ \A S : W!IsFiniteSet(S) <=> IsFiniteSet(S)
  BY DEF W!Cardinality, Cardinality, W!IsFiniteSet, IsFiniteSet

\* NoJobLost in two states.
LEMMA JobsCounted ==
    /\ W!NoJobLost <=> metrics.enqueued
                       = metrics.succeeded + metrics.dead + Cardinality(heap) + Running
    /\ W!NoJobLost' <=> metrics'.enqueued
                       = metrics'.succeeded + metrics'.dead + Cardinality(heap') + Running'
  BY SameFinite DEF W!NoJobLost, Running

Totals == [enqueued : Nat, succeeded : Nat, dead : Nat, retried : Nat]

LEMMA TotalsStep ==
    ASSUME NEW m \in Totals, NEW n \in Nat
    PROVE  /\ m.enqueued \in Nat /\ m.succeeded \in Nat /\ m.dead \in Nat
           /\ LET u == [m EXCEPT !.enqueued = @ + n] IN
              /\ u \in Totals /\ u.enqueued = m.enqueued + n
              /\ u.succeeded = m.succeeded /\ u.dead = m.dead
           /\ LET u == [m EXCEPT !.succeeded = @ + n] IN
              /\ u \in Totals /\ u.enqueued = m.enqueued
              /\ u.succeeded = m.succeeded + n /\ u.dead = m.dead
           /\ LET u == [m EXCEPT !.dead = @ + n] IN
              /\ u \in Totals /\ u.enqueued = m.enqueued
              /\ u.succeeded = m.succeeded /\ u.dead = m.dead + n
           /\ LET u == [m EXCEPT !.retried = @ + n] IN
              /\ u \in Totals /\ u.enqueued = m.enqueued
              /\ u.succeeded = m.succeeded /\ u.dead = m.dead
  BY DEF Totals

\* The type invariant, one variable at a time.
LEMMA Types ==
    /\ W!TypeOK <=> /\ heap \subseteq W!Envelopes
                    /\ cur = W!NotRunning \/ cur \in [env : W!Envelopes, attempt : 1..MaxAttempts]
                    /\ tracked \subseteq W!Keys /\ busy \in BOOLEAN
                    /\ results \in Seq(W!Outcomes) /\ history \in [W!Keys -> Seq(W!Outcomes)]
                    /\ metrics \in Totals
                    /\ routed \subseteq Names /\ count \in Nat /\ began \in Seq(W!Keys)
    /\ W!TypeOK' <=> /\ heap' \subseteq W!Envelopes
                     /\ cur' = W!NotRunning \/ cur' \in [env : W!Envelopes, attempt : 1..MaxAttempts]
                     /\ tracked' \subseteq W!Keys /\ busy' \in BOOLEAN
                     /\ results' \in Seq(W!Outcomes) /\ history' \in [W!Keys -> Seq(W!Outcomes)]
                     /\ metrics' \in Totals
                     /\ routed' \subseteq Names /\ count' \in Nat /\ began' \in Seq(W!Keys)
  BY DEF W!TypeOK, Totals

\* A recorded result keeps the store within its size and the lists in agreement.
LEMMA RecordStep ==
    ASSUME W!TypeOK, W!StoreAgrees, NEW id \in W!Keys, NEW status \in W!Statuses,
           NEW attempt \in 1..MaxAttempts, W!Record(id, status, attempt)
    PROVE  /\ results' \in Seq(W!Outcomes) /\ history' \in [W!Keys -> Seq(W!Outcomes)]
           /\ W!StoreAgrees'
<1> DEFINE r    == [id |-> id, status |-> status, attempt |-> attempt]
           full == Len(results) >= MaxResults
           all  == IF full THEN Tail(results) ELSE results
           kept == IF full /\ history[Head(results).id] # <<>>
                           /\ Head(history[Head(results).id]) = Head(results)
                   THEN [history EXCEPT ![Head(results).id] = Tail(@)]
                   ELSE history
<1>0. MaxResults \in Nat \ {0} /\ r \in W!Outcomes
  BY QueuesAssumption DEF W!WorkersAssumption, W!Outcomes
<1>1. /\ results \in Seq(W!Outcomes) /\ history \in [W!Keys -> Seq(W!Outcomes)]
      /\ Len(results) <= MaxResults
      /\ \A k \in W!Keys : Lists(k, history[k], results)
  BY DEF W!TypeOK, W!StoreAgrees, W!ListsResultsOf, Lists, ListsBy
<1>2. results' = Append(all, r) /\ history' = [kept EXCEPT ![id] = Append(@, r)]
  BY DEF W!Record
<1>3. ASSUME full
      PROVE  results # <<>> /\ Head(results) \in W!Outcomes /\ Head(results).id \in W!Keys
  <2>1. results # <<>>
    BY <1>0, <1>1, <1>3
  <2>2. Head(results) \in W!Outcomes
    BY <1>1, <2>1
  <2> QED
    BY <2>1, <2>2 DEF W!Outcomes
<1>4. all \in Seq(W!Outcomes) /\ Len(all) < MaxResults
  BY <1>0, <1>1, <1>3
<1>5. kept \in [W!Keys -> Seq(W!Outcomes)] /\ \A k \in W!Keys : Lists(k, kept[k], all)
  <2>1. CASE ~full
    BY <2>1, <1>1
  <2>2. CASE full
    <3> DEFINE o == Head(results).id
    <3>1. o \in W!Keys /\ results # <<>> /\ all = Tail(results)
      BY <2>2, <1>3
    <3>2. /\ history[o] # <<>> /\ Head(history[o]) = Head(results)
          /\ Lists(o, Tail(history[o]), all)
      BY <3>1, <1>1, ListsTail
    <3>3. kept = [history EXCEPT ![o] = Tail(@)]
      BY <2>2, <3>2
    <3>4. Tail(history[o]) \in Seq(W!Outcomes)
      BY <1>1, <3>1, <3>2
    <3>5. ASSUME NEW k \in W!Keys PROVE Lists(k, kept[k], all)
      <4>1. CASE k = o
        BY <4>1, <1>1, <3>1, <3>2, <3>3
      <4>2. CASE k # o
        <5>1. Lists(k, history[k], all)
          BY <4>2, <1>1, <3>1, ListsTail
        <5> QED
          BY <4>2, <5>1, <1>1, <3>3
      <4> QED
        BY <4>1, <4>2
    <3> HIDE DEF kept, all
    <3> QED
      BY <1>1, <3>1, <3>3, <3>4, <3>5
  <2> QED
    BY <2>1, <2>2
<1> HIDE DEF kept, all, r
<1>6. \A k \in W!Keys : history'[k] = IF r.id = k THEN Append(kept[k], r) ELSE kept[k]
  BY <1>2, <1>5 DEF r
<1>7. history' \in [W!Keys -> Seq(W!Outcomes)] /\ results' \in Seq(W!Outcomes)
  BY <1>0, <1>2, <1>4, <1>5
<1>8. \A k \in W!Keys : Lists(k, history'[k], results')
  <2> SUFFICES ASSUME NEW k \in W!Keys PROVE Lists(k, history'[k], results')
    OBVIOUS
  <2>1. Lists(k, IF r.id = k THEN Append(kept[k], r) ELSE kept[k], Append(all, r))
    BY <1>0, <1>4, <1>5, ListsAppend
  <2> QED
    BY <2>1, <1>2, <1>6
<1>9. Len(results') <= MaxResults
  BY <1>0, <1>2, <1>4
<1> QED
  BY <1>7, <1>8, <1>9 DEF W!StoreAgrees, W!ListsResultsOf, Lists, ListsBy

LEMMA WorkersInit == W!Init => WorkersInv
<1> SUFFICES ASSUME W!Init PROVE WorkersInv
  OBVIOUS
<1> USE DEF W!Init
<1>1. W!TypeOK
  <2>1. /\ <<>> \in Seq(W!Outcomes) /\ <<>> \in Seq(W!Keys)
        /\ [enqueued |-> 0, succeeded |-> 0, dead |-> 0, retried |-> 0] \in Totals
    BY DEF Totals
  <2> QED
    BY <2>1, Types
<1>2. Cardinality(heap) = 0 /\ IsFiniteSet(heap)
  BY FS_EmptySet
<1>3. W!NoJobLost
  BY <1>2, JobsCounted DEF Running
<1>4. W!TrackedWhileRunning
  BY DEF W!TrackedWhileRunning
<1>5. W!StoreAgrees
  <2>1. 0 <= MaxResults /\ Len(results) = 0
    BY QueuesAssumption DEF W!WorkersAssumption
  <2>2. ASSUME NEW k \in W!Keys PROVE W!ListsResultsOf(k, history[k])
    <3>1. history[k] = <<>>
      OBVIOUS
    <3>2. [i \in 1..0 |-> 1] \in [1..0 -> 1..0]
      OBVIOUS
    <3>3. Len(<<>>) = 0
      OBVIOUS
    <3>4. W!ListsResultsOf(k, <<>>)
      <4>1. \A i : i \notin 1..0
        OBVIOUS
      <4> QED
        BY <2>1, <3>2, <3>3, <4>1 DEF W!ListsResultsOf
    <3> QED
      BY <3>1, <3>4
  <2> QED
    BY <2>1, <2>2 DEF W!StoreAgrees
<1>6. W!StepsInOrder /\ Numbered /\ Planned
  BY <1>2 DEF W!StepsInOrder, Numbered, Planned
<1> QED
  BY <1>1, <1>3, <1>4, <1>5, <1>6 DEF WorkersInv, WorkersSafe, W!WorkersSafe

\* An envelope for a job that is no pipeline step joins the heap.
LEMMA SubmitStep ==
    ASSUME WorkersInv, NEW id \in Ids, NEW name \in Names, NEW prio \in Priorities,
           W!Submit(id, name, prio)
    PROVE  WorkersInv'
<1> DEFINE e == [id |-> id, name |-> name, prio |-> prio, at |-> count]
<1>0. W!TypeOK /\ W!NoJobLost /\ Numbered /\ Planned /\ W!StepsInOrder
  BY DEF WorkersInv, WorkersSafe, W!WorkersSafe
<1>1. /\ heap' = heap \cup {e} /\ count' = count + 1 /\ count \in Nat
      /\ metrics' = [metrics EXCEPT !.enqueued = @ + 1]
      /\ UNCHANGED <<cur, tracked, busy, results, history, routed, began>>
  BY <1>0 DEF W!Submit, W!TypeOK
<1>2. e \in W!Envelopes /\ id \notin Steps
  BY <1>0, QueuesAssumption DEF W!Envelopes, W!WorkersAssumption, W!Keys, W!TypeOK
<1>3. e \notin heap
  BY <1>0, <1>1 DEF Numbered
<1>4. e.id = id /\ e.at = count
  OBVIOUS
<1> HIDE DEF e
<1>m. /\ metrics' \in Totals /\ metrics'.enqueued = metrics.enqueued + 1
      /\ metrics'.succeeded = metrics.succeeded /\ metrics'.dead = metrics.dead
      /\ metrics.succeeded \in Nat /\ metrics.dead \in Nat
  BY <1>0, <1>1, Types, TotalsStep
<1>5. W!TypeOK'
  BY <1>0, <1>1, <1>2, <1>m, Types
<1>6. IsFiniteSet(heap') /\ Cardinality(heap') = Cardinality(heap) + 1
      /\ Cardinality(heap) \in Nat
  BY <1>0, <1>1, <1>3, FS_AddElement, FS_CardinalityType DEF Numbered
<1>7. W!NoJobLost'
  BY <1>0, <1>1, <1>6, <1>m, JobsCounted DEF Running
<1>8. Numbered'
  <2>1. \A f \in heap : f.at \in Nat /\ f.at < count
    BY <1>0 DEF Numbered, W!TypeOK, W!Envelopes
  <2> QED
    BY <1>1, <1>4, <1>6, <2>1 DEF Numbered
<1>9. Planned'
  BY <1>0, <1>1, <1>2, <1>4 DEF Planned, W!Effective, W!Clamped
<1> QED
  BY <1>0, <1>1, <1>5, <1>7, <1>8, <1>9
  DEF WorkersInv, WorkersSafe, W!WorkersSafe, W!TrackedWhileRunning, W!StoreAgrees,
      W!ListsResultsOf, W!StepsInOrder

\* The priorities of the steps are clamped to those of a job, and keep their order.
LEMMA EffectivePriority ==
    /\ \A s \in Steps : W!Effective(s) \in 1..10
    /\ \A s, t \in Steps :
          StepPriority[s] <= StepPriority[t] => W!Effective(s) <= W!Effective(t)
<1>1. Base \in Int /\ \A s \in Steps : StepPriority[s] \in Int
  BY QueuesAssumption DEF W!WorkersAssumption
<1> QED
  BY <1>1 DEF W!Effective, W!Clamped

\* The steps of a plan join the heap with consecutive numbers, each after those it
\* depends on.
LEMMA PipelineStep ==
    ASSUME WorkersInv, W!SubmitPipeline PROVE WorkersInv'
<1>0. W!TypeOK /\ W!NoJobLost /\ Numbered /\ Planned /\ W!StepsInOrder
  BY DEF WorkersInv, WorkersSafe, W!WorkersSafe
<1> DEFINE n == Cardinality(Steps)
<1>1. PICK order \in W!Orders : W!IsPlan(order) /\ W!SubmitInOrder(order)
  BY DEF W!SubmitPipeline
<1>2. /\ n \in Nat /\ order \in [1..n -> Steps] /\ Len(order) = n /\ DOMAIN order = 1..n
  <2>1. n \in Nat
    BY QueuesAssumption, FS_CardinalityType, SameFinite DEF W!WorkersAssumption
  <2>2. order \in [1..n -> Steps]
    BY <1>1, SameFinite DEF W!Orders
  <2> QED
    BY <2>1, <2>2
<1> HIDE DEF n
<1> DEFINE env(i) == [id |-> order[i], name |-> StepName, prio |-> W!Effective(order[i]),
                      at |-> count + i - 1]
           new == {env(i) : i \in 1..n}
<1>3. /\ heap' = heap \cup new /\ count' = count + n /\ count \in Nat
      /\ metrics' = [metrics EXCEPT !.enqueued = @ + n]
      /\ UNCHANGED <<cur, tracked, busy, results, history, routed, began>>
      /\ \A e \in heap : e.id \notin Steps
      /\ StepName \in Names
  <2>1. \A e \in heap : e.id \notin Steps
    BY <1>1 DEF W!SubmitInOrder, W!Queued
  <2>2. StepName \in Names /\ count \in Nat
    BY <1>0, QueuesAssumption DEF W!TypeOK, W!WorkersAssumption
  <2> QED
    BY <1>1, <1>2, <2>1, <2>2 DEF W!SubmitInOrder
<1>4. \A i \in 1..n : /\ env(i).id = order[i] /\ env(i).at = count + i - 1
                       /\ env(i).prio = W!Effective(order[i])
                       /\ env(i) \in W!Envelopes
  BY <1>2, <1>3, EffectivePriority DEF W!Envelopes, W!Keys
<1> HIDE DEF env
<1>5. IsFiniteSet(new) /\ Cardinality(new) = n
  <2> DEFINE f == [i \in 1..n |-> env(i)]
  <2>1. f \in [1..n -> new]
    OBVIOUS
  <2>2. \A i, j \in 1..n : f[i] = f[j] => i = j
    <3> SUFFICES ASSUME NEW i \in 1..n, NEW j \in 1..n, env(i) = env(j) PROVE i = j
      OBVIOUS
    <3>1. count + i - 1 = count + j - 1
      BY <1>4
    <3> QED
      BY <3>1, <1>2, <1>3
  <2>3. \A e \in new : \E i \in 1..n : f[i] = e
    OBVIOUS
  <2>4. f \in Bijection(1..n, new)
    <3> HIDE DEF f, new
    <3> QED
      BY <2>1, <2>2, <2>3 DEF Bijection, Injection, IsInjective, Surjection
  <2>5. ExistsBijection(1..n, new)
    BY <2>4 DEF ExistsBijection
  <2>6. IsFiniteSet(1..n) /\ Cardinality(1..n) = n
    BY <1>2, FS_Interval
  <2> QED
    BY <2>5, <2>6, FS_Bijection
<1>6. heap \cap new = {}
  <2> SUFFICES ASSUME NEW i \in 1..n, env(i) \in heap PROVE FALSE
    OBVIOUS
  <2> QED
    BY <1>0, <1>2, <1>3, <1>4 DEF Numbered
<1>7. /\ IsFiniteSet(heap') /\ Cardinality(heap') = Cardinality(heap) + n
      /\ Cardinality(heap) \in Nat
  <2>1. IsFiniteSet(heap) /\ Cardinality(heap) \in Nat
    BY <1>0, FS_CardinalityType DEF Numbered
  <2>2. Cardinality(heap \cap new) = 0
    BY <1>6, FS_EmptySet
  <2>3. IsFiniteSet(heap \cup new)
        /\ Cardinality(heap \cup new)
             = Cardinality(heap) + Cardinality(new) - Cardinality(heap \cap new)
    BY <1>5, <2>1, FS_Union
  <2> HIDE DEF new
  <2> QED
    BY <1>2, <1>3, <1>5, <2>1, <2>2, <2>3
<1>m. /\ metrics' \in Totals /\ metrics'.enqueued = metrics.enqueued + n
      /\ metrics'.succeeded = metrics.succeeded /\ metrics'.dead = metrics.dead
      /\ metrics.succeeded \in Nat /\ metrics.dead \in Nat /\ metrics.enqueued \in Nat
  <2>1. metrics \in Totals /\ metrics' = [metrics EXCEPT !.enqueued = @ + n] /\ n \in Nat
    BY <1>0, <1>2, <1>3, Types
  <2> HIDE DEF new
  <2> QED
    BY <2>1, TotalsStep
<1>8. W!TypeOK'
  <2>1. new \subseteq W!Envelopes
    BY <1>4
  <2> HIDE DEF new
  <2> QED
    BY <1>0, <1>2, <1>3, <1>m, <2>1, Types
<1>9. W!NoJobLost'
  BY <1>0, <1>2, <1>3, <1>7, <1>m, JobsCounted DEF Running
<1>10. Numbered'
  <2>1. \A f \in heap : f.at \in Nat /\ f.at < count
    BY <1>0 DEF Numbered, W!TypeOK, W!Envelopes
  <2> QED
    BY <1>2, <1>3, <1>4, <1>7, <2>1 DEF Numbered
<1>11. Planned'
  <2> SUFFICES ASSUME NEW e \in heap', e.id \in Steps
               PROVE  /\ e.prio = W!Effective(e.id)
                      /\ \A d \in Deps[e.id] : \E g \in heap' : g.id = d /\ g.at < e.at
    BY <1>3 DEF Planned, W!Effective, W!Clamped
  <2>1. PICK i \in 1..n : e = env(i)
    BY <1>3
  <2>2. ASSUME NEW d \in Deps[order[i]] PROVE \E j \in 1..(i - 1) : order[j] = d
    <3>1. order[i] \in W!Ready({order[j] : j \in 1..(i - 1)})
      BY <1>1, <1>2 DEF W!IsPlan
    <3> QED
      BY <2>2, <3>1 DEF W!Ready
  <2>3. ASSUME NEW d \in Deps[e.id] PROVE \E g \in heap' : g.id = d /\ g.at < e.at
    <3>1. PICK j \in 1..(i - 1) : order[j] = d
      BY <1>4, <2>1, <2>2, <2>3
    <3>2. j \in 1..n /\ j < i /\ i \in Int
      BY <1>2
    <3>3. env(j) \in heap' /\ env(j).id = d /\ env(j).at < e.at
      BY <1>3, <1>4, <2>1, <3>1, <3>2
    <3> QED
      BY <3>3
  <2> QED
    BY <1>4, <2>1, <2>3
<1> QED
  BY <1>0, <1>3, <1>8, <1>9, <1>10, <1>11
  DEF WorkersInv, WorkersSafe, W!WorkersSafe, W!TrackedWhileRunning, W!StoreAgrees,
      W!ListsResultsOf, W!StepsInOrder

\* The envelope that leaves the heap is before every other, so a step's dependencies that
\* are no less urgent have begun.
LEMMA DequeueStep ==
    ASSUME WorkersInv, W!Dequeue PROVE WorkersInv'
<1>0. /\ W!TypeOK /\ W!NoJobLost /\ W!TrackedWhileRunning /\ W!StoreAgrees
      /\ W!StepsInOrder /\ Numbered /\ Planned
  BY DEF WorkersInv, WorkersSafe, W!WorkersSafe
<1>1. PICK e \in heap :
        /\ \A f \in heap \ {e} : W!Less(e, f)
        /\ heap' = heap \ {e}
        /\ began' = Append(began, e.id)
        /\ \/ /\ cur' = [env |-> e, attempt |-> 1]
              /\ tracked' = tracked \cup {e.id}
              /\ busy' = TRUE
              /\ UNCHANGED <<results, history, metrics>>
           \/ /\ W!Record(e.id, "dead", 1)
              /\ metrics' = [metrics EXCEPT !.dead = @ + 1]
              /\ UNCHANGED <<cur, tracked, busy>>
  BY DEF W!Dequeue
<1>2. UNCHANGED <<routed, count>> /\ cur = W!NotRunning
  BY DEF W!Dequeue
<1>3. /\ e \in W!Envelopes /\ e.id \in W!Keys /\ e.at \in Nat /\ e.prio \in Int
      /\ 1 \in 1..MaxAttempts
  BY <1>0, QueuesAssumption DEF W!TypeOK, W!Envelopes, W!WorkersAssumption
<1>4. /\ IsFiniteSet(heap') /\ Cardinality(heap') = Cardinality(heap) - 1
      /\ Cardinality(heap) \in Nat
  BY <1>0, <1>1, FS_RemoveElement, FS_CardinalityType DEF Numbered
<1>5. tracked = {} /\ busy = FALSE
  BY <1>0, <1>2 DEF W!TrackedWhileRunning
<1>6. [env |-> e, attempt |-> 1] # W!NotRunning
  BY DEF W!NotRunning
<1>7. /\ began \in Seq(W!Keys) /\ began' \in Seq(W!Keys) /\ Len(began) \in Nat
      /\ Len(began') = Len(began) + 1 /\ began'[Len(began) + 1] = e.id
      /\ \A i \in 1..Len(began) : began'[i] = began[i]
  BY <1>0, <1>1, <1>3, Types
<1>8. W!TypeOK' /\ W!NoJobLost' /\ W!TrackedWhileRunning' /\ W!StoreAgrees'
  <2>1. CASE /\ cur' = [env |-> e, attempt |-> 1]
             /\ tracked' = tracked \cup {e.id}
             /\ busy' = TRUE
             /\ UNCHANGED <<results, history, metrics>>
    <3>1. cur' \in [env : W!Envelopes, attempt : 1..MaxAttempts] /\ cur'.env = e
      BY <2>1, <1>3
    <3>2. W!TypeOK'
      BY <1>0, <1>1, <1>2, <1>3, <1>5, <1>7, <2>1, <3>1, Types
    <3>3. W!NoJobLost'
      <4>1. Running = 0 /\ Running' = 1 /\ metrics' = metrics
        BY <1>2, <1>6, <2>1 DEF Running
      <4>2. metrics.succeeded \in Nat /\ metrics.dead \in Nat
        BY <1>0, Types, TotalsStep
      <4> QED
        BY <1>0, <1>4, <4>1, <4>2, JobsCounted
    <3>4. W!TrackedWhileRunning'
      BY <1>5, <1>6, <2>1, <3>1 DEF W!TrackedWhileRunning, W!NotRunning
    <3>5. W!StoreAgrees'
      BY <1>0, <2>1 DEF W!StoreAgrees, W!ListsResultsOf
    <3> QED
      BY <3>2, <3>3, <3>4, <3>5
  <2>2. CASE /\ W!Record(e.id, "dead", 1)
             /\ metrics' = [metrics EXCEPT !.dead = @ + 1]
             /\ UNCHANGED <<cur, tracked, busy>>
    <3>1. /\ results' \in Seq(W!Outcomes) /\ history' \in [W!Keys -> Seq(W!Outcomes)]
          /\ W!StoreAgrees'
      BY <1>0, <1>3, <2>2, RecordStep DEF W!Statuses
    <3>2. W!TypeOK'
      BY <1>0, <1>1, <1>2, <1>7, <2>2, <3>1, Types, TotalsStep
    <3>3. W!NoJobLost'
      <4>1. Running = 0 /\ Running' = 0
        BY <1>2, <2>2 DEF Running
      <4>2. /\ metrics.succeeded \in Nat /\ metrics.dead \in Nat
            /\ metrics'.enqueued = metrics.enqueued
            /\ metrics'.succeeded = metrics.succeeded /\ metrics'.dead = metrics.dead + 1
        BY <1>0, <2>2, Types, TotalsStep
      <4> QED
        BY <1>0, <1>4, <4>1, <4>2, JobsCounted
    <3>4. W!TrackedWhileRunning'
      BY <1>0, <1>2, <2>2 DEF W!TrackedWhileRunning, W!NotRunning
    <3> QED
      BY <3>1, <3>2, <3>3, <3>4
  <2> QED
    BY <1>1, <2>1, <2>2
<1>9. Numbered'
  BY <1>0, <1>1, <1>2, <1>4 DEF Numbered
<1>10. Planned'
  <2> SUFFICES ASSUME NEW f \in heap', f.id \in Steps
               PROVE  /\ f.prio = W!Effective(f.id)
                      /\ \A d \in Deps[f.id] :
                           \/ \E j \in 1..Len(began') : began'[j] = d
                           \/ \E g \in heap' : g.id = d /\ g.at < f.at
    BY DEF Planned, W!Effective, W!Clamped
  <2>1. f.prio = W!Effective(f.id)
    BY <1>0, <1>1 DEF Planned
  <2>2. ASSUME NEW d \in Deps[f.id]
        PROVE  \/ \E j \in 1..Len(began') : began'[j] = d
               \/ \E g \in heap' : g.id = d /\ g.at < f.at
    <3>1. CASE \E j \in 1..Len(began) : began[j] = d
      BY <3>1, <1>7
    <3>2. ASSUME NEW g \in heap, g.id = d, g.at < f.at
          PROVE  \/ \E j \in 1..Len(began') : began'[j] = d
                 \/ \E h \in heap' : h.id = d /\ h.at < f.at
      BY <3>2, <1>1, <1>7
    <3> QED
      BY <1>0, <1>1, <3>1, <3>2 DEF Planned
  <2> QED
    BY <2>1, <2>2
<1>11. W!StepsInOrder'
  <2> SUFFICES ASSUME NEW i \in 1..Len(began'), began'[i] \in Steps, NEW d \in Deps[began'[i]],
                      StepPriority[d] <= StepPriority[began'[i]]
               PROVE  \E j \in 1..(i - 1) : began'[j] = d
    BY <1>7 DEF W!StepsInOrder
  <2>1. CASE i \in 1..Len(began)
    <3>1. \E j \in 1..(i - 1) : began[j] = d
      BY <1>0, <1>7, <2>1 DEF W!StepsInOrder
    <3> QED
      BY <3>1, <1>7, <2>1
  <2>2. CASE i = Len(began) + 1
    <3>1. e.id \in Steps /\ d \in Deps[e.id] /\ StepPriority[d] <= StepPriority[e.id]
      BY <1>7, <2>2
    <3>2. d \in Steps
      BY <3>1, QueuesAssumption DEF W!WorkersAssumption
    <3>3. ASSUME NEW g \in heap, g.id = d, g.at < e.at PROVE FALSE
      <4>1. g.prio = W!Effective(d) /\ e.prio = W!Effective(e.id)
        BY <1>0, <3>1, <3>2, <3>3 DEF Planned
      <4>2. g.prio <= e.prio /\ g.prio \in Int
        BY <3>1, <3>2, <4>1, EffectivePriority
      <4>3. g.at \in Nat /\ g # e
        BY <1>0, <1>3, <3>3 DEF W!TypeOK, W!Envelopes
      <4>4. W!Less(e, g)
        BY <1>1, <4>3
      <4> QED
        BY <1>3, <3>3, <4>2, <4>3, <4>4 DEF W!Less
    <3>4. \E j \in 1..Len(began) : began[j] = d
      BY <1>0, <3>1, <3>3 DEF Planned
    <3> QED
      BY <3>4, <1>7, <2>2
  <2> QED
    BY <1>7, <2>1, <2>2
<1> QED
  BY <1>8, <1>9, <1>10, <1>11 DEF WorkersInv, WorkersSafe, W!WorkersSafe

\* What an attempt ends with: a result is recorded, and the job runs on or leaves the
\* in-flight table.
LEMMA AttemptStep ==
    ASSUME WorkersInv, W!Succeed \/ W!Retry \/ W!Die PROVE WorkersInv'
<1>0. /\ W!TypeOK /\ W!NoJobLost /\ W!TrackedWhileRunning /\ W!StoreAgrees
      /\ W!StepsInOrder /\ Numbered /\ Planned
  BY DEF WorkersInv, WorkersSafe, W!WorkersSafe
<1>1. /\ cur # W!NotRunning /\ cur \in [env : W!Envelopes, attempt : 1..MaxAttempts]
      /\ cur.env.id \in W!Keys
      /\ UNCHANGED <<heap, routed, count, began>>
  <2>1. cur # W!NotRunning /\ UNCHANGED <<heap, routed, count, began>>
    BY DEF W!Succeed, W!Retry, W!Die
  <2>2. cur \in [env : W!Envelopes, attempt : 1..MaxAttempts]
    BY <1>0, <2>1, Types
  <2> QED
    BY <2>1, <2>2 DEF W!Envelopes
<1>2. tracked = {cur.env.id} /\ busy = TRUE
  BY <1>0, <1>1 DEF W!TrackedWhileRunning
<1>3. PICK status \in W!Statuses : W!Record(cur.env.id, status, cur.attempt)
  BY DEF W!Succeed, W!Retry, W!Die, W!Statuses
<1>4. /\ results' \in Seq(W!Outcomes) /\ history' \in [W!Keys -> Seq(W!Outcomes)]
      /\ W!StoreAgrees'
  BY <1>0, <1>1, <1>3, RecordStep
<1>5. Cardinality(heap) \in Nat /\ Cardinality(heap') = Cardinality(heap)
  BY <1>0, <1>1, FS_CardinalityType DEF Numbered
<1>6. W!TypeOK' /\ W!NoJobLost' /\ W!TrackedWhileRunning'
  <2>1. CASE W!Retry
    <3>1. /\ metrics' = [metrics EXCEPT !.retried = @ + 1]
          /\ cur' = [cur EXCEPT !.attempt = @ + 1] /\ cur.attempt < MaxAttempts
          /\ UNCHANGED <<tracked, busy>>
      BY <2>1 DEF W!Retry
    <3>2. /\ cur' \in [env : W!Envelopes, attempt : 1..MaxAttempts]
          /\ cur'.env = cur.env /\ cur'.attempt > 1
      BY <1>1, <3>1, QueuesAssumption DEF W!WorkersAssumption
    <3>3. cur' # W!NotRunning
      BY <3>2 DEF W!NotRunning
    <3>4. W!TypeOK'
      BY <1>0, <1>1, <1>4, <3>1, <3>2, Types, TotalsStep
    <3>5. W!NoJobLost'
      BY <1>0, <1>1, <1>5, <3>1, <3>3, JobsCounted, Types, TotalsStep DEF Running
    <3>6. W!TrackedWhileRunning'
      BY <1>2, <3>1, <3>2, <3>3 DEF W!TrackedWhileRunning, W!NotRunning
    <3> QED
      BY <3>4, <3>5, <3>6
  <2>2. CASE W!Succeed \/ W!Die
    <3>1. /\ \/ metrics' = [metrics EXCEPT !.succeeded = @ + 1]
             \/ metrics' = [metrics EXCEPT !.dead = @ + 1]
          /\ cur' = W!NotRunning
          /\ tracked' = tracked \ {cur.env.id}
          /\ busy' = FALSE
      BY <2>2 DEF W!Succeed, W!Die
    <3>2. /\ metrics' \in Totals /\ metrics.succeeded \in Nat /\ metrics.dead \in Nat
          /\ metrics'.enqueued = metrics.enqueued
          /\ metrics'.succeeded + metrics'.dead = metrics.succeeded + metrics.dead + 1
      <4>1. metrics \in Totals
        BY <1>0, Types
      <4>2. CASE metrics' = [metrics EXCEPT !.succeeded = @ + 1]
        <5>1. /\ metrics' \in Totals /\ metrics'.enqueued = metrics.enqueued
              /\ metrics'.succeeded = metrics.succeeded + 1 /\ metrics'.dead = metrics.dead
          BY <4>1, <4>2 DEF Totals
        <5>2. metrics.succeeded \in Nat /\ metrics.dead \in Nat
          BY <4>1, TotalsStep
        <5> QED
          BY <5>1, <5>2
      <4>3. CASE metrics' = [metrics EXCEPT !.dead = @ + 1]
        <5>1. /\ metrics' \in Totals /\ metrics'.enqueued = metrics.enqueued
              /\ metrics'.dead = metrics.dead + 1 /\ metrics'.succeeded = metrics.succeeded
          BY <4>1, <4>3 DEF Totals
        <5>2. metrics.succeeded \in Nat /\ metrics.dead \in Nat
          BY <4>1, TotalsStep
        <5> QED
          BY <5>1, <5>2
      <4> QED
        BY <3>1, <4>2, <4>3
    <3>3. W!TypeOK'
      <4>1. tracked' \subseteq W!Keys /\ busy' \in BOOLEAN
        BY <1>2, <3>1
      <4> QED
        BY <1>0, <1>1, <1>4, <3>1, <3>2, <4>1, Types
    <3>5. W!NoJobLost'
      <4>1. Running = 1 /\ Running' = 0
        BY <1>1, <3>1 DEF Running
      <4>2. metrics'.succeeded \in Nat /\ metrics'.dead \in Nat
        BY <3>2, TotalsStep
      <4> QED
        BY <1>0, <1>5, <3>2, <4>1, <4>2, JobsCounted
    <3>4. W!TrackedWhileRunning'
      BY <1>2, <3>1 DEF W!TrackedWhileRunning, W!NotRunning
    <3> QED
      BY <3>3, <3>4, <3>5
  <2> QED
    BY <2>1, <2>2
<1>7. W!StepsInOrder' /\ Numbered' /\ Planned'
  BY <1>0, <1>1 DEF W!StepsInOrder, Numbered, Planned, W!Effective, W!Clamped
<1> QED
  BY <1>4, <1>6, <1>7 DEF WorkersInv, WorkersSafe, W!WorkersSafe

LEMMA WorkersStep ==
    ASSUME WorkersInv, [W!Next]_workersVars PROVE WorkersInv'
<1>1. ASSUME NEW id \in Ids, NEW n \in Names, NEW p \in Priorities, W!Submit(id, n, p)
      PROVE  WorkersInv'
  BY <1>1, SubmitStep
<1>2. CASE W!SubmitPipeline
  BY <1>2, PipelineStep
<1>3. CASE W!Execute
  BY <1>3, DequeueStep, AttemptStep DEF W!Execute
<1>4. ASSUME \/ \E n \in Names : W!Deregister(n)
             \/ UNCHANGED workersVars
      PROVE  WorkersInv'
  <2>1. /\ UNCHANGED <<heap, cur, tracked, busy, results, history, metrics, count, began>>
        /\ routed' \subseteq routed
    BY <1>4 DEF W!Deregister, workersVars
  <2>2. W!TypeOK'
    BY <2>1, Types DEF WorkersInv, WorkersSafe, W!WorkersSafe
  <2> QED
    BY <2>1, <2>2
    DEF WorkersInv, WorkersSafe, W!WorkersSafe, W!NoJobLost, W!TrackedWhileRunning,
        W!StoreAgrees, W!ListsResultsOf, W!StepsInOrder, Numbered, Planned, W!Effective,
        W!Clamped, W!NotRunning
<1> QED
  BY <1>1, <1>2, <1>3, <1>4 DEF W!Next

\* Through retries, jobs without a handler, ids used again, a full result store and
\* pipelines the workers lose no job, their books agree, and a step that is not more urgent
\* than its dependency starts after it (workers/workers_runtime.py).
THEOREM WorkersKeepBooks == W!Spec => []WorkersSafe
<1>1. WorkersInv => WorkersSafe
  BY DEF WorkersInv
<1>2. W!Init /\ [][W!Next]_workersVars => []WorkersInv
  <2>1. WorkersInv /\ [W!Next]_workersVars => WorkersInv'
    BY WorkersStep
  <2> QED
    BY <2>1, WorkersInit, PTL
<1> QED
  BY <1>1, <1>2, PTL DEF W!Spec, W!vars, workersVars
================================================================================
