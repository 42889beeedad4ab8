------------------------------ MODULE IngestProofs ------------------------------
(***************************************************************************)
(* Theorems about the subsystems of Ingest, for every value of their       *)
(* constants.  Each has an inductive invariant over its own variables; the *)
(* steps of the other three leave those alone.                             *)
(***************************************************************************)
EXTENDS Ingest, FiniteSetTheorems, SequenceTheorems, TLAPS

--------------------------------------------------------------------------------
(* ReleaseGate: what the checks have left when a gate has come so far.        *)

N == Len(Steps)

\* The steps of a gate in the order of their results.
NameAt(k) == IF k <= N THEN Steps[k].name
             ELSE IF k = N + 1 THEN "proof_freshness"
             ELSE IF k = N + 2 THEN "readiness" ELSE "archive"

Trees   == [Gate!Inputs -> Nat \ {0}]
Entries == [name : Gate!Logs, passed : BOOLEAN, tree : Trees]
LogRows == [by : Gates \cup {None}, passed : BOOLEAN, tree : Trees]

Stages == {"idle", "moving", "steps", "collect", "draft", "freshness", "readiness", "archive",
           "rewrite", "publish", "report"}
Hashed == {"draft", "freshness", "readiness", "archive", "rewrite", "publish", "report"}
Drafted == Hashed \ {"draft"}

\* How many results a gate has.
Counted(r) ==
    /\ r.pc \in {"idle", "moving"} => Len(r.results) = 0
    /\ r.pc = "steps" => Len(r.results) < N
    /\ r.pc \in {"collect", "draft", "freshness"} => Len(r.results) = N
    /\ r.pc = "readiness" => Len(r.results) = N + 1
    /\ r.pc = "archive" => Len(r.results) = N + 2
    /\ r.pc \in {"rewrite", "publish", "report"} => Len(r.results) = N + 3

AllPassed(results) == \A k \in DOMAIN results : results[k].passed

\* The local state of main, in a tree v: the results so far have their names, are of trees up
\* to the one hashed, and a gate that says ok has passed them all.
SoundGate(r, v) ==
    /\ r = [pc |-> r.pc, todo |-> r.todo, results |-> r.results, tree |-> r.tree, ok |-> r.ok]
    /\ r.pc \in Stages /\ r.results \in Seq(Entries) /\ r.ok \in BOOLEAN
    /\ r.todo \subseteq Gate!Parts /\ r.tree \in Trees /\ Gate!Precedes(r.tree, v)
    /\ Counted(r)
    /\ \A k \in 1..Len(r.results) : /\ r.results[k].name = NameAt(k)
                                    /\ Gate!Precedes(r.results[k].tree, v)
    /\ r.pc \in Hashed =>
         \A k \in 1..Len(r.results) : k <= N => Gate!Precedes(r.results[k].tree, r.tree)
    /\ r.ok => r.pc = "report" /\ AllPassed(r.results)

GateTypes ==
    /\ tree \in Trees /\ starts \in 0..MaxStarts /\ overlap \in BOOLEAN
    /\ last \in Gates \cup {None}
    /\ gate = [g \in Gates |-> gate[g]]
    /\ \A g \in Gates : SoundGate(gate[g], tree)

DirTypes ==
    /\ dir = [logs |-> dir.logs, json |-> dir.json, manifest |-> dir.manifest,
              proof |-> dir.proof]
    /\ dir.logs \in [Gate!Logs -> LogRows]
    /\ dir.json.passed \in BOOLEAN
    /\ \A k \in DOMAIN dir.manifest : dir.manifest[k].name \in Gate!Logs
    /\ dir.json.passed =>
        /\ dir.json.results \in Seq(Entries) /\ Len(dir.json.results) = N + 3
        /\ AllPassed(dir.json.results)
        /\ \A k \in 1..N + 3 : dir.json.results[k].name = NameAt(k)

\* What gate g, alone in the directory, has written there.
Mine(g) ==
    LET r == gate[g] IN
    /\ ~dir.proof.passed
    /\ r.pc # "report" => ~dir.json.passed
    /\ r.pc = "report" => dir.json = [by |-> g, passed |-> r.ok, tree |-> r.tree,
                                      results |-> r.results]
    /\ \A k \in 1..Len(r.results) : k # N + 2 =>
        dir.logs[NameAt(k)] = [by |-> g, passed |-> r.results[k].passed, tree |-> r.results[k].tree]
    /\ r.pc \in Drafted => dir.json.tree = r.tree
    /\ \A k \in 1..Len(r.results) :
         k = N + 1 /\ r.results[k].passed => Gate!Kept(r.tree, r.results[k].tree)
    /\ Len(r.results) > N + 1 => dir.logs["readiness"].by = g
    /\ r.pc = "publish" /\ AllPassed(r.results) => dir.logs["readiness"].passed

\* Gates that never overlapped: at most one runs, and one past the archive has the directory.
OwnerHolds ==
    ~overlap =>
        /\ \A g, h \in Gates : Gate!Running(g) /\ Gate!Running(h) => g = h
        /\ \A g \in Gates : Gate!Running(g) /\ gate[g].pc # "moving" => g = last /\ Mine(g)

GateInv ==
    /\ GateTypes /\ DirTypes /\ OwnerHolds
    /\ Gate!NoStalePass /\ Gate!PassIsWhole /\ Gate!PassIsFresh /\ Gate!ReportsFollow

LEMMA GateConstants ==
    /\ N \in Nat /\ N > 0 /\ DOMAIN Steps = 1..N
    /\ None \notin Gates /\ MaxStarts \in Nat
    /\ \A k \in 1..N : Steps[k].name \in Gate!StepNames
    /\ \A k, l \in 1..N + 3 : NameAt(k) = NameAt(l) => k = l
    /\ \A k \in 1..N + 3 : NameAt(k) \in Gate!Logs
    /\ \A n \in Gate!Logs : \E k \in 1..N + 3 : NameAt(k) = n
    /\ NameAt(N + 1) = "proof_freshness" /\ NameAt(N + 2) = "readiness"
    /\ NameAt(N + 3) = "archive"
    /\ \A k \in 1..N : NameAt(k) = Steps[k].name /\ NameAt(k) \notin Gate!Closing
<1>1. Gate!ReleaseGateAssumption
  BY IngestAssumption
<1>2. /\ N \in Nat /\ N > 0 /\ DOMAIN Steps = 1..N
      /\ None \notin Gates /\ MaxStarts \in Nat
  BY <1>1 DEF Gate!ReleaseGateAssumption, N
<1>3. \A k \in 1..N : Steps[k].name \in Gate!StepNames
  BY <1>2 DEF Gate!StepNames
<1>4. /\ NameAt(N + 1) = "proof_freshness" /\ NameAt(N + 2) = "readiness"
      /\ NameAt(N + 3) = "archive"
      /\ \A k \in 1..N : NameAt(k) = Steps[k].name
  BY <1>2 DEF NameAt
<1>5. \A k \in 1..N : NameAt(k) \notin Gate!Closing
  BY <1>1, <1>3, <1>4 DEF Gate!ReleaseGateAssumption
<1>6. \A k \in 1..N + 3 : k \in 1..N \/ k = N + 1 \/ k = N + 2 \/ k = N + 3
  BY <1>2
<1>7. \A k \in 1..N + 3 : NameAt(k) \in Gate!Logs
  BY <1>3, <1>4, <1>6 DEF Gate!Logs, Gate!Closing
<1>8. \A n \in Gate!Logs : \E k \in 1..N + 3 : NameAt(k) = n
  <2>1. \A n \in Gate!StepNames : \E k \in 1..N : NameAt(k) = n
    BY <1>2, <1>4 DEF Gate!StepNames
  <2> QED
    BY <1>2, <1>4, <2>1 DEF Gate!Logs, Gate!Closing
<1>9. \A k, l \in 1..N + 3 : NameAt(k) = NameAt(l) => k = l
  <2>1. \A k, l \in 1..N : NameAt(k) = NameAt(l) => k = l
    BY <1>1, <1>2, <1>4 DEF Gate!ReleaseGateAssumption
  <2> QED
    BY <1>4, <1>5, <1>6, <2>1 DEF Gate!Closing
<1> QED
  BY <1>2, <1>3, <1>4, <1>5, <1>7, <1>8, <1>9

\* Listings in the order of their edits.
LEMMA Order ==
    /\ Gate!NoTree \in Trees
    /\ \A v \in Trees : Gate!Precedes(v, v) /\ Gate!Precedes(Gate!NoTree, v)
    /\ \A s, v, w \in Trees : Gate!Precedes(s, v) /\ Gate!Precedes(v, w) => Gate!Precedes(s, w)
    /\ \A v \in Trees, f \in Gate!Inputs :
        /\ [v EXCEPT ![f] = @ + 1] \in Trees
        /\ Gate!Precedes(v, [v EXCEPT ![f] = @ + 1])
BY DEF Trees, Gate!Precedes, Gate!NoTree

\* A gate that waits, has listed what it is to move, or begins its steps.
LEMMA FreshGate ==
    ASSUME NEW v \in Trees, NEW pc \in {"idle", "moving", "steps"},
           NEW todo \in SUBSET Gate!Parts,
           NEW s, s = [pc |-> pc, todo |-> todo, results |-> <<>>, tree |-> Gate!NoTree,
                       ok |-> FALSE]
    PROVE  SoundGate(s, v)
<1>1. /\ s.pc = pc /\ s.results = <<>> /\ s.tree = Gate!NoTree /\ s.ok = FALSE
      /\ s.todo = todo
      /\ s = [pc |-> s.pc, todo |-> s.todo, results |-> s.results, tree |-> s.tree, ok |-> s.ok]
  OBVIOUS
<1>2. <<>> \in Seq(Entries) /\ Len(<<>>) = 0
  OBVIOUS
<1>3. N \in Nat /\ N > 0
  BY GateConstants
<1>4. s.tree \in Trees /\ Gate!Precedes(s.tree, v)
  BY <1>1, Order
<1> QED
  BY <1>1, <1>2, <1>3, <1>4 DEF SoundGate, Counted, Stages, Hashed

LEMMA GateInit == Gate!Init => GateInv
<1> SUFFICES ASSUME Gate!Init PROVE GateInv
  OBVIOUS
<1>1. GateTypes
  <2>1. \A g \in Gates : gate[g] = Gate!Idle /\ SoundGate(Gate!Idle, Gate!NoTree)
    <3>1. SoundGate(Gate!Idle, Gate!NoTree)
      BY Order, FreshGate DEF Gate!Idle
    <3> QED
      BY <3>1 DEF Gate!Init
  <2>2. /\ gate = [g \in Gates |-> gate[g]]
        /\ tree \in Trees /\ tree = Gate!NoTree /\ last = None /\ overlap = FALSE /\ starts = 0
    BY Order DEF Gate!Init
  <2>3. 0 \in 0..MaxStarts
    BY GateConstants
  <2> QED
    BY <2>1, <2>2, <2>3 DEF GateTypes
<1>2. DirTypes
  <2>1. /\ dir = [logs |-> [n \in Gate!Logs |-> Gate!NoLog], json |-> Gate!NoProof,
                   manifest |-> <<>>, proof |-> Gate!NoLog]
        /\ Gate!NoProof.passed = FALSE /\ Gate!NoLog \in LogRows
    BY Order DEF Gate!Init, Gate!Empty, Gate!NoProof, Gate!NoLog, LogRows
  <2>2. dir.manifest = <<>> /\ \A k \in DOMAIN dir.manifest : FALSE
    BY <2>1
  <2> QED
    BY <2>1, <2>2 DEF DirTypes
<1>3. OwnerHolds
  BY DEF Gate!Init, OwnerHolds, Gate!Running, Gate!Idle
<1> QED
  BY <1>1, <1>2, <1>3 DEF GateInv, Gate!Init, Gate!Empty, Gate!NoProof, Gate!NoLog,
     Gate!NoStalePass, Gate!PassIsWhole, Gate!PassIsFresh, Gate!ReportsFollow

\* What follows the step under way.
Onward(r) == CASE r.pc = "steps"     -> IF Len(r.results) + 1 = N THEN "collect" ELSE "steps"
               [] r.pc = "freshness" -> "readiness"
               [] r.pc = "readiness" -> "archive"
               [] r.pc = "archive"   -> "rewrite"

\* The result of one more step.
LEMMA Recorded ==
    ASSUME NEW v \in Trees, NEW r, SoundGate(r, v), r.pc \in {"steps", "freshness", "readiness", "archive"},
           NEW entry \in Entries, entry.name = NameAt(Len(r.results) + 1),
           Gate!Precedes(entry.tree, v),
           NEW then, then = Onward(r),
           NEW s, s = [r EXCEPT !.results = Append(r.results, entry), !.pc = then]
    PROVE  /\ SoundGate(s, v)
           /\ s.results \in Seq(Entries) /\ Len(s.results) = Len(r.results) + 1
           /\ s.results[Len(r.results) + 1] = entry
           /\ \A k \in 1..Len(r.results) : s.results[k] = r.results[k]
           /\ s.tree = r.tree /\ s.pc = then /\ s.ok = FALSE
<1>c. N \in Nat /\ N > 0
  BY GateConstants
<1>1. /\ s = [pc |-> then, todo |-> r.todo, results |-> Append(r.results, entry),
              tree |-> r.tree, ok |-> r.ok]
      /\ s.results = Append(r.results, entry) /\ s.pc = then /\ s.tree = r.tree /\ s.ok = r.ok
      /\ s.todo = r.todo /\ r.todo \subseteq Gate!Parts
      /\ r.results \in Seq(Entries) /\ r.ok \in BOOLEAN /\ ~r.ok
      /\ r.tree \in Trees /\ Gate!Precedes(r.tree, v)
  BY DEF SoundGate
<1>2. /\ s.results \in Seq(Entries) /\ Len(r.results) \in Nat
      /\ Len(s.results) = Len(r.results) + 1
      /\ s.results[Len(r.results) + 1] = entry
      /\ \A k \in 1..Len(r.results) : s.results[k] = r.results[k]
  BY <1>1, AppendProperties, LenProperties
<1>3. Counted(s) /\ then \in Stages
  BY <1>c, <1>1, <1>2 DEF SoundGate, Counted, Stages, Onward
<1>4. \A k \in 1..Len(s.results) : k \in 1..Len(r.results) \/ k = Len(r.results) + 1
  BY <1>2
<1>5. \A k \in 1..Len(s.results) : /\ s.results[k].name = NameAt(k)
                                   /\ Gate!Precedes(s.results[k].tree, v)
  BY <1>2, <1>4 DEF SoundGate
<1>6. then \in Hashed => r.pc \in Hashed /\ Len(r.results) >= N
  BY <1>c, <1>1, <1>2 DEF SoundGate, Counted, Hashed, Onward
<1>7. then \in Hashed =>
        \A k \in 1..Len(s.results) : k <= N => Gate!Precedes(s.results[k].tree, s.tree)
  BY <1>c, <1>1, <1>2, <1>4, <1>6 DEF SoundGate
<1>8. SoundGate(s, v)
  BY <1>1, <1>2, <1>3, <1>5, <1>7 DEF SoundGate
<1> QED
  BY <1>1, <1>2, <1>8

\* A gate while an input is edited.
LEMMA GateKept ==
    ASSUME NEW v \in Trees, NEW w \in Trees, Gate!Precedes(v, w), NEW r, SoundGate(r, v)
    PROVE  SoundGate(r, w)
<1>1. Gate!Precedes(r.tree, w)
  BY Order DEF SoundGate
<1>2. \A k \in 1..Len(r.results) : Gate!Precedes(r.results[k].tree, w)
  <2>1. \A k \in 1..Len(r.results) : r.results[k].tree \in Trees
    <3>1. \A k \in 1..Len(r.results) : r.results[k] \in Entries
      BY DEF SoundGate
    <3> QED
      BY <3>1 DEF Entries
  <2> QED
    BY <2>1, Order DEF SoundGate
<1> QED
  BY <1>1, <1>2 DEF SoundGate

LEMMA GateTypesStep == ASSUME GateTypes, DirTypes, [Gate!Next]_gateVars PROVE GateTypes'
<1>c. N \in Nat /\ N > 0 /\ None \notin Gates /\ MaxStarts \in Nat
  BY GateConstants
<1>1. ASSUME NEW g \in Gates, NEW r, SoundGate(r, tree), gate' = [gate EXCEPT ![g] = r],
             tree' = tree
      PROVE  /\ gate' = [x \in Gates |-> gate'[x]]
             /\ \A x \in Gates : SoundGate(gate'[x], tree')
  <2> HIDE DEF SoundGate
  <2> QED
    BY <1>1 DEF GateTypes
<1>2. ASSUME NEW g \in Gates, NEW r, SoundGate(r, tree), gate' = [gate EXCEPT ![g] = r],
             UNCHANGED <<tree, last, overlap, starts>>
      PROVE  GateTypes'
  BY <1>1, <1>2 DEF GateTypes
<1>3. ASSUME NEW f \in Gate!Inputs, Gate!Edit(f) PROVE GateTypes'
  <2>1. tree' \in Trees /\ Gate!Precedes(tree, tree')
    BY <1>3, Order DEF GateTypes, Gate!Edit
  <2>2. \A g \in Gates : SoundGate(gate[g], tree')
    BY <2>1, GateKept DEF GateTypes
  <2> HIDE DEF SoundGate
  <2> QED
    BY <1>3, <2>1, <2>2 DEF GateTypes, Gate!Edit
<1>4. ASSUME NEW g \in Gates, Gate!Start(g) \/ Gate!Clear(g) \/ \E part \in Gate!Parts : Gate!Move(g, part)
      PROVE  GateTypes'
  <2> DEFINE r == gate[g]
  <2>0. SoundGate(r, tree) /\ tree \in Trees
    BY DEF GateTypes
  <2>r. r = [pc |-> r.pc, todo |-> r.todo, results |-> r.results, tree |-> r.tree, ok |-> r.ok]
    BY <2>0 DEF SoundGate
  <2>1. CASE Gate!Start(g)
    <3>0. PICK s : s = [Gate!Idle EXCEPT !.pc = "moving", !.todo = Gate!Present]
      OBVIOUS
    <3>1. s = [pc |-> "moving", todo |-> Gate!Present, results |-> <<>>,
               tree |-> Gate!NoTree, ok |-> FALSE]
      BY <3>0 DEF Gate!Idle
    <3>2. Gate!Present \in SUBSET Gate!Parts
      BY DEF Gate!Present, Gate!Parts
    <3>3. SoundGate(s, tree)
      BY <2>0, <3>1, <3>2, FreshGate
    <3>4. /\ gate' = [x \in Gates |-> gate'[x]]
          /\ \A x \in Gates : SoundGate(gate'[x], tree')
      BY <1>1, <2>1, <3>0, <3>3 DEF Gate!Start
    <3>5. starts' \in 0..MaxStarts /\ last' = last /\ overlap' \in BOOLEAN /\ tree' = tree
      BY <1>c, <2>1 DEF Gate!Start, GateTypes
    <3> QED
      BY <3>4, <3>5 DEF GateTypes
  <2>2. CASE Gate!Clear(g)
    <3>0. PICK s : s = [r EXCEPT !.pc = "steps"]
      OBVIOUS
    <3>1. s = [pc |-> "steps", todo |-> r.todo, results |-> r.results, tree |-> r.tree, ok |-> r.ok]
      <4> HIDE DEF r
      <4> QED
        BY <2>r, <3>0
    <3>2. SoundGate(s, tree)
      BY <1>c, <2>0, <2>2, <3>1 DEF SoundGate, Counted, Stages, Hashed, Gate!Clear
    <3>3. gate' = [gate EXCEPT ![g] = s] /\ tree' = tree
      BY <2>2, <3>0 DEF Gate!Clear, GateTypes
    <3>4. /\ gate' = [x \in Gates |-> gate'[x]]
          /\ \A x \in Gates : SoundGate(gate'[x], tree')
      BY <1>1, <3>2, <3>3
    <3>5. starts' = starts /\ last' \in Gates /\ overlap' = overlap /\ tree' = tree
      BY <2>2 DEF Gate!Clear
    <3> QED
      BY <3>4, <3>5 DEF GateTypes
  <2>3. ASSUME NEW part \in Gate!Parts, Gate!Move(g, part) PROVE GateTypes'
    <3>0. PICK s : s = [r EXCEPT !.todo = @ \ {part}]
      OBVIOUS
    <3>1. s = [pc |-> r.pc, todo |-> r.todo \ {part}, results |-> r.results, tree |-> r.tree,
               ok |-> r.ok]
      <4> HIDE DEF r
      <4> QED
        BY <2>r, <3>0
    <3>2. SoundGate(s, tree)
      BY <2>0, <3>1 DEF SoundGate, Counted
    <3>3. gate' = [gate EXCEPT ![g] = s] /\ UNCHANGED <<tree, last, overlap, starts>>
      BY <2>3, <3>0 DEF Gate!Move, GateTypes
    <3> QED
      BY <1>2, <3>2, <3>3
  <2> QED
    BY <1>4, <2>1, <2>2, <2>3
<1>5. ASSUME NEW g \in Gates, NEW name, NEW passed \in BOOLEAN, NEW then,
             Gate!Record(g, name, passed, then), name = NameAt(Len(gate[g].results) + 1),
             gate[g].pc \in {"steps", "freshness", "archive"},
             then = Onward(gate[g])
      PROVE  GateTypes'
  <2> DEFINE r == gate[g]
             entry == Gate!Entry(name, Gate!Log(g, passed))
             s == [r EXCEPT !.results = Append(r.results, entry), !.pc = then]
  <2>1. SoundGate(r, tree) /\ tree \in Trees
    BY DEF GateTypes
  <2>2. Len(r.results) + 1 \in 1..N + 3
    BY <1>c, <1>5, <2>1, LenProperties DEF SoundGate, Counted
  <2>3. entry \in Entries /\ entry.name = NameAt(Len(r.results) + 1) /\ Gate!Precedes(entry.tree, tree)
    BY <1>5, <2>1, <2>2, GateConstants, Order DEF Gate!Entry, Gate!Log, Entries
  <2>a. Onward(r) = then /\ r.pc \in {"steps", "freshness", "readiness", "archive"}
    BY <1>5
  <2>4. SoundGate(s, tree)
    <3> HIDE DEF r, entry
    <3> QED
      BY <2>a, <2>1, <2>3, Recorded
  <2>5. gate' = [gate EXCEPT ![g] = s] /\ UNCHANGED <<tree, last, overlap, starts>>
    BY <1>5 DEF Gate!Record, GateTypes
  <2> QED
    BY <1>2, <2>4, <2>5
<1>6. ASSUME NEW g \in Gates, Gate!Step(g) PROVE GateTypes'
  <2>1. Len(gate[g].results) + 1 \in 1..N /\ gate[g].pc = "steps"
    BY <1>c, <1>6, LenProperties DEF GateTypes, SoundGate, Counted, Gate!Step
  <2>2. PICK passed \in BOOLEAN : Gate!Record(g, Steps[Len(gate[g].results) + 1].name, passed,
                    IF Len(gate[g].results) + 1 = N THEN "collect" ELSE "steps")
    BY <1>6 DEF Gate!Step, N
  <2>3. NameAt(Len(gate[g].results) + 1) = Steps[Len(gate[g].results) + 1].name
    BY <2>1, GateConstants
  <2> QED
    BY <1>5, <2>1, <2>2, <2>3 DEF Onward
<1>7. ASSUME NEW g \in Gates, Gate!Freshness(g) PROVE GateTypes'
  <2>1. Len(gate[g].results) = N /\ gate[g].pc = "freshness"
    BY <1>c, <1>7 DEF GateTypes, SoundGate, Counted, Gate!Freshness
  <2> DEFINE passed == dir.json.by # None /\ Gate!Kept(dir.json.tree, tree)
  <2>2. Gate!Record(g, "proof_freshness", passed, "readiness") /\ passed \in BOOLEAN
    BY <1>7 DEF Gate!Freshness
  <2> HIDE DEF passed
  <2> QED
    BY <1>5, <2>1, <2>2, GateConstants DEF Onward
<1>8. ASSUME NEW g \in Gates, Gate!Archive(g) PROVE GateTypes'
  <2>1. Len(gate[g].results) = N + 2 /\ gate[g].pc = "archive"
    BY <1>c, <1>8 DEF GateTypes, SoundGate, Counted, Gate!Archive
  <2>2. PICK passed \in BOOLEAN : Gate!Record(g, "archive", passed, "rewrite")
    BY <1>8 DEF Gate!Archive
  <2>3. N + 2 + 1 = N + 3
    BY <1>c
  <2> QED
    BY <1>5, <2>1, <2>2, <2>3, GateConstants DEF Onward
<1>9. ASSUME NEW g \in Gates, Gate!Readiness(g) PROVE GateTypes'
  <2> DEFINE r == gate[g]
             entry == Gate!Entry("readiness", [Gate!Log(g, FALSE) EXCEPT !.passed = TRUE])
             s == [r EXCEPT !.results = Append(r.results, entry), !.pc = "archive"]
  <2>0. SoundGate(r, tree) /\ tree \in Trees
    BY DEF GateTypes
  <2>1. SoundGate(r, tree) /\ tree \in Trees /\ r.pc = "readiness" /\ Len(r.results) = N + 1
    BY <1>9 DEF GateTypes, Gate!Readiness, SoundGate, Counted
  <2>2. N + 1 + 1 = N + 2 /\ N + 2 \in 1..N + 3
    BY <1>c
  <2>3. entry \in Entries /\ entry.name = NameAt(Len(r.results) + 1) /\ Gate!Precedes(entry.tree, tree)
    BY <2>1, <2>2, GateConstants, Order DEF Gate!Entry, Gate!Log, Entries
  <2>4. Onward(r) = "archive" /\ r.pc \in {"steps", "freshness", "readiness", "archive"}
    BY <2>1 DEF Onward
  <2>5. SoundGate(s, tree)
    <3> HIDE DEF r, entry
    <3>1. ASSUME NEW then, then = "archive",
                 NEW q, q = [r EXCEPT !.results = Append(r.results, entry), !.pc = then]
          PROVE  SoundGate(q, tree)
      BY <2>0, <2>3, <2>4, <3>1, Recorded
    <3> QED
      BY <3>1
  <2>6. gate' = [gate EXCEPT ![g] = s] /\ UNCHANGED <<tree, last, overlap, starts>>
    BY <1>9 DEF Gate!Readiness, GateTypes
  <2> QED
    BY <1>2, <2>5, <2>6
<1>10. ASSUME NEW g \in Gates,
              Gate!Collect(g) \/ Gate!Draft(g) \/ Gate!Rewrite(g) \/ Gate!Publish(g)
       PROVE  GateTypes'
  <2> DEFINE r == gate[g]
  <2>1. SoundGate(r, tree) /\ tree \in Trees
    BY DEF GateTypes
  <2>r. r = [pc |-> r.pc, todo |-> r.todo, results |-> r.results, tree |-> r.tree, ok |-> r.ok]
    BY <2>1 DEF SoundGate
  <2>2. CASE Gate!Collect(g)
    <3>0. PICK s : s = [r EXCEPT !.pc = "draft", !.tree = tree]
      OBVIOUS
    <3>1. s = [pc |-> "draft", todo |-> r.todo, results |-> r.results, tree |-> tree, ok |-> r.ok]
      <4> HIDE DEF r
      <4> QED
        BY <2>r, <3>0
    <3>2. SoundGate(s, tree)
      BY <1>c, <2>1, <2>2, <3>1, Order DEF SoundGate, Counted, Stages, Hashed, Gate!Collect
    <3>3. gate' = [gate EXCEPT ![g] = s] /\ UNCHANGED <<tree, last, overlap, starts>>
      BY <2>2, <3>0 DEF Gate!Collect, GateTypes
    <3> QED
      BY <1>2, <3>2, <3>3
  <2>3. CASE Gate!Draft(g)
    <3> DEFINE s == [r EXCEPT !.pc = "freshness"]
    <3>2. SoundGate(s, tree)
      BY <1>c, <2>1, <2>3 DEF SoundGate, Counted, Stages, Hashed, Gate!Draft
    <3>3. gate' = [gate EXCEPT ![g] = s] /\ UNCHANGED <<tree, last, overlap, starts>>
      BY <2>3 DEF Gate!Draft, GateTypes
    <3> QED
      BY <1>2, <3>2, <3>3
  <2>4. CASE Gate!Rewrite(g)
    <3> DEFINE s == [r EXCEPT !.pc = "publish"]
    <3>2. SoundGate(s, tree)
      BY <1>c, <2>1, <2>4 DEF SoundGate, Counted, Stages, Hashed, Gate!Rewrite
    <3>3. gate' = [gate EXCEPT ![g] = s] /\ UNCHANGED <<tree, last, overlap, starts>>
      BY <2>4 DEF Gate!Rewrite, GateTypes
    <3> QED
      BY <1>2, <3>2, <3>3
  <2>5. CASE Gate!Publish(g)
    <3>0. PICK s : s = [r EXCEPT !.pc = "report", !.ok = Gate!Passed(g)]
      OBVIOUS
    <3>1. /\ s = [pc |-> "report", todo |-> r.todo, results |-> r.results, tree |-> r.tree,
                  ok |-> Gate!Passed(g)]
          /\ Gate!Passed(g) \in BOOLEAN
      <4>1. s = [pc |-> "report", todo |-> r.todo, results |-> r.results, tree |-> r.tree,
                 ok |-> Gate!Passed(g)]
        <5> HIDE DEF r
        <5> QED
          BY <2>r, <3>0
      <4>2. Gate!Passed(g) \in BOOLEAN
        BY DEF Gate!Passed
      <4> QED
        BY <4>1, <4>2
    <3>2. Gate!Passed(g) => AllPassed(r.results)
      BY DEF Gate!Passed, AllPassed
    <3>3. SoundGate(s, tree)
      BY <1>c, <2>1, <2>5, <3>1, <3>2 DEF SoundGate, Counted, Stages, Hashed, Gate!Publish
    <3>4. gate' = [gate EXCEPT ![g] = s] /\ UNCHANGED <<tree, last, overlap, starts>>
      BY <2>5, <3>0 DEF Gate!Publish, GateTypes
    <3> QED
      BY <1>2, <3>3, <3>4
  <2> QED
    BY <1>10, <2>2, <2>3, <2>4, <2>5
<1>11. ASSUME NEW g \in Gates, Gate!Report(g) \/ Gate!Die(g) PROVE GateTypes'
  <2>1. SoundGate(Gate!Idle, tree)
    <3>1. {} \in SUBSET Gate!Parts
      OBVIOUS
    <3> QED
      BY <3>1, FreshGate DEF GateTypes, Gate!Idle
  <2>2. gate' = [gate EXCEPT ![g] = Gate!Idle] /\ UNCHANGED <<tree, last, overlap, starts>>
    BY <1>11 DEF Gate!Report, Gate!Die
  <2> QED
    BY <1>2, <2>1, <2>2
<1>12. CASE UNCHANGED gateVars
  BY <1>12 DEF gateVars, GateTypes
<1> QED
  BY <1>3, <1>4, <1>6, <1>7, <1>8, <1>9, <1>10, <1>11, <1>12 DEF Gate!Next

--------------------------------------------------------------------------------
(* What the steps write in the directory.                                    *)

\* A manifest names logs.
LEMMA ManifestNames ==
    ASSUME NEW results \in Seq(Entries)
    PROVE  \A k \in DOMAIN Gate!Manifest(results) : Gate!Manifest(results)[k].name \in Gate!Logs
<1>1. \A k \in DOMAIN results : results[k].name \in Gate!Logs
  <2>1. \A k \in DOMAIN results : results[k] \in Entries
    OBVIOUS
  <2> QED
    BY <2>1 DEF Entries
<1> QED
  BY <1>1 DEF Gate!Manifest

\* A log written.
LEMMA LogWritten ==
    ASSUME DirTypes, NEW name \in Gate!Logs, NEW log \in LogRows,
           dir' = [dir EXCEPT !.logs[name] = log]
    PROVE  /\ DirTypes'
           /\ dir'.json = dir.json /\ dir'.manifest = dir.manifest /\ dir'.proof = dir.proof
           /\ dir'.logs[name] = log
           /\ \A n \in Gate!Logs : n # name => dir'.logs[n] = dir.logs[n]
<1>1. dir = [logs |-> dir.logs, json |-> dir.json, manifest |-> dir.manifest, proof |-> dir.proof]
  BY DEF DirTypes
<1>2. /\ dir'.json = dir.json /\ dir'.manifest = dir.manifest /\ dir'.proof = dir.proof
      /\ dir'.logs = [dir.logs EXCEPT ![name] = log]
      /\ dir' = [logs |-> dir'.logs, json |-> dir'.json, manifest |-> dir'.manifest,
                 proof |-> dir'.proof]
  BY <1>1
<1>3. dir.logs \in [Gate!Logs -> LogRows]
  BY DEF DirTypes
<1>4. /\ dir'.logs \in [Gate!Logs -> LogRows] /\ dir'.logs[name] = log
      /\ \A n \in Gate!Logs : n # name => dir'.logs[n] = dir.logs[n]
  BY <1>2, <1>3
<1> QED
  BY <1>2, <1>4 DEF DirTypes

\* What a passed release_gate.json says of its results.
LEMMA JsonWhole ==
    ASSUME DirTypes', dir'.json.passed
    PROVE  /\ \A k \in DOMAIN dir'.json.results : dir'.json.results[k].passed
           /\ Gate!Logs = {dir'.json.results[k].name : k \in DOMAIN dir'.json.results}
           /\ DOMAIN dir'.json.results = 1..N + 3
<1>1. /\ dir'.json.results \in Seq(Entries) /\ Len(dir'.json.results) = N + 3
      /\ AllPassed(dir'.json.results)
      /\ \A k \in 1..N + 3 : dir'.json.results[k].name = NameAt(k)
  BY DEF DirTypes
<1>2. DOMAIN dir'.json.results = 1..N + 3
  BY <1>1, LenProperties
<1>3. Gate!Logs = {NameAt(k) : k \in 1..N + 3}
  BY GateConstants
<1> QED
  BY <1>1, <1>2, <1>3 DEF AllPassed

\* A step of the one running gate, past the archive or its last.
LEMMA OwnerStep ==
    ASSUME OwnerHolds, GateTypes, NEW g \in Gates, Gate!Running(g),
           gate[g].pc # "moving" \/ ~Gate!Running(g)',
           UNCHANGED <<last, overlap>>,
           \A h \in Gates \ {g} : gate'[h] = gate[h],
           ~overlap => (Gate!Running(g)' => Mine(g)')
    PROVE  OwnerHolds'
<1> SUFFICES ASSUME ~overlap, NEW h \in Gates, Gate!Running(h)'
             PROVE  h = g /\ h = last /\ Mine(h)'
  BY DEF OwnerHolds
<1>1. CASE h = g
  BY <1>1 DEF OwnerHolds
<1>2. CASE h # g
  BY <1>2 DEF OwnerHolds, Gate!Running
<1> QED
  BY <1>1, <1>2

\* A proof that does not pass.
LEMMA NoPass ==
    ASSUME DirTypes', ~overlap' => ~dir'.json.passed /\ ~dir'.proof.passed
    PROVE  (Gate!NoStalePass /\ Gate!PassIsWhole /\ Gate!PassIsFresh /\ Gate!ReportsFollow)'
<1>1. Gate!NoStalePass' /\ Gate!PassIsFresh' /\ Gate!ReportsFollow'
  BY DEF Gate!NoStalePass, Gate!PassIsFresh, Gate!ReportsFollow
<1>2. Gate!PassIsWhole'
  BY JsonWhole DEF Gate!PassIsWhole
<1> QED
  BY <1>1, <1>2

\* A step of a gate that leaves release_gate.json and the reports as they are, before it is
\* at its end.
LEMMA RecordStep ==
    ASSUME GateInv, GateTypes', NEW g \in Gates, gate[g].pc \in {"steps", "freshness", "archive"},
           NEW name, NEW passed \in BOOLEAN, NEW then, Gate!Record(g, name, passed, then),
           name = NameAt(Len(gate[g].results) + 1), Len(gate[g].results) + 1 \in 1..N + 3,
           Len(gate[g].results) + 1 # N + 2, then # "publish", then # "report",
           then \in Drafted <=> gate[g].pc \in Drafted,
           Len(gate[g].results) = N /\ passed => Gate!Kept(gate[g].tree, tree) \/ overlap
    PROVE  GateInv'
<1> DEFINE r == gate[g]
           entry == Gate!Entry(name, Gate!Log(g, passed))
           log == [by |-> g, passed |-> passed, tree |-> tree]
<1>1. /\ gate'[g] = [r EXCEPT !.results = Append(r.results, entry), !.pc = then]
      /\ \A h \in Gates \ {g} : gate'[h] = gate[h]
      /\ dir' = [dir EXCEPT !.logs[name] = log]
      /\ UNCHANGED <<tree, last, overlap, starts>>
  BY DEF Gate!Record, GateInv, GateTypes, Gate!Log
<1>2. name \in Gate!Logs /\ log \in LogRows
  BY GateConstants DEF LogRows, GateInv, GateTypes
<1>3. /\ DirTypes'
      /\ dir'.json = dir.json /\ dir'.manifest = dir.manifest /\ dir'.proof = dir.proof
      /\ dir'.logs[name] = log
      /\ \A n \in Gate!Logs : n # name => dir'.logs[n] = dir.logs[n]
  BY <1>1, <1>2, LogWritten DEF GateInv
<1>4. /\ r.results \in Seq(Entries) /\ Len(r.results) \in Nat
      /\ r = [pc |-> r.pc, todo |-> r.todo, results |-> r.results, tree |-> r.tree, ok |-> r.ok]
  BY LenProperties DEF GateInv, GateTypes, SoundGate
<1>5. entry = [name |-> name, passed |-> passed, tree |-> tree] /\ entry \in Entries
  BY <1>2 DEF Gate!Entry, Gate!Log, Entries, GateInv, GateTypes
<1>6. /\ gate'[g].results = Append(r.results, entry) /\ gate'[g].tree = r.tree
      /\ gate'[g].pc = then
  <2> HIDE DEF entry
  <2> QED
    BY <1>1, <1>4
<1>7. /\ Len(gate'[g].results) = Len(r.results) + 1
      /\ gate'[g].results[Len(r.results) + 1] = entry
      /\ \A k \in 1..Len(r.results) : gate'[g].results[k] = r.results[k]
  BY <1>4, <1>5, <1>6, AppendProperties
<1>8. Gate!Running(g) /\ r.pc # "report" /\ r.pc # "publish" /\ r.pc # "moving"
  BY DEF Gate!Running
<1>9. ~overlap => ~dir.json.passed /\ ~dir.proof.passed
  BY <1>8 DEF GateInv, OwnerHolds, Mine
<1>10. ASSUME ~overlap PROVE Mine(g)'
  <2>1. Mine(g)
    BY <1>8, <1>10 DEF GateInv, OwnerHolds
  <2>2. \A k \in 1..Len(r.results) + 1 : k \in 1..Len(r.results) \/ k = Len(r.results) + 1
    BY <1>4
  <2>3. \A k \in 1..Len(r.results) : NameAt(k) # name /\ NameAt(k) \in Gate!Logs
    <3>1. \A k, l \in 1..N + 3 : NameAt(k) = NameAt(l) => k = l
      BY GateConstants
    <3>2. \A k \in 1..N + 3 : NameAt(k) \in Gate!Logs
      BY GateConstants
    <3>3. \A k \in 1..Len(r.results) : k \in 1..N + 3 /\ k # Len(r.results) + 1
      BY <1>4, GateConstants
    <3> QED
      BY <3>1, <3>2, <3>3
  <2>4. \A k \in 1..Len(gate'[g].results) : k # N + 2 =>
          dir'.logs[NameAt(k)] = [by |-> g, passed |-> gate'[g].results[k].passed,
                                  tree |-> gate'[g].results[k].tree]
    <3>1. \A k \in 1..Len(r.results) : k # N + 2 =>
            dir.logs[NameAt(k)] = [by |-> g, passed |-> r.results[k].passed,
                                   tree |-> r.results[k].tree]
      BY <2>1 DEF Mine
    <3>2. \A k \in 1..Len(r.results) : dir'.logs[NameAt(k)] = dir.logs[NameAt(k)]
      BY <1>3, <2>3
    <3>3. dir'.logs[NameAt(Len(r.results) + 1)] = [by |-> g, passed |-> entry.passed,
                                                   tree |-> entry.tree]
      BY <1>3, <1>5
    <3> HIDE DEF entry, log
    <3> QED
      BY <1>7, <2>2, <3>1, <3>2, <3>3
  <2>5. then \in Drafted => dir'.json.tree = gate'[g].tree
    BY <1>3, <1>6, <2>1 DEF Mine
  <2>6. \A k \in 1..Len(gate'[g].results) :
          k = N + 1 /\ gate'[g].results[k].passed =>
              Gate!Kept(gate'[g].tree, gate'[g].results[k].tree)
    BY <1>4, <1>5, <1>6, <1>7, <1>10, <2>1, <2>2, GateConstants DEF Mine
  <2>7. Len(gate'[g].results) > N + 1 => dir'.logs["readiness"].by = g
    <3>1. Len(gate'[g].results) > N + 1 => Len(r.results) > N + 1
      BY <1>4, <1>7, GateConstants
    <3>2. name # "readiness" /\ "readiness" \in Gate!Logs
      BY GateConstants
    <3> QED
      BY <1>3, <2>1, <3>1, <3>2 DEF Mine
  <2> QED
    BY <1>3, <1>6, <1>9, <1>10, <2>4, <2>5, <2>6, <2>7 DEF Mine
<1>11. OwnerHolds'
  BY <1>1, <1>8, <1>10, OwnerStep DEF GateInv
<1>12. (Gate!NoStalePass /\ Gate!PassIsWhole /\ Gate!PassIsFresh /\ Gate!ReportsFollow)'
  <2>1. ~overlap' => ~dir'.json.passed /\ ~dir'.proof.passed
    BY <1>1, <1>3, <1>9
  <2> QED
    BY <1>3, <2>1, NoPass
<1> QED
  BY <1>3, <1>11, <1>12 DEF GateInv

\* A step of a running gate, short of its end, that leaves no pass behind.
LEMMA QuietStep ==
    ASSUME GateInv, DirTypes', NEW g \in Gates, Gate!Running(g), gate[g].pc \notin {"report", "moving"},
           UNCHANGED <<last, overlap>>,
           \A h \in Gates \ {g} : gate'[h] = gate[h],
           dir'.json.passed => dir.json.passed, dir'.proof.passed => dir.proof.passed,
           ~overlap => (Mine(g) => Mine(g)')
    PROVE  /\ OwnerHolds'
           /\ (Gate!NoStalePass /\ Gate!PassIsWhole /\ Gate!PassIsFresh /\ Gate!ReportsFollow)'
<1>1. ~overlap => Mine(g)
  BY DEF GateInv, OwnerHolds
<1>2. OwnerHolds'
  BY <1>1, OwnerStep DEF GateInv
<1>3. ~overlap' => ~dir'.json.passed /\ ~dir'.proof.passed
  BY <1>1 DEF Mine
<1> QED
  BY <1>2, <1>3, NoPass

\* A gate that is killed; whatever is in the directory stays.
LEMMA DieStep ==
    ASSUME GateInv, NEW g \in Gates, Gate!Running(g), gate' = [gate EXCEPT ![g] = Gate!Idle],
           UNCHANGED <<dir, last, torn, overlap>>
    PROVE  /\ DirTypes' /\ OwnerHolds'
           /\ (Gate!NoStalePass /\ Gate!PassIsWhole /\ Gate!PassIsFresh /\ Gate!ReportsFollow)'
<1>1. ~Gate!Running(g)' /\ \A h \in Gates \ {g} : gate'[h] = gate[h]
  BY DEF GateInv, GateTypes, Gate!Running, Gate!Idle
<1>2. OwnerHolds'
  BY <1>1, OwnerStep DEF GateInv
<1>3. DirTypes'
  BY DEF GateInv, DirTypes
<1> QED
  BY <1>2, <1>3 DEF GateInv, Gate!NoStalePass, Gate!PassIsWhole, Gate!PassIsFresh,
     Gate!ReportsFollow

\* The checks, the freshness check and the validation of the archive.
LEMMA CheckSteps ==
    ASSUME GateInv, GateTypes', NEW g \in Gates,
           Gate!Step(g) \/ Gate!Freshness(g) \/ Gate!Archive(g)
    PROVE  GateInv'
<1>c. N \in Nat /\ N > 0
  BY GateConstants
<1>1. CASE Gate!Step(g)
  <2>0. SoundGate(gate[g], tree)
    BY DEF GateInv, GateTypes
  <2>1. Len(gate[g].results) + 1 \in 1..N /\ gate[g].pc = "steps"
    BY <1>c, <1>1, <2>0, LenProperties DEF SoundGate, Counted, Gate!Step
  <2>2. PICK passed \in BOOLEAN : Gate!Record(g, Steps[Len(gate[g].results) + 1].name, passed,
                    IF Len(gate[g].results) + 1 = N THEN "collect" ELSE "steps")
    BY <1>1 DEF Gate!Step, N
  <2>3. NameAt(Len(gate[g].results) + 1) = Steps[Len(gate[g].results) + 1].name
    BY <2>1, GateConstants
  <2>4. ASSUME NEW then, then = IF Len(gate[g].results) + 1 = N THEN "collect" ELSE "steps"
        PROVE  /\ then # "publish" /\ then # "report"
               /\ then \in Drafted <=> gate[g].pc \in Drafted
    BY <2>1, <2>4 DEF Drafted, Hashed
  <2>5. /\ Len(gate[g].results) + 1 \in 1..N + 3 /\ Len(gate[g].results) + 1 # N + 2
        /\ Len(gate[g].results) # N
    BY <1>c, <2>1
  <2> QED
    BY <2>1, <2>2, <2>3, <2>4, <2>5, RecordStep
<1>2. CASE Gate!Freshness(g)
  <2>1. Len(gate[g].results) = N /\ gate[g].pc = "freshness"
    BY <1>c, <1>2 DEF GateInv, GateTypes, SoundGate, Counted, Gate!Freshness
  <2>2. ASSUME NEW passed, passed = (dir.json.by # None /\ Gate!Kept(dir.json.tree, tree))
        PROVE  /\ Gate!Record(g, "proof_freshness", passed, "readiness") /\ passed \in BOOLEAN
               /\ passed => Gate!Kept(gate[g].tree, tree) \/ overlap
    <3>1. Gate!Record(g, "proof_freshness", passed, "readiness") /\ passed \in BOOLEAN
      BY <1>2, <2>2 DEF Gate!Freshness
    <3>2. ~overlap => Mine(g)
      BY <2>1 DEF GateInv, OwnerHolds, Gate!Running
    <3>3. ~overlap => dir.json.tree = gate[g].tree
      BY <2>1, <3>2 DEF Mine, Drafted, Hashed
    <3> QED
      BY <2>2, <3>1, <3>3
  <2>3. /\ "readiness" \in Drafted /\ "freshness" \in Drafted
        /\ N + 1 \in 1..N + 3 /\ N + 1 # N + 2
    BY <1>c DEF Drafted, Hashed
  <2> QED
    BY <2>1, <2>2, <2>3, GateConstants, RecordStep
<1>3. CASE Gate!Archive(g)
  <2>1. Len(gate[g].results) = N + 2 /\ gate[g].pc = "archive"
    BY <1>c, <1>3 DEF GateInv, GateTypes, SoundGate, Counted, Gate!Archive
  <2>2. PICK passed \in BOOLEAN : Gate!Record(g, "archive", passed, "rewrite")
    BY <1>3 DEF Gate!Archive
  <2>3. /\ "archive" \in Drafted /\ "rewrite" \in Drafted
        /\ (N + 2) + 1 = N + 3 /\ N + 3 \in 1..N + 3 /\ N + 3 # N + 2 /\ N + 2 # N
    BY <1>c DEF Drafted, Hashed
  <2> QED
    BY <2>1, <2>2, <2>3, GateConstants, RecordStep
<1> QED
  BY <1>1, <1>2, <1>3

\* The hash of the inputs, and the first release_gate.json.
LEMMA DraftSteps ==
    ASSUME GateInv, GateTypes', NEW g \in Gates, Gate!Collect(g) \/ Gate!Draft(g)
    PROVE  GateInv'
<1>c. N \in Nat /\ N > 0
  BY GateConstants
<1> DEFINE r == gate[g]
<1>r. /\ SoundGate(r, tree)
      /\ r = [pc |-> r.pc, todo |-> r.todo, results |-> r.results, tree |-> r.tree, ok |-> r.ok]
  BY DEF GateInv, GateTypes, SoundGate
<1>1. CASE Gate!Collect(g)
  <2>1. /\ r.pc = "collect" /\ Len(r.results) = N
        /\ gate' = [gate EXCEPT ![g] = [r EXCEPT !.pc = "draft", !.tree = tree]]
        /\ UNCHANGED <<dir, tree, last, overlap, starts>>
    BY <1>1, <1>r DEF Gate!Collect, SoundGate, Counted, GateInv, GateTypes
  <2>2. /\ gate'[g].pc = "draft" /\ gate'[g].results = r.results
        /\ \A h \in Gates \ {g} : gate'[h] = gate[h]
    BY <1>r, <2>1 DEF GateInv, GateTypes
  <2>3. ~overlap => (Mine(g) => Mine(g)')
    <3> SUFFICES ASSUME Mine(g) PROVE Mine(g)'
      OBVIOUS
    <3> HIDE DEF r
    <3>1. r = gate[g]
      BY DEF r
    <3> QED
      BY <1>c, <2>1, <2>2, <3>1 DEF Mine, Drafted, Hashed
  <2>4. DirTypes'
    BY <2>1 DEF GateInv, DirTypes
  <2> QED
    BY <2>1, <2>2, <2>3, <2>4, QuietStep DEF Gate!Running, GateInv
<1>2. CASE Gate!Draft(g)
  <2>1. /\ r.pc = "draft" /\ Len(r.results) = N
        /\ gate' = [gate EXCEPT ![g] = [r EXCEPT !.pc = "freshness"]]
        /\ UNCHANGED <<tree, last, overlap, starts>>
    BY <1>2, <1>r DEF Gate!Draft, SoundGate, Counted, GateInv, GateTypes
  <2>2. /\ gate'[g].pc = "freshness" /\ gate'[g].results = r.results /\ gate'[g].tree = r.tree
        /\ \A h \in Gates \ {g} : gate'[h] = gate[h]
    BY <1>r, <2>1 DEF GateInv, GateTypes
  <2>3. /\ dir'.logs = dir.logs /\ dir'.proof = dir.proof /\ dir'.manifest = dir.manifest
        /\ dir'.json = [by |-> g, passed |-> FALSE, tree |-> r.tree, results |-> r.results]
        /\ dir' = [logs |-> dir'.logs, json |-> dir'.json, manifest |-> dir'.manifest,
                   proof |-> dir'.proof]
    BY <1>2 DEF Gate!Draft, GateInv, DirTypes
  <2>4. DirTypes'
    BY <2>3 DEF GateInv, DirTypes
  <2>5. ~overlap => (Mine(g) => Mine(g)')
    <3> SUFFICES ASSUME Mine(g) PROVE Mine(g)'
      OBVIOUS
    <3> HIDE DEF r
    <3>1. r = gate[g]
      BY DEF r
    <3>2. dir'.json.tree = r.tree /\ ~dir'.json.passed
      BY <2>3
    <3> QED
      BY <1>c, <2>1, <2>2, <2>3, <3>1, <3>2 DEF Mine, Drafted, Hashed
  <2> QED
    BY <2>1, <2>2, <2>3, <2>4, <2>5, QuietStep DEF Gate!Running, GateInv
<1> QED
  BY <1>1, <1>2

\* The readiness that is blocked still, with the reports that say so.
LEMMA ReadinessStep ==
    ASSUME GateInv, GateTypes', NEW g \in Gates, Gate!Readiness(g) PROVE GateInv'
<1>c. N \in Nat /\ N > 0
  BY GateConstants
<1> DEFINE r == gate[g]
           log == [by |-> g, passed |-> FALSE, tree |-> tree]
           entry == [name |-> "readiness", passed |-> TRUE, tree |-> tree]
<1>r. /\ SoundGate(r, tree)
      /\ r = [pc |-> r.pc, todo |-> r.todo, results |-> r.results, tree |-> r.tree, ok |-> r.ok]
  BY DEF GateInv, GateTypes, SoundGate
<1>1. /\ r.pc = "readiness" /\ Len(r.results) = N + 1 /\ r.results \in Seq(Entries)
      /\ gate' = [gate EXCEPT ![g] = [r EXCEPT !.results = Append(r.results, entry),
                                               !.pc = "archive"]]
      /\ UNCHANGED <<tree, last, overlap, starts>>
  BY <1>r DEF Gate!Readiness, Gate!Entry, Gate!Log, SoundGate, Counted, GateInv, GateTypes
<1>2. entry \in Entries /\ log \in LogRows /\ "readiness" \in Gate!Logs
  BY GateConstants DEF Entries, LogRows, GateInv, GateTypes
<1>3. /\ dir'.logs = [dir.logs EXCEPT !["readiness"] = log] /\ dir'.proof = log
      /\ dir'.json = dir.json /\ dir'.manifest = Gate!Manifest(r.results)
      /\ dir' = [logs |-> dir'.logs, json |-> dir'.json, manifest |-> dir'.manifest,
                 proof |-> dir'.proof]
  BY DEF Gate!Readiness, Gate!Log, GateInv, DirTypes
<1>4. /\ dir'.logs["readiness"] = log
      /\ \A n \in Gate!Logs : n # "readiness" => dir'.logs[n] = dir.logs[n]
      /\ DirTypes'
  <2>1. dir.logs \in [Gate!Logs -> LogRows]
    BY DEF GateInv, DirTypes
  <2> HIDE DEF log
  <2>2. dir'.logs \in [Gate!Logs -> LogRows]
    BY <1>2, <1>3, <2>1
  <2>3. \A k \in DOMAIN dir'.manifest : dir'.manifest[k].name \in Gate!Logs
    BY <1>1, <1>3, <1>r, ManifestNames DEF SoundGate
  <2> QED
    BY <1>2, <1>3, <2>1, <2>2, <2>3 DEF GateInv, DirTypes
<1>5. /\ gate'[g].pc = "archive" /\ gate'[g].results = Append(r.results, entry)
      /\ gate'[g].tree = r.tree
      /\ \A h \in Gates \ {g} : gate'[h] = gate[h]
  <2> HIDE DEF entry
  <2> QED
    BY <1>r, <1>1 DEF GateInv, GateTypes
<1>6. /\ Len(gate'[g].results) = N + 2
      /\ \A k \in 1..N + 1 : gate'[g].results[k] = r.results[k]
  BY <1>c, <1>1, <1>2, <1>5, AppendProperties
<1>7. ~overlap => (Mine(g) => Mine(g)')
  <2> SUFFICES ASSUME Mine(g) PROVE Mine(g)'
    OBVIOUS
  <2>1. \A k \in 1..N + 1 : NameAt(k) \in Gate!Logs /\ NameAt(k) # "readiness"
    <3>1. \A k, l \in 1..N + 3 : NameAt(k) = NameAt(l) => k = l
      BY GateConstants
    <3>2. \A k \in 1..N + 3 : NameAt(k) \in Gate!Logs
      BY GateConstants
    <3> QED
      BY <1>c, <3>1, <3>2, GateConstants
  <2>2. \A k \in 1..N + 1 :
          dir'.logs[NameAt(k)] = [by |-> g, passed |-> gate'[g].results[k].passed,
                                  tree |-> gate'[g].results[k].tree]
    <3>1. \A k \in 1..N + 1 : k # N + 2 /\ dir'.logs[NameAt(k)] = dir.logs[NameAt(k)]
      BY <1>c, <1>4, <2>1
    <3>2. \A k \in 1..N + 1 : k # N + 2 =>
            dir.logs[NameAt(k)] = [by |-> g, passed |-> r.results[k].passed,
                                   tree |-> r.results[k].tree]
      BY <1>1 DEF Mine
    <3> QED
      BY <1>6, <3>1, <3>2
  <2>3. \A k \in 1..N + 2 : k # N + 2 => k \in 1..N + 1
    BY <1>c
  <2>4. dir'.json.tree = r.tree /\ ~dir'.json.passed /\ ~dir'.proof.passed
    BY <1>1, <1>3 DEF Mine, Drafted, Hashed
  <2>5. \A k \in 1..N + 2 : k = N + 1 /\ gate'[g].results[k].passed =>
          Gate!Kept(r.tree, gate'[g].results[k].tree)
    BY <1>c, <1>1, <1>6 DEF Mine
  <2>6. dir'.logs["readiness"].by = g
    BY <1>4
  <2> QED
    BY <1>5, <1>6, <2>2, <2>3, <2>4, <2>5, <2>6 DEF Mine
<1> QED
  BY <1>1, <1>3, <1>4, <1>5, <1>7, QuietStep DEF Gate!Running, GateInv

\* Where all results of a gate alone in the directory have passed, nothing blocks the
\* manifest made of them.
LEMMA Unblocks ==
    ASSUME GateInv, NEW g \in Gates, gate[g].pc \in {"rewrite", "publish"}, Mine(g)
    PROVE  /\ AllPassed(gate[g].results) => Gate!Unblocked(Gate!Manifest(gate[g].results))
           /\ \A k \in 1..N + 3 :
                /\ gate[g].results[k].name = NameAt(k)
                /\ dir.logs[NameAt(k)].by = g
                /\ k # N + 2 => dir.logs[NameAt(k)].passed = gate[g].results[k].passed
           /\ DOMAIN gate[g].results = 1..N + 3
<1>c. /\ N \in Nat /\ N > 0 /\ None \notin Gates
      /\ NameAt(N + 2) = "readiness" /\ NameAt(N + 3) = "archive"
  BY GateConstants
<1> DEFINE results == gate[g].results
           manifest == Gate!Manifest(results)
<1>1. /\ Len(results) = N + 3 /\ DOMAIN results = 1..N + 3
      /\ \A k \in 1..N + 3 : results[k].name = NameAt(k)
  BY LenProperties DEF GateInv, GateTypes, SoundGate, Counted
<1>2. \A k \in 1..N + 3 :
        /\ dir.logs[NameAt(k)].by = g
        /\ k # N + 2 => dir.logs[NameAt(k)].passed = results[k].passed
  <2>1. \A k \in 1..N + 3 : k # N + 2 =>
          dir.logs[NameAt(k)] = [by |-> g, passed |-> results[k].passed, tree |-> results[k].tree]
    BY <1>1 DEF Mine
  <2>2. dir.logs["readiness"].by = g
    BY <1>c, <1>1 DEF Mine
  <2>3. dir.logs[NameAt(N + 2)].by = g
    BY <1>c, <2>2
  <2> HIDE DEF results
  <2>4. ASSUME NEW k \in 1..N + 3, k # N + 2
        PROVE  dir.logs[NameAt(k)].by = g /\ dir.logs[NameAt(k)].passed = results[k].passed
    <3>1. dir.logs[NameAt(k)] = [by |-> g, passed |-> results[k].passed,
                                 tree |-> results[k].tree]
      BY <2>1, <2>4
    <3> QED
      BY <3>1
  <2> QED
    BY <2>3, <2>4
<1>3. /\ DOMAIN manifest = 1..N + 3
      /\ \A k \in 1..N + 3 : /\ manifest[k].name = NameAt(k)
                             /\ manifest[k].passed = results[k].passed
                             /\ manifest[k].log = dir.logs[NameAt(k)]
  BY <1>1 DEF Gate!Manifest
<1>4. \A k \in 1..N + 3 : manifest[k].log # Gate!NoLog
  BY <1>c, <1>2, <1>3 DEF Gate!NoLog
<1>5. N + 2 \in 1..N + 3 /\ N + 3 \in 1..N + 3
  BY <1>c
<1> HIDE DEF manifest
<1>6. AllPassed(results) => Gate!Unblocked(manifest)
  <2>1. manifest[N + 2].name = "readiness" /\ manifest[N + 3].name = "archive"
    BY <1>c, <1>3, <1>5
  <2>2. AllPassed(results) => \A k \in 1..N + 3 : manifest[k].passed
    BY <1>1, <1>3 DEF AllPassed
  <2> HIDE DEF results
  <2> QED
    BY <1>3, <1>4, <1>5, <2>1, <2>2 DEF Gate!Unblocked
<1> QED
  BY <1>1, <1>2, <1>6 DEF manifest

\* The readiness again.
LEMMA RewriteStep ==
    ASSUME GateInv, GateTypes', NEW g \in Gates, Gate!Rewrite(g) PROVE GateInv'
<1>c. N \in Nat /\ N > 0
  BY GateConstants
<1> DEFINE r == gate[g]
           b == Gate!Unblocked(Gate!Manifest(r.results))
           log == [by |-> g, passed |-> b, tree |-> tree]
<1>r. /\ SoundGate(r, tree)
      /\ r = [pc |-> r.pc, todo |-> r.todo, results |-> r.results, tree |-> r.tree, ok |-> r.ok]
  BY DEF GateInv, GateTypes, SoundGate
<1>1. /\ r.pc = "rewrite" /\ Len(r.results) = N + 3
      /\ gate' = [gate EXCEPT ![g] = [r EXCEPT !.pc = "publish"]]
      /\ UNCHANGED <<tree, last, overlap, starts>>
  BY <1>r DEF Gate!Rewrite, SoundGate, Counted, GateInv, GateTypes
<1>2. log \in LogRows /\ "readiness" \in Gate!Logs
  BY GateConstants DEF LogRows, GateInv, GateTypes, Gate!Unblocked
<1>3. /\ dir'.logs = [dir.logs EXCEPT !["readiness"] = log] /\ dir'.proof = dir.proof
      /\ dir'.json = dir.json /\ dir'.manifest = Gate!Manifest(r.results)
      /\ dir' = [logs |-> dir'.logs, json |-> dir'.json, manifest |-> dir'.manifest,
                 proof |-> dir'.proof]
  <2> HIDE DEF b
  <2>1. dir' = [dir EXCEPT !.manifest = Gate!Manifest(r.results), !.logs["readiness"] = log]
    BY DEF Gate!Rewrite, Gate!Log, b
  <2>2. dir = [logs |-> dir.logs, json |-> dir.json, manifest |-> dir.manifest,
               proof |-> dir.proof]
    BY DEF GateInv, DirTypes
  <2> HIDE DEF log
  <2> QED
    BY <2>1, <2>2
<1>4. /\ dir'.logs["readiness"] = log
      /\ \A n \in Gate!Logs : n # "readiness" => dir'.logs[n] = dir.logs[n]
      /\ DirTypes'
  <2>1. dir.logs \in [Gate!Logs -> LogRows]
    BY DEF GateInv, DirTypes
  <2> HIDE DEF log
  <2>2. dir'.logs \in [Gate!Logs -> LogRows]
    BY <1>2, <1>3, <2>1
  <2>3. \A k \in DOMAIN dir'.manifest : dir'.manifest[k].name \in Gate!Logs
    BY <1>1, <1>3, <1>r, ManifestNames DEF SoundGate
  <2> QED
    BY <1>2, <1>3, <2>1, <2>2, <2>3 DEF GateInv, DirTypes
<1>5. /\ gate'[g].pc = "publish" /\ gate'[g].results = r.results /\ gate'[g].tree = r.tree
      /\ \A h \in Gates \ {g} : gate'[h] = gate[h]
  BY <1>r, <1>1 DEF GateInv, GateTypes
<1>7. ~overlap => (Mine(g) => Mine(g)')
  <2> SUFFICES ASSUME Mine(g) PROVE Mine(g)'
    OBVIOUS
  <2>1. \A k \in 1..N + 3 : k # N + 2 => NameAt(k) \in Gate!Logs /\ NameAt(k) # "readiness"
    <3>1. \A k, l \in 1..N + 3 : NameAt(k) = NameAt(l) => k = l
      BY GateConstants
    <3>2. \A k \in 1..N + 3 : NameAt(k) \in Gate!Logs
      BY GateConstants
    <3>3. N + 2 \in 1..N + 3 /\ NameAt(N + 2) = "readiness"
      BY <1>c, GateConstants
    <3> QED
      BY <3>1, <3>2, <3>3
  <2>2. \A k \in 1..N + 3 : k # N + 2 =>
          dir'.logs[NameAt(k)] = [by |-> g, passed |-> gate'[g].results[k].passed,
                                  tree |-> gate'[g].results[k].tree]
    <3>1. \A k \in 1..N + 3 : k # N + 2 => dir'.logs[NameAt(k)] = dir.logs[NameAt(k)]
      BY <1>4, <2>1
    <3>2. \A k \in 1..N + 3 : k # N + 2 =>
            dir.logs[NameAt(k)] = [by |-> g, passed |-> r.results[k].passed,
                                   tree |-> r.results[k].tree]
      BY <1>1 DEF Mine
    <3> QED
      BY <1>5, <3>1, <3>2
  <2>3. dir'.json.tree = r.tree /\ ~dir'.json.passed /\ ~dir'.proof.passed
    BY <1>1, <1>3 DEF Mine, Drafted, Hashed
  <2>4. \A k \in 1..N + 3 : k = N + 1 /\ r.results[k].passed =>
          Gate!Kept(r.tree, r.results[k].tree)
    BY <1>1 DEF Mine
  <2>5. dir'.logs["readiness"].by = g /\ (AllPassed(r.results) => dir'.logs["readiness"].passed)
    BY <1>1, <1>4, Unblocks
  <2> HIDE DEF r
  <2> QED
    BY <1>1, <1>5, <2>2, <2>3, <2>4, <2>5 DEF Mine
<1> QED
  BY <1>1, <1>3, <1>4, <1>5, <1>7, QuietStep DEF Gate!Running, GateInv

\* A final proof that passes is whole and fresh when no other gate was started.
LEMMA PassStands ==
    ASSUME GateInv, NEW g \in Gates, gate[g].pc = "publish", Mine(g), Gate!Passed(g),
           dir'.logs = dir.logs, dir'.manifest = Gate!Manifest(gate[g].results),
           dir'.json = Gate!Proof(g, TRUE)
    PROVE  /\ \A k \in DOMAIN dir'.manifest :
                /\ dir'.manifest[k].log = dir'.logs[dir'.manifest[k].name]
                /\ dir'.manifest[k].log.by = dir'.json.by /\ dir'.manifest[k].log.passed
           /\ \A k \in DOMAIN dir'.json.results :
                LET entry == dir'.json.results[k] IN
                IF entry.name = "proof_freshness" THEN Gate!Kept(dir'.json.tree, entry.tree)
                ELSE entry.name \in Gate!StepNames => Gate!Precedes(entry.tree, dir'.json.tree)
<1>c. N \in Nat /\ N > 0 /\ None \notin Gates /\ NameAt(N + 2) = "readiness"
  BY GateConstants
<1> DEFINE results == gate[g].results
           manifest == Gate!Manifest(results)
<1>1. /\ DOMAIN results = 1..N + 3 /\ Len(results) = N + 3
      /\ \A k \in 1..N + 3 : /\ results[k].name = NameAt(k)
                             /\ dir.logs[NameAt(k)].by = g
                             /\ k # N + 2 => dir.logs[NameAt(k)].passed = results[k].passed
  BY Unblocks DEF GateInv, GateTypes, SoundGate, Counted
<1>2. AllPassed(results)
  BY DEF Gate!Passed, AllPassed
<1>3. /\ DOMAIN manifest = 1..N + 3
      /\ \A k \in 1..N + 3 : manifest[k].name = NameAt(k) /\ manifest[k].log = dir.logs[NameAt(k)]
  BY <1>1 DEF Gate!Manifest
<1>4. dir.logs[NameAt(N + 2)].passed
  BY <1>c, <1>2 DEF Mine
<1>5. \A k \in 1..N + 3 : dir.logs[NameAt(k)].passed
  <2> HIDE DEF results
  <2>1. ASSUME NEW k \in 1..N + 3, k # N + 2 PROVE dir.logs[NameAt(k)].passed
    BY <1>1, <1>2, <2>1 DEF AllPassed
  <2> QED
    BY <1>4, <2>1
<1>6. dir'.json.by = g /\ dir'.json.results = results /\ dir'.json.tree = gate[g].tree
  BY DEF Gate!Proof
<1>7. \A k \in DOMAIN dir'.manifest :
        /\ dir'.manifest[k].log = dir'.logs[dir'.manifest[k].name]
        /\ dir'.manifest[k].log.by = dir'.json.by /\ dir'.manifest[k].log.passed
  <2> HIDE DEF manifest, results
  <2>1. dir'.manifest = manifest
    BY DEF manifest, results
  <2> QED
    <3>1. ASSUME NEW k \in 1..N + 3
          PROVE  /\ manifest[k].log = dir'.logs[manifest[k].name]
                 /\ manifest[k].log.by = g /\ manifest[k].log.passed
      BY <1>1, <1>3, <1>5
    <3> QED
      BY <1>3, <1>6, <2>1, <3>1
<1>8. ASSUME NEW k \in 1..N + 3
      PROVE  IF results[k].name = "proof_freshness"
             THEN Gate!Kept(gate[g].tree, results[k].tree)
             ELSE results[k].name \in Gate!StepNames =>
                    Gate!Precedes(results[k].tree, gate[g].tree)
  <2>1. results[k].name = NameAt(k) /\ results[k].passed
    BY <1>1, <1>2 DEF AllPassed
  <2>2. CASE k \in 1..N
    <3>1. NameAt(k) # "proof_freshness"
      BY <2>2, GateConstants DEF Gate!Closing
    <3>2. Gate!Precedes(results[k].tree, gate[g].tree)
      BY <1>c, <1>1, <2>2 DEF GateInv, GateTypes, SoundGate, Hashed
    <3> QED
      BY <2>1, <3>1, <3>2
  <2>3. CASE k = N + 1
    <3>1. Gate!Kept(gate[g].tree, results[k].tree)
      BY <1>c, <1>1, <2>1, <2>3 DEF Mine
    <3>2. NameAt(k) = "proof_freshness"
      BY <2>3, GateConstants
    <3> QED
      BY <2>1, <3>1, <3>2
  <2>4. CASE k \in {N + 2, N + 3}
    <3>1. /\ "readiness" \notin Gate!StepNames /\ "archive" \notin Gate!StepNames
      BY IngestAssumption DEF Gate!ReleaseGateAssumption, Gate!Closing
    <3>2. NameAt(k) \in {"readiness", "archive"}
      BY <2>4, GateConstants
    <3> QED
      BY <2>1, <3>1, <3>2
  <2> QED
    BY <1>c, <2>2, <2>3, <2>4
<1> HIDE DEF results
<1> QED
  BY <1>1, <1>6, <1>7, <1>8

\* The final release_gate.json.
LEMMA PublishStep ==
    ASSUME GateInv, GateTypes', NEW g \in Gates, Gate!Publish(g) PROVE GateInv'
<1>c. N \in Nat /\ N > 0
  BY GateConstants
<1> DEFINE r == gate[g]
           b == Gate!Passed(g)
<1>r. /\ SoundGate(r, tree) /\ b \in BOOLEAN
      /\ r = [pc |-> r.pc, todo |-> r.todo, results |-> r.results, tree |-> r.tree, ok |-> r.ok]
  BY DEF GateInv, GateTypes, SoundGate, Gate!Passed
<1>1. /\ r.pc = "publish" /\ Len(r.results) = N + 3 /\ r.results \in Seq(Entries)
      /\ \A k \in 1..N + 3 : r.results[k].name = NameAt(k)
      /\ gate' = [gate EXCEPT ![g] = [r EXCEPT !.pc = "report", !.ok = b]]
      /\ UNCHANGED <<tree, last, overlap, starts>>
  BY <1>r DEF Gate!Publish, SoundGate, Counted, GateInv, GateTypes
<1>2. /\ dir'.logs = dir.logs /\ dir'.proof = dir.proof
      /\ dir'.json = Gate!Proof(g, b) /\ dir'.manifest = Gate!Manifest(r.results)
      /\ dir' = [logs |-> dir'.logs, json |-> dir'.json, manifest |-> dir'.manifest,
                 proof |-> dir'.proof]
  <2>1. dir' = [dir EXCEPT !.manifest = Gate!Manifest(r.results), !.json = Gate!Proof(g, b)]
    BY DEF Gate!Publish
  <2>2. dir = [logs |-> dir.logs, json |-> dir.json, manifest |-> dir.manifest,
               proof |-> dir.proof]
    BY DEF GateInv, DirTypes
  <2> HIDE DEF r, b
  <2> QED
    BY <2>1, <2>2
<1>3. /\ gate'[g].pc = "report" /\ gate'[g].results = r.results /\ gate'[g].tree = r.tree
      /\ gate'[g].ok = b
      /\ \A h \in Gates \ {g} : gate'[h] = gate[h]
  <2> HIDE DEF b
  <2> QED
    BY <1>r, <1>1 DEF GateInv, GateTypes
<1>4. /\ dir'.json = [by |-> g, passed |-> b, tree |-> r.tree, results |-> r.results]
  BY <1>2, <1>3 DEF Gate!Proof
<1>5. b => AllPassed(r.results)
  BY DEF Gate!Passed, AllPassed
<1>6. DirTypes'
  <2>1. \A k \in DOMAIN dir'.manifest : dir'.manifest[k].name \in Gate!Logs
    BY <1>1, <1>2, ManifestNames
  <2> HIDE DEF r, b
  <2> QED
    BY <1>r, <1>1, <1>2, <1>4, <1>5, <2>1 DEF GateInv, DirTypes
<1>7. ~overlap => g = last /\ Mine(g)
  BY <1>1 DEF GateInv, OwnerHolds, Gate!Running
<1>8. ASSUME Mine(g) PROVE Mine(g)'
  <2>1. \A k \in 1..N + 3 : k # N + 2 =>
          dir.logs[NameAt(k)] = [by |-> g, passed |-> r.results[k].passed,
                                 tree |-> r.results[k].tree]
    BY <1>1, <1>8 DEF Mine
  <2>2. /\ ~dir.proof.passed /\ dir.logs["readiness"].by = g
        /\ \A k \in 1..N + 3 : k = N + 1 /\ r.results[k].passed =>
             Gate!Kept(r.tree, r.results[k].tree)
    BY <1>c, <1>1, <1>8 DEF Mine
  <2>3. dir'.json.tree = r.tree
    BY <1>4
  <2> HIDE DEF r, b
  <2> QED
    BY <1>1, <1>2, <1>3, <1>4, <2>1, <2>2, <2>3 DEF Mine
<1>9. OwnerHolds'
  BY <1>1, <1>3, <1>7, <1>8, OwnerStep DEF GateInv, Gate!Running
<1>10. ASSUME ~overlap, b
       PROVE  (Gate!NoStalePass /\ Gate!PassIsWhole /\ Gate!PassIsFresh /\ Gate!ReportsFollow)'
  <2>1. dir'.json = Gate!Proof(g, TRUE) /\ dir'.json.by = g /\ dir'.json.passed = TRUE
    <3>1. b = TRUE
      BY <1>10
    <3>2. dir'.json = Gate!Proof(g, TRUE)
      BY <1>2, <3>1
    <3> QED
      BY <3>2 DEF Gate!Proof
  <2>2. g = last /\ Mine(g) /\ ~dir'.proof.passed
    BY <1>2, <1>7, <1>10 DEF Mine
  <2>3. /\ \A k \in DOMAIN dir'.manifest :
             /\ dir'.manifest[k].log = dir'.logs[dir'.manifest[k].name]
             /\ dir'.manifest[k].log.by = dir'.json.by /\ dir'.manifest[k].log.passed
        /\ \A k \in DOMAIN dir'.json.results :
             LET entry == dir'.json.results[k] IN
             IF entry.name = "proof_freshness" THEN Gate!Kept(dir'.json.tree, entry.tree)
             ELSE entry.name \in Gate!StepNames => Gate!Precedes(entry.tree, dir'.json.tree)
    BY <1>1, <1>2, <1>10, <2>1, <2>2, PassStands
  <2>4. Gate!NoStalePass' /\ Gate!ReportsFollow' /\ Gate!PassIsFresh'
    BY <1>1, <2>1, <2>2, <2>3 DEF Gate!NoStalePass, Gate!ReportsFollow, Gate!PassIsFresh
  <2>5. Gate!PassIsWhole'
    BY <1>6, <2>3, JsonWhole DEF Gate!PassIsWhole
  <2> QED
    BY <2>4, <2>5
<1>11. ASSUME overlap \/ ~b
       PROVE  (Gate!NoStalePass /\ Gate!PassIsWhole /\ Gate!PassIsFresh /\ Gate!ReportsFollow)'
  <2>1. ~overlap' => ~dir'.json.passed /\ ~dir'.proof.passed
    BY <1>1, <1>2, <1>4, <1>7, <1>11 DEF Mine
  <2> QED
    BY <1>6, <2>1, NoPass
<1> QED
  BY <1>r, <1>6, <1>9, <1>10, <1>11 DEF GateInv

\* CURRENT_PROOF.md, and the payload once more.
LEMMA ReportStep ==
    ASSUME GateInv, GateTypes', NEW g \in Gates, Gate!Report(g) PROVE GateInv'
<1> DEFINE r == gate[g]
           json == [by |-> g, passed |-> r.ok, tree |-> r.tree, results |-> r.results]
<1>1. /\ r.pc = "report" /\ Len(r.results) = N + 3 /\ r.results \in Seq(Entries)
      /\ \A k \in 1..N + 3 : r.results[k].name = NameAt(k)
      /\ r.ok \in BOOLEAN /\ (r.ok => AllPassed(r.results))
      /\ gate' = [gate EXCEPT ![g] = Gate!Idle]
      /\ UNCHANGED <<tree, last, torn, overlap, starts>>
  BY DEF Gate!Report, SoundGate, Counted, GateInv, GateTypes
<1>2. /\ dir'.logs = dir.logs /\ dir'.manifest = dir.manifest
      /\ dir'.json = json /\ dir'.proof = Gate!Log(g, r.ok)
      /\ dir' = [logs |-> dir'.logs, json |-> dir'.json, manifest |-> dir'.manifest,
                 proof |-> dir'.proof]
  <2>1. dir' = [dir EXCEPT !.json = json, !.proof = Gate!Log(g, r.ok)]
    BY DEF Gate!Report, Gate!Proof
  <2>2. dir = [logs |-> dir.logs, json |-> dir.json, manifest |-> dir.manifest,
               proof |-> dir.proof]
    BY DEF GateInv, DirTypes
  <2> HIDE DEF json, r
  <2> QED
    BY <2>1, <2>2
<1>3. /\ dir'.json.by = g /\ dir'.json.passed = r.ok /\ dir'.json.results = r.results
      /\ dir'.proof.by = g /\ dir'.proof.passed = r.ok
  <2> HIDE DEF r
  <2> QED
    BY <1>2 DEF Gate!Log
<1>4. DirTypes'
  <2> HIDE DEF r
  <2> QED
    BY <1>1, <1>2, <1>3 DEF GateInv, DirTypes
<1>5. ~Gate!Running(g)' /\ \A h \in Gates \ {g} : gate'[h] = gate[h]
  BY <1>1 DEF GateInv, GateTypes, Gate!Running, Gate!Idle
<1>6. OwnerHolds'
  BY <1>1, <1>5, OwnerStep DEF GateInv, Gate!Running
<1>7. ASSUME ~overlap
      PROVE  (Gate!NoStalePass /\ Gate!PassIsWhole /\ Gate!PassIsFresh /\ Gate!ReportsFollow)'
  <2>1. g = last /\ dir.json = json
    BY <1>1, <1>7 DEF GateInv, OwnerHolds, Gate!Running, Mine
  <2>2. dir'.json = dir.json
    BY <1>2, <2>1
  <2>3. Gate!NoStalePass' /\ Gate!PassIsWhole' /\ Gate!PassIsFresh'
    BY <1>1, <1>2, <2>2 DEF GateInv, Gate!NoStalePass, Gate!PassIsWhole, Gate!PassIsFresh
  <2>4. Gate!ReportsFollow'
    BY <1>3 DEF Gate!ReportsFollow
  <2> QED
    BY <2>3, <2>4
<1>8. ASSUME overlap
      PROVE  (Gate!NoStalePass /\ Gate!PassIsWhole /\ Gate!PassIsFresh /\ Gate!ReportsFollow)'
  BY <1>1, <1>4, <1>8, NoPass
<1> QED
  BY <1>4, <1>6, <1>7, <1>8 DEF GateInv

\* The directory with some of its files gone.
LEMMA Removed ==
    ASSUME DirTypes, NEW parts, dir' = Gate!Without(parts)
    PROVE  /\ DirTypes'
           /\ \A n \in Gate!Logs :
                dir'.logs[n] = IF n \in parts THEN Gate!NoLog ELSE dir.logs[n]
           /\ dir'.json = IF "json" \in parts THEN Gate!NoProof ELSE dir.json
           /\ dir'.manifest = IF "manifest" \in parts THEN <<>> ELSE dir.manifest
           /\ dir'.proof = IF "proof" \in parts THEN Gate!NoLog ELSE dir.proof
           /\ ~Gate!NoLog.passed /\ ~Gate!NoProof.passed
<1>1. /\ \A n \in Gate!Logs :
           dir'.logs[n] = IF n \in parts THEN Gate!NoLog ELSE dir.logs[n]
      /\ dir'.logs = [n \in Gate!Logs |-> dir'.logs[n]]
      /\ dir'.json = IF "json" \in parts THEN Gate!NoProof ELSE dir.json
      /\ dir'.manifest = IF "manifest" \in parts THEN <<>> ELSE dir.manifest
      /\ dir'.proof = IF "proof" \in parts THEN Gate!NoLog ELSE dir.proof
      /\ dir' = [logs |-> dir'.logs, json |-> dir'.json, manifest |-> dir'.manifest,
                 proof |-> dir'.proof]
  BY DEF Gate!Without
<1>2. Gate!NoLog \in LogRows /\ Gate!NoLog.passed = FALSE /\ Gate!NoProof.passed = FALSE
  BY Order DEF Gate!NoLog, Gate!NoProof, LogRows
<1>3. dir'.logs \in [Gate!Logs -> LogRows]
  <2>1. \A n \in Gate!Logs : dir'.logs[n] \in LogRows
    BY <1>1, <1>2 DEF DirTypes
  <2> QED
    BY <1>1, <2>1
<1>4. DirTypes'
  <2>0. \A k \in DOMAIN dir'.manifest : dir'.manifest[k].name \in Gate!Logs
    BY <1>1 DEF DirTypes
  <2>1. CASE "json" \in parts
    BY <1>1, <1>2, <1>3, <2>0, <2>1 DEF DirTypes
  <2>2. CASE "json" \notin parts
    BY <1>1, <1>3, <2>0, <2>2 DEF DirTypes
  <2> QED
    BY <2>1, <2>2
<1> QED
  BY <1>1, <1>2, <1>4

\* A gate begins; it has touched nothing yet.
LEMMA StartStep ==
    ASSUME GateInv, GateTypes', NEW g \in Gates, Gate!Start(g) PROVE GateInv'
<1>1. /\ UNCHANGED <<dir, last, torn>> /\ ~Gate!Running(g)
      /\ overlap' = (overlap \/ \E h \in Gates : Gate!Running(h))
      /\ \A h \in Gates \ {g} : gate'[h] = gate[h]
      /\ gate'[g].pc = "moving"
  <2>1. PICK s : s = [Gate!Idle EXCEPT !.pc = "moving", !.todo = Gate!Present]
    OBVIOUS
  <2>2. s.pc = "moving"
    BY <2>1 DEF Gate!Idle
  <2>3. gate' = [gate EXCEPT ![g] = s]
    BY <2>1 DEF Gate!Start
  <2> QED
    BY <2>2, <2>3 DEF Gate!Start, GateInv, GateTypes
<1>2. DirTypes' /\ (~overlap' => ~overlap)
  BY <1>1 DEF GateInv, DirTypes
<1>3. OwnerHolds'
  <2> SUFFICES ASSUME ~overlap', NEW h \in Gates, Gate!Running(h)' PROVE h = g
    BY <1>1 DEF OwnerHolds
  <2> QED
    BY <1>1 DEF Gate!Running
<1>4. (Gate!NoStalePass /\ Gate!PassIsWhole /\ Gate!PassIsFresh /\ Gate!ReportsFollow)'
  BY <1>1, <1>2 DEF GateInv, Gate!NoStalePass, Gate!PassIsWhole, Gate!PassIsFresh,
     Gate!ReportsFollow
<1> QED
  BY <1>2, <1>3, <1>4 DEF GateInv

\* A file of an earlier proof is moved away; the rest of it stands as it stood.
LEMMA MoveStep ==
    ASSUME GateInv, GateTypes', NEW g \in Gates, NEW part \in Gate!Parts, Gate!Move(g, part)
    PROVE  GateInv'
<1>1. /\ dir' = Gate!Without({part}) /\ torn' /\ UNCHANGED <<last, overlap>>
      /\ gate[g].pc = "moving"
      /\ \A h \in Gates \ {g} : gate'[h] = gate[h]
      /\ gate'[g].pc = "moving"
  <2>1. gate[g].pc = "moving" /\ gate[g] = [pc |-> gate[g].pc, todo |-> gate[g].todo,
            results |-> gate[g].results, tree |-> gate[g].tree, ok |-> gate[g].ok]
    BY DEF Gate!Move, GateInv, GateTypes, SoundGate
  <2>2. PICK s : s = [gate[g] EXCEPT !.todo = @ \ {part}]
    OBVIOUS
  <2>3. s.pc = "moving"
    BY <2>1, <2>2
  <2>4. gate' = [gate EXCEPT ![g] = s]
    BY <2>2 DEF Gate!Move
  <2> QED
    BY <2>1, <2>3, <2>4 DEF Gate!Move, GateInv, GateTypes
<1>2. /\ DirTypes'
      /\ \A n \in Gate!Logs : dir'.logs[n] = Gate!NoLog \/ dir'.logs[n] = dir.logs[n]
      /\ dir'.json = dir.json \/ dir'.json = Gate!NoProof
      /\ dir'.json.passed => dir'.json = dir.json
      /\ dir'.manifest = dir.manifest \/ dir'.manifest = <<>>
      /\ dir'.proof.passed => dir'.proof = dir.proof
  BY <1>1, Removed DEF GateInv
<1>3. OwnerHolds'
  <2> SUFFICES ASSUME ~overlap', NEW h \in Gates, Gate!Running(h)' PROVE h = g
    BY <1>1 DEF OwnerHolds
  <2> QED
    BY <1>1 DEF GateInv, OwnerHolds, Gate!Running
<1>4. Gate!NoStalePass' /\ Gate!PassIsFresh'
  BY <1>1, <1>2 DEF GateInv, Gate!NoStalePass, Gate!PassIsFresh
<1>5. Gate!PassIsWhole'
  <2> SUFFICES ASSUME dir'.json.passed, ~overlap', NEW k \in DOMAIN dir'.manifest
               PROVE  LET entry == dir'.manifest[k] IN
                      /\ entry.log.by = dir'.json.by /\ entry.log.passed
                      /\ \/ entry.log = dir'.logs[entry.name]
                         \/ torn' /\ dir'.logs[entry.name] = Gate!NoLog
    BY <1>2, JsonWhole DEF Gate!PassIsWhole
  <2>1. dir'.manifest = dir.manifest /\ dir'.json = dir.json /\ ~overlap
    BY <1>1, <1>2
  <2>2. LET entry == dir.manifest[k] IN
        /\ entry.log.by = dir.json.by /\ entry.log.passed
        /\ \/ entry.log = dir.logs[entry.name]
           \/ torn /\ dir.logs[entry.name] = Gate!NoLog
    BY <2>1 DEF GateInv, Gate!PassIsWhole
  <2>3. dir.manifest[k].name \in Gate!Logs
    BY <2>1 DEF GateInv, DirTypes
  <2> QED
    BY <1>1, <1>2, <2>1, <2>2, <2>3
<1>6. Gate!ReportsFollow'
  BY <1>1, <1>2 DEF GateInv, Gate!ReportsFollow
<1> QED
  BY <1>2, <1>3, <1>4, <1>5, <1>6 DEF GateInv

\* The directory is empty of what an earlier gate left.
LEMMA ClearStep ==
    ASSUME GateInv, GateTypes', NEW g \in Gates, Gate!Clear(g) PROVE GateInv'
<1>1. /\ dir' = Gate!Without(Gate!StepNames \cup {"proof_freshness"} \cup Gate!Reports)
      /\ last' = g /\ overlap' = overlap /\ gate[g].pc = "moving"
      /\ \A h \in Gates \ {g} : gate'[h] = gate[h]
      /\ gate'[g].pc = "steps" /\ Len(gate'[g].results) = 0
  <2>1. /\ gate[g].pc = "moving" /\ Len(gate[g].results) = 0
        /\ gate[g] = [pc |-> gate[g].pc, todo |-> gate[g].todo,
             results |-> gate[g].results, tree |-> gate[g].tree, ok |-> gate[g].ok]
    BY DEF Gate!Clear, GateInv, GateTypes, SoundGate, Counted
  <2>2. PICK s : s = [gate[g] EXCEPT !.pc = "steps"]
    OBVIOUS
  <2>3. s.pc = "steps" /\ s.results = gate[g].results
    BY <2>1, <2>2
  <2>4. gate' = [gate EXCEPT ![g] = s]
    BY <2>2 DEF Gate!Clear
  <2> QED
    BY <2>1, <2>3, <2>4 DEF Gate!Clear, GateInv, GateTypes
<1>2. DirTypes' /\ ~dir'.json.passed /\ ~dir'.proof.passed
  <2>1. {"json", "proof"} \subseteq Gate!Reports
    BY DEF Gate!Reports
  <2> QED
    BY <1>1, <2>1, Removed DEF GateInv
<1>3. OwnerHolds'
  <2> SUFFICES ASSUME ~overlap', NEW h \in Gates, Gate!Running(h)'
               PROVE  h = g /\ h = last' /\ Mine(h)'
    BY DEF OwnerHolds
  <2>1. h = g
    BY <1>1 DEF GateInv, OwnerHolds, Gate!Running
  <2>2. N \in Nat
    BY GateConstants
  <2>3. Mine(g)'
    BY <1>1, <1>2, <2>2 DEF Mine, Drafted, Hashed
  <2> QED
    BY <1>1, <2>1, <2>3
<1> QED
  BY <1>2, <1>3, NoPass DEF GateInv

LEMMA GateStepInv == ASSUME GateInv, [Gate!Next]_gateVars PROVE GateInv'
<1>0. GateTypes'
  BY GateTypesStep DEF GateInv
<1>1. ASSUME NEW f \in Gate!Inputs, Gate!Edit(f) PROVE GateInv'
  BY <1>0, <1>1 DEF GateInv, Gate!Edit, DirTypes, OwnerHolds, Mine, Gate!Running,
     Gate!NoStalePass, Gate!PassIsWhole, Gate!PassIsFresh, Gate!ReportsFollow
<1>2. ASSUME NEW g \in Gates, Gate!Die(g) PROVE GateInv'
  BY <1>0, <1>2, DieStep DEF GateInv, Gate!Die
<1>3. CASE UNCHANGED gateVars
  BY <1>0, <1>3 DEF GateInv, gateVars, DirTypes, OwnerHolds, Mine, Gate!Running,
     Gate!NoStalePass, Gate!PassIsWhole, Gate!PassIsFresh, Gate!ReportsFollow
<1> QED
  BY <1>0, <1>1, <1>2, <1>3, StartStep, MoveStep, ClearStep, CheckSteps, DraftSteps, ReadinessStep, RewriteStep,
     PublishStep, ReportStep DEF Gate!Next

\* A gate that has emptied the directory leaves no pass of an earlier one, and a pass of a gate
\* alone in its directory stands on its own checks, their logs, but for those a later gate
\* has begun to move away, and inputs that were there still, as listed, at its freshness
\* check (release_gate.py), whatever is edited, killed or started meanwhile.
THEOREM ProofsStand == Spec => []ProofSafe
<1>1. Init => GateInv
  BY GateInit DEF Init
<1>2. GateInv /\ [Next]_vars => GateInv'
  BY GateStepInv DEF Next, AdaptStep, CrawlStep, BulkStep, GateStep, vars, gateVars
<1>3. GateInv => ProofSafe
  <2> SUFFICES ASSUME GateInv PROVE ProofSafe
    OBVIOUS
  <2>1. Gate!TypeOK
    BY GateConstants DEF GateInv, GateTypes, SoundGate, Gate!TypeOK
  <2> QED
    BY <2>1 DEF GateInv, ProofSafe, Gate!GateProofSafe
<1> QED
  BY <1>1, <1>2, <1>3, PTL DEF Spec

--------------------------------------------------------------------------------
(* Adapters: what a run that is not refused found, and when it looked.        *)

\* What a snapshot may hold: some of the pages of a publisher.
Kept == {[p \in D |-> site[p]] : D \in SUBSET {1, 2}, site \in Sites}

\* The entry f, found by parser, is on a page that is kept, or needs not be.
Evident(parser, f, pages) ==
    \/ /\ f.page \in DOMAIN pages
       /\ f.link \in Adapt!ToSet(pages[f.page].rows) \cup Adapt!ToSet(pages[f.page].links)
    \/ parser = "federal_court_html" /\ f.page > 1

ItemRows ==
    /\ snapshots \in Seq(Kept)
    /\ \A i \in items :
        /\ i = [parser |-> i.parser, link |-> i.link, page |-> i.page, at |-> i.at,
                snap |-> i.snap, status |-> i.status]
        /\ i.parser \in Adapt!Parsers /\ i.snap \in 1..Len(snapshots)

\* A run under way: if its contract was met, it creates no incident, what it found is
\* evident from the pages it keeps, and none of it was waiting when it looked.
SoundRun(d) ==
    \/ d = Adapt!Idle
    \/ /\ d.pc = "run" /\ d.row \in Rows /\ d.row.parser # None /\ d.site \in Sites
       /\ \A f \in d.items : Adapt!Identity(d.row.parser, f.link) \notin d.waiting
       /\ ~d.refused =>
            /\ d.incidents = {} /\ d.raw \in SUBSET {1, 2}
            /\ \A f \in d.items : Evident(d.row.parser, f, [p \in d.raw |-> d.site[p]])

AdaptInv ==
    /\ ItemRows
    /\ tx = [s \in Sessions |-> tx[s]]
    /\ \A s \in Sessions : SoundRun(tx[s])
    /\ \A i \in items : Evident(i.parser, i, snapshots[i.snap])
    /\ Adapt!OneRunWaits /\ Adapt!NoIncidents

LEMMA AdaptConstants ==
    /\ \A row \in Rows : row \in Adapt!RegistryRows
    /\ \A site \in Sites : site[1] \in Adapt!Pages /\ site[2] \in Adapt!Pages
BY IngestAssumption DEF Adapt!AdaptersAssumption

\* Where the places of a list are entries of it.
LEMMA OnLists ==
    ASSUME NEW p, NEW links, NEW f \in Adapt!On(p, links)
    PROVE  f.page = p /\ f.link \in Adapt!ToSet(links)
<1>1. PICK k \in DOMAIN links : f = [page |-> p, at |-> k, link |-> links[k]]
  BY DEF Adapt!On
<1> QED
  BY <1>1 DEF Adapt!ToSet

LEMMA SingleResult ==
    ASSUME NEW site, NEW found
    PROVE  /\ Adapt!Single(site, found) \in
                {[raw |-> {}, found |-> {}, error |-> FALSE, version |-> None],
                 [raw |-> {1}, found |-> Adapt!On(1, found), error |-> FALSE, version |-> None]}
           /\ Adapt!Single(site, found).version = None
<1>1. Adapt!Nothing = [raw |-> {}, found |-> {}, error |-> FALSE, version |-> None]
  BY DEF Adapt!Nothing
<1>2. [Adapt!Nothing EXCEPT !.raw = {1}, !.found = Adapt!On(1, found)]
      = [raw |-> {1}, found |-> Adapt!On(1, found), error |-> FALSE, version |-> None]
  <2>1. PICK s : s = [Adapt!Nothing EXCEPT !.raw = {1}, !.found = Adapt!On(1, found)]
    OBVIOUS
  <2>2. s = [raw |-> {1}, found |-> Adapt!On(1, found), error |-> FALSE, version |-> None]
    BY <2>1 DEF Adapt!Nothing
  <2> QED
    BY <2>1, <2>2
<1>3. Adapt!Single(site, found) \in
        {[raw |-> {}, found |-> {}, error |-> FALSE, version |-> None],
         [raw |-> {1}, found |-> Adapt!On(1, found), error |-> FALSE, version |-> None]}
  BY <1>1, <1>2 DEF Adapt!Single
<1> QED
  BY <1>3

\* Only two adapters report their version: no run of another one meets the contract.
LEMMA OthersReportNoVersion ==
    ASSUME NEW row, row.parser \in Adapt!Parsers \ {"federal_court_html", "laws_justice_xml"},
           NEW site
    PROVE  Adapt!Result(row, site).version = None
<1>1. CASE row.parser = "canlii_api"
  BY <1>1 DEF Adapt!Result, Adapt!CanliiApi, Adapt!Nothing
<1>2. CASE row.parser = "scc_lexum_api"
  BY <1>2, SingleResult DEF Adapt!Result, Adapt!SccLexumApi
<1>3. CASE row.parser = "sk_legislature_html"
  BY <1>3, SingleResult DEF Adapt!Result, Adapt!SkLegislatureHtml
<1>4. CASE row.parser = "sk_courts_html"
  BY <1>4, SingleResult DEF Adapt!Result, Adapt!SkCourtsHtml
<1>5. CASE row.parser = "laws_justice_html"
  BY <1>5, SingleResult DEF Adapt!Result, Adapt!LawsJusticeHtml
<1>6. CASE row.parser = "saskatoon_csv"
  BY <1>6, SingleResult DEF Adapt!Result, Adapt!SaskatoonCsv
<1>7. CASE row.parser = "saskatoon_police_csv"
  BY <1>7, SingleResult DEF Adapt!Result, Adapt!SaskatoonPoliceCsv
<1>8. CASE row.parser = "statscan_table"
  BY <1>8, SingleResult DEF Adapt!Result, Adapt!StatscanTable
<1>9. CASE row.parser = "ckan_api"
  BY <1>9, SingleResult DEF Adapt!Result, Adapt!CkanApi
<1>10. CASE row.parser \in {"crawlee_gov_news", "crawlee_police_release"}
  <2>1. Adapt!CrawleeGovNews(row).version = None
    BY DEF Adapt!CrawleeGovNews, Adapt!Nothing
  <2> QED
    BY <1>10, <2>1 DEF Adapt!Result, Adapt!CrawleePoliceRelease
<1> QED
  BY <1>1, <1>2, <1>3, <1>4, <1>5, <1>6, <1>7, <1>8, <1>9, <1>10 DEF Adapt!Parsers

\* A run that meets the contract found what its pages list.
LEMMA AcceptedIsEvident ==
    ASSUME NEW row \in Rows, row.parser # None, NEW site \in Sites,
           NEW r, r = Adapt!Result(row, site), ~Adapt!Refused(row, r)
    PROVE  /\ ~Adapt!CreatesIncidents(row) /\ r.raw \in SUBSET {1, 2}
           /\ \A f \in r.found : Evident(row.parser, f, [p \in r.raw |-> site[p]])
<1>1. r.version # None /\ r.raw # {}
  BY DEF Adapt!Refused
<1>2. row.parser \in Adapt!Parsers \cup {None}
  BY AdaptConstants DEF Adapt!RegistryRows
<1>3. CASE row.parser = "federal_court_html"
  <2>1. r = Adapt!FederalCourtHtml(site, row)
    BY <1>3 DEF Adapt!Result
  <2>2. PICK found :
          /\ r = [Adapt!Single(site, site[1].rows) EXCEPT !.found = found, !.version = "1.0"]
          /\ found \subseteq Adapt!On(1, site[1].rows) \cup Adapt!On(2, site[2].rows)
    <3> DEFINE all == Adapt!On(1, site[1].rows) \cup Adapt!On(2, site[2].rows)
               both == row.year /\ site[1].rows # <<>> /\ site[1].next
               place(f) == IF f.page = 1 THEN f.at ELSE Len(site[1].rows) + f.at
               found == {f \in Adapt!On(1, site[1].rows)
                               \cup (IF both THEN Adapt!On(2, site[2].rows) ELSE {}) :
                            place(f) <= PageLimit}
    <3>1. r = [Adapt!Single(site, site[1].rows) EXCEPT !.found = found, !.version = "1.0"]
      BY <2>1 DEF Adapt!FederalCourtHtml
    <3>2. found \subseteq all
      OBVIOUS
    <3> QED
      BY <3>1, <3>2
  <2>3. r.raw \in {{}, {1}} /\ r.found = found
    BY <2>2, SingleResult
  <2>4. r.raw = {1}
    BY <1>1, <2>3
  <2>5. \A f \in found : (f.page = 1 /\ f.link \in Adapt!ToSet(site[1].rows)) \/ f.page = 2
    BY <2>2, OnLists
  <2>6. \A f \in found : Evident(row.parser, f, [p \in {1} |-> site[p]])
    BY <1>3, <2>5 DEF Evident
  <2> QED
    BY <1>3, <2>3, <2>4, <2>6 DEF Adapt!CreatesIncidents
<1>4. CASE row.parser = "laws_justice_xml"
  <2>1. r = Adapt!LawsJusticeXml(site)
    BY <1>4 DEF Adapt!Result
  <2>2. PICK chosen, raw :
          /\ chosen \subseteq Adapt!On(1, site[1].rows) /\ raw \in {{1}, {1, 2}}
          /\ \/ r = [Adapt!Nothing EXCEPT !.error = TRUE, !.version = "xml_v1"]
             \/ r = [Adapt!Nothing EXCEPT !.raw = raw, !.found = chosen, !.version = "xml_v1"]
    <3>1. PICK chosen : chosen = {f \in Adapt!On(1, site[1].rows) : f.link \in Targets}
      OBVIOUS
    <3>2. PICK raw : raw = IF chosen = {} THEN {1} ELSE {1, 2}
      OBVIOUS
    <3> QED
      BY <2>1, <3>1, <3>2 DEF Adapt!LawsJusticeXml
  <2>3. r.raw = raw /\ r.found = chosen
    BY <1>1, <2>2 DEF Adapt!Nothing
  <2>4. \A f \in chosen : f.page = 1 /\ f.link \in Adapt!ToSet(site[1].rows)
    BY <2>2, OnLists
  <2>5. \A f \in chosen : Evident(row.parser, f, [p \in raw |-> site[p]])
    BY <2>2, <2>4 DEF Evident
  <2>6. raw \in SUBSET {1, 2}
    BY <2>2
  <2> QED
    BY <1>4, <2>3, <2>5, <2>6 DEF Adapt!CreatesIncidents
<1>5. CASE row.parser \in Adapt!Parsers \ {"federal_court_html", "laws_justice_xml"}
  BY <1>1, <1>5, OthersReportNoVersion
<1> QED
  BY <1>2, <1>3, <1>4, <1>5

LEMMA AdaptInit == Adapt!Init => AdaptInv
<1> SUFFICES ASSUME Adapt!Init PROVE AdaptInv
  OBVIOUS
<1>1. /\ items = {} /\ incidents = {} /\ snapshots = <<>>
      /\ tx = [s \in Sessions |-> Adapt!Idle]
  BY DEF Adapt!Init
<1>2. <<>> \in Seq(Kept)
  OBVIOUS
<1> QED
  BY <1>1, <1>2 DEF AdaptInv, ItemRows, SoundRun, Adapt!OneRunWaits, Adapt!NoIncidents

\* Only its run changes: a run begins or is rolled back.
LEMMA OnlyRunChanges ==
    ASSUME AdaptInv, NEW s \in Sessions, NEW d, SoundRun(d), tx' = [tx EXCEPT ![s] = d],
           UNCHANGED <<items, incidents, snapshots, raced>>
    PROVE  AdaptInv'
<1>1. tx' = [t \in Sessions |-> tx'[t]] /\ \A t \in Sessions : SoundRun(tx'[t])
  BY DEF AdaptInv
<1>2. ItemRows' /\ Adapt!OneRunWaits' /\ Adapt!NoIncidents'
  BY DEF AdaptInv, ItemRows, Adapt!OneRunWaits, Adapt!NoIncidents
<1>3. (\A i \in items : Evident(i.parser, i, snapshots[i.snap]))'
  BY DEF AdaptInv
<1> QED
  BY <1>1, <1>2, <1>3 DEF AdaptInv, SoundRun

LEMMA RunStarts ==
    ASSUME AdaptInv, NEW s \in Sessions, NEW row \in Rows, NEW site \in Sites,
           Adapt!Start(s, row, site)
    PROVE  AdaptInv'
<1>1. PICK result : result = Adapt!Result(row, site)
  OBVIOUS
<1>2. PICK found : found = Adapt!Parsed(row, result)
  OBVIOUS
<1>3. PICK d :
        d = [pc |-> "run", row |-> row, site |-> site, refused |-> Adapt!Refused(row, result),
             raw |-> result.raw, waiting |-> Adapt!Waiting,
             items |-> IF Adapt!CreatesIncidents(row) THEN {} ELSE Adapt!Fresh(row, found),
             incidents |-> IF Adapt!CreatesIncidents(row)
                           THEN {<<row.parser, f.link>> : f \in found} ELSE {}]
  OBVIOUS
<1>4. /\ row.parser # None /\ tx' = [tx EXCEPT ![s] = d]
      /\ UNCHANGED <<items, incidents, snapshots, raced>>
  BY <1>1, <1>2, <1>3 DEF Adapt!Start
<1>5. /\ d.pc = "run" /\ d.row = row /\ d.site = site /\ d.raw = result.raw
      /\ d.refused = Adapt!Refused(row, result) /\ d.waiting = Adapt!Waiting
      /\ d.items = IF Adapt!CreatesIncidents(row) THEN {} ELSE Adapt!Fresh(row, found)
      /\ ~Adapt!CreatesIncidents(row) => d.incidents = {}
  BY <1>3
<1>6. \A f \in d.items : f \in found /\ Adapt!Identity(row.parser, f.link) \notin Adapt!Waiting
  BY <1>5 DEF Adapt!Fresh
<1>7. found \subseteq result.found
  BY <1>2 DEF Adapt!Parsed
<1>8. ~d.refused =>
        /\ d.incidents = {} /\ d.raw \in SUBSET {1, 2}
        /\ \A f \in d.items : Evident(row.parser, f, [p \in d.raw |-> site[p]])
  <2> SUFFICES ASSUME ~Adapt!Refused(row, result)
               PROVE  /\ d.incidents = {} /\ d.raw \in SUBSET {1, 2}
                      /\ \A f \in d.items : Evident(row.parser, f, [p \in d.raw |-> site[p]])
    BY <1>5
  <2>1. /\ ~Adapt!CreatesIncidents(row) /\ result.raw \in SUBSET {1, 2}
        /\ \A f \in result.found : Evident(row.parser, f, [p \in result.raw |-> site[p]])
    BY <1>1, <1>4, AcceptedIsEvident
  <2> QED
    BY <1>5, <1>6, <1>7, <2>1
<1>9. SoundRun(d)
  BY <1>4, <1>5, <1>6, <1>8 DEF SoundRun
<1> QED
  BY <1>4, <1>9, OnlyRunChanges

LEMMA RunCommits ==
    ASSUME AdaptInv, NEW s \in Sessions, Adapt!Commit(s) PROVE AdaptInv'
<1> DEFINE d == tx[s]
           entry(f) == [parser |-> d.row.parser, page |-> f.page, at |-> f.at, link |-> f.link,
                        snap |-> Len(snapshots) + 1, status |-> "pending"]
           made == {entry(f) : f \in d.items}
           bytes == [p \in d.raw |-> d.site[p]]
<1>1. d.pc = "run" /\ tx' = [tx EXCEPT ![s] = Adapt!Idle]
  BY DEF Adapt!Commit
<1>2. SoundRun(Adapt!Idle)
  BY DEF SoundRun
<1>3. CASE d.refused
  <2>1. UNCHANGED <<items, incidents, snapshots, raced>>
    BY <1>3 DEF Adapt!Commit
  <2> QED
    BY <1>1, <1>2, <2>1, OnlyRunChanges
<1>4. CASE ~d.refused
  <2>1. /\ snapshots' = Append(snapshots, bytes) /\ items' = items \cup made
        /\ incidents' = incidents \cup d.incidents
        /\ raced' = (raced \/ d.waiting # Adapt!Waiting)
    BY <1>4 DEF Adapt!Commit
  <2>2. /\ d.row \in Rows /\ d.row.parser # None /\ d.site \in Sites /\ d.incidents = {} /\ d.raw \in SUBSET {1, 2}
        /\ \A f \in d.items : Evident(d.row.parser, f, bytes)
        /\ \A f \in d.items : Adapt!Identity(d.row.parser, f.link) \notin d.waiting
    BY <1>1, <1>4 DEF AdaptInv, SoundRun, Adapt!Idle
  <2>3. bytes \in Kept
    BY <2>2 DEF Kept
  <2>4. snapshots \in Seq(Kept) /\ Len(snapshots) \in Nat
    BY DEF AdaptInv, ItemRows
  <2>5. PICK last1 : last1 = Len(snapshots) + 1
    OBVIOUS
  <2>6. /\ snapshots' \in Seq(Kept) /\ Len(snapshots') = last1 /\ snapshots'[last1] = bytes
        /\ \A k \in 1..Len(snapshots) : snapshots'[k] = snapshots[k]
    <3> HIDE DEF bytes
    <3> QED
      BY <2>1, <2>3, <2>4, <2>5
  <2>7. \A i \in made : \E f \in d.items :
          /\ i = [parser |-> i.parser, link |-> i.link, page |-> i.page, at |-> i.at,
                  snap |-> i.snap, status |-> i.status]
          /\ i.parser = d.row.parser /\ i.page = f.page /\ i.link = f.link
          /\ i.snap = last1 /\ i.status = "pending"
    BY <2>5
  <2> HIDE DEF made, bytes
  <2>8. ItemRows'
    <3>1. \A i \in made : i.parser \in Adapt!Parsers
      BY <2>2, <2>7, AdaptConstants DEF Adapt!RegistryRows
    <3>2. \A i \in items : i.snap \in 1..last1
      BY <2>4, <2>5 DEF AdaptInv, ItemRows
    <3>3. last1 \in 1..last1
      BY <2>4, <2>5
    <3>4. \A i \in made : /\ i.snap \in 1..last1
                         /\ i = [parser |-> i.parser, link |-> i.link, page |-> i.page,
                                 at |-> i.at, snap |-> i.snap, status |-> i.status]
      BY <2>7, <3>3
    <3> QED
      BY <2>1, <2>6, <3>1, <3>2, <3>4 DEF AdaptInv, ItemRows
  <2>9. (\A i \in items : Evident(i.parser, i, snapshots[i.snap]))'
    <3>1. \A i \in items : Evident(i.parser, i, snapshots'[i.snap])
      BY <2>6 DEF AdaptInv, ItemRows
    <3>2. \A i \in made : Evident(i.parser, i, snapshots'[i.snap])
      BY <2>2, <2>6, <2>7 DEF Evident
    <3> QED
      BY <2>1, <3>1, <3>2
  <2>10. Adapt!OneRunWaits'
    <3> SUFFICES ASSUME ~raced', NEW i \in items', NEW j \in items',
                        i.status = "pending", j.status = "pending",
                        Adapt!Identity(i.parser, i.link) = Adapt!Identity(j.parser, j.link)
                 PROVE  i.snap = j.snap
      BY DEF Adapt!OneRunWaits
    <3>1. ~raced /\ d.waiting = Adapt!Waiting
      BY <2>1
    <3>2. \A e \in made : Adapt!Identity(e.parser, e.link) \notin Adapt!Waiting
      BY <2>2, <2>7, <3>1
    <3>3. \A e \in items : e.status = "pending" => Adapt!Identity(e.parser, e.link) \in Adapt!Waiting
      BY DEF Adapt!Waiting
    <3>4. CASE i \in items /\ j \in items
      BY <3>1, <3>4 DEF AdaptInv, Adapt!OneRunWaits
    <3>5. CASE i \in made /\ j \in made
      BY <2>7, <3>5
    <3> QED
      BY <2>1, <3>2, <3>3, <3>4, <3>5
  <2>11. Adapt!NoIncidents'
    BY <2>1, <2>2 DEF AdaptInv, Adapt!NoIncidents
  <2>12. tx' = [t \in Sessions |-> tx'[t]] /\ \A t \in Sessions : SoundRun(tx'[t])
    BY <1>1, <1>2 DEF AdaptInv
  <2> QED
    BY <2>8, <2>9, <2>10, <2>11, <2>12 DEF AdaptInv, SoundRun
<1> QED
  BY <1>3, <1>4

LEMMA ReviewerDecides ==
    ASSUME AdaptInv, NEW i \in items, Adapt!Decide(i) PROVE AdaptInv'
<1>1. PICK e : e = [i EXCEPT !.status = "decided"]
  OBVIOUS
<1>2. /\ items' = (items \ {i}) \cup {e}
      /\ UNCHANGED <<incidents, snapshots, tx, raced>>
  BY <1>1 DEF Adapt!Decide
<1>3. i = [parser |-> i.parser, link |-> i.link, page |-> i.page, at |-> i.at,
           snap |-> i.snap, status |-> i.status]
  BY DEF AdaptInv, ItemRows
<1>4. e = [parser |-> i.parser, link |-> i.link, page |-> i.page, at |-> i.at,
           snap |-> i.snap, status |-> "decided"]
  BY <1>1, <1>3
<1>5. /\ e.parser = i.parser /\ e.link = i.link /\ e.page = i.page /\ e.snap = i.snap
      /\ e.status = "decided"
      /\ e = [parser |-> e.parser, link |-> e.link, page |-> e.page, at |-> e.at,
              snap |-> e.snap, status |-> e.status]
  BY <1>4
<1>6. ItemRows'
  BY <1>2, <1>5 DEF AdaptInv, ItemRows
<1>7. (\A j \in items : Evident(j.parser, j, snapshots[j.snap]))'
  BY <1>2, <1>5 DEF AdaptInv, Evident
<1>8. Adapt!OneRunWaits' /\ Adapt!NoIncidents'
  BY <1>2, <1>5 DEF AdaptInv, Adapt!OneRunWaits, Adapt!NoIncidents
<1>9. (\A s \in Sessions : SoundRun(tx[s]))'
  BY <1>2 DEF AdaptInv
<1> QED
  BY <1>2, <1>6, <1>7, <1>8, <1>9 DEF AdaptInv

LEMMA AdaptStepInv == AdaptInv /\ (Adapt!Next \/ UNCHANGED adaptVars) => AdaptInv'
<1> SUFFICES ASSUME AdaptInv, Adapt!Next \/ UNCHANGED adaptVars PROVE AdaptInv'
  OBVIOUS
<1>1. CASE UNCHANGED adaptVars
  <2>1. ItemRows' /\ Adapt!OneRunWaits' /\ Adapt!NoIncidents'
    BY <1>1 DEF AdaptInv, adaptVars, ItemRows, Adapt!OneRunWaits, Adapt!NoIncidents
  <2>2. /\ (\A i \in items : Evident(i.parser, i, snapshots[i.snap]))'
        /\ (\A s \in Sessions : SoundRun(tx[s]))' /\ tx' = [s \in Sessions |-> tx'[s]]
    BY <1>1 DEF AdaptInv, adaptVars
  <2> QED
    BY <2>1, <2>2 DEF AdaptInv
<1>2. ASSUME NEW s \in Sessions, Adapt!Rollback(s) PROVE AdaptInv'
  BY <1>2, OnlyRunChanges DEF Adapt!Rollback, SoundRun
<1> QED
  BY <1>1, <1>2, RunStarts, RunCommits, ReviewerDecides DEF Adapt!Next

LEMMA AdaptHolds == AdaptInv => Adapt!AdaptersSafe
<1> SUFFICES ASSUME AdaptInv PROVE Adapt!AdaptersSafe
  OBVIOUS
<1>1. Adapt!TypeOK
  <2>1. DOMAIN snapshots = 1..Len(snapshots)
    BY DEF AdaptInv, ItemRows
  <2> QED
    BY <2>1 DEF AdaptInv, ItemRows, SoundRun, Adapt!TypeOK
<1>2. Adapt!ItemsHaveEvidence
  BY DEF AdaptInv, Evident, Adapt!ItemsHaveEvidence
<1> QED
  BY <1>1, <1>2 DEF AdaptInv, Adapt!AdaptersSafe

--------------------------------------------------------------------------------
(* WebMonitor: whoever notes a content stores it, or an error is collected.   *)

PageStates == {"unknown", "queued", "unanswered", "reading", "linking", "storing", "done",
               "skipped", "failed", "given_up"}
Holding == {"linking", "storing"}
Contents == {Content[u] : u \in Urls}
IsStored(c) == \E k \in DOMAIN flushed : flushed[k] = c
IsGivenUp(c) == \E u \in Urls : page[u] = "given_up" /\ Content[u] = c

CrawlTypes ==
    /\ page \in [Urls -> PageStates]
    /\ flushed \in Seq(Contents) /\ queued \in Seq({"blocked", "pending"})
    /\ errors \in Nat /\ parsed \in Nat /\ Len(queued) <= parsed /\ parsed <= Len(flushed)
    /\ Len(flushed) - Len(queued) <= errors
    /\ dead \in BOOLEAN

\* A page under way has a slot, and a slot is only given below the limit.
SlotsHold ==
    /\ IsFiniteSet(Crawl!Active) /\ Cardinality(Crawl!Active) <= Concurrency
    /\ Len(flushed) + Cardinality(Crawl!Active) < MaxRequests + Concurrency

\* A content under way is noted, not stored, and of one page.
OneHolder ==
    /\ \A k \in DOMAIN flushed : flushed[k] \in hashes
    /\ \A u \in Urls : page[u] \in Holding =>
        /\ Content[u] \in hashes /\ ~IsStored(Content[u])
        /\ \A v \in Urls : page[v] \in Holding /\ Content[v] = Content[u] => v = u

\* What was noted is stored, under way or given up, and what is done was noted, unless an
\* error was collected.
NotedIsKept ==
    errors = 0 =>
        /\ \A c \in hashes : \/ IsStored(c) \/ IsGivenUp(c)
                             \/ \E u \in Urls : page[u] \in Holding /\ Content[u] = c
        /\ \A u \in Urls : page[u] # "failed"
        /\ \A u \in Urls : page[u] = "done" => Content[u] = "file" \/ Content[u] \in hashes

NotBegun == run.status = "none" => flushed = <<>> /\ hashes = {} /\ errors = 0 /\ ~dead

CrawlInv ==
    /\ CrawlTypes /\ SlotsHold /\ OneHolder /\ NotedIsKept /\ NotBegun
    /\ Crawl!StoredOnce /\ Crawl!CompletedIsWhole /\ Crawl!GapsReported /\ Crawl!DeadIsLost

LEMMA CrawlConstants ==
    /\ MaxRequests \in Nat /\ MaxRequests > 0 /\ Concurrency \in Nat /\ Concurrency > 0
    /\ \A u \in Urls : LinksOf[u] \subseteq Urls
BY IngestAssumption DEF Crawl!WebMonitorAssumption

LEMMA CrawlInit == Crawl!Init => CrawlInv
<1> SUFFICES ASSUME Crawl!Init PROVE CrawlInv
  OBVIOUS
<1>1. /\ page = [u \in Urls |-> "unknown"] /\ hashes = {} /\ flushed = <<>> /\ queued = <<>>
      /\ errors = 0 /\ parsed = 0 /\ dead = FALSE /\ run.status = "none"
  BY DEF Crawl!Init, Crawl!Row
<1>2. CrawlTypes
  <2>1. page \in [Urls -> PageStates]
    BY <1>1 DEF PageStates
  <2>2. flushed \in Seq(Contents) /\ queued \in Seq({"blocked", "pending"})
        /\ Len(flushed) = 0 /\ Len(queued) = 0 /\ dead \in BOOLEAN
    <3>1. <<>> \in Seq(Contents) /\ <<>> \in Seq({"blocked", "pending"}) /\ Len(<<>>) = 0
      OBVIOUS
    <3> QED
      BY <1>1, <3>1
  <2> QED
    BY <1>1, <2>1, <2>2 DEF CrawlTypes
<1>3. Crawl!Active = {}
  BY <1>1 DEF Crawl!Active
<1>4. SlotsHold
  BY <1>1, <1>3, FS_EmptySet, CrawlConstants DEF SlotsHold
<1>5. OneHolder /\ NotedIsKept /\ NotBegun
  BY <1>1 DEF OneHolder, NotedIsKept, NotBegun, Holding
<1>6. Crawl!StoredOnce /\ Crawl!CompletedIsWhole /\ Crawl!GapsReported /\ Crawl!DeadIsLost
  BY <1>1 DEF Crawl!StoredOnce, Crawl!CompletedIsWhole, Crawl!GapsReported, Crawl!DeadIsLost,
              Crawl!Committed
<1> QED
  BY <1>2, <1>4, <1>5, <1>6 DEF CrawlInv

\* A step of a run that goes on needs only what its pages and contents need.
LEMMA GoesOn ==
    ASSUME run.status = "running", run' = run, CrawlTypes', SlotsHold', OneHolder', NotedIsKept',
           Crawl!StoredOnce'
    PROVE  CrawlInv'
<1>1. run'.status = "running"
  OBVIOUS
<1>2. NotBegun' /\ Crawl!CompletedIsWhole' /\ Crawl!GapsReported' /\ Crawl!DeadIsLost'
  BY <1>1 DEF NotBegun, Crawl!CompletedIsWhole, Crawl!GapsReported, Crawl!DeadIsLost,
              Crawl!Committed
<1> QED
  BY <1>2 DEF CrawlInv

\* A page that leaves its slot.
LEMMA LeavesSlot ==
    ASSUME SlotsHold, CrawlTypes, NEW u \in Crawl!Active, flushed' = flushed,
           NEW st \in {"done", "failed", "given_up"}, page' = [page EXCEPT ![u] = st]
    PROVE  SlotsHold'
<1>1. Crawl!Active' = Crawl!Active \ {u}
  BY DEF Crawl!Active, CrawlTypes
<1>2. /\ IsFiniteSet(Crawl!Active \ {u})
      /\ Cardinality(Crawl!Active \ {u}) = Cardinality(Crawl!Active) - 1
  BY FS_RemoveElement DEF SlotsHold
<1>3. Cardinality(Crawl!Active) \in Nat /\ Len(flushed) \in Nat
  BY FS_CardinalityType DEF SlotsHold, CrawlTypes
<1>4. Cardinality(Crawl!Active \ {u}) <= Concurrency
  BY <1>2, <1>3, CrawlConstants DEF SlotsHold
<1>5. Len(flushed) + Cardinality(Crawl!Active \ {u}) < MaxRequests + Concurrency
  BY <1>2, <1>3, CrawlConstants DEF SlotsHold
<1> QED
  BY <1>1, <1>2, <1>4, <1>5 DEF SlotsHold

\* A queued page is entered, skipped or never answers.
LEMMA EnterStep ==
    ASSUME CrawlInv, NEW u \in Urls, Crawl!Enter(u) \/ Crawl!Unanswered(u) PROVE CrawlInv'
<1>1. /\ run.status = "running" /\ page[u] = "queued"
      /\ hashes' = hashes /\ flushed' = flushed /\ queued' = queued /\ errors' = errors
      /\ parsed' = parsed /\ dead' = dead /\ run' = run
  BY DEF Crawl!Enter, Crawl!Unanswered
<1>2. PICK st \in {"reading", "skipped", "unanswered"} :
        /\ page' = [page EXCEPT ![u] = st]
        /\ st = "reading" => Len(flushed) < MaxRequests /\ Cardinality(Crawl!Active) < Concurrency
  <2>0. CASE Crawl!Unanswered(u)
    BY <2>0 DEF Crawl!Unanswered
  <2>1. CASE Crawl!Enter(u) /\ Len(flushed) < MaxRequests /\ u \in Listed /\ u \notin Disallowed
    BY <2>1 DEF Crawl!Enter, Crawl!Cardinality, Cardinality
  <2>2. CASE Crawl!Enter(u) /\ ~(Len(flushed) < MaxRequests /\ u \in Listed /\ u \notin Disallowed)
    BY <2>2 DEF Crawl!Enter
  <2> QED
    BY <2>0, <2>1, <2>2
<1>3. CrawlTypes'
  BY <1>1, <1>2 DEF CrawlInv, CrawlTypes, PageStates
<1>4. u \notin Crawl!Active
  BY <1>1 DEF Crawl!Active
<1>5. SlotsHold'
  <2>1. CASE st # "reading"
    <3>1. Crawl!Active' = Crawl!Active
      BY <1>1, <1>2, <2>1 DEF CrawlInv, CrawlTypes, Crawl!Active
    <3> QED
      BY <1>1, <3>1 DEF CrawlInv, SlotsHold
  <2>2. CASE st = "reading"
    <3>1. Crawl!Active' = Crawl!Active \cup {u}
      BY <1>1, <1>2, <2>2 DEF CrawlInv, CrawlTypes, Crawl!Active
    <3>2. /\ IsFiniteSet(Crawl!Active \cup {u})
          /\ Cardinality(Crawl!Active \cup {u}) = Cardinality(Crawl!Active) + 1
      BY <1>4, FS_AddElement DEF CrawlInv, SlotsHold
    <3>3. Cardinality(Crawl!Active) \in Nat /\ Len(flushed) \in Nat
      BY FS_CardinalityType DEF CrawlInv, SlotsHold, CrawlTypes
    <3>4. Len(flushed) < MaxRequests /\ Cardinality(Crawl!Active) < Concurrency
      BY <1>2, <2>2
    <3>5. /\ Cardinality(Crawl!Active \cup {u}) <= Concurrency
          /\ Len(flushed) + Cardinality(Crawl!Active \cup {u}) < MaxRequests + Concurrency
      BY <3>2, <3>3, <3>4, CrawlConstants
    <3> QED
      BY <1>1, <3>1, <3>2, <3>5 DEF SlotsHold
  <2> QED
    BY <2>1, <2>2
<1>6. OneHolder' /\ NotedIsKept' /\ Crawl!StoredOnce'
  BY <1>1, <1>2 DEF CrawlInv, CrawlTypes, OneHolder, NotedIsKept, IsStored, IsGivenUp, Holding,
                    Crawl!StoredOnce
<1> QED
  BY <1>1, <1>3, <1>5, <1>6, GoesOn

LEMMA ReadStep ==
    ASSUME CrawlInv, NEW u \in Urls, Crawl!Read(u) PROVE CrawlInv'
<1>1. /\ run.status = "running" /\ page[u] = "reading"
      /\ flushed' = flushed /\ queued' = queued /\ errors' = errors
      /\ parsed' = parsed /\ dead' = dead /\ run' = run
  BY DEF Crawl!Read
<1>2. u \in Crawl!Active
  BY <1>1 DEF Crawl!Active
<1>3. CASE /\ Content[u] = "file" \/ Content[u] \in hashes
           /\ page' = [page EXCEPT ![u] = "done"] /\ hashes' = hashes
  <2>1. CrawlTypes'
    BY <1>1, <1>3 DEF CrawlInv, CrawlTypes, PageStates
  <2>2. SlotsHold'
    BY <1>1, <1>2, <1>3, LeavesSlot DEF CrawlInv
  <2>3. OneHolder' /\ NotedIsKept' /\ Crawl!StoredOnce'
    BY <1>1, <1>3 DEF CrawlInv, CrawlTypes, OneHolder, NotedIsKept, IsStored, IsGivenUp, Holding,
                      Crawl!StoredOnce
  <2> QED
    BY <1>1, <2>1, <2>2, <2>3, GoesOn
<1>4. CASE /\ Content[u] \notin hashes /\ page' = [page EXCEPT ![u] = "linking"]
           /\ hashes' = hashes \cup {Content[u]}
  <2>1. CrawlTypes'
    BY <1>1, <1>4 DEF CrawlInv, CrawlTypes, PageStates
  <2>2. Crawl!Active' = Crawl!Active
    BY <1>1, <1>4 DEF CrawlInv, CrawlTypes, Crawl!Active
  <2>3. SlotsHold'
    BY <1>1, <2>2 DEF CrawlInv, SlotsHold
  <2>4. page'[u] = "linking" /\ \A v \in Urls \ {u} : page'[v] = page[v]
    BY <1>4 DEF CrawlInv, CrawlTypes
  <2>5. OneHolder'
    BY <1>1, <1>4, <2>4 DEF CrawlInv, OneHolder, IsStored, Holding
  <2>6. NotedIsKept'
    BY <1>1, <1>4, <2>4 DEF CrawlInv, NotedIsKept, IsStored, IsGivenUp, Holding
  <2>7. Crawl!StoredOnce'
    BY <1>1 DEF CrawlInv, Crawl!StoredOnce
  <2> QED
    BY <1>1, <2>1, <2>3, <2>5, <2>6, <2>7, GoesOn
<1> QED
  BY <1>3, <1>4 DEF Crawl!Read

\* The links of a page are queued.
LEMMA LinkStep ==
    ASSUME CrawlInv, NEW u \in Urls, Crawl!Link(u) PROVE CrawlInv'
<1>1. /\ run.status = "running" /\ page[u] = "linking"
      /\ hashes' = hashes /\ flushed' = flushed /\ queued' = queued /\ errors' = errors
      /\ parsed' = parsed /\ dead' = dead /\ run' = run
  BY DEF Crawl!Link
<1>2. PICK found \in SUBSET Urls :
        /\ \A v \in found : page[v] = "unknown"
        /\ page' = [v \in Urls |-> IF v = u THEN "storing" ELSE IF v \in found THEN "queued"
                                   ELSE page[v]]
  <2>1. {v \in LinksOf[u] : u \notin Deepest /\ page[v] = "unknown"} \in SUBSET Urls
    BY CrawlConstants
  <2> QED
    BY <2>1 DEF Crawl!Link
<1>3. page \in [Urls -> PageStates]
  BY DEF CrawlInv, CrawlTypes
<1>4. page' \in [Urls -> PageStates]
  <2>1. \A v \in Urls : page'[v] \in PageStates
    BY <1>2, <1>3 DEF PageStates
  <2>2. DOMAIN page' = Urls /\ page' = [v \in Urls |-> page'[v]]
    BY <1>2
  <2> QED
    BY <2>1, <2>2
<1>5. /\ \A v \in Urls : page'[v] \in Holding => page[v] \in Holding
      /\ \A v \in Urls : page[v] \in Holding => page'[v] \in Holding
  BY <1>1, <1>2 DEF Holding
<1>6. /\ \A v \in Urls : page'[v] = "reading" => page[v] = "reading"
      /\ \A v \in Urls : page[v] = "reading" => page'[v] = "reading"
      /\ \A v \in Urls : page[v] = "given_up" => page'[v] = "given_up"
      /\ \A v \in Urls : page'[v] = "failed" => page[v] = "failed"
      /\ \A v \in Urls : page'[v] = "done" => page[v] = "done"
  BY <1>1, <1>2
<1>7. CrawlTypes'
  BY <1>1, <1>4 DEF CrawlInv, CrawlTypes
<1>8. SlotsHold'
  <2>1. /\ \A v \in Crawl!Active' : v \in Crawl!Active
        /\ \A v \in Crawl!Active : v \in Crawl!Active'
    BY <1>5, <1>6 DEF Crawl!Active, Holding
  <2>2. Crawl!Active' = Crawl!Active
    BY <2>1
  <2> QED
    BY <1>1, <2>2 DEF CrawlInv, SlotsHold
<1>9. \A c : IsStored(c)' <=> IsStored(c)
  BY <1>1 DEF IsStored
<1>10. \A c : IsGivenUp(c) => IsGivenUp(c)'
  BY <1>6 DEF IsGivenUp
<1>11. OneHolder'
  BY <1>1, <1>5, <1>9 DEF CrawlInv, OneHolder
<1>12. Crawl!StoredOnce'
  BY <1>1 DEF CrawlInv, Crawl!StoredOnce
<1>13. NotedIsKept'
  <2> SUFFICES ASSUME errors' = 0 PROVE NotedIsKept'
    BY DEF NotedIsKept
  <2>1. \A c \in hashes' : \/ IsStored(c)' \/ IsGivenUp(c)'
                          \/ \E v \in Urls : page'[v] \in Holding /\ Content[v] = c
    BY <1>1, <1>5, <1>9, <1>10 DEF CrawlInv, NotedIsKept
  <2>2. /\ \A v \in Urls : page'[v] # "failed"
        /\ \A v \in Urls : page'[v] = "done" => Content[v] = "file" \/ Content[v] \in hashes'
    BY <1>1, <1>6 DEF CrawlInv, NotedIsKept
  <2> QED
    BY <2>1, <2>2 DEF NotedIsKept
<1> QED
  BY <1>1, <1>7, <1>8, <1>11, <1>12, <1>13, GoesOn

\* A page is given up: what it noted may never be stored, but is known to be given up.
LEMMA TimeOutStep ==
    ASSUME CrawlInv, NEW u \in Urls, Crawl!TimeOut(u) PROVE CrawlInv'
<1>1. /\ run.status = "running" /\ u \in Crawl!Active
      /\ page' = [page EXCEPT ![u] = "given_up"]
      /\ hashes' = hashes /\ flushed' = flushed /\ queued' = queued /\ errors' = errors
      /\ parsed' = parsed /\ dead' = dead /\ run' = run
  BY DEF Crawl!TimeOut
<1>2. CrawlTypes'
  BY <1>1 DEF CrawlInv, CrawlTypes, PageStates
<1>3. SlotsHold'
  BY <1>1, LeavesSlot DEF CrawlInv
<1>4. page'[u] = "given_up" /\ \A v \in Urls \ {u} : page'[v] = page[v]
  BY <1>1 DEF CrawlInv, CrawlTypes
<1>5. OneHolder' /\ Crawl!StoredOnce'
  BY <1>1, <1>4 DEF CrawlInv, OneHolder, IsStored, Holding, Crawl!StoredOnce
<1>6. NotedIsKept'
  <2> SUFFICES ASSUME errors' = 0 PROVE NotedIsKept'
    BY DEF NotedIsKept
  <2>1. \A c : IsStored(c)' <=> IsStored(c)
    BY <1>1 DEF IsStored
  <2>2. \A c : IsGivenUp(c) => IsGivenUp(c)'
    BY <1>1, <1>4 DEF IsGivenUp, Crawl!Active
  <2>3. IsGivenUp(Content[u])'
    BY <1>4 DEF IsGivenUp
  <2>4. \A c \in hashes' : \/ IsStored(c)' \/ IsGivenUp(c)'
                          \/ \E v \in Urls : page'[v] \in Holding /\ Content[v] = c
    BY <1>1, <1>4, <2>1, <2>2, <2>3 DEF CrawlInv, NotedIsKept
  <2>5. /\ \A v \in Urls : page'[v] # "failed"
        /\ \A v \in Urls : page'[v] = "done" => Content[v] = "file" \/ Content[v] \in hashes'
    BY <1>1, <1>4 DEF CrawlInv, NotedIsKept
  <2> QED
    BY <2>4, <2>5 DEF NotedIsKept
<1> QED
  BY <1>1, <1>2, <1>3, <1>5, <1>6, GoesOn

\* An error is collected: nothing is claimed of the contents any more.
LEMMA FailsStep ==
    ASSUME CrawlInv, NEW u \in Urls, Crawl!Break(u) \/ Crawl!FlushFails(u) PROVE CrawlInv'
<1>1. /\ run.status = "running" /\ u \in Crawl!Active
      /\ page' = [page EXCEPT ![u] = "failed"] /\ errors' = errors + 1 /\ dead' \in BOOLEAN
      /\ hashes' = hashes /\ flushed' = flushed /\ queued' = queued /\ parsed' = parsed /\ run' = run
  BY DEF Crawl!Break, Crawl!FlushFails, Crawl!Fails, Crawl!Active, CrawlInv, CrawlTypes
<1>2. CrawlTypes' /\ NotedIsKept'
  BY <1>1 DEF CrawlInv, CrawlTypes, PageStates, NotedIsKept
<1>3. SlotsHold'
  BY <1>1, LeavesSlot DEF CrawlInv
<1>4. OneHolder' /\ Crawl!StoredOnce'
  BY <1>1 DEF CrawlInv, CrawlTypes, OneHolder, IsStored, Holding, Crawl!StoredOnce
<1> QED
  BY <1>1, <1>2, <1>3, <1>4, GoesOn

LEMMA KeepStep ==
    ASSUME CrawlInv, NEW u \in Urls, NEW outcome \in {"item", "no_item", "unparsed"},
           Crawl!Keep(u, outcome)
    PROVE  CrawlInv'
<1>1. /\ run.status = "running" /\ page[u] = "storing" /\ ~dead
      /\ flushed' = Append(flushed, Content[u])
      /\ parsed' = parsed + (IF outcome = "unparsed" THEN 0 ELSE 1)
      /\ errors' = errors + (IF outcome = "item" THEN 0 ELSE 1)
      /\ hashes' = hashes /\ dead' = dead /\ run' = run
      /\ page' = [page EXCEPT ![u] = "done"]
  BY DEF Crawl!Keep
<1>2. PICK item \in {"blocked", "pending"} :
        queued' = IF outcome = "item" THEN Append(queued, item) ELSE queued
  BY DEF Crawl!Keep
<1>3. /\ page' \in [Urls -> PageStates] /\ page'[u] = "done"
      /\ \A v \in Urls \ {u} : page'[v] = page[v]
  BY <1>1 DEF CrawlInv, CrawlTypes, PageStates
<1>4. /\ flushed \in Seq(Contents) /\ queued \in Seq({"blocked", "pending"}) /\ Content[u] \in Contents
      /\ errors \in Nat /\ parsed \in Nat /\ Len(queued) <= parsed /\ parsed <= Len(flushed)
      /\ Len(flushed) - Len(queued) <= errors /\ dead \in BOOLEAN
  BY DEF CrawlInv, CrawlTypes, Contents
<1>5. /\ flushed' \in Seq(Contents) /\ Len(flushed') = Len(flushed) + 1
      /\ \A k \in 1..Len(flushed) : flushed'[k] = flushed[k]
      /\ flushed'[Len(flushed) + 1] = Content[u]
      /\ DOMAIN flushed' = 1..Len(flushed) + 1 /\ DOMAIN flushed = 1..Len(flushed)
      /\ Len(flushed) \in Nat
  BY <1>1, <1>4
<1>6. CrawlTypes'
  <2>1. queued' \in Seq({"blocked", "pending"})
        /\ Len(queued') = Len(queued) + (IF outcome = "item" THEN 1 ELSE 0)
        /\ Len(queued) \in Nat
    BY <1>2, <1>4
  <2>2. /\ errors' \in Nat /\ parsed' \in Nat /\ Len(queued') <= parsed'
        /\ parsed' <= Len(flushed') /\ Len(flushed') - Len(queued') <= errors'
    BY <1>1, <1>4, <1>5, <2>1
  <2> QED
    BY <1>1, <1>3, <1>4, <1>5, <2>1, <2>2 DEF CrawlTypes
<1>7. SlotsHold'
  <2>1. Crawl!Active' = Crawl!Active \ {u}
    BY <1>3 DEF Crawl!Active
  <2>2. u \in Crawl!Active
    BY <1>1 DEF Crawl!Active
  <2>3. /\ IsFiniteSet(Crawl!Active \ {u})
        /\ Cardinality(Crawl!Active \ {u}) = Cardinality(Crawl!Active) - 1
    BY <2>2, FS_RemoveElement DEF CrawlInv, SlotsHold
  <2>4. Cardinality(Crawl!Active) \in Nat
    BY FS_CardinalityType DEF CrawlInv, SlotsHold
  <2>5. /\ Cardinality(Crawl!Active \ {u}) <= Concurrency
        /\ Len(flushed') + Cardinality(Crawl!Active \ {u}) < MaxRequests + Concurrency
    BY <1>5, <2>3, <2>4, CrawlConstants DEF CrawlInv, SlotsHold
  <2> QED
    BY <2>1, <2>3, <2>5 DEF SlotsHold
<1>8. \A c : IsStored(c)' <=> IsStored(c) \/ c = Content[u]
  BY <1>5 DEF IsStored
<1>9. /\ Content[u] \in hashes /\ ~IsStored(Content[u])
      /\ \A v \in Urls : page[v] \in Holding /\ Content[v] = Content[u] => v = u
      /\ \A k \in DOMAIN flushed : flushed[k] \in hashes
  BY <1>1 DEF CrawlInv, OneHolder, Holding
<1>10. OneHolder'
  <2>1. \A k \in DOMAIN flushed' : flushed'[k] \in hashes'
    BY <1>1, <1>5, <1>9
  <2>2. \A v \in Urls : page'[v] \in Holding => v # u /\ page[v] \in Holding
    BY <1>3 DEF Holding
  <2> QED
    BY <1>1, <1>8, <1>9, <2>1, <2>2 DEF CrawlInv, OneHolder
<1>11. NotedIsKept'
  <2> SUFFICES ASSUME errors' = 0 PROVE NotedIsKept'
    BY DEF NotedIsKept
  <2>1. errors = 0
    BY <1>1, <1>4
  <2>2. /\ \A v \in Urls : page[v] \in Holding => v = u \/ page'[v] \in Holding
        /\ \A c : IsGivenUp(c) => IsGivenUp(c)'
    BY <1>1, <1>3 DEF IsGivenUp
  <2>3. \A c \in hashes' : \/ IsStored(c)' \/ IsGivenUp(c)'
                          \/ \E v \in Urls : page'[v] \in Holding /\ Content[v] = c
    BY <1>1, <1>8, <2>1, <2>2 DEF CrawlInv, NotedIsKept
  <2>4. /\ \A v \in Urls : page'[v] # "failed"
        /\ \A v \in Urls : page'[v] = "done" => Content[v] = "file" \/ Content[v] \in hashes'
    BY <1>1, <1>3, <1>9, <2>1 DEF CrawlInv, NotedIsKept
  <2> QED
    BY <2>3, <2>4 DEF NotedIsKept
<1>12. Crawl!StoredOnce'
  <2>1. \A k \in 1..Len(flushed) : flushed[k] # Content[u]
    BY <1>5, <1>9 DEF IsStored
  <2>2. \A k, l \in 1..Len(flushed) : flushed[k] = flushed[l] => k = l
    BY <1>5 DEF CrawlInv, Crawl!StoredOnce
  <2> QED
    BY <1>5, <2>1, <2>2 DEF Crawl!StoredOnce
<1> QED
  BY <1>1, <1>6, <1>7, <1>10, <1>11, <1>12, GoesOn

\* What the end of a run leaves alone.
LEMMA PagesStay ==
    ASSUME CrawlTypes, SlotsHold, OneHolder, NotedIsKept, Crawl!StoredOnce,
           UNCHANGED <<page, hashes, flushed, queued, errors, parsed, dead>>
    PROVE  (CrawlTypes /\ SlotsHold /\ OneHolder /\ NotedIsKept /\ Crawl!StoredOnce)'
BY DEF CrawlTypes, SlotsHold, Crawl!Active, OneHolder, NotedIsKept, IsStored, IsGivenUp,
       Crawl!StoredOnce

LEMMA EndStep ==
    ASSUME CrawlInv, Crawl!Refuse \/ Crawl!End \/ Crawl!Fatal PROVE CrawlInv'
<1>1. UNCHANGED <<page, hashes, flushed, queued, errors, parsed, dead>>
  BY DEF Crawl!Refuse, Crawl!End, Crawl!Fatal
<1>2. (CrawlTypes /\ SlotsHold /\ OneHolder /\ NotedIsKept /\ Crawl!StoredOnce)'
  BY <1>1, PagesStay DEF CrawlInv
<1>3. /\ run'.status \in {"failed", "completed", "completed_with_warnings", "lost"}
      /\ dead => run'.status = "lost"
      /\ run'.status = "completed" => errors = 0 /\ Crawl!Active = {}
  <2>1. CASE Crawl!Refuse
    BY <2>1 DEF Crawl!Refuse, Crawl!Row, CrawlInv, NotBegun
  <2>2. CASE Crawl!End
    BY <2>2 DEF Crawl!End, Crawl!Ready, Crawl!Row
  <2>3. CASE Crawl!Fatal
    BY <2>3 DEF Crawl!Fatal, Crawl!Row
  <2> QED
    BY <2>1, <2>2, <2>3
<1>4. NotBegun' /\ Crawl!DeadIsLost'
  BY <1>1, <1>3 DEF NotBegun, Crawl!DeadIsLost, Crawl!Committed
<1>5. Crawl!CompletedIsWhole'
  <2> SUFFICES ASSUME run'.status = "completed", NEW u \in Urls, page'[u] \in {"done", "failed"},
                      Content[u] # "file"
               PROVE  IsStored(Content[u])' \/ IsGivenUp(Content[u])'
    BY DEF Crawl!CompletedIsWhole, IsStored, IsGivenUp
  <2>1. errors = 0 /\ \A v \in Urls : page[v] \notin Holding
    BY <1>3 DEF Crawl!Active, Holding
  <2>2. IsStored(Content[u]) \/ IsGivenUp(Content[u])
    BY <1>1, <2>1 DEF CrawlInv, NotedIsKept
  <2> QED
    BY <1>1, <2>2 DEF IsStored, IsGivenUp
<1>6. Crawl!GapsReported'
  <2> SUFFICES ASSUME run'.status \in {"completed", "completed_with_warnings"}
               PROVE  /\ run'.persisted <= run'.parsed /\ run'.parsed <= run'.fetched
                      /\ run'.fetched - run'.persisted <= run'.errors
    BY DEF Crawl!GapsReported
  <2>1. /\ run'.persisted = Len(queued) /\ run'.parsed = parsed
        /\ run'.fetched = Len(flushed) /\ run'.errors = errors
    BY DEF Crawl!Refuse, Crawl!End, Crawl!Fatal, Crawl!Row
  <2> QED
    BY <2>1 DEF CrawlInv, CrawlTypes
<1> QED
  BY <1>2, <1>4, <1>5, <1>6 DEF CrawlInv

LEMMA BeginStep ==
    ASSUME CrawlInv, Crawl!Start PROVE CrawlInv'
<1>1. /\ run.status = "none" /\ run'.status = "running"
      /\ page' = [u \in Urls |-> IF u \in StartUrls THEN "queued" ELSE "unknown"]
      /\ hashes' = hashes /\ flushed' = flushed /\ queued' = queued /\ errors' = errors
      /\ parsed' = parsed /\ dead' = dead
  BY DEF Crawl!Start, Crawl!Row
<1>2. hashes = {} /\ flushed = <<>>
  BY <1>1 DEF CrawlInv, NotBegun
<1>3. CrawlTypes'
  BY <1>1 DEF CrawlInv, CrawlTypes, PageStates
<1>4. SlotsHold'
  <2>1. Crawl!Active' = {}
    BY <1>1 DEF Crawl!Active
  <2> QED
    BY <1>1, <1>2, <2>1, FS_EmptySet, CrawlConstants DEF SlotsHold
<1>5. OneHolder' /\ NotedIsKept' /\ Crawl!StoredOnce'
  BY <1>1, <1>2 DEF OneHolder, NotedIsKept, IsStored, Holding, Crawl!StoredOnce
<1>6. NotBegun' /\ Crawl!CompletedIsWhole' /\ Crawl!GapsReported' /\ Crawl!DeadIsLost'
  BY <1>1 DEF NotBegun, Crawl!CompletedIsWhole, Crawl!GapsReported, Crawl!DeadIsLost,
              Crawl!Committed
<1> QED
  BY <1>3, <1>4, <1>5, <1>6 DEF CrawlInv

LEMMA CrawlStepInv == CrawlInv /\ (Crawl!Next \/ UNCHANGED crawlVars) => CrawlInv'
<1> SUFFICES ASSUME CrawlInv, Crawl!Next \/ UNCHANGED crawlVars PROVE CrawlInv'
  OBVIOUS
<1>1. CASE UNCHANGED crawlVars
  <2>1. (CrawlTypes /\ SlotsHold /\ OneHolder /\ NotedIsKept /\ Crawl!StoredOnce)'
    BY <1>1, PagesStay DEF CrawlInv, crawlVars
  <2> QED
    BY <1>1, <2>1 DEF CrawlInv, crawlVars, NotBegun, Crawl!CompletedIsWhole,
       Crawl!GapsReported, Crawl!DeadIsLost, Crawl!Committed
<1> QED
  BY <1>1, EnterStep, ReadStep, LinkStep, TimeOutStep, FailsStep, KeepStep, EndStep, BeginStep
     DEF Crawl!Next

LEMMA CrawlHolds == CrawlInv => Crawl!WebMonitorSafe
<1> SUFFICES ASSUME CrawlInv PROVE Crawl!WebMonitorSafe
  OBVIOUS
<1>1. Crawl!TypeOK
  BY DEF CrawlInv, CrawlTypes, PageStates, Crawl!TypeOK
<1>2. Crawl!LimitPassed
  <2>1. Cardinality(Crawl!Active) \in Nat /\ Len(flushed) \in Nat
    BY FS_CardinalityType DEF CrawlInv, SlotsHold, CrawlTypes
  <2> QED
    BY <2>1, CrawlConstants DEF CrawlInv, SlotsHold, Crawl!LimitPassed
<1> QED
  BY <1>1, <1>2 DEF CrawlInv, Crawl!WebMonitorSafe

\* Every review item an adapter's run leaves is shown by the snapshot it names, but for the
\* later pages of a year (source_adapters), and one run's items wait under one identity; a
\* crawl recorded as completed has a snapshot of every page it was let in to, each once, but
\* for contents crawlee gave up, and tells by an error of every snapshot without an item
\* (web_monitor).  However sessions, requests and reviewers interleave.
THEOREM FetchesTraceable == Spec => []FetchSafe
<1>1. Init => AdaptInv /\ CrawlInv
  BY AdaptInit, CrawlInit DEF Init
<1>2. AdaptInv /\ CrawlInv /\ [Next]_vars => AdaptInv' /\ CrawlInv'
  BY AdaptStepInv, CrawlStepInv
     DEF Next, AdaptStep, CrawlStep, BulkStep, GateStep, vars, adaptVars, crawlVars
<1>3. AdaptInv /\ CrawlInv => FetchSafe
  BY AdaptHolds, CrawlHolds DEF FetchSafe
<1> QED
  BY <1>1, <1>2, <1>3, PTL DEF Spec

--------------------------------------------------------------------------------
(* BulkImport: who may write the run row of a file, and what a run accounts   *)
(* for.                                                                       *)

LastFile == Len(Files)
RowsOf(f) == Files[f].rows
Counts == [persisted : Nat, skipped : Nat, errors : Nat]
Statuses == {"running", "done", "done_with_errors", "failed"}
Seen(c, there) == Bulk!Keys(there) \cup Bulk!Keys(c.recs)
Runs(records) == {r.run : r \in records}

\* The rows before n that are complete, and refer to nothing, are among the keys.
WholeTo(f, n, keys) ==
    \A k \in 1..n - 1 :
        RowsOf(f)[k].key # None /\ RowsOf(f)[k].needs = {} => RowsOf(f)[k].key \in keys

\* A count accounts for n rows.
CountsTo(count, n) ==
    /\ count \in Counts /\ count.persisted + count.skipped = n /\ count.errors <= count.skipped

\* The run rows: one run is of one file; a run that is done accounts for its file.
RunRow(f, r, n) ==
    \/ r = Bulk!Absent
    \/ /\ DOMAIN r = {"id", "status", "count"}
       /\ r.id \in 1..n - 1 /\ r.status \in Statuses
       /\ Bulk!Done(r) => CountsTo(r.count, Len(RowsOf(f)))

RunRows ==
    /\ nextId \in Nat \ {0}
    /\ runs = [f \in 1..LastFile |-> runs[f]]
    /\ \A f \in 1..LastFile : RunRow(f, runs[f], nextId)
    /\ \A f, g \in 1..LastFile : runs[f].id = runs[g].id => f = g \/ runs[f].id = 0

Records ==
    /\ traced \subseteq stored /\ undone \subseteq 1..nextId - 1
    /\ Runs(stored) \subseteq 1..nextId - 1

\* The phases of a call; IsOpen(c): it imports the rows of a file.
IsOpen(c) == c # Bulk!Idle /\ c.phase = "rows"

OpenFields == {"via", "force", "at", "phase", "id", "loose", "kept", "next", "count", "recs",
               "links", "broken"}

OpenShape(c, n) ==
    /\ DOMAIN c = OpenFields /\ c.phase = "rows"
    /\ c.loose \in BOOLEAN /\ c.kept \in BOOLEAN /\ c.broken \in BOOLEAN
    /\ c.id \in 1..n - 1 /\ c.next \in 1..Len(RowsOf(c.at)) + 1
    /\ CountsTo(c.count, c.next - 1)
    /\ Runs(c.recs) \subseteq {c.id} /\ c.links \subseteq c.recs
    /\ c.via = "script" => c.loose /\ c.kept
    /\ c.loose /\ ~c.kept => c.broken

CallShape(c, n) ==
    \/ c = Bulk!Idle
    \/ /\ c.at \in 1..LastFile /\ c.via \in {"route", "script"} /\ c.force \in BOOLEAN
       /\ \/ /\ DOMAIN c = {"via", "force", "at", "phase"}
             /\ c.phase \in {"file", "open"}
          \/ OpenShape(c, n)

Calls ==
    /\ call = [s \in Sessions |-> call[s]]
    /\ \A s \in Sessions : CallShape(call[s], nextId)

\* What a transaction holds refers to what is stored or held, and is all of its file so far.
Holds(c, there) ==
    /\ \A r \in c.recs : r.needs \subseteq Seen(c, there)
    /\ ~c.broken => WholeTo(c.at, c.next, Seen(c, there))

\* The run of a transaction is of its file; one it has made is nobody else's; what it holds
\* is traced as long as the run is there, and nothing is once a run of its own is undone.
Owns(c, rows, there) ==
    /\ \A f \in 1..LastFile : rows[f].id = c.id => f = c.at /\ c.kept
    /\ ~c.kept => c.id \notin Runs(there)
    /\ (~c.kept /\ ~c.loose) \/ rows[c.at].id = c.id => c.recs = c.links
    /\ ~c.kept /\ c.loose => c.links = {}

\* It is about to replace the run of its file, if there is one.
Replaces(c) == ~c.kept /\ ~c.loose

\* What one open transaction keeps from another: the run it made, references to the run it
\* replaces, and the row of its file's run.
Apart(c, d, rows) ==
    /\ ~c.kept => d.id # c.id
    /\ Replaces(c) => rows[c.at].id \notin Runs(d.links)
    /\ c.at = d.at => c.loose \/ d.loose

SoundOpen(c, rows, there, links) ==
    /\ Holds(c, there) /\ Owns(c, rows, there)
    /\ Replaces(c) => rows[c.at].id \notin Runs(links)

Transactions ==
    /\ \A s \in Sessions : IsOpen(call[s]) => SoundOpen(call[s], runs, stored, traced)
    /\ \A s, t \in Sessions : IsOpen(call[s]) /\ IsOpen(call[t]) /\ s # t =>
        Apart(call[s], call[t], runs)

BulkInv ==
    /\ RunRows /\ Records /\ Calls /\ Transactions
    /\ Bulk!DoneIsWhole /\ Bulk!Traced /\ Bulk!NeedsStored

LEMMA BulkConstants ==
    /\ LastFile \in Nat /\ LastFile > 0 /\ DOMAIN Files = 1..LastFile
    /\ \A f \in 1..LastFile : /\ Len(RowsOf(f)) \in Nat /\ DOMAIN RowsOf(f) = 1..Len(RowsOf(f))
                              /\ Files[f].stem \in Bulk!Stems
                              /\ RowsOf(f) = <<>> <=> Len(RowsOf(f)) = 0
<1>1. Bulk!BulkImportAssumption
  BY IngestAssumption
<1>2. LastFile \in Nat /\ LastFile > 0 /\ DOMAIN Files = 1..LastFile
  BY <1>1 DEF Bulk!BulkImportAssumption, LastFile
<1>3. \A f \in 1..LastFile : Files[f].stem \in Bulk!Stems
  BY <1>1, <1>2 DEF Bulk!BulkImportAssumption
<1>4. ASSUME NEW f \in 1..LastFile
      PROVE  /\ Len(RowsOf(f)) \in Nat /\ DOMAIN RowsOf(f) = 1..Len(RowsOf(f))
             /\ RowsOf(f) = <<>> <=> Len(RowsOf(f)) = 0
  <2>1. RowsOf(f) \in Seq({RowsOf(f)[k] : k \in DOMAIN RowsOf(f)})
    BY <1>1, <1>2 DEF Bulk!BulkImportAssumption, RowsOf
  <2> QED
    BY <2>1
<1> QED
  BY <1>2, <1>3, <1>4

\* The next row of a transaction: one that needs nothing is only refused for want of a key.
LEMMA RowOutcomes ==
    ASSUME NEW c, c.at \in 1..LastFile, c.next \in 1..Len(RowsOf(c.at)),
           NEW row, row = RowsOf(c.at)[c.next],
           NEW seen, NEW o, o = Bulk!Outcome(Files[c.at].stem, row, seen)
    PROVE  /\ o \in {"stored", "skipped", "error"}
           /\ o = "stored" => row.needs \subseteq seen
           /\ row.key # None /\ row.needs = {} /\ o # "stored" => row.key \in seen
<1>1. PICK stem : stem = Files[c.at].stem
  OBVIOUS
<1>2. stem \in {"courts", "people", "opinions"} => row.needs = {}
  <2>1. Bulk!BulkImportAssumption
    BY IngestAssumption
  <2> QED
    BY <1>1, <2>1, BulkConstants DEF Bulk!BulkImportAssumption, RowsOf
<1>3. stem \in Bulk!Stems
  BY <1>1, BulkConstants
<1>4. CASE stem \in {"courts", "people", "opinions"}
  BY <1>1, <1>2, <1>4 DEF Bulk!Outcome, Bulk!Courts, Bulk!People, Bulk!Opinions
<1>5. CASE stem \in {"positions", "dockets", "clusters"}
  BY <1>1, <1>5 DEF Bulk!Outcome, Bulk!Positions, Bulk!Dockets, Bulk!Clusters
<1> QED
  BY <1>3, <1>4, <1>5 DEF Bulk!Stems

\* One row more is counted.
LEMMA CountsOneMore ==
    ASSUME NEW n \in Nat, NEW count, CountsTo(count, n), NEW o \in {"stored", "skipped", "error"}
    PROVE  CountsTo(Bulk!Counted(count, o), n + 1)
<1>1. /\ count = [persisted |-> count.persisted, skipped |-> count.skipped, errors |-> count.errors]
      /\ count.persisted \in Nat /\ count.skipped \in Nat /\ count.errors \in Nat
  BY DEF CountsTo, Counts
<1>2. PICK c : c = Bulk!Counted(count, o)
  OBVIOUS
<1>3. \/ c = [persisted |-> count.persisted + 1, skipped |-> count.skipped, errors |-> count.errors]
      \/ c = [persisted |-> count.persisted, skipped |-> count.skipped + 1, errors |-> count.errors]
      \/ c = [persisted |-> count.persisted, skipped |-> count.skipped + 1,
              errors |-> count.errors + 1]
  <2>1. CASE o = "stored"
    BY <1>1, <1>2, <2>1 DEF Bulk!Counted
  <2>2. CASE o = "skipped"
    BY <1>1, <1>2, <2>2 DEF Bulk!Counted
  <2>3. CASE o = "error"
    BY <1>1, <1>2, <2>3 DEF Bulk!Counted
  <2> QED
    BY <2>1, <2>2, <2>3
<1>4. c \in Counts
  BY <1>1, <1>3 DEF Counts
<1>5. c.persisted + c.skipped = n + 1 /\ c.errors <= c.skipped
  BY <1>1, <1>3 DEF CountsTo
<1> QED
  BY <1>2, <1>4, <1>5 DEF CountsTo

LEMMA IdsGrow ==
    ASSUME NEW n \in Nat, NEW m \in Nat, n <= m
    PROVE  /\ 1..n - 1 \subseteq 1..m - 1
           /\ \A c : CallShape(c, n) => CallShape(c, m)
           /\ \A f \in 1..LastFile : \A r : RunRow(f, r, n) => RunRow(f, r, m)
<1>1. 1..n - 1 \subseteq 1..m - 1
  OBVIOUS
<1>2. \A c : CallShape(c, n) => CallShape(c, m)
  BY <1>1 DEF CallShape, OpenShape
<1>3. \A f \in 1..LastFile : \A r : RunRow(f, r, n) => RunRow(f, r, m)
  BY <1>1 DEF RunRow
<1> QED
  BY <1>1, <1>2, <1>3

\* Only one call changes, and the tables stay.
LEMMA OnlyCallChanges ==
    ASSUME BulkInv, NEW s \in Sessions, NEW d, call' = [call EXCEPT ![s] = d],
           UNCHANGED <<runs, stored, traced, undone>>, nextId' \in {nextId, nextId + 1},
           CallShape(d, nextId'), IsOpen(d) => SoundOpen(d, runs, stored, traced),
           \A t \in Sessions \ {s} : IsOpen(d) /\ IsOpen(call[t]) =>
             Apart(d, call[t], runs) /\ Apart(call[t], d, runs)
    PROVE  BulkInv'
<1>1. nextId \in Nat \ {0}
  BY DEF BulkInv, RunRows
<1>2. /\ nextId' \in Nat \ {0} /\ 1..nextId - 1 \subseteq 1..nextId' - 1
      /\ \A c : CallShape(c, nextId) => CallShape(c, nextId')
      /\ \A f \in 1..LastFile : \A r : RunRow(f, r, nextId) => RunRow(f, r, nextId')
  <2>1. nextId \in Nat /\ nextId' \in Nat \ {0} /\ nextId <= nextId'
    BY <1>1
  <2> QED
    BY <2>1, IdsGrow
<1>3. call = [t \in Sessions |-> call[t]] /\ \A t \in Sessions : CallShape(call[t], nextId)
  BY DEF BulkInv, Calls
<1>4. call'[s] = d /\ \A t \in Sessions \ {s} : call'[t] = call[t]
  BY <1>3
<1>5. Calls'
  <2>1. call' = [t \in Sessions |-> call'[t]]
    BY <1>3
  <2>2. \A t \in Sessions : CallShape(call'[t], nextId')
    BY <1>2, <1>3, <1>4
  <2> QED
    BY <2>1, <2>2 DEF Calls
<1>6. RunRows'
  BY <1>2 DEF BulkInv, RunRows
<1>7. Records'
  BY <1>2 DEF BulkInv, Records
<1>8. Transactions'
  <2>1. \A t \in Sessions : IsOpen(call'[t]) => SoundOpen(call'[t], runs, stored, traced)
    BY <1>4 DEF BulkInv, Transactions
  <2>2. \A t, u \in Sessions : IsOpen(call'[t]) /\ IsOpen(call'[u]) /\ t # u =>
          Apart(call'[t], call'[u], runs)
    BY <1>4 DEF BulkInv, Transactions
  <2> QED
    BY <2>1, <2>2 DEF Transactions
<1>9. Bulk!DoneIsWhole' /\ Bulk!Traced' /\ Bulk!NeedsStored'
  BY DEF BulkInv, Bulk!DoneIsWhole, Bulk!Traced, Bulk!NeedsStored
<1> QED
  BY <1>5, <1>6, <1>7, <1>8, <1>9 DEF BulkInv

\* A call that imports no rows, or does so no longer.
LEMMA ClosedCall ==
    ASSUME BulkInv, NEW s \in Sessions, NEW d, call' = [call EXCEPT ![s] = d],
           UNCHANGED <<runs, stored, traced, undone>>, nextId' = nextId,
           CallShape(d, nextId), ~IsOpen(d)
    PROVE  BulkInv'
BY OnlyCallChanges

\* What follows the import of a file.
LEMMA AfterFile ==
    ASSUME NEW n, NEW c, c.at \in 1..LastFile, c.via \in {"route", "script"}, c.force \in BOOLEAN
    PROVE  CallShape(Bulk!After(c), n) /\ ~IsOpen(Bulk!After(c))
<1>1. CASE c.at = LastFile
  BY <1>1 DEF LastFile, Bulk!After, CallShape, IsOpen
<1>2. CASE c.at # LastFile
  <2>1. PICK d : d = Bulk!After(c)
    OBVIOUS
  <2>2. d = [via |-> c.via, force |-> c.force, at |-> c.at + 1, phase |-> "file"]
    BY <1>2, <2>1 DEF LastFile, Bulk!After
  <2>3. /\ d.via = c.via /\ d.force = c.force /\ d.at = c.at + 1 /\ d.phase = "file"
        /\ DOMAIN d = {"via", "force", "at", "phase"}
    BY <2>2
  <2>4. d.at \in 1..LastFile
    BY <1>2, <2>3, BulkConstants
  <2> QED
    BY <2>1, <2>3, <2>4 DEF CallShape, IsOpen
<1> QED
  BY <1>1, <1>2

LEMMA WaitingSteps ==
    ASSUME BulkInv, NEW s \in Sessions,
           \/ \E via \in {"route", "script"}, force \in BOOLEAN : Bulk!Enter(s, via, force)
           \/ Bulk!Skip(s) \/ Bulk!Abort(s)
    PROVE  BulkInv'
<1>1. ASSUME NEW via \in {"route", "script"}, NEW force \in BOOLEAN, Bulk!Enter(s, via, force)
      PROVE  BulkInv'
  <2>1. PICK d : d = [via |-> via, force |-> force, at |-> 1, phase |-> "file"]
    OBVIOUS
  <2>2. /\ d.via = via /\ d.force = force /\ d.at = 1 /\ d.phase = "file"
        /\ DOMAIN d = {"via", "force", "at", "phase"}
    BY <2>1
  <2>3. CallShape(d, nextId) /\ ~IsOpen(d)
    BY <2>2, BulkConstants DEF CallShape, IsOpen
  <2>4. /\ call' = [call EXCEPT ![s] = d] /\ UNCHANGED <<runs, stored, traced, undone>>
        /\ nextId' = nextId
    BY <1>1, <2>1 DEF Bulk!Enter
  <2> QED
    BY <2>3, <2>4, ClosedCall
<1>2. ASSUME Bulk!Skip(s) PROVE BulkInv'
  <2>1. /\ call[s] # Bulk!Idle /\ call' = [call EXCEPT ![s] = Bulk!After(call[s])]
        /\ UNCHANGED <<runs, stored, traced, undone>> /\ nextId' = nextId
    BY <1>2 DEF Bulk!Skip
  <2>2. CallShape(call[s], nextId)
    BY DEF BulkInv, Calls
  <2>3. CallShape(Bulk!After(call[s]), nextId) /\ ~IsOpen(Bulk!After(call[s]))
    BY <2>1, <2>2, AfterFile DEF CallShape
  <2> QED
    BY <2>1, <2>3, ClosedCall
<1>3. ASSUME Bulk!Abort(s) PROVE BulkInv'
  BY <1>3, ClosedCall DEF Bulk!Abort, CallShape, IsOpen
<1> QED
  BY <1>1, <1>2, <1>3

LEMMA OpenCall ==
    ASSUME BulkInv, NEW s \in Sessions, IsOpen(call[s])
    PROVE  /\ OpenShape(call[s], nextId) /\ call[s].at \in 1..LastFile
           /\ call[s].via \in {"route", "script"} /\ call[s].force \in BOOLEAN
           /\ SoundOpen(call[s], runs, stored, traced)
<1>1. CallShape(call[s], nextId)
  BY DEF BulkInv, Calls
<1>2. OpenShape(call[s], nextId)
  BY <1>1 DEF CallShape, IsOpen
<1> QED
  BY <1>1, <1>2 DEF CallShape, IsOpen, BulkInv, Transactions

\* What a transaction becomes when it deals with the next row.
RowFields(c, d, o) ==
    /\ DOMAIN d = OpenFields
    /\ d.via = c.via /\ d.force = c.force /\ d.at = c.at /\ d.phase = "rows" /\ d.id = c.id
    /\ d.kept = c.kept /\ d.next = c.next + 1 /\ d.count = Bulk!Counted(c.count, o)

\* A transaction that has dealt with the next row of its file.
LEMMA RowDone ==
    ASSUME BulkInv, NEW s \in Sessions, NEW c, c = call[s], IsOpen(c),
           c.next <= Len(RowsOf(c.at)), NEW o \in {"stored", "skipped", "error"},
           NEW d, RowFields(c, d, o), d.loose \in BOOLEAN, d.broken \in BOOLEAN,
           Runs(d.recs) \subseteq {c.id}, d.links \subseteq d.recs, c.loose => d.loose,
           d.loose /\ ~c.kept => d.broken
    PROVE  CallShape(d, nextId) /\ IsOpen(d)
<1>1. OpenShape(c, nextId) /\ c.at \in 1..LastFile /\ c.via \in {"route", "script"} /\ c.force \in BOOLEAN
  BY OpenCall
<1>5. /\ DOMAIN d = OpenFields
      /\ d.via = c.via /\ d.force = c.force /\ d.at = c.at /\ d.phase = "rows" /\ d.id = c.id
      /\ d.kept = c.kept /\ d.next = c.next + 1 /\ d.count = Bulk!Counted(c.count, o)
  BY DEF RowFields
<1>6. c.next \in 1..Len(RowsOf(c.at)) + 1 /\ Len(RowsOf(c.at)) \in Nat /\ CountsTo(c.count, c.next - 1)
  BY <1>1, BulkConstants DEF OpenShape
<1>7. d.next \in 1..Len(RowsOf(d.at)) + 1
  BY <1>5, <1>6
<1>8. CountsTo(d.count, d.next - 1)
  <2>1. PICK n \in Nat : n = c.next - 1
    BY <1>6
  <2>2. CountsTo(Bulk!Counted(c.count, o), n + 1)
    BY <1>6, <2>1, CountsOneMore
  <2>3. n + 1 = d.next - 1
    BY <1>5, <1>6, <2>1
  <2> QED
    BY <1>5, <2>2, <2>3
<1>9. OpenShape(d, nextId)
  BY <1>1, <1>5, <1>7, <1>8 DEF OpenShape
<1>10. IsOpen(d)
  <2>1. d.at # 0
    BY <1>1, <1>5, BulkConstants
  <2> QED
    BY <1>5, <2>1 DEF IsOpen, Bulk!Idle
<1> QED
  BY <1>1, <1>5, <1>9, <1>10 DEF CallShape

\* What is asked of two transactions if one of them goes on with its file.
LEMMA StaysApart ==
    ASSUME BulkInv, NEW s \in Sessions, IsOpen(call[s]), NEW d,
           d.at = call[s].at, d.id = call[s].id, d.kept = call[s].kept,
           call[s].loose => d.loose,
           \A t \in Sessions \ {s} : IsOpen(call[t]) /\ Replaces(call[t]) =>
             runs[call[t].at].id \notin Runs(d.links)
    PROVE  \A t \in Sessions \ {s} : IsOpen(call[t]) =>
             Apart(d, call[t], runs) /\ Apart(call[t], d, runs)
<1> SUFFICES ASSUME NEW t \in Sessions \ {s}, IsOpen(call[t])
             PROVE  Apart(d, call[t], runs) /\ Apart(call[t], d, runs)
  OBVIOUS
<1>1. Apart(call[s], call[t], runs) /\ Apart(call[t], call[s], runs)
  BY DEF BulkInv, Transactions
<1> QED
  BY <1>1 DEF Apart, Replaces

LEMMA TakeStep ==
    ASSUME BulkInv, NEW s \in Sessions, Bulk!TakeRow(s) PROVE BulkInv'
<1>1. PICK c : c = call[s]
  OBVIOUS
<1>2. IsOpen(c) /\ c.next <= Len(RowsOf(c.at))
  BY <1>1 DEF Bulk!TakeRow, Bulk!HasRow, Bulk!Working, IsOpen, RowsOf
<1>3. /\ OpenShape(c, nextId) /\ c.at \in 1..LastFile /\ SoundOpen(c, runs, stored, traced)
  BY <1>1, <1>2, OpenCall
<1>4. PICK row, o : row = RowsOf(c.at)[c.next] /\ o = Bulk!Outcome(Files[c.at].stem, row, Seen(c, stored))
  OBVIOUS
<1>5. c.next \in 1..Len(RowsOf(c.at))
  BY <1>2, <1>3, BulkConstants DEF OpenShape
<1>6. /\ o \in {"stored", "skipped", "error"}
      /\ o = "stored" => row.needs \subseteq Seen(c, stored)
      /\ row.key # None /\ row.needs = {} /\ o # "stored" => row.key \in Seen(c, stored)
  <2>1. /\ Bulk!Outcome(Files[c.at].stem, row, Seen(c, stored)) = o /\ row = RowsOf(c.at)[c.next]
        /\ c.at \in 1..LastFile /\ c.next \in 1..Len(RowsOf(c.at))
    BY <1>3, <1>4, <1>5
  <2> QED
    BY <2>1, RowOutcomes
<1>7. PICK record : record = [key |-> row.key, needs |-> row.needs, run |-> c.id]
  OBVIOUS
<1>8. PICK there \in BOOLEAN : there <=> Bulk!RunThere(c)
  OBVIOUS
<1>9. PICK recs, links : /\ recs = IF o = "stored" THEN c.recs \cup {record} ELSE c.recs
                         /\ links = IF o = "stored" /\ there THEN c.links \cup {record} ELSE c.links
  OBVIOUS
<1>10. Bulk!RowOutcome(s) = o /\ Bulk!CurrentRow(s) = row
  BY <1>1, <1>4 DEF Bulk!RowOutcome, Bulk!CurrentRow, RowsOf, Seen
<1>11. /\ UNCHANGED <<runs, stored, traced, undone>> /\ nextId' = nextId
       /\ o = "stored" => ~Bulk!Deleting(s, c.at)
       /\ call' = [call EXCEPT ![s] =
            [c EXCEPT !.next = @ + 1, !.count = Bulk!Counted(@, o),
                      !.recs = IF o = "stored" THEN @ \cup {record} ELSE @,
                      !.links = IF o = "stored" /\ Bulk!RunThere(c) THEN @ \cup {record} ELSE @]]
  BY <1>1, <1>7, <1>10 DEF Bulk!TakeRow
<1>12. PICK d :
        d = [c EXCEPT !.next = @ + 1, !.count = Bulk!Counted(@, o),
                      !.recs = IF o = "stored" THEN @ \cup {record} ELSE @,
                      !.links = IF o = "stored" /\ Bulk!RunThere(c) THEN @ \cup {record} ELSE @]
  OBVIOUS
<1>13. call' = [call EXCEPT ![s] = d]
  BY <1>11, <1>12
<1>14. /\ RowFields(c, d, o) /\ d.loose = c.loose /\ d.broken = c.broken
       /\ d.recs = recs /\ d.links = links
  <2>1. DOMAIN c = OpenFields /\ c.phase = "rows"
    BY <1>3 DEF OpenShape
  <2>2. /\ DOMAIN d = OpenFields
        /\ d.via = c.via /\ d.force = c.force /\ d.at = c.at /\ d.phase = "rows" /\ d.id = c.id
        /\ d.loose = c.loose /\ d.kept = c.kept /\ d.next = c.next + 1
        /\ d.count = Bulk!Counted(c.count, o) /\ d.broken = c.broken
    BY <1>12, <2>1 DEF OpenFields
  <2>3. d.recs = recs /\ d.links = links
    BY <1>8, <1>9, <1>12, <2>1 DEF OpenFields
  <2> QED
    BY <2>2, <2>3 DEF RowFields
<1>15. Runs(recs) \subseteq {c.id} /\ links \subseteq recs
  <2>1. Runs(c.recs) \subseteq {c.id} /\ c.links \subseteq c.recs /\ record.run = c.id
    BY <1>3, <1>7 DEF OpenShape
  <2>2. CASE o = "stored"
    BY <1>9, <2>1, <2>2 DEF Runs
  <2>3. CASE o # "stored"
    BY <1>9, <2>1, <2>3
  <2> QED
    BY <2>2, <2>3
<1>16. CallShape(d, nextId) /\ IsOpen(d)
  <2>1. c.loose \in BOOLEAN /\ c.broken \in BOOLEAN /\ (c.loose /\ ~c.kept => c.broken)
    BY <1>3 DEF OpenShape
  <2>2. /\ d.loose \in BOOLEAN /\ d.broken \in BOOLEAN /\ (c.loose => d.loose)
        /\ (d.loose /\ ~c.kept => d.broken)
    BY <1>14, <2>1
  <2>3. Runs(d.recs) \subseteq {c.id} /\ d.links \subseteq d.recs /\ RowFields(c, d, o)
    BY <1>14, <1>15
  <2> QED
    BY <1>1, <1>2, <1>6, <2>2, <2>3, RowDone
<1>17. d.at = c.at /\ d.id = c.id /\ d.kept = c.kept /\ d.next = c.next + 1
  BY <1>14 DEF RowFields
<1>18. Holds(d, stored)
  <2>1. /\ \A r \in c.recs : r.needs \subseteq Seen(c, stored)
        /\ ~c.broken => WholeTo(c.at, c.next, Seen(c, stored))
    BY <1>3 DEF SoundOpen, Holds
  <2>2. Seen(c, stored) \subseteq Seen(d, stored)
    BY <1>9, <1>14 DEF Seen, Bulk!Keys
  <2>3. \A r \in d.recs : r.needs \subseteq Seen(d, stored)
    <3>1. \A r \in d.recs : r \in c.recs \/ (r = record /\ o = "stored")
      BY <1>9, <1>14
    <3> QED
      BY <1>6, <1>7, <2>1, <2>2, <3>1
  <2>4. row.key # None /\ row.needs = {} => row.key \in Seen(d, stored)
    <3>1. CASE o = "stored"
      BY <1>7, <1>9, <1>14, <3>1 DEF Seen, Bulk!Keys
    <3>2. CASE o # "stored"
      BY <1>6, <2>2, <3>2
    <3> QED
      BY <3>1, <3>2
  <2>5. ~d.broken => WholeTo(d.at, d.next, Seen(d, stored))
    <3> SUFFICES ASSUME ~d.broken, NEW k \in 1..d.next - 1,
                        RowsOf(c.at)[k].key # None, RowsOf(c.at)[k].needs = {}
                 PROVE  RowsOf(c.at)[k].key \in Seen(d, stored)
      BY <1>17 DEF WholeTo
    <3>1. k \in 1..c.next - 1 \/ k = c.next
      BY <1>5, <1>17
    <3>2. CASE k = c.next
      BY <1>4, <2>4, <3>2
    <3>3. CASE k \in 1..c.next - 1
      BY <1>14, <2>1, <2>2, <3>3 DEF WholeTo
    <3> QED
      BY <3>1, <3>2, <3>3
  <2> QED
    BY <2>3, <2>5 DEF Holds
<1>19. Owns(d, runs, stored)
  <2>1. Owns(c, runs, stored)
    BY <1>3 DEF SoundOpen
  <2>2. (~c.kept /\ ~c.loose) \/ runs[c.at].id = c.id => there
    <3>1. c.via \in {"route", "script"} /\ (c.via = "script" => c.loose /\ c.kept)
      BY <1>1, <1>2, OpenCall DEF OpenShape
    <3> QED
      BY <1>8, <3>1 DEF Bulk!RunThere
  <2>3. ~c.kept /\ c.loose => ~there
    BY <1>3, <1>8, <2>1 DEF Bulk!RunThere, Owns
  <2>4. there => (c.recs = c.links => recs = links)
    BY <1>9
  <2>5. ~there => links = c.links
    BY <1>9
  <2> QED
    BY <1>14, <1>17, <2>1, <2>2, <2>3, <2>4, <2>5 DEF Owns
<1>20. SoundOpen(d, runs, stored, traced)
  BY <1>3, <1>14, <1>17, <1>18, <1>19 DEF SoundOpen, Replaces
<1>21. \A t \in Sessions \ {s} : IsOpen(call[t]) /\ Replaces(call[t]) =>
         runs[call[t].at].id \notin Runs(d.links)
  <2> SUFFICES ASSUME NEW t \in Sessions \ {s}, IsOpen(call[t]), Replaces(call[t]),
                      runs[call[t].at].id \in Runs(d.links)
               PROVE  FALSE
    OBVIOUS
  <2>1. runs[call[t].at].id \notin Runs(c.links)
    BY <1>1, <1>2 DEF BulkInv, Transactions, Apart
  <2>2. o = "stored" /\ runs[call[t].at].id = c.id
    BY <1>7, <1>9, <1>14, <2>1 DEF Runs
  <2>3. OpenShape(call[t], nextId) /\ call[t].at \in 1..LastFile
        /\ call[t].via \in {"route", "script"}
    BY OpenCall
  <2>4. call[t].at = c.at
    BY <1>3, <2>2, <2>3 DEF SoundOpen, Owns
  <2>5. runs[c.at].id # 0
    BY <1>3, <2>2, <2>4 DEF OpenShape
  <2>6. runs[c.at] # Bulk!Absent
    BY <2>5 DEF Bulk!Absent, Bulk!Row
  <2>7. Bulk!Working(t) /\ call[t].via = "route" /\ ~call[t].loose /\ ~call[t].kept
    BY <2>3 DEF Bulk!Working, IsOpen, Replaces, OpenShape
  <2>8. Bulk!Deleting(s, c.at)
    BY <2>4, <2>6, <2>7 DEF Bulk!Deleting, Bulk!Locked
  <2> QED
    BY <1>11, <2>2, <2>8
<1>22. \A t \in Sessions \ {s} : IsOpen(call[t]) => Apart(d, call[t], runs) /\ Apart(call[t], d, runs)
  <2>1. call[s].loose => d.loose
    BY <1>1, <1>14
  <2> QED
    BY <1>1, <1>2, <1>17, <1>21, <2>1, StaysApart
<1>23. nextId' \in {nextId, nextId + 1}
  BY <1>11
<1>24. CallShape(d, nextId')
  BY <1>11, <1>16
<1> QED
  BY <1>11, <1>13, <1>16, <1>20, <1>22, <1>23, <1>24, OnlyCallChanges

\* An insert fails: what the transaction held is gone.
LEMMA BreakStep ==
    ASSUME BulkInv, NEW s \in Sessions, Bulk!BreakRow(s) PROVE BulkInv'
<1>1. PICK c : c = call[s]
  OBVIOUS
<1>2. IsOpen(c) /\ c.next <= Len(RowsOf(c.at))
  BY <1>1 DEF Bulk!BreakRow, Bulk!HasRow, Bulk!Working, IsOpen, RowsOf
<1>3. OpenShape(c, nextId) /\ c.at \in 1..LastFile /\ SoundOpen(c, runs, stored, traced)
  BY <1>1, <1>2, OpenCall
<1>4. PICK o \in {"skipped", "error"} : call' = [call EXCEPT ![s] = Bulk!RolledBack(c, o)]
  BY <1>1 DEF Bulk!BreakRow
<1>5. UNCHANGED <<runs, stored, traced, undone>> /\ nextId' = nextId
  BY DEF Bulk!BreakRow
<1>6. PICK d : d = Bulk!RolledBack(c, o)
  OBVIOUS
<1>7. /\ RowFields(c, d, o) /\ d.loose = TRUE /\ d.broken = TRUE /\ d.recs = {} /\ d.links = {}
      /\ d.at = c.at /\ d.id = c.id /\ d.kept = c.kept
  <2>1. DOMAIN c = OpenFields /\ c.phase = "rows"
    BY <1>3 DEF OpenShape
  <2>2. /\ DOMAIN d = OpenFields
        /\ d.via = c.via /\ d.force = c.force /\ d.at = c.at /\ d.phase = "rows" /\ d.id = c.id
        /\ d.loose = TRUE /\ d.kept = c.kept /\ d.next = c.next + 1
        /\ d.count = Bulk!Counted(c.count, o) /\ d.broken = TRUE
        /\ d.recs = {} /\ d.links = {}
    BY <1>6, <2>1 DEF OpenFields, Bulk!RolledBack
  <2> QED
    BY <2>2 DEF RowFields
<1>8. CallShape(d, nextId) /\ IsOpen(d)
  <2>1. /\ d.loose \in BOOLEAN /\ d.broken \in BOOLEAN /\ (c.loose => d.loose)
        /\ (d.loose /\ ~c.kept => d.broken) /\ o \in {"stored", "skipped", "error"}
    BY <1>7
  <2>2. Runs(d.recs) \subseteq {c.id} /\ d.links \subseteq d.recs /\ RowFields(c, d, o)
    BY <1>7 DEF Runs
  <2> QED
    BY <1>1, <1>2, <2>1, <2>2, RowDone
<1>9. Holds(d, stored)
  BY <1>7 DEF Holds
<1>10. Owns(d, runs, stored) /\ ~Replaces(d)
  BY <1>3, <1>7 DEF SoundOpen, Owns, Replaces
<1>11. SoundOpen(d, runs, stored, traced)
  BY <1>9, <1>10 DEF SoundOpen
<1>12. \A t \in Sessions \ {s} : IsOpen(call[t]) => Apart(d, call[t], runs) /\ Apart(call[t], d, runs)
  <2>1. \A t \in Sessions \ {s} : IsOpen(call[t]) /\ Replaces(call[t]) =>
          runs[call[t].at].id \notin Runs(d.links)
    BY <1>7 DEF Runs
  <2>2. call[s].loose => d.loose
    BY <1>7
  <2> QED
    BY <1>1, <1>2, <1>7, <2>1, <2>2, StaysApart
<1>13. nextId' \in {nextId, nextId + 1} /\ CallShape(d, nextId') /\ call' = [call EXCEPT ![s] = d]
  BY <1>4, <1>5, <1>6, <1>8
<1> QED
  BY <1>5, <1>8, <1>11, <1>12, <1>13, OnlyCallChanges

\* A transaction as it is opened on a run row of its file.
OpenedFor(c, d) ==
    /\ DOMAIN d = OpenFields /\ d.via = c.via /\ d.force = c.force /\ d.at = c.at
    /\ d.phase = "rows" /\ d.loose \in BOOLEAN /\ d.kept \in BOOLEAN /\ d.next = 1
    /\ d.count = Bulk!Zero /\ d.recs = {} /\ d.links = {} /\ d.broken = FALSE
    /\ c.via = "script" => d.loose /\ d.kept
    /\ d.loose => d.kept

LEMMA OpenedCall ==
    ASSUME NEW c, c.at \in 1..LastFile, c.via \in {"route", "script"}, c.force \in BOOLEAN,
           NEW d, OpenedFor(c, d), NEW n, d.id \in 1..n - 1
    PROVE  CallShape(d, n) /\ IsOpen(d)
<1>1. CountsTo(d.count, 0)
  BY DEF OpenedFor, Bulk!Zero, CountsTo, Counts
<1>2. d.next \in 1..Len(RowsOf(d.at)) + 1 /\ d.next - 1 = 0
  BY BulkConstants DEF OpenedFor
<1>3. OpenShape(d, n)
  BY <1>1, <1>2 DEF OpenedFor, OpenShape, Runs
<1>4. d.at # 0 /\ d.phase = "rows"
  BY BulkConstants DEF OpenedFor
<1>5. IsOpen(d)
  BY <1>4 DEF IsOpen, Bulk!Idle
<1> QED
  BY <1>3, <1>5 DEF OpenedFor, CallShape

LEMMA NotLocked ==
    ASSUME BulkInv, NEW s \in Sessions, NEW f, ~Bulk!Locked(s, f)
    PROVE  \A t \in Sessions \ {s} : IsOpen(call[t]) /\ call[t].at = f => call[t].loose
<1> SUFFICES ASSUME NEW t \in Sessions \ {s}, IsOpen(call[t]), call[t].at = f, ~call[t].loose
             PROVE  FALSE
  OBVIOUS
<1>1. call[t].via \in {"route", "script"} /\ (call[t].via = "script" => call[t].loose)
  BY OpenCall DEF OpenShape
<1> QED
  BY <1>1 DEF Bulk!Locked, Bulk!Working, IsOpen

LEMMA RunIds ==
    ASSUME BulkInv
    PROVE  \A f \in 1..LastFile : runs[f].id = 0 \/ runs[f].id \in 1..nextId - 1
<1>1. \A f \in 1..LastFile : RunRow(f, runs[f], nextId)
  BY DEF BulkInv, RunRows
<1>2. Bulk!Absent.id = 0
  BY DEF Bulk!Absent, Bulk!Row
<1> QED
  BY <1>1, <1>2 DEF RunRow

\* A transaction begins on the run there is, or on one of its own.
LEMMA OpensOn ==
    ASSUME BulkInv, NEW s \in Sessions, NEW c, c.at \in 1..LastFile, c.via \in {"route", "script"},
           c.force \in BOOLEAN, NEW d, OpenedFor(c, d), call' = [call EXCEPT ![s] = d],
           UNCHANGED <<runs, stored, traced, undone>>, nextId' \in {nextId, nextId + 1},
           \/ d.kept /\ d.id = runs[c.at].id /\ runs[c.at] # Bulk!Absent
           \/ /\ ~d.kept /\ d.id = nextId /\ nextId' = nextId + 1
              /\ runs[c.at] # Bulk!Absent => ~Bulk!Referred(runs[c.at].id),
           d.loose \/ ~Bulk!Locked(s, c.at)
    PROVE  BulkInv'
<1>1. nextId \in Nat \ {0} /\ nextId' \in Nat /\ nextId <= nextId'
  BY DEF BulkInv, RunRows
<1>2. /\ RunRow(c.at, runs[c.at], nextId)
      /\ \A f, g \in 1..LastFile : runs[f].id = runs[g].id => f = g \/ runs[f].id = 0
      /\ \A f \in 1..LastFile : runs[f].id = 0 \/ runs[f].id \in 1..nextId - 1
  BY RunIds DEF BulkInv, RunRows
<1>3. d.id \in 1..nextId' - 1
  <2>1. CASE d.kept /\ d.id = runs[c.at].id /\ runs[c.at] # Bulk!Absent
    <3>1. d.id \in 1..nextId - 1
      BY <1>2, <2>1 DEF RunRow
    <3>2. 1..nextId - 1 \subseteq 1..nextId' - 1
      BY <1>1, IdsGrow
    <3> QED
      BY <3>1, <3>2
  <2>2. CASE ~d.kept /\ d.id = nextId /\ nextId' = nextId + 1
    BY <1>1, <2>2
  <2> QED
    BY <2>1, <2>2
<1>4. /\ CallShape(d, nextId') /\ IsOpen(d)
      /\ d.at = c.at /\ d.recs = {} /\ d.links = {} /\ d.next = 1
      /\ d.loose \in BOOLEAN /\ d.kept \in BOOLEAN
  BY <1>3, OpenedCall DEF OpenedFor
<1>5. Runs(stored) \subseteq 1..nextId - 1 /\ Runs(traced) \subseteq Runs(stored)
  BY DEF BulkInv, Records, Runs
<1>6. Holds(d, stored)
  BY <1>4 DEF Holds, WholeTo
<1>7. Owns(d, runs, stored)
  <2>1. \A f \in 1..LastFile : runs[f].id = d.id => f = c.at /\ d.kept
    BY <1>1, <1>2, <1>3, <1>4
  <2>2. ~d.kept => d.id \notin Runs(stored)
    BY <1>1, <1>4, <1>5
  <2> QED
    BY <1>4, <2>1, <2>2 DEF Owns
<1>8. ~d.kept => runs[c.at].id \notin Runs(traced)
  <2>1. CASE runs[c.at] = Bulk!Absent
    BY <1>1, <1>5, <2>1 DEF Bulk!Absent, Bulk!Row
  <2>2. CASE runs[c.at] # Bulk!Absent
    BY <2>2 DEF Bulk!Referred, Runs
  <2> QED
    BY <2>1, <2>2
<1>9. SoundOpen(d, runs, stored, traced)
  BY <1>4, <1>6, <1>7, <1>8 DEF SoundOpen, Replaces
<1>10. ASSUME NEW t \in Sessions \ {s}, IsOpen(call[t])
       PROVE  Apart(d, call[t], runs) /\ Apart(call[t], d, runs)
  <2>1. OpenShape(call[t], nextId) /\ SoundOpen(call[t], runs, stored, traced)
    BY <1>10, OpenCall
  <2>2. call[t].id \in 1..nextId - 1 /\ Runs(call[t].links) \subseteq {call[t].id}
    BY <2>1 DEF OpenShape, Runs
  <2>3. ~d.kept => call[t].id # d.id
    BY <1>1, <1>4, <2>2
  <2>4. ~d.kept => runs[c.at].id \notin Runs(call[t].links)
    <3>1. CASE runs[c.at] = Bulk!Absent
      BY <1>1, <2>2, <3>1 DEF Bulk!Absent, Bulk!Row
    <3>2. CASE runs[c.at] # Bulk!Absent
      BY <1>10, <3>2 DEF Bulk!Referred, Bulk!Working, IsOpen, Runs
    <3> QED
      BY <3>1, <3>2
  <2>5. c.at = call[t].at => d.loose \/ call[t].loose
    BY <1>10, NotLocked
  <2>6. ~call[t].kept => d.id # call[t].id
    <3>1. d.kept => d.id = runs[c.at].id
      BY <1>1
    <3>2. \A f \in 1..LastFile : runs[f].id = call[t].id => call[t].kept
      BY <2>1 DEF SoundOpen, Owns
    <3> QED
      BY <1>4, <2>3, <3>1, <3>2
  <2>7. Apart(d, call[t], runs)
    BY <1>4, <2>3, <2>4, <2>5 DEF Apart, Replaces
  <2>8. Apart(call[t], d, runs)
    BY <1>4, <2>5, <2>6 DEF Apart, Runs
  <2> QED
    BY <2>7, <2>8
<1> QED
  BY <1>4, <1>9, <1>10, OnlyCallChanges

\* The id of the run row written to file f: that of the row there is, or one nobody knows.
SafeId(s, f, id) ==
    \/ id = runs[f].id
    \/ /\ \A g \in 1..LastFile : runs[g].id # id
       /\ id \notin Runs(stored) /\ runs[f].id \notin Runs(traced)
       /\ \A t \in Sessions \ {s} : IsOpen(call[t]) => call[t].id # id

\* What is written with it: nothing, or what the transaction holds, traced if its run is there.
Carries(c, rows, id, recs, links) ==
    \/ recs = {} /\ links = {}
    \/ /\ IsOpen(c) /\ recs = c.recs /\ links = c.links
       /\ \/ links = {} /\ \A g \in 1..LastFile : rows[g].id # c.id
          \/ recs = links /\ id = c.id

\* No other open transaction holds the row.
Free(s, f) == \A t \in Sessions \ {s} : IsOpen(call[t]) /\ call[t].at = f => call[t].loose

\* A place of a table is overwritten.
Put(table, place, new) == [table EXCEPT ![place] = new]

\* A run row, the records and the provenance of a transaction are written together, and the
\* call goes on without it as d.
Writes(s, f, row, d, recs, links) ==
    /\ SafeId(s, f, row.id) /\ Free(s, f)
    /\ nextId' \in {nextId, nextId + 1} /\ RunRow(f, row, nextId')
    /\ runs' = Put(runs, f, row) /\ call' = Put(call, s, d)
    /\ CallShape(d, nextId') /\ ~IsOpen(d)
    /\ stored' = stored \cup recs /\ traced' = traced \cup links
    /\ Carries(call[s], runs', row.id, recs, links)
    /\ undone' \subseteq 1..nextId' - 1

LEMMA RunWritten ==
    ASSUME BulkInv, NEW s \in Sessions, NEW f \in 1..LastFile, NEW row,
           NEW d, NEW recs, NEW links, Writes(s, f, row, d, recs, links), Bulk!DoneIsWhole'
    PROVE  BulkInv'
<1>0. PICK c : c = call[s]
  OBVIOUS
<1> USE <1>0 DEF SafeId, Carries, Free, Writes
<1>1. nextId \in Nat \ {0} /\ nextId' \in Nat \ {0} /\ nextId <= nextId'
  BY DEF BulkInv, RunRows
<1>2. /\ 1..nextId - 1 \subseteq 1..nextId' - 1
      /\ \A e : CallShape(e, nextId) => CallShape(e, nextId')
      /\ \A g \in 1..LastFile : \A r : RunRow(g, r, nextId) => RunRow(g, r, nextId')
  BY <1>1, IdsGrow
<1>3. call = [t \in Sessions |-> call[t]] /\ \A t \in Sessions : CallShape(call[t], nextId)
  BY DEF BulkInv, Calls
<1>4. call'[s] = d /\ \A t \in Sessions \ {s} : call'[t] = call[t]
  BY <1>3 DEF Put
<1>5. runs = [g \in 1..LastFile |-> runs[g]] /\ \A g \in 1..LastFile : RunRow(g, runs[g], nextId)
  BY DEF BulkInv, RunRows
<1>6. runs'[f] = row /\ \A g \in 1..LastFile \ {f} : runs'[g] = runs[g]
  BY <1>5 DEF Put
<1>7. Calls'
  <2>1. call' = [t \in Sessions |-> call'[t]]
    BY <1>3 DEF Put
  <2>2. \A t \in Sessions : CallShape(call'[t], nextId')
    BY <1>2, <1>3, <1>4
  <2> QED
    BY <2>1, <2>2 DEF Calls
<1>8. RunRows'
  <2>1. runs' = [g \in 1..LastFile |-> runs'[g]]
    BY <1>5 DEF Put
  <2>2. \A g \in 1..LastFile : RunRow(g, runs'[g], nextId')
    BY <1>2, <1>5, <1>6
  <2>3. \A g, h \in 1..LastFile : runs'[g].id = runs'[h].id => g = h \/ runs'[g].id = 0
    BY <1>6 DEF BulkInv, RunRows
  <2> QED
    BY <1>1, <2>1, <2>2, <2>3 DEF RunRows
<1>9. /\ links \subseteq recs /\ Runs(recs) \subseteq 1..nextId - 1
      /\ IsOpen(c) => Runs(recs) \subseteq {c.id}
      /\ ~IsOpen(c) => recs = {}
  <2>1. CASE recs = {}
    BY <2>1 DEF Runs
  <2>2. CASE IsOpen(c) /\ recs = c.recs /\ links = c.links
    <3>1. OpenShape(c, nextId)
      BY <2>2, OpenCall
    <3> QED
      BY <2>2, <3>1 DEF OpenShape, Runs
  <2> QED
    BY <2>1, <2>2
<1>10. \A r : r \in Runs(stored') <=> r \in Runs(stored) \/ r \in Runs(recs)
  BY DEF Runs
<1>11. \A r : r \in Runs(traced') <=> r \in Runs(traced) \/ r \in Runs(links)
  BY DEF Runs
<1>12. Records'
  <2>1. traced' \subseteq stored'
    BY <1>9 DEF BulkInv, Records
  <2>2. Runs(stored') \subseteq 1..nextId' - 1
    BY <1>2, <1>9, <1>10 DEF BulkInv, Records
  <2> QED
    BY <2>1, <2>2 DEF Records
<1>13. ASSUME NEW t \in Sessions \ {s}, IsOpen(call[t])
       PROVE  SoundOpen(call[t], runs', stored', traced')
  <2>1. /\ OpenShape(call[t], nextId) /\ call[t].at \in 1..LastFile
        /\ SoundOpen(call[t], runs, stored, traced)
    BY <1>13, OpenCall
  <2>2. PICK e : e = call[t]
    OBVIOUS
  <2>3. /\ IsOpen(c) => (~e.kept => e.id # c.id)
        /\ IsOpen(c) => (Replaces(e) => runs[e.at].id \notin Runs(c.links))
    BY <1>13, <2>2 DEF BulkInv, Transactions, Apart
  <2>4. Holds(e, stored')
    <3>1. Seen(e, stored) \subseteq Seen(e, stored')
      BY DEF Seen, Bulk!Keys
    <3> QED
      BY <2>1, <2>2, <3>1 DEF SoundOpen, Holds, WholeTo
  <2>5. row.id = runs[f].id \/ e.id # row.id
    BY <1>13, <2>2
  <2>6. Owns(e, runs', stored')
    <3>1. Owns(e, runs, stored)
      BY <2>1, <2>2 DEF SoundOpen
    <3>2. \A g \in 1..LastFile : runs'[g].id = e.id => runs[g].id = e.id
      BY <1>6, <2>5
    <3>3. ~e.kept => e.id \notin Runs(stored')
      BY <1>9, <1>10, <2>3, <3>1 DEF Owns, Runs
    <3> QED
      BY <2>1, <2>2, <3>1, <3>2, <3>3 DEF Owns
  <2>7. Replaces(e) => runs'[e.at].id \notin Runs(traced')
    <3> SUFFICES ASSUME Replaces(e) PROVE runs'[e.at].id \notin Runs(traced')
      OBVIOUS
    <3>1. e.at # f
      BY <1>13, <2>2 DEF Replaces
    <3>2. runs'[e.at] = runs[e.at]
      BY <1>6, <2>1, <2>2, <3>1
    <3>3. runs[e.at].id \notin Runs(traced)
      BY <2>1, <2>2 DEF SoundOpen
    <3>4. runs[e.at].id \notin Runs(links)
      BY <1>9, <2>3 DEF Runs
    <3> QED
      BY <1>11, <3>2, <3>3, <3>4
  <2> QED
    BY <2>2, <2>4, <2>6, <2>7 DEF SoundOpen
<1>14. Transactions'
  <2>1. \A t \in Sessions : IsOpen(call'[t]) => t # s /\ call'[t] = call[t]
    BY <1>4
  <2>2. \A t \in Sessions : IsOpen(call'[t]) => SoundOpen(call'[t], runs', stored', traced')
    BY <1>13, <2>1
  <2>3. ASSUME NEW t \in Sessions, NEW u \in Sessions, IsOpen(call'[t]), IsOpen(call'[u]), t # u
        PROVE  Apart(call'[t], call'[u], runs')
    <3>1. Apart(call[t], call[u], runs) /\ call'[t] = call[t] /\ call'[u] = call[u]
      BY <2>1, <2>3 DEF BulkInv, Transactions
    <3>2. Replaces(call[t]) => runs'[call[t].at] = runs[call[t].at]
      <4>1. call[t].at \in 1..LastFile
        BY <2>1, <2>3, OpenCall
      <4>2. Replaces(call[t]) => call[t].at # f
        BY <2>1, <2>3 DEF Replaces
      <4> QED
        BY <1>6, <4>1, <4>2
    <3> QED
      BY <3>1, <3>2 DEF Apart
  <2> QED
    BY <2>2, <2>3 DEF Transactions
<1>15. Bulk!Traced'
  <2>1. ASSUME NEW r \in stored', NEW g \in DOMAIN Files, runs'[g].id = r.run
        PROVE  r \in traced'
    <3>1. g \in 1..LastFile
      BY <2>1, BulkConstants
    <3>2. CASE r \in stored
      <4>1. runs[g].id = r.run
        BY <1>6, <2>1, <3>1, <3>2 DEF Runs
      <4> QED
        BY <3>1, <3>2, <4>1, BulkConstants DEF BulkInv, Bulk!Traced
    <3>3. CASE r \in recs
      <4>1. IsOpen(c) /\ r.run = c.id
        BY <1>9, <3>3 DEF Runs
      <4> QED
        BY <2>1, <3>1, <3>3, <4>1
    <3> QED
      BY <2>1, <3>2, <3>3
  <2>2. ASSUME NEW p \in traced' PROVE \E g \in DOMAIN Files : runs'[g].id = p.run
    <3>1. CASE p \in traced
      <4>1. PICK g \in 1..LastFile : runs[g].id = p.run
        BY <3>1, BulkConstants DEF BulkInv, Bulk!Traced
      <4>2. runs'[g].id = p.run
        BY <1>6, <3>1, <4>1 DEF Runs
      <4> QED
        BY <4>1, <4>2, BulkConstants
    <3>2. CASE p \in links
      <4>1. p.run = c.id /\ row.id = c.id
        BY <1>9, <3>2 DEF Runs
      <4> QED
        BY <1>6, <4>1, BulkConstants
    <3> QED
      BY <2>2, <3>1, <3>2
  <2> QED
    BY <2>1, <2>2 DEF Bulk!Traced
<1>16. Bulk!NeedsStored'
  <2>1. Bulk!Keys(stored') = Bulk!Keys(stored) \cup Bulk!Keys(recs)
    BY DEF Bulk!Keys
  <2>2. \A r \in stored : r.needs \subseteq Bulk!Keys(stored)
    BY DEF BulkInv, Bulk!NeedsStored
  <2>3. \A r \in recs : r.needs \subseteq Bulk!Keys(stored) \cup Bulk!Keys(recs)
    <3>1. CASE recs = {}
      BY <3>1
    <3>2. CASE IsOpen(c) /\ recs = c.recs
      <4>1. SoundOpen(c, runs, stored, traced)
        BY <3>2, OpenCall
      <4> QED
        BY <3>2, <4>1 DEF SoundOpen, Holds, Seen
    <3> QED
      BY <3>1, <3>2
  <2> QED
    BY <2>1, <2>2, <2>3 DEF Bulk!NeedsStored
<1> QED
  BY <1>7, <1>8, <1>12, <1>14, <1>15, <1>16 DEF BulkInv

\* Only the run row is written.
LEMMA RowWritten ==
    ASSUME BulkInv, NEW s \in Sessions, NEW f \in 1..LastFile, NEW row,
           nextId' \in {nextId, nextId + 1}, RunRow(f, row, nextId'),
           runs' = Put(runs, f, row), UNCHANGED <<stored, traced, undone>>,
           NEW d, call' = Put(call, s, d), CallShape(d, nextId'), ~IsOpen(d),
           SafeId(s, f, row.id), Free(s, f),
           Bulk!DoneIsWhole'
    PROVE  BulkInv'
<1>1. PICK recs, links : recs = {} /\ links = {}
  OBVIOUS
<1>2. undone' \subseteq 1..nextId' - 1
  <2>1. undone \subseteq 1..nextId - 1 /\ nextId \in Nat
    BY DEF BulkInv, Records, RunRows
  <2>2. nextId' \in Nat /\ nextId <= nextId'
    BY <2>1
  <2>3. 1..nextId - 1 \subseteq 1..nextId' - 1
    BY <2>1, <2>2, IdsGrow
  <2> QED
    BY <2>1, <2>3
<1>3. Writes(s, f, row, d, recs, links)
  BY <1>1, <1>2 DEF Writes, Carries
<1> QED
  BY <1>3, RunWritten

\* A run row as it is written, and one whose status changes.
LEMMA WrittenRow ==
    ASSUME NEW f, NEW n, NEW id \in 1..n - 1, NEW status \in Statuses, NEW count,
           status \in {"done", "done_with_errors"} => CountsTo(count, Len(RowsOf(f))),
           NEW r, r = Bulk!Row(id, status, count)
    PROVE  RunRow(f, r, n) /\ r.id = id /\ r.status = status
BY DEF Bulk!Row, RunRow, Bulk!Done

LEMMA ChangedRow ==
    ASSUME NEW f, NEW n, NEW old, RunRow(f, old, n), old # Bulk!Absent,
           NEW status \in {"running", "failed"}, NEW r, r = [old EXCEPT !.status = status]
    PROVE  RunRow(f, r, n) /\ r.id = old.id /\ r.status = status
<1>1. DOMAIN old = {"id", "status", "count"} /\ old.id \in 1..n - 1
  BY DEF RunRow
<1>2. DOMAIN r = {"id", "status", "count"} /\ r.id = old.id /\ r.status = status
  BY <1>1
<1> QED
  BY <1>1, <1>2 DEF RunRow, Statuses, Bulk!Done

\* A file whose run is not done, or was already, while more is stored.
LEMMA StaysWhole ==
    ASSUME BulkInv, NEW f \in 1..LastFile, NEW row, runs' = [runs EXCEPT ![f] = row],
           stored \subseteq stored',
           \A g \in 1..LastFile : runs[g].id \notin undone' => runs[g].id \notin undone,
           row = runs[f] \/ row.status # "done"
    PROVE  Bulk!DoneIsWhole'
<1>1. runs = [g \in 1..LastFile |-> runs[g]]
  BY DEF BulkInv, RunRows
<1>2. Bulk!Keys(stored) \subseteq Bulk!Keys(stored')
  BY DEF Bulk!Keys
<1> SUFFICES ASSUME NEW g \in 1..LastFile, runs'[g].status = "done", runs'[g].id \notin undone',
                    NEW k \in DOMAIN Files[g].rows,
                    Files[g].rows[k].key # None, Files[g].rows[k].needs = {}
             PROVE  Files[g].rows[k].key \in Bulk!Keys(stored')
  BY BulkConstants DEF Bulk!DoneIsWhole
<1>3. runs'[g] = runs[g]
  BY <1>1
<1>4. runs[g].id \notin undone
  BY <1>3
<1>5. Files[g].rows[k].key \in Bulk!Keys(stored)
  BY <1>3, <1>4, BulkConstants DEF BulkInv, Bulk!DoneIsWhole
<1> QED
  BY <1>2, <1>5

LEMMA OpenStep ==
    ASSUME BulkInv, NEW s \in Sessions, Bulk!Open(s) PROVE BulkInv'
<1>1. PICK c : c = call[s]
  OBVIOUS
<1>2. /\ c # Bulk!Idle /\ c.phase = "open" /\ runs[c.at] # Bulk!Absent
      /\ call' = [call EXCEPT ![s] = Bulk!Opened(c, runs[c.at].id, TRUE, TRUE)]
      /\ UNCHANGED <<runs, stored, traced, undone>> /\ nextId' = nextId
  BY <1>1 DEF Bulk!Open
<1>3. c.at \in 1..LastFile /\ c.via \in {"route", "script"} /\ c.force \in BOOLEAN
  BY <1>1, <1>2 DEF BulkInv, Calls, CallShape
<1>4. PICK d : d = Bulk!Opened(c, runs[c.at].id, TRUE, TRUE)
  OBVIOUS
<1>5. OpenedFor(c, d) /\ d.id = runs[c.at].id /\ d.loose /\ d.kept
  BY <1>4 DEF Bulk!Opened, OpenedFor, OpenFields
<1>6. call' = [call EXCEPT ![s] = d] /\ nextId' \in {nextId, nextId + 1}
  BY <1>2, <1>4
<1> QED
  BY <1>2, <1>3, <1>5, <1>6, OpensOn

LEMMA BeginImport ==
    ASSUME BulkInv, NEW s \in Sessions, Bulk!Begin(s) PROVE BulkInv'
<1>1. PICK c, old : c = call[s] /\ old = runs[c.at]
  OBVIOUS
<1>2. PICK new \in BOOLEAN : new <=> (old = Bulk!Absent \/ c.force)
  OBVIOUS
<1>3. PICK id : id = IF new THEN nextId ELSE old.id
  OBVIOUS
<1>4. /\ c # Bulk!Idle /\ c.phase = "file" /\ ~Bulk!Locked(s, c.at)
      /\ new /\ old # Bulk!Absent => ~Bulk!Referred(old.id)
      /\ nextId' = IF new THEN nextId + 1 ELSE nextId
      /\ UNCHANGED <<stored, traced, undone>>
  BY <1>1, <1>2 DEF Bulk!Begin
<1>5. c.at \in 1..LastFile /\ c.via \in {"route", "script"} /\ c.force \in BOOLEAN
  BY <1>1, <1>4 DEF BulkInv, Calls, CallShape
<1>6. nextId' \in {nextId, nextId + 1}
  BY <1>4
<1>7. CASE c.via = "route"
  <2>1. PICK kept \in BOOLEAN : kept <=> ~new
    OBVIOUS
  <2>2. PICK d : d = Bulk!Opened(c, id, FALSE, kept)
    OBVIOUS
  <2>3. call' = [call EXCEPT ![s] = d] /\ runs' = runs
    BY <1>1, <1>2, <1>3, <1>7, <2>1, <2>2 DEF Bulk!Begin
  <2>4. OpenedFor(c, d) /\ d.id = id /\ d.kept = kept
    BY <1>7, <2>2 DEF Bulk!Opened, OpenedFor, OpenFields
  <2>5. \/ d.kept /\ d.id = runs[c.at].id /\ runs[c.at] # Bulk!Absent
        \/ /\ ~d.kept /\ d.id = nextId /\ nextId' = nextId + 1
           /\ runs[c.at] # Bulk!Absent => ~Bulk!Referred(runs[c.at].id)
    BY <1>1, <1>2, <1>3, <1>4, <2>1, <2>4
  <2> QED
    BY <1>4, <1>5, <1>6, <2>3, <2>4, <2>5, OpensOn
<1>8. CASE c.via = "script"
  <2>1. PICK f \in 1..LastFile : f = c.at
    BY <1>5
  <2>2. PICK row : row = IF new THEN Bulk!Row(id, "running", Bulk!Zero)
                         ELSE [old EXCEPT !.status = "running"]
    OBVIOUS
  <2>3. PICK d : d = [c EXCEPT !.phase = "open"]
    OBVIOUS
  <2>4. call' = [call EXCEPT ![s] = d] /\ runs' = [runs EXCEPT ![f] = row]
    BY <1>1, <1>2, <1>3, <1>8, <2>1, <2>2, <2>3 DEF Bulk!Begin
  <2>11. call' = Put(call, s, d) /\ runs' = Put(runs, f, row)
    BY <2>4 DEF Put
  <2>5. /\ nextId \in Nat \ {0} /\ RunRow(f, old, nextId) /\ CallShape(c, nextId)
        /\ \A g \in 1..LastFile : runs[g].id = 0 \/ runs[g].id \in 1..nextId - 1
        /\ Runs(stored) \subseteq 1..nextId - 1 /\ undone \subseteq 1..nextId - 1
        /\ Runs(traced) \subseteq Runs(stored)
    BY <1>1, <2>1, RunIds DEF BulkInv, RunRows, Calls, Records, Runs
  <2>6. CallShape(d, nextId') /\ ~IsOpen(d)
    <3>1. DOMAIN c = {"via", "force", "at", "phase"}
      BY <1>4, <2>5 DEF CallShape, OpenShape
    <3>2. /\ DOMAIN d = {"via", "force", "at", "phase"} /\ d.phase = "open"
          /\ d.at = c.at /\ d.via = c.via /\ d.force = c.force
      BY <2>3, <3>1
    <3> QED
      BY <1>5, <3>2 DEF CallShape, IsOpen
  <2>7. Free(s, f)
    BY <1>4, <2>1, NotLocked DEF Free
  <2>8. /\ stored' = stored \cup {} /\ traced' = traced \cup {} /\ undone' = undone
        /\ undone' \subseteq 1..nextId' - 1
    BY <1>4, <1>6, <2>5
  <2>9. CASE new
    <3>1. row = Bulk!Row(nextId, "running", Bulk!Zero) /\ nextId' = nextId + 1
      BY <1>3, <1>4, <2>2, <2>9
    <3>2. RunRow(f, row, nextId + 1) /\ row.id = nextId /\ row.status = "running"
      BY <2>5, <3>1 DEF Bulk!Row, RunRow, Bulk!Done, Statuses
    <3>3. /\ \A g \in 1..LastFile : runs[g].id # row.id
          /\ row.id \notin Runs(stored)
      BY <2>5, <3>2
    <3>4. runs[f].id \notin Runs(traced)
      <4>1. CASE old = Bulk!Absent
        BY <1>1, <2>1, <2>5, <4>1 DEF Bulk!Absent, Bulk!Row
      <4>2. CASE old # Bulk!Absent
        BY <1>1, <1>4, <2>1, <2>9, <4>2 DEF Bulk!Referred, Runs
      <4> QED
        BY <4>1, <4>2
    <3>5. \A t \in Sessions \ {s} : IsOpen(call[t]) => call[t].id # row.id
      <4>1. \A t \in Sessions : IsOpen(call[t]) => call[t].id \in 1..nextId - 1
        BY OpenCall DEF OpenShape
      <4> QED
        BY <2>5, <3>2, <4>1
    <3>6. Bulk!DoneIsWhole'
      BY <1>4, <2>4, <2>8, <3>2, StaysWhole
    <3>7. SafeId(s, f, row.id) /\ RunRow(f, row, nextId')
      BY <3>1, <3>2, <3>3, <3>4, <3>5 DEF SafeId
    <3> QED
      BY <1>4, <1>6, <2>11, <2>6, <2>7, <3>6, <3>7, RowWritten
  <2>10. CASE ~new
    <3>1. row = [old EXCEPT !.status = "running"] /\ nextId' = nextId /\ old # Bulk!Absent
      BY <1>2, <1>4, <2>2, <2>10
    <3>2. RunRow(f, row, nextId) /\ row.id = runs[f].id /\ row.status = "running"
      BY <1>1, <2>1, <2>5, <3>1, ChangedRow
    <3>3. Bulk!DoneIsWhole'
      BY <1>4, <2>4, <2>8, <3>2, StaysWhole
    <3> QED
      <4>1. RunRow(f, row, nextId') /\ SafeId(s, f, row.id)
        BY <3>1, <3>2 DEF SafeId
      <4> QED
        BY <1>4, <1>6, <2>11, <2>6, <2>7, <3>3, <4>1, RowWritten
  <2> QED
    BY <2>9, <2>10
<1> QED
  BY <1>5, <1>7, <1>8

\* What a transaction that ends with a run row of its own, or keeps the row there is, finds.
LEMMA OwnRun ==
    ASSUME BulkInv, NEW s \in Sessions, IsOpen(call[s]), NEW c, c = call[s], NEW f, f = c.at
    PROVE  /\ f \in 1..LastFile /\ OpenShape(c, nextId) /\ Holds(c, stored)
           /\ Replaces(c) =>
                /\ \A g \in 1..LastFile : runs[g].id # c.id
                /\ c.id \notin Runs(stored) /\ runs[f].id \notin Runs(traced)
                /\ \A t \in Sessions \ {s} : IsOpen(call[t]) => call[t].id # c.id
           /\ Replaces(c) \/ runs[f].id = c.id => c.recs = c.links
           /\ ~c.kept /\ c.loose => c.links = {} /\ \A g \in 1..LastFile : runs[g].id # c.id
           /\ \A g \in 1..LastFile : runs[g].id = c.id => g = f
<1>1. OpenShape(c, nextId) /\ c.at \in 1..LastFile /\ SoundOpen(c, runs, stored, traced)
  BY OpenCall
<1>2. \A t \in Sessions \ {s} : IsOpen(call[t]) => Apart(c, call[t], runs)
  BY DEF BulkInv, Transactions
<1> QED
  BY <1>1, <1>2 DEF SoundOpen, Owns, Apart, Replaces

LEMMA FinishStep ==
    ASSUME BulkInv, NEW s \in Sessions, Bulk!Finish(s) PROVE BulkInv'
<1>1. PICK c, f : c = call[s] /\ f = c.at
  OBVIOUS
<1>2. PICK own : own = Bulk!Row(c.id, Bulk!Status(c.count), c.count)
  OBVIOUS
<1>3. /\ IsOpen(call[s]) /\ ~Bulk!Locked(s, f) /\ c.next > Len(RowsOf(f))
      /\ c.kept => runs[f].id = c.id
      /\ runs' = IF c.kept \/ ~c.loose THEN [runs EXCEPT ![f] = own] ELSE runs
      /\ stored' = stored \cup c.recs /\ traced' = traced \cup c.links
      /\ undone' = (IF c.broken THEN undone \cup {c.id} ELSE undone \ {c.id})
      /\ call' = [call EXCEPT ![s] = Bulk!After(c)] /\ nextId' = nextId
  BY <1>1, <1>2 DEF Bulk!Finish, Bulk!Working, IsOpen, RowsOf
<1>4. /\ f \in 1..LastFile /\ OpenShape(c, nextId) /\ Holds(c, stored)
      /\ Replaces(c) =>
           /\ \A g \in 1..LastFile : runs[g].id # c.id
           /\ c.id \notin Runs(stored) /\ runs[f].id \notin Runs(traced)
           /\ \A t \in Sessions \ {s} : IsOpen(call[t]) => call[t].id # c.id
      /\ Replaces(c) \/ runs[f].id = c.id => c.recs = c.links
      /\ ~c.kept /\ c.loose => c.links = {} /\ \A g \in 1..LastFile : runs[g].id # c.id
      /\ \A g \in 1..LastFile : runs[g].id = c.id => g = f
  BY <1>1, <1>3, OwnRun
<1>5. PICK row : row = IF c.kept \/ ~c.loose THEN own ELSE runs[f]
  OBVIOUS
<1>6. /\ runs = [g \in 1..LastFile |-> runs[g]] /\ RunRow(f, runs[f], nextId)
      /\ undone \subseteq 1..nextId - 1 /\ CallShape(c, nextId)
  BY <1>1, <1>4 DEF BulkInv, RunRows, Records, Calls
<1>7. runs' = [runs EXCEPT ![f] = row]
  BY <1>3, <1>4, <1>5, <1>6
<1>8. PICK d : d = Bulk!After(c)
  OBVIOUS
<1>9. call' = Put(call, s, d) /\ runs' = Put(runs, f, row)
  BY <1>3, <1>7, <1>8 DEF Put
<1>10. CallShape(d, nextId) /\ ~IsOpen(d)
  <2>1. c.at \in 1..LastFile /\ c.via \in {"route", "script"} /\ c.force \in BOOLEAN
    BY <1>1, <1>3, OpenCall
  <2> QED
    BY <1>8, <2>1, AfterFile
<1>11. Len(RowsOf(f)) \in Nat /\ c.next = Len(RowsOf(f)) + 1
  BY <1>1, <1>3, <1>4, BulkConstants DEF OpenShape
<1>12. CountsTo(c.count, Len(RowsOf(f)))
  BY <1>4, <1>11 DEF OpenShape
<1>13. RunRow(f, own, nextId) /\ own.id = c.id
  BY <1>2, <1>4, <1>12 DEF OpenShape, Bulk!Status, Bulk!Row, RunRow, Bulk!Done, Statuses
<1>14. RunRow(f, row, nextId')
  BY <1>3, <1>5, <1>6, <1>13
<1>15. SafeId(s, f, row.id)
  BY <1>3, <1>4, <1>5, <1>13 DEF Replaces, SafeId
<1>16. Free(s, f)
  BY <1>3, NotLocked DEF Free
<1>17. c.loose \in BOOLEAN /\ c.kept \in BOOLEAN
  BY <1>4 DEF OpenShape
<1>18. \/ c.links = {} /\ \A g \in 1..LastFile : runs'[g].id # c.id
       \/ c.recs = c.links /\ row.id = c.id
  BY <1>3, <1>4, <1>5, <1>13, <1>17 DEF Replaces
<1>19. undone' \subseteq 1..nextId' - 1
  BY <1>3, <1>4, <1>6 DEF OpenShape
<1>20. Bulk!DoneIsWhole'
  <2> SUFFICES ASSUME NEW g \in 1..LastFile, runs'[g].status = "done", runs'[g].id \notin undone',
                      NEW k \in DOMAIN Files[g].rows,
                      Files[g].rows[k].key # None, Files[g].rows[k].needs = {}
               PROVE  Files[g].rows[k].key \in Bulk!Keys(stored')
    BY BulkConstants DEF Bulk!DoneIsWhole
  <2>1. Bulk!Keys(stored') = Bulk!Keys(stored) \cup Bulk!Keys(c.recs)
    BY <1>3 DEF Bulk!Keys
  <2>2. CASE g = f /\ row = own
    <3>1. runs'[g] = own
      BY <1>6, <1>7, <2>2
    <3>2. ~c.broken
      BY <1>3, <1>13, <3>1
    <3>3. WholeTo(f, c.next, Seen(c, stored))
      BY <1>1, <1>4, <3>2 DEF Holds
    <3>4. k \in 1..c.next - 1
      BY <1>11, <2>2, BulkConstants DEF RowsOf
    <3> QED
      BY <2>1, <2>2, <3>3, <3>4 DEF WholeTo, RowsOf, Seen
  <2>3. CASE g # f \/ row # own
    <3>1. runs'[g] = runs[g]
      BY <1>5, <1>6, <1>7, <2>3
    <3>2. runs[g].id # c.id
      BY <1>4, <1>5, <1>17, <2>3
    <3>3. runs[g].id \notin undone
      BY <1>3, <3>1, <3>2
    <3>4. Files[g].rows[k].key \in Bulk!Keys(stored)
      BY <3>1, <3>3, BulkConstants DEF BulkInv, Bulk!DoneIsWhole
    <3> QED
      BY <2>1, <3>4
  <2> QED
    BY <2>2, <2>3
<1>21. PICK recs, links : recs = c.recs /\ links = c.links
  OBVIOUS
<1>22. Writes(s, f, row, d, recs, links)
  <2>1. Carries(c, runs', row.id, recs, links)
    BY <1>1, <1>3, <1>18, <1>21 DEF Carries
  <2> QED
    BY <1>1, <1>3, <1>9, <1>10, <1>14, <1>15, <1>16, <1>19, <1>21, <2>1 DEF Writes
<1> QED
  BY <1>4, <1>20, <1>22, RunWritten

LEMMA FailStep ==
    ASSUME BulkInv, NEW s \in Sessions, Bulk!Fail(s) PROVE BulkInv'
<1>1. PICK c, f, old : c = call[s] /\ f = c.at /\ old = runs[f]
  OBVIOUS
<1>2. PICK row : row = IF c.via = "route" /\ ~c.loose /\ ~c.kept
                       THEN Bulk!Row(c.id, "failed", Bulk!Zero)
                       ELSE IF old = Bulk!Absent \/ (c.via = "route" /\ ~c.kept) THEN old
                       ELSE [old EXCEPT !.status = "failed"]
  OBVIOUS
<1>3. /\ IsOpen(call[s]) /\ ~Bulk!Locked(s, f)
      /\ c.via = "route" => (c.kept => old.id = c.id)
      /\ runs' = [runs EXCEPT ![f] = row]
      /\ stored' = (IF c.via = "route" THEN stored \cup c.recs ELSE stored)
      /\ traced' = (IF c.via = "route" THEN traced \cup c.links ELSE traced)
      /\ call' = [call EXCEPT ![s] = Bulk!After(c)] /\ nextId' = nextId /\ undone' = undone
  BY <1>1, <1>2 DEF Bulk!Fail, Bulk!Working, IsOpen
<1>4. /\ f \in 1..LastFile /\ OpenShape(c, nextId)
      /\ Replaces(c) =>
           /\ \A g \in 1..LastFile : runs[g].id # c.id
           /\ c.id \notin Runs(stored) /\ runs[f].id \notin Runs(traced)
           /\ \A t \in Sessions \ {s} : IsOpen(call[t]) => call[t].id # c.id
      /\ Replaces(c) \/ runs[f].id = c.id => c.recs = c.links
      /\ ~c.kept /\ c.loose => c.links = {} /\ \A g \in 1..LastFile : runs[g].id # c.id
  BY <1>1, <1>3, OwnRun
<1>5. /\ runs = [g \in 1..LastFile |-> runs[g]] /\ RunRow(f, old, nextId)
      /\ undone \subseteq 1..nextId - 1 /\ nextId \in Nat
  BY <1>1, <1>4 DEF BulkInv, RunRows, Records
<1>6. PICK d : d = Bulk!After(c)
  OBVIOUS
<1>7. call' = Put(call, s, d) /\ runs' = Put(runs, f, row)
  BY <1>3, <1>6 DEF Put
<1>8. CallShape(d, nextId) /\ ~IsOpen(d)
  <2>1. c.at \in 1..LastFile /\ c.via \in {"route", "script"} /\ c.force \in BOOLEAN
    BY <1>1, <1>3, OpenCall
  <2> QED
    BY <1>6, <2>1, AfterFile
<1>9. /\ c.loose \in BOOLEAN /\ c.kept \in BOOLEAN /\ c.id \in 1..nextId - 1
      /\ Bulk!Absent.id = 0
  BY <1>4 DEF OpenShape, Bulk!Absent, Bulk!Row
<1>10. /\ RunRow(f, row, nextId)
       /\ row = old \/ row.status # "done"
       /\ row.id = IF c.via = "route" /\ Replaces(c) THEN c.id ELSE old.id
  <2>1. CASE c.via = "route" /\ ~c.loose /\ ~c.kept
    <3>1. row = Bulk!Row(c.id, "failed", Bulk!Zero)
      BY <1>2, <2>1
    <3>2. RunRow(f, row, nextId) /\ row.id = c.id /\ row.status = "failed"
      BY <1>9, <3>1 DEF Bulk!Row, RunRow, Bulk!Done, Statuses
    <3> QED
      BY <2>1, <3>2 DEF Replaces
  <2>2. CASE ~(c.via = "route" /\ ~c.loose /\ ~c.kept) /\ row = old
    BY <1>5, <2>2 DEF Replaces
  <2>3. CASE ~(c.via = "route" /\ ~c.loose /\ ~c.kept) /\ row # old
    <3>1. old # Bulk!Absent /\ row = [old EXCEPT !.status = "failed"]
      BY <1>2, <2>3
    <3>2. RunRow(f, row, nextId) /\ row.id = old.id /\ row.status = "failed"
      BY <1>5, <3>1, ChangedRow
    <3> QED
      BY <2>3, <3>2 DEF Replaces
  <2> QED
    BY <2>1, <2>2, <2>3
<1>11. SafeId(s, f, row.id)
  BY <1>1, <1>4, <1>10 DEF SafeId
<1>12. Free(s, f)
  BY <1>3, NotLocked DEF Free
<1>13. PICK recs : recs = IF c.via = "route" THEN c.recs ELSE {}
  OBVIOUS
<1>14. PICK links : links = IF c.via = "route" THEN c.links ELSE {}
  OBVIOUS
<1>15. stored' = stored \cup recs /\ traced' = traced \cup links
  BY <1>3, <1>13, <1>14
<1>16. Carries(c, runs', row.id, recs, links)
  <2>1. CASE c.via # "route"
    BY <1>13, <1>14, <2>1 DEF Carries
  <2>2. CASE c.via = "route" /\ ~c.kept /\ c.loose
    <3>1. row.id = old.id
      BY <1>10, <2>2 DEF Replaces
    <3>2. \A g \in 1..LastFile : runs'[g].id = runs[g].id
      BY <1>1, <1>3, <1>4, <1>5, <3>1
    <3> QED
      BY <1>1, <1>3, <1>4, <1>13, <1>14, <2>2, <3>2 DEF Carries
  <2>3. CASE c.via = "route" /\ (c.kept \/ ~c.loose)
    <3>1. row.id = c.id
      BY <1>3, <1>9, <1>10, <2>3 DEF Replaces
    <3>2. c.recs = c.links
      BY <1>1, <1>3, <1>4, <1>9, <2>3 DEF Replaces
    <3> QED
      BY <1>1, <1>3, <1>13, <1>14, <2>3, <3>1, <3>2 DEF Carries
  <2> QED
    BY <1>9, <2>1, <2>2, <2>3
<1>17. Writes(s, f, row, d, recs, links)
  BY <1>1, <1>3, <1>5, <1>7, <1>8, <1>10, <1>11, <1>12, <1>15, <1>16 DEF Writes
<1>18. Bulk!DoneIsWhole'
  BY <1>1, <1>3, <1>4, <1>10, <1>15, StaysWhole
<1> QED
  BY <1>4, <1>17, <1>18, RunWritten

LEMMA BulkInit == ASSUME Bulk!Init PROVE BulkInv
<1>1. DOMAIN Files = 1..LastFile
  BY BulkConstants
<1>2. /\ runs = [f \in 1..LastFile |-> Bulk!Absent] /\ call = [s \in Sessions |-> Bulk!Idle]
      /\ stored = {} /\ traced = {} /\ undone = {} /\ nextId = 1
  BY <1>1 DEF Bulk!Init
<1>3. Bulk!Absent.id = 0 /\ Bulk!Absent.status = "none"
  BY DEF Bulk!Absent, Bulk!Row
<1>4. RunRows
  BY <1>2, <1>3 DEF RunRows, RunRow
<1>5. Records
  BY <1>2 DEF Records, Runs
<1>6. Calls
  BY <1>2 DEF Calls, CallShape
<1>7. Transactions
  BY <1>2 DEF Transactions, IsOpen
<1>8. Bulk!DoneIsWhole /\ Bulk!Traced /\ Bulk!NeedsStored
  BY <1>1, <1>2, <1>3 DEF Bulk!DoneIsWhole, Bulk!Traced, Bulk!NeedsStored
<1> QED
  BY <1>4, <1>5, <1>6, <1>7, <1>8 DEF BulkInv

LEMMA BulkStepInv == ASSUME BulkInv, [Bulk!Next]_bulkVars PROVE BulkInv'
<1>1. CASE Bulk!Next
  <2>1. PICK s \in Sessions :
            \/ \E via \in {"route", "script"}, force \in BOOLEAN : Bulk!Enter(s, via, force)
            \/ Bulk!Skip(s) \/ Bulk!Begin(s) \/ Bulk!Open(s) \/ Bulk!TakeRow(s)
            \/ Bulk!BreakRow(s) \/ Bulk!Finish(s) \/ Bulk!Fail(s) \/ Bulk!Abort(s)
    BY <1>1 DEF Bulk!Next
  <2> QED
    BY <2>1, WaitingSteps, BeginImport, OpenStep, TakeStep, BreakStep, FinishStep, FailStep
<1>2. CASE UNCHANGED bulkVars
  BY <1>2 DEF bulkVars, BulkInv, RunRows, Records, Calls, Transactions, Bulk!DoneIsWhole,
              Bulk!Traced, Bulk!NeedsStored
<1> QED
  BY <1>1, <1>2

LEMMA BulkHolds == ASSUME BulkInv PROVE Bulk!BulkSafe
<1>1. /\ DOMAIN Files = 1..LastFile
      /\ \A f \in 1..LastFile : RunRow(f, runs[f], nextId)
      /\ traced \subseteq stored /\ undone \subseteq 1..nextId - 1
  BY BulkConstants DEF BulkInv, RunRows, Records
<1>2. Bulk!TypeOK
  BY <1>1 DEF RunRow, Bulk!TypeOK
<1>3. Bulk!Balanced
  <2>1. ~Bulk!Done(Bulk!Absent)
    BY DEF Bulk!Done, Bulk!Absent, Bulk!Row
  <2> QED
    BY <1>1, <2>1 DEF RunRow, CountsTo, RowsOf, Bulk!Balanced
<1> QED
  BY <1>2, <1>3 DEF BulkInv, Bulk!BulkSafe

\* However many imports the route and the script run at once, and whatever fails or is rolled
\* back on the way: a run that is done counts every row of its file once and has left out none
\* it did not report, what a run has stored is traced to it, and no record is stored before
\* those it refers to (courtlistener_bulk_normalizer.py).
THEOREM ImportsAccountFor == Spec => []ImportSafe
<1>1. Init => BulkInv
  BY BulkInit DEF Init
<1>2. BulkInv /\ [Next]_vars => BulkInv'
  BY BulkStepInv DEF Next, AdaptStep, CrawlStep, BulkStep, GateStep, vars, bulkVars
<1>3. BulkInv => ImportSafe
  BY BulkHolds DEF ImportSafe
<1> QED
  BY <1>1, <1>2, <1>3, PTL DEF Spec
================================================================================
