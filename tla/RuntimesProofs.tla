----------------------------- MODULE RuntimesProofs -----------------------------
(***************************************************************************)
(* Theorems about the subsystems of Runtimes, for every value of their     *)
(* constants.  Each has an inductive invariant over its own variables; the *)
(* steps of the other five leave those alone.                              *)
(***************************************************************************)
EXTENDS Runtimes, FiniteSetTheorems, SequenceTheorems, WellFoundedInduction, TLAPS

--------------------------------------------------------------------------------
(* The stage pipeline.                                                       *)

BreakerRows == [state : {"closed", "open", "half_open"}, failures : 0..FailureThreshold,
                streak : Nat, open : Nat, quiet : Nat]

\* A breaker below its limits; quiet is the count of an open breaker, and a breaker
\* that is not open has waited for the recovery time.
SoundBreaker(b) ==
    /\ b \in BreakerRows
    /\ b.state = "closed" => b.failures < FailureThreshold
    /\ b.state = "half_open" => b.streak < HalfOpenSuccesses
    /\ b.state = "open" => b.open < RecoveryTicks /\ b.quiet = b.open
    /\ b.state # "open" => b.quiet = Unbounded

SoundCall(c) ==
    /\ c = [todo |-> c.todo, running |-> c.running, after |-> c.after]
    /\ c.running \in Stages \cup {None}
    /\ c.running # None => c.after = Unbounded

PipelineInv ==
    /\ DOMAIN registry \subseteq Stages
    /\ \A s \in DOMAIN registry : registry[s] \in BOOLEAN
    /\ breaker = [s \in Stages |-> breaker[s]]
    /\ \A s \in Stages : SoundBreaker(breaker[s])
    /\ calls = [t \in Threads |-> calls[t]]
    /\ \A t \in Threads : SoundCall(calls[t])

\* A record of the row type is given by its fields.
LEMMA BreakerFields ==
    ASSUME NEW b \in BreakerRows
    PROVE  b = [state |-> b.state, failures |-> b.failures, streak |-> b.streak,
                open |-> b.open, quiet |-> b.quiet]
  BY DEF BreakerRows

\* Every operation of a breaker keeps it sound.
LEMMA BreakerOps ==
    ASSUME NEW b, SoundBreaker(b)
    PROVE  /\ SoundBreaker(Pipeline!Fresh(Unbounded))
           /\ SoundBreaker(Pipeline!Ticked(b))
           /\ SoundBreaker(Pipeline!Succeeded(b))
           /\ SoundBreaker(Pipeline!Failed(b))
<1>c. /\ FailureThreshold \in Nat \ {0} /\ HalfOpenSuccesses \in Nat \ {0}
      /\ RecoveryTicks \in Nat \ {0}
      /\ Unbounded \in Nat /\ Unbounded >= RecoveryTicks
  BY RuntimesAssumption DEF Pipeline!PipelineAssumption
<1> USE DEF SoundBreaker, BreakerRows
<1>1. SoundBreaker(Pipeline!Fresh(Unbounded))
  BY <1>c DEF Pipeline!Fresh
<1>2. ASSUME NEW r, r = Pipeline!Ticked(b) PROVE SoundBreaker(r)
  <2>1. CASE b.state # "open"
    BY <1>c, <1>2, <2>1 DEF Pipeline!Ticked
  <2>2. CASE b.state = "open"
    BY <1>c, <1>2, <2>2 DEF Pipeline!Ticked
  <2> QED
    BY <2>1, <2>2
<1>3. ASSUME NEW r, r = Pipeline!Succeeded(b) PROVE SoundBreaker(r)
  BY <1>c, <1>3 DEF Pipeline!Succeeded, Pipeline!Closed, Pipeline!Fresh
<1>4. ASSUME NEW r, r = Pipeline!Failed(b) PROVE SoundBreaker(r)
  <2>1. ASSUME NEW c \in BreakerRows PROVE SoundBreaker(Pipeline!Opened(c))
    BY <1>c, <2>1 DEF Pipeline!Opened
  <2>2. ASSUME NEW c, c = [b EXCEPT !.failures = @ + 1], b.state = "closed"
        PROVE  /\ c \in BreakerRows
               /\ ~(b.failures + 1 >= FailureThreshold) => SoundBreaker(c)
    BY <1>c, <2>2
  <2> HIDE DEF SoundBreaker
  <2>3. CASE b.state = "half_open"
    BY <1>4, <2>1, <2>3 DEF Pipeline!Failed, SoundBreaker
  <2>4. CASE b.state = "closed"
    BY <1>4, <2>1, <2>2, <2>4 DEF Pipeline!Failed
  <2>5. CASE b.state = "open"
    BY <1>4, <2>5 DEF Pipeline!Failed
  <2> QED
    BY <2>3, <2>4, <2>5 DEF SoundBreaker
<1> HIDE DEF SoundBreaker
<1> QED
  BY <1>1, <1>2, <1>3, <1>4

LEMMA PipelineInit == Pipeline!Init => PipelineInv
  BY RuntimesAssumption DEF Pipeline!PipelineAssumption, Pipeline!Init, PipelineInv,
     SoundBreaker, BreakerRows, SoundCall, Pipeline!Fresh, Pipeline!Idle

\* A step of one breaker, and a step of one call.
LEMMA PipelineParts ==
    ASSUME PipelineInv
    PROVE  /\ \A s \in Stages : \A b :
                SoundBreaker(b) /\ breaker' = [breaker EXCEPT ![s] = b]
                    => /\ breaker' = [x \in Stages |-> breaker'[x]]
                       /\ \A x \in Stages : SoundBreaker(breaker'[x])
           /\ \A t \in Threads : \A c :
                SoundCall(c) /\ calls' = [calls EXCEPT ![t] = c]
                    => /\ calls' = [x \in Threads |-> calls'[x]]
                       /\ \A x \in Threads : SoundCall(calls'[x])
<1> HIDE DEF SoundBreaker, SoundCall
<1> QED
  BY DEF PipelineInv

LEMMA PipelineStepInv ==
    ASSUME PipelineInv, [Pipeline!Next]_pipelineVars PROVE PipelineInv'
<1>1. ASSUME NEW s \in Stages, Pipeline!Tick(s) \/ Pipeline!Reset(s) PROVE PipelineInv'
  <2>1. /\ UNCHANGED <<registry, calls>>
        /\ \E b : SoundBreaker(b) /\ breaker' = [breaker EXCEPT ![s] = b]
    BY <1>1, BreakerOps DEF PipelineInv, Pipeline!Tick, Pipeline!Reset
  <2> QED
    BY <2>1, PipelineParts DEF PipelineInv
<1>2. ASSUME NEW s \in Stages, Pipeline!Register(s) \/ Pipeline!Unregister(s) PROVE PipelineInv'
  BY <1>2 DEF PipelineInv, Pipeline!Register, Pipeline!Unregister
<1>3. ASSUME NEW s \in Stages, NEW on \in BOOLEAN, Pipeline!SetEnabled(s, on) PROVE PipelineInv'
  BY <1>3 DEF PipelineInv, Pipeline!SetEnabled
<1>4. ASSUME NEW t \in Threads, Pipeline!Begin(t) PROVE PipelineInv'
  <2> DEFINE s == Head(calls[t].todo)
             c == IF s \in DOMAIN registry /\ breaker[s].state # "open"
                  THEN [todo |-> Tail(calls[t].todo), running |-> s, after |-> breaker[s].quiet]
                  ELSE Pipeline!Idle
  <2>1. /\ UNCHANGED <<registry, breaker>>
        /\ calls' = [calls EXCEPT ![t] = c]
    BY <1>4 DEF Pipeline!Begin
  <2>2. SoundCall(c)
    BY DEF SoundCall, PipelineInv, SoundBreaker, Pipeline!Idle
  <2> HIDE DEF c
  <2> QED
    BY <2>1, <2>2, PipelineParts DEF PipelineInv
<1>5. ASSUME NEW t \in Threads, NEW success \in BOOLEAN, Pipeline!Finish(t, success)
      PROVE  PipelineInv'
  <2> DEFINE s == calls[t].running
             b == IF success THEN Pipeline!Succeeded(breaker[s]) ELSE Pipeline!Failed(breaker[s])
             c == IF success /\ calls[t].todo # <<>>
                  THEN [todo |-> calls[t].todo, running |-> None, after |-> Unbounded]
                  ELSE Pipeline!Idle
  <2>1. /\ UNCHANGED registry /\ s \in Stages
        /\ breaker' = [breaker EXCEPT ![s] = b]
        /\ calls' = [calls EXCEPT ![t] = c]
    BY <1>5 DEF Pipeline!Finish, PipelineInv, SoundCall
  <2>2. SoundBreaker(b)
    BY <2>1, BreakerOps DEF PipelineInv
  <2>3. SoundCall(c)
    BY DEF SoundCall, PipelineInv, Pipeline!Idle
  <2> HIDE DEF b, c
  <2> QED
    BY <2>1, <2>2, <2>3, PipelineParts DEF PipelineInv
<1>6. ASSUME NEW t \in Threads, NEW todo,
             calls[t] = Pipeline!Idle, calls' = [calls EXCEPT ![t].todo = todo],
             UNCHANGED <<registry, breaker>>
      PROVE  PipelineInv'
  <2> DEFINE c == [calls[t] EXCEPT !.todo = todo]
  <2>1. calls' = [calls EXCEPT ![t] = c]
    BY <1>6
  <2>2. SoundCall(c)
    BY <1>6 DEF SoundCall, Pipeline!Idle
  <2> HIDE DEF c
  <2> QED
    BY <1>6, <2>1, <2>2, PipelineParts DEF PipelineInv
<1>7. ASSUME NEW t \in Threads, NEW o, Pipeline!RunSequence(t, o) \/ Pipeline!RunTagged(t, o)
      PROVE  PipelineInv'
  BY <1>6, <1>7 DEF Pipeline!RunSequence, Pipeline!RunTagged
<1>8. CASE UNCHANGED pipelineVars
  BY <1>8 DEF PipelineInv, pipelineVars
<1> QED
  BY <1>1, <1>2, <1>3, <1>4, <1>5, <1>7, <1>8 DEF Pipeline!Next

\* A breaker that opened lets no call begin within its recovery time, whatever calls
\* begun before it report meanwhile and however stages are registered and reset.
THEOREM BreakersCoolDown == Spec => []BreakerSafe
<1>1. Init => PipelineInv
  BY PipelineInit DEF Init
<1>2. PipelineInv /\ [Next]_vars => PipelineInv'
  BY PipelineStepInv DEF Next, IngestStep, MemoryStep, PipelineStep, VaultStep, StoreStep, RaceStep,
     vars, pipelineVars
<1>3. PipelineInv => BreakerSafe
  BY DEF PipelineInv, SoundBreaker, BreakerRows, SoundCall, BreakerSafe, Pipeline!BreakerSafe,
     Pipeline!TypeOK, Pipeline!CoolDownKept
<1> QED
  BY <1>1, <1>2, <1>3, PTL DEF Spec

--------------------------------------------------------------------------------
(* The evidence vault.                                                       *)

Retained == [tier : Tiers, stored : Nat, purged : BOOLEAN]

\* The three registries are functions over the same ids.
VaultTypes ==
    /\ clock \in 0..MaxTick
    /\ address \in [DOMAIN state -> Held]
    /\ state \in [DOMAIN state -> Vault!States]
    /\ retention \in [DOMAIN state -> Retained]

VaultInv == VaultTypes /\ Vault!RegistriesAgree /\ Vault!NothingOverdue

LEMMA VaultInit == Vault!Init => VaultInv
  BY RuntimesAssumption DEF Vault!VaultAssumption, Vault!Init, VaultInv, VaultTypes,
     Vault!RegistriesAgree, Vault!NothingOverdue, Vault!States, Retained

LEMMA VaultStepInv == ASSUME VaultInv, [Vault!Next]_vaultVars PROVE VaultInv'
<1>a. /\ None \notin Nat /\ MaxTick \in Nat
      /\ \A t \in Tiers : TierTtl[t] \in Nat \ {0} \/ TierTtl[t] = None
  BY RuntimesAssumption DEF Vault!VaultAssumption
<1>i. VaultTypes /\ Vault!RegistriesAgree /\ Vault!NothingOverdue
  BY DEF VaultInv
<1> USE DEF VaultTypes, Vault!RegistriesAgree, Vault!NothingOverdue, Vault!Due, Vault!States,
            Retained
<1>1. ASSUME NEW i \in Ids, NEW c \in Held, NEW t \in Tiers, Vault!Store(i, c, t)
      PROVE  VaultInv'
  BY <1>1, <1>a, <1>i DEF Vault!Store, Vault!With, VaultInv
<1>2. ASSUME NEW i \in Ids, NEW c \in Held, Vault!StoreRefused(i, c) PROVE VaultInv'
  BY <1>2, <1>i DEF Vault!StoreRefused, Vault!With, VaultInv
<1>3. ASSUME NEW i \in Ids, NEW c \in Held, NEW d \in Held, Vault!Verify(i, c, d)
      PROVE  VaultInv'
  BY <1>3, <1>i DEF Vault!Verify, VaultInv
<1>4. ASSUME NEW i \in Ids, Vault!Expire(i) PROVE VaultInv'
  BY <1>4, <1>i DEF Vault!Expire, VaultInv
<1>5. ASSUME NEW S, Vault!Purged(S) PROVE VaultInv'
  <2>1. ASSUME NEW i \in DOMAIN state, NEW r, r = [retention[i] EXCEPT !.purged = TRUE]
        PROVE  r \in Retained /\ r.purged
    BY <1>i, <2>1
  <2>2. ASSUME NEW i \in DOMAIN state
        PROVE  /\ retention'[i] \in Retained
               /\ i \in S => retention'[i].purged /\ state'[i] = "purged"
               /\ i \notin S => retention'[i] = retention[i] /\ state'[i] = state[i]
    BY <1>5, <1>i, <2>1 DEF Vault!Purged
  <2>3. /\ UNCHANGED <<clock, address>>
        /\ state' = [i \in DOMAIN state |-> state'[i]]
        /\ retention' = [i \in DOMAIN state |-> retention'[i]]
    BY <1>5, <1>i DEF Vault!Purged
  <2>4. VaultTypes'
    BY <1>i, <2>2, <2>3
  <2>5. Vault!RegistriesAgree' /\ Vault!NothingOverdue'
    BY <1>i, <2>2, <2>3
  <2> QED
    BY <2>4, <2>5 DEF VaultInv
<1>6. ASSUME NEW by \in 1..2, Vault!Advance(by) PROVE VaultInv'
  BY <1>6, <1>a, <1>i DEF Vault!Advance, VaultInv
<1>7. CASE UNCHANGED vaultVars
  BY <1>7, <1>i DEF vaultVars, VaultInv
<1> QED
  BY <1>1, <1>2, <1>3, <1>4, <1>5, <1>6, <1>7 DEF Vault!Next, Vault!Purge, Vault!PurgeExpired

\* However stores are refused, snapshots expired and purged and the clock jumps, the
\* registries of the vault agree and no live snapshot outlives its tier.
THEOREM VaultAgrees == Spec => []VaultSafe
<1>1. Init => VaultInv
  BY VaultInit DEF Init
<1>2. VaultInv /\ [Next]_vars => VaultInv'
  BY VaultStepInv DEF Next, IngestStep, MemoryStep, PipelineStep, VaultStep, StoreStep, RaceStep,
     vars, vaultVars
<1>3. VaultInv => VaultSafe
  BY DEF VaultInv, VaultTypes, VaultSafe, Vault!VaultSafe, Vault!TypeOK, Retained
<1> QED
  BY <1>1, <1>2, <1>3, PTL DEF Spec

--------------------------------------------------------------------------------
(* The evidence store.                                                       *)

RawRows == [content : Contents, named : BOOLEAN, sound : BOOLEAN,
            backend : {"filesystem", "db"},
            raw : [prefix : BOOLEAN, body : Contents \cup {Garbled}]]
Writes  == [pc : {"idle", "look", "temp", "check", "row"}, content : Contents \cup {None},
            named : BOOLEAN, sound : BOOLEAN]

\* What a path may hold, and what a content claims of it.
SoundFiles == /\ files = [c \in Contents |-> files[c]]
              /\ \A c \in Contents : files[c] \in {c, None, Garbled}

\* A row is what write_snapshot made of its content, and whole as far as it says.
SoundRow(r, f) ==
    /\ r \in RawRows
    /\ r.backend = IF Form[r.content] = "large" THEN "filesystem" ELSE "db"
    /\ r.raw = Store!Encoded(r.content)
    /\ r.sound => f[r.content] = r.content

SoundWrite(d, f) ==
    /\ d \in Writes
    /\ d.pc = "idle" => ~d.sound
    /\ d.pc # "idle" => d.content \in Contents
    /\ d.sound => f[d.content] = d.content

StoreInv ==
    /\ root \in BOOLEAN
    /\ SoundFiles
    /\ rows \in Seq(RawRows)
    /\ \A i \in DOMAIN rows : SoundRow(rows[i], files)
    /\ custody = DOMAIN rows
    /\ wr = [w \in Writers |-> wr[w]]
    /\ \A w \in Writers : SoundWrite(wr[w], files)

LEMMA StoreInit == Store!Init => StoreInv
<1>1. \A w : Store!Init => wr = [x \in Writers |-> Store!Idle]
  BY DEF Store!Init
<1>2. SoundWrite(Store!Idle, files)
  BY DEF SoundWrite, Writes, Store!Idle
<1>3. Store!Init => rows \in Seq(RawRows) /\ DOMAIN rows = {}
  BY DEF Store!Init
<1> QED
  BY <1>1, <1>2, <1>3 DEF Store!Init, StoreInv, SoundFiles

\* One writer goes on and the files stay.
LEMMA WriteMoves ==
    ASSUME StoreInv, NEW w \in Writers, NEW d, SoundWrite(d, files),
           wr' = [wr EXCEPT ![w] = d], UNCHANGED <<root, files, rows, custody>>
    PROVE  StoreInv'
<1>1. /\ wr' = [x \in Writers |-> wr'[x]]
      /\ \A x \in Writers : SoundWrite(wr'[x], files)
  <2> HIDE DEF SoundWrite
  <2> QED
    BY DEF StoreInv
<1>2. \A x : SoundWrite(x, files) => SoundWrite(x, files')
  BY DEF SoundWrite
<1> QED
  BY <1>1 DEF StoreInv, SoundFiles, SoundRow, SoundWrite, Store!Encoded

LEMMA StoreStepInv ==
    ASSUME StoreInv, [Store!Next]_storeVars PROVE StoreInv'
<1>a. /\ None \notin Contents /\ Garbled \notin Contents
      /\ Form \in [Contents -> {"empty", "text", "binary", "prefixed", "large"}]
  BY RuntimesAssumption DEF Store!EvidenceStoreAssumption
<1>w. \A w \in Writers : wr[w] \in Writes /\ SoundWrite(wr[w], files)
  BY DEF StoreInv, SoundWrite
<1>0. SoundWrite(Store!Idle, files)
  BY DEF SoundWrite, Writes, Store!Idle
<1>1. ASSUME NEW w \in Writers, NEW c \in Contents, NEW b \in BOOLEAN, Store!Begin(w, c, b)
      PROVE  StoreInv'
  <2> DEFINE d == [pc |-> IF Form[c] = "large" THEN "look" ELSE "row",
                   content |-> c, named |-> b, sound |-> FALSE]
  <2>1. wr' = [wr EXCEPT ![w] = d] /\ UNCHANGED <<root, files, rows, custody>>
    BY <1>1 DEF Store!Begin
  <2>2. SoundWrite(d, files)
    BY DEF SoundWrite, Writes
  <2> HIDE DEF d
  <2> QED
    BY <2>1, <2>2, WriteMoves
<1>2. ASSUME NEW w \in Writers, Store!Look(w) PROVE StoreInv'
  <2> DEFINE whole == files[wr[w].content] = wr[w].content
             d == [wr[w] EXCEPT !.pc = IF whole THEN "row" ELSE "temp", !.sound = whole]
  <2>1. /\ wr[w].pc = "look" /\ UNCHANGED <<root, files, rows, custody>>
        /\ wr' = [wr EXCEPT ![w] = d]
    BY <1>2 DEF Store!Look
  <2>2. ASSUME NEW r, r = d PROVE SoundWrite(r, files)
    BY <1>w, <2>1, <2>2 DEF SoundWrite, Writes
  <2> HIDE DEF d
  <2> QED
    BY <2>1, <2>2, WriteMoves
<1>3. ASSUME NEW w \in Writers, Store!Replace(w) PROVE StoreInv'
  <2> DEFINE c == wr[w].content
             d == [wr[w] EXCEPT !.pc = "check", !.sound = TRUE]
  <2>1. /\ wr[w].pc = "temp" /\ UNCHANGED <<root, rows, custody>>
        /\ files' = [files EXCEPT ![c] = c]
        /\ wr' = [wr EXCEPT ![w] = d]
    BY <1>3 DEF Store!Replace
  <2>2. c \in Contents
    BY <1>w, <2>1 DEF SoundWrite
  <2>3. SoundFiles' /\ files'[c] = c /\ \A x \in Contents : files[x] = x => files'[x] = x
    BY <2>1, <2>2 DEF StoreInv, SoundFiles
  <2>4. ASSUME NEW r, r = d PROVE SoundWrite(r, files')
    BY <1>w, <2>1, <2>2, <2>3, <2>4 DEF SoundWrite, Writes
  <2>5. \A x \in Writers : SoundWrite(wr'[x], files')
    <3> SUFFICES ASSUME NEW x \in Writers PROVE SoundWrite(wr'[x], files')
      OBVIOUS
    <3>1. CASE x = w
      <4>1. wr'[x] = d
        BY <2>1, <3>1 DEF StoreInv
      <4> QED
        BY <2>4, <4>1
    <3>2. CASE x # w
      <4>1. wr'[x] = wr[x]
        BY <2>1, <3>2 DEF StoreInv
      <4> QED
        BY <1>w, <2>3, <4>1 DEF SoundWrite
    <3> QED
      BY <3>1, <3>2
  <2>6. \A i \in DOMAIN rows : SoundRow(rows'[i], files')
    BY <2>1, <2>3 DEF StoreInv, SoundRow, RawRows, Store!Encoded
  <2>7. wr' = [x \in Writers |-> wr'[x]]
    BY <2>1 DEF StoreInv
  <2> QED
    BY <2>1, <2>3, <2>5, <2>6, <2>7 DEF StoreInv
<1>4. ASSUME NEW w \in Writers, Store!Check(w) PROVE StoreInv'
  <2> DEFINE d == [wr[w] EXCEPT !.pc = "row"]
  <2>1. /\ wr[w].pc = "check" /\ UNCHANGED <<root, files, rows, custody>>
        /\ \/ wr' = [wr EXCEPT ![w] = d]
           \/ wr' = [wr EXCEPT ![w] = Store!Idle]
    BY <1>4 DEF Store!Check
  <2>2. ASSUME NEW r, r = d PROVE SoundWrite(r, files)
    BY <1>w, <2>1, <2>2 DEF SoundWrite, Writes
  <2> HIDE DEF d
  <2> QED
    BY <1>0, <2>1, <2>2, WriteMoves
<1>5. ASSUME NEW w \in Writers, Store!Abandon(w) PROVE StoreInv'
  BY <1>0, <1>5, WriteMoves DEF Store!Abandon
<1>6. ASSUME NEW w \in Writers, Store!Commit(w) PROVE StoreInv'
  <2> DEFINE r == Store!Row(wr[w])
  <2>1. /\ wr[w].pc = "row" /\ UNCHANGED <<root, files>>
        /\ rows' = Append(rows, r) /\ custody' = custody \cup {Len(rows) + 1}
        /\ wr' = [wr EXCEPT ![w] = Store!Idle]
    BY <1>6 DEF Store!Commit
  <2>2. SoundRow(r, files)
    <3>1. wr[w].content \in Contents
      BY <1>w, <2>1 DEF SoundWrite
    <3>2. Store!Encoded(wr[w].content) \in [prefix : BOOLEAN, body : Contents \cup {Garbled}]
      BY <1>a, <3>1 DEF Store!Encoded
    <3> HIDE DEF r
    <3>3. /\ r.content = wr[w].content /\ r.sound = wr[w].sound
          /\ r.backend = IF Form[r.content] = "large" THEN "filesystem" ELSE "db"
          /\ r.raw = Store!Encoded(r.content)
      BY DEF r, Store!Row
    <3>4. r \in RawRows
      BY <1>w, <3>1, <3>2 DEF r, Store!Row, RawRows, Writes
    <3> QED
      BY <1>w, <3>3, <3>4 DEF SoundRow, SoundWrite
  <2> HIDE DEF r
  <2>3. /\ rows' \in Seq(RawRows) /\ DOMAIN rows' = DOMAIN rows \cup {Len(rows) + 1}
        /\ \A i \in DOMAIN rows : rows'[i] = rows[i]
        /\ rows'[Len(rows) + 1] = r
    BY <2>1, <2>2, AppendProperties DEF StoreInv, SoundRow
  <2>4. \A x : (SoundRow(x, files) => SoundRow(x, files')) /\ (SoundWrite(x, files) => SoundWrite(x, files'))
    BY <2>1 DEF SoundRow, SoundWrite, RawRows, Store!Encoded
  <2>5. \A i \in DOMAIN rows' : SoundRow(rows'[i], files')
    BY <2>2, <2>3, <2>4 DEF StoreInv
  <2>6. /\ wr' = [x \in Writers |-> wr'[x]]
        /\ \A x \in Writers : wr'[x] = IF x = w THEN Store!Idle ELSE wr[x]
    BY <2>1 DEF StoreInv
  <2>7. \A x \in Writers : SoundWrite(wr'[x], files')
    BY <1>0, <1>w, <2>4, <2>6
  <2> QED
    BY <2>1, <2>3, <2>5, <2>6, <2>7 DEF StoreInv, SoundFiles
<1>7. CASE Store!Restart
  <2>1. /\ UNCHANGED <<files, rows, custody>> /\ root' \in BOOLEAN
        /\ wr' = [w \in Writers |-> Store!Idle]
    BY <1>7 DEF Store!Restart
  <2>2. \A x : (SoundRow(x, files) => SoundRow(x, files')) /\ (SoundWrite(x, files) => SoundWrite(x, files'))
    BY <2>1 DEF SoundRow, SoundWrite, RawRows, Store!Encoded
  <2>3. \A x \in Writers : SoundWrite(wr'[x], files')
    BY <1>0, <2>1, <2>2
  <2> QED
    BY <2>1, <2>2, <2>3 DEF StoreInv, SoundFiles
<1>8. ASSUME NEW c \in Contents, Store!Damage(c) PROVE StoreInv'
  <2>1. PICK x \in {None, Garbled} :
        /\ files' = [files EXCEPT ![c] = x] /\ UNCHANGED <<root, custody>>
        /\ rows' = [i \in DOMAIN rows |-> IF rows[i].content = c
                        THEN [rows[i] EXCEPT !.sound = FALSE] ELSE rows[i]]
        /\ wr' = [w \in Writers |-> IF wr[w].content = c
                        THEN [wr[w] EXCEPT !.sound = FALSE] ELSE wr[w]]
    BY <1>8 DEF Store!Damage
  <2>2. SoundFiles' /\ \A y \in Contents : y # c => files'[y] = files[y]
    BY <2>1 DEF StoreInv, SoundFiles
  <2>3. ASSUME NEW r, SoundRow(r, files) PROVE
          /\ r.content # c => SoundRow(r, files')
          /\ \A q : q = [r EXCEPT !.sound = FALSE] => SoundRow(q, files')
    BY <2>2, <2>3 DEF SoundRow, RawRows, Store!Encoded
  <2>4. ASSUME NEW d, SoundWrite(d, files) PROVE
          /\ d.content # c => SoundWrite(d, files')
          /\ \A q : q = [d EXCEPT !.sound = FALSE] => SoundWrite(q, files')
    BY <2>2, <2>4 DEF SoundWrite, Writes
  <2>5. \A i \in DOMAIN rows' : SoundRow(rows'[i], files')
    BY <2>1, <2>3 DEF StoreInv
  <2>6. rows' \in Seq(RawRows) /\ DOMAIN rows' = DOMAIN rows
    <3>1. Len(rows) \in Nat /\ DOMAIN rows = 1..Len(rows)
      BY LenProperties DEF StoreInv
    <3>2. \A i \in 1..Len(rows) : rows'[i] \in RawRows
      BY <2>1, <2>5, <3>1 DEF SoundRow
    <3> QED
      BY <2>1, <3>1, <3>2, IsASeq
  <2>7. /\ wr' = [w \in Writers |-> wr'[w]]
        /\ \A w \in Writers : SoundWrite(wr'[w], files')
    BY <1>w, <2>1, <2>4
  <2> QED
    BY <2>1, <2>2, <2>5, <2>6, <2>7 DEF StoreInv
<1>9. CASE UNCHANGED storeVars
  BY <1>9 DEF storeVars, StoreInv, SoundFiles, SoundRow, SoundWrite, Store!Encoded
<1> QED
  BY <1>1, <1>2, <1>3, <1>4, <1>5, <1>6, <1>7, <1>8, <1>9 DEF Store!Next

\* Every row of the store reads back: what a sound row names is in its column or file.
LEMMA RowsReadBack == ASSUME StoreInv PROVE Store!ReadsBack
<1>a. /\ None \notin Contents /\ Garbled \notin Contents
      /\ Form \in [Contents -> {"empty", "text", "binary", "prefixed", "large"}]
  BY RuntimesAssumption DEF Store!EvidenceStoreAssumption
<1> SUFFICES ASSUME NEW i \in DOMAIN rows
             PROVE  CASE Form[rows[i].content] = "large"
                           -> root /\ rows[i].sound => Store!Verifies(rows[i])
                      [] Form[rows[i].content] \in {"text", "binary"}
                           -> Store!Verifies(rows[i])
                      [] OTHER -> ~Store!Verifies(rows[i])
  BY DEF Store!ReadsBack
<1> DEFINE r == rows[i]
<1>1. SoundRow(r, files) /\ r.content \in Contents
  BY DEF StoreInv, SoundRow, RawRows
<1> HIDE DEF r
<1>2. CASE Form[r.content] = "large"
  <2>1. r.backend = "filesystem"
    BY <1>1, <1>2 DEF SoundRow
  <2>2. root /\ r.sound => Store!Verifies(r)
    BY <1>1, <2>1 DEF SoundRow, Store!Verifies, Store!Read
  <2> QED
    BY <1>2, <2>2 DEF r
<1>3. CASE Form[r.content] # "large"
  <2>1. r.backend = "db" /\ r.raw = Store!Encoded(r.content)
    BY <1>1, <1>3 DEF SoundRow
  <2>2. Form[r.content] \in {"text", "binary"} => Store!Encoded(r.content).body = r.content
    BY DEF Store!Encoded
  <2>3. Form[r.content] = "prefixed" => Store!Encoded(r.content).body = Garbled
    BY DEF Store!Encoded
  <2>4. Form[r.content] \in {"text", "binary"} => Store!Verifies(r)
    BY <2>1, <2>2 DEF Store!Verifies, Store!Read, Store!Decoded
  <2>5. Form[r.content] \in {"prefixed", "empty"} => ~Store!Verifies(r)
    BY <1>a, <1>1, <2>1, <2>3 DEF Store!Verifies, Store!Read, Store!Decoded
  <2> QED
    BY <1>a, <1>1, <1>3, <2>4, <2>5 DEF r
<1> QED
  BY <1>2, <1>3

\* The archive of the rows fails only for a row without a source key, or no row at all.
LEMMA ArchiveOfRows == ASSUME StoreInv PROVE Store!ArchiveExplained
<1>1. /\ rows \in Seq(RawRows) /\ None \notin Contents
      /\ Len(rows) \in Nat /\ DOMAIN rows = 1..Len(rows)
  BY LenProperties, RuntimesAssumption DEF StoreInv, Store!EvidenceStoreAssumption
<1>2. \A i \in DOMAIN rows : rows[i].named \in BOOLEAN /\ rows[i].content # None
  BY <1>1 DEF StoreInv, SoundRow, RawRows
<1>3. /\ DOMAIN Store!Exported = DOMAIN rows
      /\ \A i \in DOMAIN rows : Store!RecordValid(Store!Exported[i]) <=> rows[i].named
  BY <1>2 DEF Store!Exported, Store!RecordValid
<1>4. Len(Store!Exported) = Len(rows)
  BY <1>1 DEF Store!Exported
<1>5. Len(rows) > 0 <=> rows # <<>>
  BY <1>1
<1> QED
  BY <1>3, <1>4, <1>5 DEF Store!ArchiveExplained, Store!ExportVerifies

\* Whatever writers of one path interleave, crash or find damaged, what the store took
\* it gives back, with its custody event, and the archive of its rows verifies.
THEOREM StoreGivesBack == Spec => []EvidenceSafe
<1>1. Init => StoreInv
  BY StoreInit DEF Init
<1>2. StoreInv /\ [Next]_vars => StoreInv'
  BY StoreStepInv DEF Next, IngestStep, MemoryStep, PipelineStep, VaultStep, StoreStep, RaceStep,
     vars, storeVars
<1>3. StoreInv => EvidenceSafe
  <2> SUFFICES ASSUME StoreInv PROVE EvidenceSafe
    OBVIOUS
  <2>1. Store!TypeOK
    BY DEF StoreInv, SoundFiles, SoundRow, SoundWrite, RawRows, Writes, Store!TypeOK
  <2>2. Store!FilesWhole /\ Store!CustodyComplete
    BY DEF StoreInv, SoundRow, SoundWrite, Store!FilesWhole, Store!CustodyComplete
  <2> QED
    BY <2>1, <2>2, RowsReadBack, ArchiveOfRows DEF EvidenceSafe, Store!EvidenceSafe
<1> QED
  BY <1>1, <1>2, <1>3, PTL DEF Spec

--------------------------------------------------------------------------------
(* The memory runtime.                                                       *)

CacheRows == [key : Keys, value : Nat, inserted : Nat, accessed : Nat]

SoundClaim(c) ==
    /\ c \in [status : Memory!Statuses, touch : Nat, since : Nat]
    /\ c.status = "active" => c.touch < StaleAfter
    /\ c.status = "invalidated" => c.since < ArchiveAfter

\* One entry per key, none touched before its last put or after now.
SoundCache(seq, now) ==
    /\ seq \in Seq(CacheRows)
    /\ Len(seq) <= MaxEntries
    /\ \A i, j \in 1..Len(seq) : seq[i].key = seq[j].key => i = j
    /\ \A i \in 1..Len(seq) :
        /\ seq[i].inserted <= seq[i].value
        /\ seq[i].value <= seq[i].accessed
        /\ seq[i].accessed <= now

Mine(e, queue) == {i \in DOMAIN queue : queue[i].entity = e}
InFlight(e, flight) == IF e \in DOMAIN flight THEN 1 ELSE 0

\* Each entry is under its own entity with a retry to go, two of an entity at most.
SoundSchedule(queue, flight) ==
    /\ queue \in Seq(Memory!Entries)
    /\ \A i \in 1..Len(queue) : queue[i].attempt <= MaxRetries
    /\ DOMAIN flight \subseteq Entities
    /\ \A e \in DOMAIN flight :
        flight[e] \in Memory!Entries /\ flight[e].entity = e /\ flight[e].attempt <= MaxRetries
    /\ \A e \in Entities : Cardinality(Mine(e, queue)) + InFlight(e, flight) <= 2

ClaimsInv == DOMAIN claims \subseteq Keys /\ \A k \in DOMAIN claims : SoundClaim(claims[k])

CacheInv == tick \in Nat /\ SoundCache(cache, tick)

QueueInv ==
    /\ tick \in Nat
    /\ SoundSchedule(pending, inFlight)
    /\ failed \subseteq Memory!Entries
    /\ \A x \in failed : x.attempt = MaxRetries + 1

MemoryInv == tick \in 0..MaxTick /\ ClaimsInv /\ CacheInv /\ QueueInv

\* A set of naturals that is not empty has a least element.
LEMMA NatMinimum ==
    ASSUME NEW T, T \subseteq Nat, T # {}
    PROVE  \E m \in T : \A x \in T : m <= x
<1>1. PICK m \in T : \A x \in T : <<x, m>> \notin OpToRel(<, Nat)
  BY NatLessThanWellFounded, WFMin
<1>2. \A x \in T : ~(x < m)
  BY <1>1 DEF OpToRel
<1> QED
  BY <1>2

\* A sequence without one of its positions: the later ones move down.
LEMMA WithoutProperties ==
    ASSUME NEW S, NEW seq \in Seq(S), NEW i \in 1..Len(seq)
    PROVE  /\ Memory!Without(seq, i) \in Seq(S)
           /\ Len(Memory!Without(seq, i)) = Len(seq) - 1
           /\ \A n \in 1..Len(seq) - 1 :
                Memory!Without(seq, i)[n] = seq[IF n < i THEN n ELSE n + 1]
<1> DEFINE a == SubSeq(seq, 1, i - 1)
           b == SubSeq(seq, i + 1, Len(seq))
<1>1. \A n \in 1..Len(seq) : seq[n] \in S
  BY LenProperties
<1>2. /\ a \in Seq(S) /\ Len(a) = i - 1
      /\ \A n \in 1..i - 1 : a[n] = seq[n]
  <2>1. /\ 1 \in Int /\ i - 1 \in Int
        /\ \A n \in 1..i - 1 : seq[n] \in S
    BY <1>1, LenProperties
  <2>2. /\ a \in Seq(S)
        /\ Len(a) = IF 1 <= i - 1 THEN (i - 1) - 1 + 1 ELSE 0
        /\ \A n \in 1..(i - 1) - 1 + 1 : a[n] = seq[1 + n - 1]
    BY <2>1, SubSeqProperties
  <2> QED
    BY <2>2, LenProperties
<1>3. /\ b \in Seq(S) /\ Len(b) = Len(seq) - i
      /\ \A n \in 1..Len(seq) - i : b[n] = seq[n + i]
  <2>1. /\ i + 1 \in Int /\ Len(seq) \in Int
        /\ \A n \in i + 1..Len(seq) : seq[n] \in S
    BY <1>1, LenProperties
  <2>2. /\ b \in Seq(S)
        /\ Len(b) = IF i + 1 <= Len(seq) THEN Len(seq) - (i + 1) + 1 ELSE 0
        /\ \A n \in 1..Len(seq) - (i + 1) + 1 : b[n] = seq[(i + 1) + n - 1]
    BY <2>1, SubSeqProperties
  <2>3. Len(seq) \in Nat /\ i \in Int /\ i <= Len(seq)
    BY LenProperties
  <2>4. \A n \in 1..Len(seq) - i : n \in 1..Len(seq) - (i + 1) + 1 /\ (i + 1) + n - 1 = n + i
    BY <2>3
  <2> QED
    BY <2>2, <2>3, <2>4
<1>4. /\ a \o b \in Seq(S)
      /\ Len(a \o b) = Len(a) + Len(b)
      /\ \A n \in 1..Len(a) + Len(b) :
            (a \o b)[n] = IF n <= Len(a) THEN a[n] ELSE b[n - Len(a)]
  BY <1>2, <1>3, ConcatProperties
<1>5. Len(seq) \in Nat /\ i \in Int /\ 1 <= i /\ i <= Len(seq)
  BY LenProperties
<1>6. ASSUME NEW n \in 1..Len(seq) - 1
      PROVE  (a \o b)[n] = seq[IF n < i THEN n ELSE n + 1]
  <2> HIDE DEF a, b
  <2>1. n \in 1..Len(a) + Len(b)
    BY <1>2, <1>3, <1>5
  <2>2. CASE n < i
    <3>1. n <= Len(a) /\ n \in 1..i - 1
      BY <2>2, <1>2, <1>5
    <3> QED
      BY <3>1, <2>1, <2>2, <1>2, <1>4
  <2>3. CASE ~(n < i)
    <3>1. ~(n <= Len(a)) /\ n - Len(a) \in 1..Len(seq) - i /\ n - Len(a) + i = n + 1
      BY <2>3, <1>2, <1>5
    <3> QED
      BY <3>1, <2>1, <2>3, <1>3, <1>4
  <2> QED
    BY <2>2, <2>3
<1>7. Memory!Without(seq, i) = a \o b
  BY DEF Memory!Without
<1> HIDE DEF a, b
<1>8. Len(a \o b) = Len(seq) - 1
  BY <1>2, <1>3, <1>4, <1>5
<1> QED
  BY <1>4, <1>6, <1>7, <1>8

\* A function on the first n positions is a sequence of length n.
LEMMA SeqOfFunction ==
    ASSUME NEW S, NEW n \in Nat, NEW f \in [1..n -> S]
    PROVE  f \in Seq(S) /\ Len(f) = n
<1>1. f \in Seq(S)
  BY SeqDef
<1>2. DOMAIN f = 1..n /\ DOMAIN f = 1..Len(f) /\ Len(f) \in Nat
  BY <1>1, LenProperties
<1> QED
  BY <1>1, <1>2

LEMMA SameCardinality == \A S : Memory!Cardinality(S) = Cardinality(S)
  BY DEF Memory!Cardinality, Cardinality

\* Fewer positions under an injection, fewer members.
LEMMA FewerMembers ==
    ASSUME NEW S, NEW T, IsFiniteSet(T), NEW f \in [S -> T],
           \A x, y \in S : f[x] = f[y] => x = y
    PROVE  IsFiniteSet(S) /\ Cardinality(S) <= Cardinality(T)
<1>1. f \in Injection(S, T)
  BY DEF Injection, IsInjective
<1> QED
  BY <1>1, FS_Injection

LEMMA MineFinite ==
    ASSUME NEW S, NEW queue \in Seq(S), NEW e
    PROVE  IsFiniteSet(Mine(e, queue)) /\ Cardinality(Mine(e, queue)) \in Nat
<1>1. 1 \in Int /\ Len(queue) \in Int /\ Mine(e, queue) \in SUBSET (1..Len(queue))
  BY LenProperties DEF Mine
<1>2. IsFiniteSet(1..Len(queue))
  BY <1>1, FS_Interval
<1> QED
  BY <1>1, <1>2, FS_Subset, FS_CardinalityType

\* Appending an entry counts one more for its entity and none for another.
LEMMA MineAppend ==
    ASSUME NEW S, NEW queue \in Seq(S), NEW x \in S, NEW e
    PROVE  Cardinality(Mine(e, Append(queue, x)))
            = Cardinality(Mine(e, queue)) + (IF x.entity = e THEN 1 ELSE 0)
<1> DEFINE more == Append(queue, x)
           n == Len(queue) + 1
<1>1. /\ Len(queue) \in Nat /\ DOMAIN queue = 1..Len(queue) /\ DOMAIN more = 1..n
      /\ \A i \in 1..Len(queue) : more[i] = queue[i]
      /\ more[n] = x
  BY AppendProperties, LenProperties
<1>2. n \notin Mine(e, queue)
  BY <1>1 DEF Mine
<1> HIDE DEF more
<1>3. CASE x.entity = e
  <2>1. Mine(e, more) = Mine(e, queue) \cup {n}
    BY <1>1, <1>3 DEF Mine
  <2> QED
    BY <2>1, <1>2, <1>3, MineFinite, FS_AddElement DEF more
<1>4. CASE x.entity # e
  <2>1. Mine(e, more) = Mine(e, queue)
    BY <1>1, <1>4 DEF Mine
  <2> QED
    BY <2>1, <1>4, MineFinite DEF more
<1> QED
  BY <1>3, <1>4

\* Taking the entry at i out counts one less for its entity and no more for another.
LEMMA MineWithout ==
    ASSUME NEW S, NEW queue \in Seq(S), NEW i \in 1..Len(queue), NEW e
    PROVE  Cardinality(Mine(e, Memory!Without(queue, i)))
            <= Cardinality(Mine(e, queue)) - (IF queue[i].entity = e THEN 1 ELSE 0)
<1> DEFINE less == Memory!Without(queue, i)
           f == [n \in Mine(e, less) |-> IF n < i THEN n ELSE n + 1]
<1>1. /\ less \in Seq(S) /\ Len(less) = Len(queue) - 1
      /\ \A n \in 1..Len(queue) - 1 : less[n] = queue[IF n < i THEN n ELSE n + 1]
  BY WithoutProperties
<1>2. /\ Len(queue) \in Nat /\ DOMAIN queue = 1..Len(queue)
      /\ DOMAIN less = 1..Len(queue) - 1
  BY <1>1, LenProperties
<1> HIDE DEF less
<1>3. f \in [Mine(e, less) -> Mine(e, queue) \ {i}]
  <2> SUFFICES ASSUME NEW n \in Mine(e, less)
               PROVE  (IF n < i THEN n ELSE n + 1) \in Mine(e, queue) \ {i}
    OBVIOUS
  <2> QED
    BY <1>1, <1>2 DEF Mine
<1>4. \A x, y \in Mine(e, less) : f[x] = f[y] => x = y
  BY <1>2 DEF Mine
<1>5. /\ IsFiniteSet(Mine(e, queue)) /\ IsFiniteSet(Mine(e, queue) \ {i})
      /\ Cardinality(Mine(e, queue) \ {i})
            = IF i \in Mine(e, queue) THEN Cardinality(Mine(e, queue)) - 1
                                      ELSE Cardinality(Mine(e, queue))
  BY MineFinite, FS_RemoveElement
<1>6. i \in Mine(e, queue) <=> queue[i].entity = e
  BY <1>2 DEF Mine
<1>7. Cardinality(Mine(e, less)) <= Cardinality(Mine(e, queue) \ {i})
  <2> HIDE DEF f
  <2> QED
    BY <1>3, <1>4, <1>5, FewerMembers
<1>8. Cardinality(Mine(e, queue)) \in Nat
  BY MineFinite
<1>9. CASE queue[i].entity = e
  BY <1>5, <1>6, <1>7, <1>8, <1>9 DEF less
<1>10. CASE queue[i].entity # e
  BY <1>5, <1>6, <1>7, <1>8, <1>10 DEF less
<1> QED
  BY <1>9, <1>10

\* Registrations, transitions and cycles keep every claim below its limits.
LEMMA RegisterInv ==
    ASSUME ClaimsInv, NEW k \in Keys, NEW s \in Memory!Statuses, Memory!Register(k, s)
    PROVE  ClaimsInv'
<1>1. SoundClaim([status |-> s, touch |-> 0, since |-> 0])
  BY RuntimesAssumption DEF SoundClaim, Memory!MemoryRuntimeAssumption
<1> QED
  BY <1>1 DEF ClaimsInv, Memory!Register

LEMMA TransitionInv ==
    ASSUME ClaimsInv, NEW k \in Keys, NEW s \in Memory!Statuses, Memory!Transition(k, s)
    PROVE  ClaimsInv'
<1>1. StaleAfter \in Nat \ {0} /\ ArchiveAfter \in Nat \ {0}
  BY RuntimesAssumption DEF Memory!MemoryRuntimeAssumption
<1>2. ASSUME NEW c, SoundClaim(c), NEW r,
             r = [c EXCEPT !.status = s,
                           !.touch = IF s = "active" THEN 0 ELSE @,
                           !.since = IF s = "invalidated" THEN 0 ELSE @]
      PROVE  SoundClaim(r)
  <2>1. c \in [status : Memory!Statuses, touch : Nat, since : Nat]
    BY <1>2 DEF SoundClaim
  <2>2. /\ r \in [status : Memory!Statuses, touch : Nat, since : Nat]
        /\ r.status = s
        /\ s = "active" => r.touch = 0
        /\ s = "invalidated" => r.since = 0
    BY <1>2, <2>1
  <2> QED
    BY <1>1, <2>2 DEF SoundClaim
<1>3. /\ k \in DOMAIN claims
      /\ claims' = [claims EXCEPT ![k] = [claims[k] EXCEPT
                        !.status = s,
                        !.touch = IF s = "active" THEN 0 ELSE @,
                        !.since = IF s = "invalidated" THEN 0 ELSE @]]
  BY DEF Memory!Transition
<1>4. SoundClaim(claims'[k])
  BY <1>2, <1>3 DEF ClaimsInv
<1> QED
  BY <1>3, <1>4 DEF ClaimsInv

LEMMA AgeInv == ASSUME ClaimsInv, Memory!AdvanceCycle PROVE ClaimsInv'
<1>1. ASSUME NEW c, SoundClaim(c) PROVE SoundClaim(Memory!Aged(c))
  BY <1>1, RuntimesAssumption
     DEF SoundClaim, Memory!Aged, Memory!Statuses, Memory!MemoryRuntimeAssumption
<1> QED
  BY <1>1 DEF ClaimsInv, Memory!AdvanceCycle

\* Taking an entry out of the cache.
LEMMA CacheWithout ==
    ASSUME NEW seq, NEW now, SoundCache(seq, now), NEW i \in 1..Len(seq)
    PROVE  SoundCache(Memory!Without(seq, i), now)
           /\ Len(Memory!Without(seq, i)) = Len(seq) - 1
<1> DEFINE less == Memory!Without(seq, i)
<1>1. seq \in Seq(CacheRows) /\ Len(seq) \in Nat
  BY LenProperties DEF SoundCache
<1>2. /\ less \in Seq(CacheRows) /\ Len(less) = Len(seq) - 1
      /\ \A n \in 1..Len(seq) - 1 : less[n] = seq[IF n < i THEN n ELSE n + 1]
  BY <1>1, WithoutProperties
<1>3. \A n \in 1..Len(seq) - 1 : (IF n < i THEN n ELSE n + 1) \in 1..Len(seq)
  BY <1>1
<1> HIDE DEF less
<1>c. MaxEntries \in Nat
  BY RuntimesAssumption DEF Memory!MemoryRuntimeAssumption
<1>4. ASSUME NEW m \in 1..Len(less), NEW n \in 1..Len(less), less[m].key = less[n].key
      PROVE  m = n
  BY <1>1, <1>2, <1>3, <1>4 DEF SoundCache
<1>5. ASSUME NEW n \in 1..Len(less)
      PROVE  /\ less[n].inserted <= less[n].value
             /\ less[n].value <= less[n].accessed
             /\ less[n].accessed <= now
  BY <1>2, <1>3 DEF SoundCache
<1>6. Len(less) <= MaxEntries
  BY <1>1, <1>2, <1>c DEF SoundCache
<1> QED
  BY <1>2, <1>4, <1>5, <1>6 DEF SoundCache, less

\* The victim is there: some entry is the least recently used one, and of those one is
\* the first.
LEMMA VictimThere ==
    ASSUME CacheInv, Len(cache) # 0
    PROVE  Memory!Victim \in 1..Len(cache)
<1>1. /\ DOMAIN cache = 1..Len(cache) /\ Len(cache) \in Nat /\ 1 \in DOMAIN cache
      /\ \A i \in DOMAIN cache : cache[i].accessed \in Nat
  <2>1. cache \in Seq(CacheRows)
    BY DEF CacheInv, SoundCache
  <2>2. /\ Len(cache) \in Nat /\ DOMAIN cache = 1..Len(cache)
        /\ \A i \in 1..Len(cache) : cache[i] \in CacheRows
    BY <2>1, LenProperties
  <2> QED
    BY <2>2 DEF CacheRows
<1> DEFINE times == {cache[i].accessed : i \in DOMAIN cache}
<1>2. PICK t \in times : \A x \in times : t <= x
  BY <1>1, NatMinimum
<1> DEFINE oldest == {i \in DOMAIN cache : cache[i].accessed = t}
<1>3. PICK m \in oldest : \A x \in oldest : m <= x
  <2>1. oldest \subseteq Nat /\ oldest # {}
    BY <1>1
  <2> QED
    BY <2>1, NatMinimum
<1>4. \A j \in DOMAIN cache :
        cache[m].accessed < cache[j].accessed
        \/ (cache[m].accessed = cache[j].accessed /\ m <= j)
  <2>1. m \in DOMAIN cache /\ cache[m].accessed = t
    BY <1>3
  <2>2. ASSUME NEW j \in DOMAIN cache
        PROVE  cache[m].accessed < cache[j].accessed
               \/ (cache[m].accessed = cache[j].accessed /\ m <= j)
    <3>1. t <= cache[j].accessed /\ t \in Nat /\ cache[j].accessed \in Nat
      BY <1>1, <1>2, <2>1
    <3>2. cache[j].accessed = t => m <= j
      BY <1>3
    <3> QED
      BY <2>1, <3>1, <3>2
  <2> QED
    BY <2>2
<1> QED
  BY <1>1, <1>3, <1>4 DEF Memory!Victim

LEMMA PutInv == ASSUME CacheInv, NEW k \in Keys, Memory!Put(k) PROVE CacheInv'
<1>1. /\ cache \in Seq(CacheRows) /\ Len(cache) \in Nat
      /\ DOMAIN cache = 1..Len(cache) /\ tick \in Nat
      /\ \A i \in 1..Len(cache) : cache[i] \in CacheRows
      /\ Len(cache) <= MaxEntries
  BY LenProperties DEF CacheInv, SoundCache
<1>c. MaxEntries \in Nat \ {0}
  BY RuntimesAssumption DEF Memory!MemoryRuntimeAssumption
<1>2. tick' = tick
  BY DEF Memory!Put
<1>3. CASE Memory!Cached(k) # {}
  <2>1. cache' = [i \in 1..Len(cache) |-> IF cache[i].key = k
                    THEN [cache[i] EXCEPT !.value = tick, !.accessed = tick] ELSE cache[i]]
    BY <1>1, <1>3 DEF Memory!Put
  <2>2. ASSUME NEW c \in CacheRows, c.inserted <= c.value, c.value <= c.accessed, c.accessed <= tick,
               NEW r, r = [c EXCEPT !.value = tick, !.accessed = tick]
        PROVE  /\ r \in CacheRows /\ r.key = c.key
               /\ r.inserted <= r.value /\ r.value <= r.accessed /\ r.accessed <= tick
    <3>1. r \in CacheRows /\ r.key = c.key /\ r.inserted = c.inserted
          /\ r.value = tick /\ r.accessed = tick
      BY <1>1, <2>2 DEF CacheRows
    <3>2. c.inserted \in Nat /\ c.value \in Nat /\ c.accessed \in Nat
      BY <2>2 DEF CacheRows
    <3> QED
      BY <1>1, <2>2, <3>1, <3>2
  <2>3. ASSUME NEW i \in 1..Len(cache)
        PROVE  /\ cache'[i] \in CacheRows /\ cache'[i].key = cache[i].key
               /\ cache'[i].inserted <= cache'[i].value
               /\ cache'[i].value <= cache'[i].accessed
               /\ cache'[i].accessed <= tick
    <3>1. CASE cache[i].key = k
      BY <1>1, <2>1, <2>2, <3>1 DEF CacheInv, SoundCache
    <3>2. CASE cache[i].key # k
      BY <1>1, <2>1, <3>2 DEF CacheInv, SoundCache
    <3> QED
      BY <3>1, <3>2
  <2>4. cache' \in Seq(CacheRows) /\ Len(cache') = Len(cache)
    <3>1. cache' \in [1..Len(cache) -> CacheRows]
      BY <2>1, <2>3
    <3> QED
      BY <1>1, <3>1, SeqOfFunction
  <2> QED
    BY <1>1, <1>2, <2>3, <2>4 DEF CacheInv, SoundCache
<1>4. CASE Memory!Cached(k) = {}
  <2> DEFINE rest == IF Len(cache) >= MaxEntries
                     THEN Memory!Without(cache, Memory!Victim) ELSE cache
             new == [key |-> k, value |-> tick, inserted |-> tick, accessed |-> tick]
  <2>1. cache' = Append(rest, new)
    BY <1>4 DEF Memory!Put
  <2>2. \A i \in 1..Len(cache) : cache[i].key # k
    BY <1>1, <1>4 DEF Memory!Cached
  <2>3. SoundCache(rest, tick) /\ Len(rest) + 1 <= MaxEntries
        /\ \A i \in 1..Len(rest) : rest[i].key # k
    <3>1. CASE Len(cache) >= MaxEntries
      <4>1. Memory!Victim \in 1..Len(cache)
        BY <1>1, <1>c, <3>1, VictimThere
      <4>2. SoundCache(rest, tick) /\ Len(rest) = Len(cache) - 1
        BY <3>1, <4>1, CacheWithout DEF CacheInv
      <4>3. \A n \in 1..Len(cache) - 1 :
                rest[n] = cache[IF n < Memory!Victim THEN n ELSE n + 1]
        BY <1>1, <3>1, <4>1, WithoutProperties
      <4>4. ASSUME NEW n \in 1..Len(rest) PROVE rest[n].key # k
        <5> HIDE DEF rest
        <5>1. n \in 1..Len(cache) - 1
          BY <1>1, <4>2
        <5>2. (IF n < Memory!Victim THEN n ELSE n + 1) \in 1..Len(cache)
          BY <1>1, <4>1, <5>1
        <5> QED
          BY <5>1, <5>2, <4>3, <2>2
      <4>5. Len(rest) + 1 <= MaxEntries
        <5> HIDE DEF rest
        <5> QED
          BY <1>1, <1>c, <4>2
      <4> QED
        BY <4>2, <4>4, <4>5
    <3>2. CASE ~(Len(cache) >= MaxEntries)
      BY <1>1, <1>c, <2>2, <3>2 DEF CacheInv
    <3> QED
      BY <3>1, <3>2
  <2>4. new \in CacheRows
    BY <1>1 DEF CacheRows
  <2> HIDE DEF rest
  <2>5. rest \in Seq(CacheRows) /\ Len(rest) \in Nat
    BY <2>3, LenProperties DEF SoundCache
  <2>6. /\ cache' \in Seq(CacheRows) /\ Len(cache') = Len(rest) + 1
        /\ \A i \in 1..Len(rest) : cache'[i] = rest[i]
        /\ cache'[Len(rest) + 1] = new
    <3> HIDE DEF new
    <3> QED
      BY <2>1, <2>4, <2>5, AppendProperties
  <2>7. \A i, j \in 1..Len(cache') : cache'[i].key = cache'[j].key => i = j
    BY <2>3, <2>5, <2>6 DEF SoundCache
  <2>8. ASSUME NEW i \in 1..Len(cache')
        PROVE  /\ cache'[i].inserted <= cache'[i].value
               /\ cache'[i].value <= cache'[i].accessed
               /\ cache'[i].accessed <= tick
    <3>1. CASE i = Len(rest) + 1
      BY <1>1, <2>6, <3>1
    <3>2. CASE i \in 1..Len(rest)
      BY <2>3, <2>6, <3>2 DEF SoundCache
    <3> QED
      BY <2>5, <2>6, <3>1, <3>2
  <2> QED
    BY <1>1, <1>2, <2>3, <2>6, <2>7, <2>8 DEF CacheInv, SoundCache
<1> QED
  BY <1>3, <1>4

LEMMA GetInv ==
    ASSUME CacheInv, NEW k \in Keys, Memory!Get(k) \/ Memory!Evict(k)
    PROVE  CacheInv'
<1>1. PICK i \in Memory!Cached(k) :
        \/ cache' = Memory!Without(cache, i)
        \/ cache' = [cache EXCEPT ![i].accessed = tick]
  BY DEF Memory!Get, Memory!Evict
<1>2. tick' = tick /\ tick \in Nat
  BY DEF Memory!Get, Memory!Evict, CacheInv
<1>3. /\ cache \in Seq(CacheRows) /\ Len(cache) \in Nat /\ i \in 1..Len(cache)
      /\ \A n \in 1..Len(cache) : cache[n] \in CacheRows
  BY LenProperties DEF CacheInv, SoundCache, Memory!Cached
<1>4. CASE cache' = Memory!Without(cache, i)
  BY <1>2, <1>3, <1>4, CacheWithout DEF CacheInv
<1>5. CASE cache' = [cache EXCEPT ![i].accessed = tick]
  <2>1. PICK r : r = [cache[i] EXCEPT !.accessed = tick]
    OBVIOUS
  <2>2. r \in CacheRows /\ r.key = cache[i].key /\ r.inserted = cache[i].inserted
        /\ r.value = cache[i].value /\ r.accessed = tick
    BY <1>2, <1>3, <2>1 DEF CacheRows
  <2>3. cache' = [cache EXCEPT ![i] = r]
    BY <1>5, <2>1
  <2>4. /\ cache' \in Seq(CacheRows) /\ Len(cache') = Len(cache)
        /\ \A n \in 1..Len(cache) : cache'[n] = IF n = i THEN r ELSE cache[n]
    BY <1>3, <2>2, <2>3, ExceptSeq
  <2>5. /\ Len(cache) <= MaxEntries
        /\ \A m, n \in 1..Len(cache) : cache[m].key = cache[n].key => m = n
        /\ \A n \in 1..Len(cache) : cache[n].inserted <= cache[n].value
                                    /\ cache[n].value <= cache[n].accessed
                                    /\ cache[n].accessed <= tick
    BY DEF CacheInv, SoundCache
  <2>6. cache[i].value <= tick
    <3>1. cache[i] \in CacheRows /\ cache[i].value <= cache[i].accessed
          /\ cache[i].accessed <= tick
      BY <1>3, <2>5
    <3>2. cache[i].value \in Nat /\ cache[i].accessed \in Nat
      BY <3>1 DEF CacheRows
    <3> QED
      BY <1>2, <3>1, <3>2
  <2>7. ASSUME NEW n \in 1..Len(cache)
        PROVE  /\ cache'[n].key = cache[n].key
               /\ cache'[n].inserted <= cache'[n].value
               /\ cache'[n].value <= cache'[n].accessed
               /\ cache'[n].accessed <= tick
    <3>1. CASE n = i
      BY <1>2, <1>3, <2>2, <2>4, <2>5, <2>6, <3>1
    <3>2. CASE n # i
      BY <2>4, <2>5, <3>2
    <3> QED
      BY <3>1, <3>2
  <2> QED
    BY <1>2, <2>4, <2>5, <2>7 DEF CacheInv, SoundCache
<1> QED
  BY <1>1, <1>4, <1>5

LEMMA PurgeInv == ASSUME CacheInv, Memory!Purge PROVE CacheInv'
<1> DEFINE alive == {i \in DOMAIN cache : ~Memory!Expired(cache[i])}
           size == Cardinality(alive)
<1>1. PICK f \in [1..size -> alive] :
        /\ \A m, n \in DOMAIN f : m < n => f[m] < f[n]
        /\ cache' = [i \in DOMAIN f |-> cache[f[i]]]
  BY SameCardinality DEF Memory!Purge
<1>2. tick' = tick /\ tick \in Nat
  BY DEF Memory!Purge, CacheInv
<1>3. /\ cache \in Seq(CacheRows) /\ Len(cache) \in Nat /\ DOMAIN cache = 1..Len(cache)
      /\ \A i \in 1..Len(cache) : cache[i] \in CacheRows
  BY LenProperties DEF CacheInv, SoundCache
<1>4. size \in Nat /\ size <= Len(cache)
  <2>1. IsFiniteSet(1..Len(cache)) /\ Cardinality(1..Len(cache)) = Len(cache)
    <3>1. 1 \in Int /\ Len(cache) \in Int
      BY <1>3
    <3> QED
      BY <1>3, <3>1, FS_Interval
  <2>2. alive \in SUBSET (1..Len(cache))
    BY <1>3
  <2> QED
    BY <2>1, <2>2, FS_Subset, FS_CardinalityType
<1>5. \A i \in 1..size : f[i] \in 1..Len(cache)
  BY <1>1, <1>3
<1> HIDE DEF alive, size
<1>6. DOMAIN f = 1..size /\ \A i \in 1..size : cache'[i] = cache[f[i]]
  BY <1>1
<1>7. cache' \in Seq(CacheRows) /\ Len(cache') = size
  <2>1. cache' \in [1..size -> CacheRows]
    BY <1>1, <1>3, <1>5, <1>6
  <2> QED
    BY <1>4, <2>1, SeqOfFunction
<1>8. ASSUME NEW i \in 1..size, NEW j \in 1..size, cache'[i].key = cache'[j].key PROVE i = j
  <2>1. f[i] = f[j]
    BY <1>5, <1>6, <1>8 DEF CacheInv, SoundCache
  <2>2. i \in Nat /\ j \in Nat /\ f[i] \in Nat /\ f[j] \in Nat
    BY <1>4, <1>5
  <2> QED
    BY <1>1, <1>6, <2>1, <2>2
<1>9. ASSUME NEW i \in 1..size
      PROVE  /\ cache'[i].inserted <= cache'[i].value
             /\ cache'[i].value <= cache'[i].accessed
             /\ cache'[i].accessed <= tick
  BY <1>5, <1>6 DEF CacheInv, SoundCache
<1>10. size <= MaxEntries
  BY <1>3, <1>4, RuntimesAssumption DEF CacheInv, SoundCache, Memory!MemoryRuntimeAssumption
<1> QED
  BY <1>2, <1>7, <1>8, <1>9, <1>10 DEF CacheInv, SoundCache

\* A later tick keeps the cache sound.
LEMMA CacheLater ==
    ASSUME CacheInv, UNCHANGED cache, tick' \in Nat, tick <= tick'
    PROVE  CacheInv'
<1>1. cache \in Seq(CacheRows) /\ \A i \in 1..Len(cache) : cache[i] \in CacheRows
  BY LenProperties DEF CacheInv, SoundCache
<1>2. \A i \in 1..Len(cache) : cache[i].accessed <= tick'
  BY <1>1 DEF CacheInv, SoundCache, CacheRows
<1> QED
  BY <1>2 DEF CacheInv, SoundCache

\* Appending an entry of one more of its entity, or replacing one by another of the same.
LEMMA ScheduleInv ==
    ASSUME QueueInv, NEW e \in Entities, NEW p \in Priorities, NEW d \in 0..1,
           Memory!Schedule(e, p, d)
    PROVE  QueueInv'
<1> DEFINE mine == {i \in DOMAIN pending : pending[i].entity = e}
           first == CHOOSE i \in mine : \A j \in mine : i <= j
           after == tick + d
<1>1. /\ pending \in Seq(Memory!Entries) /\ Len(pending) \in Nat
      /\ DOMAIN pending = 1..Len(pending)
      /\ \A i \in 1..Len(pending) : pending[i] \in Memory!Entries
      /\ after \in Nat /\ MaxRetries \in Nat
  BY LenProperties, RuntimesAssumption DEF QueueInv, SoundSchedule, Memory!MemoryRuntimeAssumption
<1>2. UNCHANGED <<tick, claims, cache, inFlight, failed>>
  BY DEF Memory!Schedule
<1>3. CASE mine = {}
  <2> DEFINE new == [entity |-> e, priority |-> p, after |-> after, attempt |-> 0]
  <2>1. pending' = Append(pending, new)
    BY <1>3 DEF Memory!Schedule
  <2>2. new \in Memory!Entries
    BY <1>1 DEF Memory!Entries
  <2>3. new.entity = e /\ new.attempt = 0
    OBVIOUS
  <2> HIDE DEF new
  <2>4. /\ pending' \in Seq(Memory!Entries) /\ Len(pending') = Len(pending) + 1
        /\ \A i \in 1..Len(pending) : pending'[i] = pending[i]
        /\ pending'[Len(pending) + 1] = new
    BY <1>1, <2>1, <2>2, AppendProperties
  <2>5. \A i \in 1..Len(pending') : pending'[i].attempt <= MaxRetries
    <3> SUFFICES ASSUME NEW i \in 1..Len(pending') PROVE pending'[i].attempt <= MaxRetries
      OBVIOUS
    <3>1. CASE i = Len(pending) + 1
      BY <1>1, <2>3, <2>4, <3>1
    <3>2. CASE i \in 1..Len(pending)
      BY <2>4, <3>2 DEF QueueInv, SoundSchedule
    <3> QED
      BY <1>1, <2>4, <3>1, <3>2
  <2>6. ASSUME NEW x \in Entities
        PROVE  Cardinality(Mine(x, pending')) + InFlight(x, inFlight) <= 2
    <3>1. Cardinality(Mine(x, pending'))
            = Cardinality(Mine(x, pending)) + (IF new.entity = x THEN 1 ELSE 0)
      BY <1>1, <2>1, <2>2, MineAppend
    <3>2. x = e => Mine(x, pending) = {}
      BY <1>3 DEF Mine
    <3>3. Cardinality({}) = 0
      BY FS_EmptySet
    <3>4. InFlight(x, inFlight) \in 0..1
      BY DEF InFlight
    <3>5. Cardinality(Mine(x, pending)) + InFlight(x, inFlight) <= 2
          /\ Cardinality(Mine(x, pending)) \in Nat
      BY <1>1, MineFinite DEF QueueInv, SoundSchedule
    <3> QED
      BY <2>3, <3>1, <3>2, <3>3, <3>4, <3>5
  <2> QED
    BY <1>2, <2>4, <2>5, <2>6 DEF QueueInv, SoundSchedule
<1>4. CASE mine # {} /\ p < pending[first].priority
  <2>1. first \in mine
    <3>1. mine \subseteq Nat /\ mine # {}
      BY <1>1, <1>4
    <3> QED
      BY <3>1, NatMinimum
  <2>0. pending' = [pending EXCEPT ![first].priority = p,
                                   ![first].after = IF after < @ THEN after ELSE @]
    BY <1>4 DEF Memory!Schedule
  <2> HIDE DEF first, mine
  <2>2. first \in 1..Len(pending) /\ pending[first].entity = e
    BY <1>1, <2>1 DEF mine
  <2>3. PICK r : r = [pending[first] EXCEPT !.priority = p,
                                           !.after = IF after < @ THEN after ELSE @]
    OBVIOUS
  <2>4. r \in Memory!Entries /\ r.entity = e /\ r.attempt = pending[first].attempt
    <3>1. pending[first] \in Memory!Entries
      BY <1>1, <2>2
    <3> HIDE DEF after
    <3> QED
      BY <1>1, <2>2, <2>3, <3>1 DEF Memory!Entries
  <2>5. pending' = [pending EXCEPT ![first] = r]
    BY <2>0, <2>3
  <2>6. /\ pending' \in Seq(Memory!Entries) /\ Len(pending') = Len(pending)
        /\ \A i \in 1..Len(pending) : pending'[i] = IF i = first THEN r ELSE pending[i]
    BY <1>1, <2>2, <2>4, <2>5, ExceptSeq
  <2>7. \A x : Mine(x, pending') = Mine(x, pending)
    <3>1. DOMAIN pending' = DOMAIN pending
      BY <2>5
    <3> QED
      BY <1>1, <2>2, <2>4, <2>6, <3>1 DEF Mine
  <2> QED
    BY <1>2, <2>2, <2>4, <2>6, <2>7 DEF QueueInv, SoundSchedule
<1>5. CASE mine # {} /\ ~(p < pending[first].priority)
  <2>1. pending' = pending
    BY <1>5 DEF Memory!Schedule
  <2> QED
    BY <1>2, <2>1 DEF QueueInv
<1> QED
  BY <1>3, <1>4, <1>5

\* Dispatching moves an entry from the list to the entities in flight.
LEMMA NextReadyInv == ASSUME QueueInv, Memory!NextReady PROVE QueueInv'
<1>1. /\ pending \in Seq(Memory!Entries) /\ Len(pending) \in Nat
      /\ DOMAIN pending = 1..Len(pending)
      /\ \A n \in 1..Len(pending) : pending[n] \in Memory!Entries
  BY LenProperties DEF QueueInv, SoundSchedule
<1>2. PICK i \in 1..Len(pending) :
        /\ pending' = Memory!Without(pending, i)
        /\ inFlight' = [x \in DOMAIN inFlight \cup {pending[i].entity} |->
                            IF x = pending[i].entity THEN pending[i] ELSE inFlight[x]]
  BY <1>1 DEF Memory!NextReady
<1>3. tick' = tick /\ failed' = failed
  BY DEF Memory!NextReady
<1>4. /\ pending' \in Seq(Memory!Entries) /\ Len(pending') = Len(pending) - 1
      /\ \A n \in 1..Len(pending) - 1 : pending'[n] = pending[IF n < i THEN n ELSE n + 1]
  BY <1>1, <1>2, WithoutProperties
<1>5. pending[i] \in Memory!Entries /\ pending[i].entity \in Entities
  BY <1>1 DEF Memory!Entries
<1>6. ASSUME NEW n \in 1..Len(pending') PROVE pending'[n].attempt <= MaxRetries
  <2>1. (IF n < i THEN n ELSE n + 1) \in 1..Len(pending)
    BY <1>1, <1>4
  <2> QED
    BY <1>4, <2>1 DEF QueueInv, SoundSchedule
<1>7. ASSUME NEW e \in DOMAIN inFlight'
      PROVE  /\ e \in Entities /\ inFlight'[e] \in Memory!Entries
             /\ inFlight'[e].entity = e /\ inFlight'[e].attempt <= MaxRetries
  <2>1. CASE e = pending[i].entity
    BY <1>2, <1>5, <2>1 DEF QueueInv, SoundSchedule
  <2>2. CASE e # pending[i].entity
    BY <1>2, <2>2 DEF QueueInv, SoundSchedule
  <2> QED
    BY <2>1, <2>2
<1>8. ASSUME NEW e \in Entities
      PROVE  Cardinality(Mine(e, pending')) + InFlight(e, inFlight') <= 2
  <2>1. /\ Cardinality(Mine(e, pending'))
            <= Cardinality(Mine(e, pending)) - (IF pending[i].entity = e THEN 1 ELSE 0)
        /\ Cardinality(Mine(e, pending)) \in Nat /\ Cardinality(Mine(e, pending')) \in Nat
    BY <1>1, <1>2, <1>4, MineWithout, MineFinite
  <2>2. Cardinality(Mine(e, pending)) + InFlight(e, inFlight) <= 2
    BY DEF QueueInv, SoundSchedule
  <2>3. InFlight(e, inFlight) \in 0..1 /\ InFlight(e, inFlight') \in 0..1
    BY DEF InFlight
  <2>4. pending[i].entity # e => InFlight(e, inFlight') = InFlight(e, inFlight)
    BY <1>2 DEF InFlight
  <2> QED
    BY <2>1, <2>2, <2>3, <2>4
<1> QED
  BY <1>3, <1>4, <1>6, <1>7, <1>8 DEF QueueInv, SoundSchedule

\* What lands leaves one place of its entity free.
LEMMA Landing ==
    ASSUME QueueInv, NEW e \in DOMAIN inFlight
    PROVE  /\ DOMAIN Memory!Landed(e) = DOMAIN inFlight \ {e}
           /\ \A x \in DOMAIN Memory!Landed(e) : Memory!Landed(e)[x] = inFlight[x]
           /\ \A x \in Entities : InFlight(x, Memory!Landed(e))
                = InFlight(x, inFlight) - (IF x = e THEN 1 ELSE 0)
  BY DEF InFlight, Memory!Landed

LEMMA CompleteInv == ASSUME QueueInv, NEW e \in Entities, Memory!Complete(e) PROVE QueueInv'
<1>1. e \in DOMAIN inFlight /\ inFlight' = Memory!Landed(e)
      /\ UNCHANGED <<tick, pending, failed>>
  BY DEF Memory!Complete
<1>2. ASSUME NEW x \in Entities
      PROVE  Cardinality(Mine(x, pending)) + InFlight(x, inFlight') <= 2
  <2>1. /\ Cardinality(Mine(x, pending)) + InFlight(x, inFlight) <= 2
        /\ Cardinality(Mine(x, pending)) \in Nat
        /\ InFlight(x, inFlight) \in 0..1 /\ InFlight(x, inFlight') \in 0..1
    BY MineFinite DEF QueueInv, SoundSchedule, InFlight
  <2>2. InFlight(x, inFlight') = InFlight(x, inFlight) - (IF x = e THEN 1 ELSE 0)
    BY <1>1, Landing
  <2> QED
    BY <2>1, <2>2
<1> QED
  BY <1>1, <1>2, Landing DEF QueueInv, SoundSchedule

\* A failed entry goes back on the list one attempt older, or is given up.
LEMMA FailInv == ASSUME QueueInv, NEW e \in Entities, Memory!Fail(e) PROVE QueueInv'
<1> DEFINE attempt == inFlight[e].attempt + 1
           entry == [inFlight[e] EXCEPT !.attempt = attempt]
           again == [entry EXCEPT !.after = tick + RetryDelay * attempt]
<1>1. /\ e \in DOMAIN inFlight /\ inFlight' = Memory!Landed(e) /\ tick' = tick
      /\ IF attempt <= MaxRetries THEN pending' = Append(pending, again) /\ failed' = failed
                                  ELSE pending' = pending /\ failed' = failed \cup {entry}
  BY DEF Memory!Fail
<1>2. /\ pending \in Seq(Memory!Entries) /\ Len(pending) \in Nat /\ tick \in Nat
      /\ MaxRetries \in Nat /\ RetryDelay \in Nat
      /\ inFlight[e] \in Memory!Entries /\ inFlight[e].entity = e
      /\ inFlight[e].attempt <= MaxRetries
  BY <1>1, LenProperties, RuntimesAssumption
     DEF QueueInv, SoundSchedule, Memory!MemoryRuntimeAssumption
<1>3. inFlight[e].attempt \in Nat
  BY <1>2 DEF Memory!Entries
<1>4. attempt \in 0..MaxRetries + 1
  BY <1>2, <1>3
<1>5. entry \in Memory!Entries /\ entry.entity = e /\ entry.attempt = attempt
  <2> HIDE DEF attempt
  <2> QED
    BY <1>2, <1>4 DEF Memory!Entries
<1>6. again \in Memory!Entries /\ again.entity = e /\ again.attempt = attempt
  <2>1. PICK later \in Nat : later = tick + RetryDelay * attempt
    <3>1. RetryDelay * attempt \in Nat
      <4> HIDE DEF attempt
      <4> QED
        BY <1>2, <1>4
    <3> HIDE DEF attempt
    <3> QED
      BY <1>2, <3>1
  <2>2. again = [entry EXCEPT !.after = later]
    BY <2>1
  <2> HIDE DEF entry, attempt, again
  <2> QED
    BY <1>5, <2>1, <2>2 DEF Memory!Entries
<1> HIDE DEF entry, again
<1>7. /\ DOMAIN inFlight' \subseteq Entities
      /\ \A x \in DOMAIN inFlight' : inFlight'[x] \in Memory!Entries /\ inFlight'[x].entity = x
                                     /\ inFlight'[x].attempt <= MaxRetries
  BY <1>1, Landing DEF QueueInv, SoundSchedule
<1>8. ASSUME NEW x \in Entities
      PROVE  /\ Cardinality(Mine(x, pending)) + InFlight(x, inFlight')
                    <= 2 - (IF x = e THEN 1 ELSE 0)
             /\ Cardinality(Mine(x, pending)) \in Nat /\ InFlight(x, inFlight') \in 0..1
  <2>1. /\ Cardinality(Mine(x, pending)) + InFlight(x, inFlight) <= 2
        /\ Cardinality(Mine(x, pending)) \in Nat
        /\ InFlight(x, inFlight) \in 0..1 /\ InFlight(x, inFlight') \in 0..1
    BY <1>2, MineFinite DEF QueueInv, SoundSchedule, InFlight
  <2>2. InFlight(x, inFlight') = InFlight(x, inFlight) - (IF x = e THEN 1 ELSE 0)
    BY <1>1, Landing
  <2> QED
    BY <2>1, <2>2
<1>9. CASE attempt <= MaxRetries
  <2>1. pending' = Append(pending, again) /\ failed' = failed
    BY <1>1, <1>9
  <2>2. /\ pending' \in Seq(Memory!Entries) /\ Len(pending') = Len(pending) + 1
        /\ \A i \in 1..Len(pending) : pending'[i] = pending[i]
        /\ pending'[Len(pending) + 1] = again
    BY <1>2, <1>6, <2>1, AppendProperties
  <2>3. ASSUME NEW i \in 1..Len(pending') PROVE pending'[i].attempt <= MaxRetries
    <3>1. CASE i = Len(pending) + 1
      BY <1>6, <1>9, <2>2, <3>1
    <3>2. CASE i \in 1..Len(pending)
      BY <2>2, <3>2 DEF QueueInv, SoundSchedule
    <3> QED
      BY <1>2, <2>2, <3>1, <3>2
  <2>4. ASSUME NEW x \in Entities
        PROVE  Cardinality(Mine(x, pending')) + InFlight(x, inFlight') <= 2
    <3>1. Cardinality(Mine(x, pending'))
            = Cardinality(Mine(x, pending)) + (IF again.entity = x THEN 1 ELSE 0)
      BY <1>2, <1>6, <2>1, MineAppend
    <3> QED
      BY <1>6, <1>8, <3>1
  <2> QED
    BY <1>1, <1>7, <2>1, <2>2, <2>3, <2>4 DEF QueueInv, SoundSchedule
<1>10. CASE ~(attempt <= MaxRetries)
  <2>1. pending' = pending /\ failed' = failed \cup {entry}
    BY <1>1, <1>10
  <2>2. entry.attempt = MaxRetries + 1
    BY <1>2, <1>4, <1>5, <1>10
  <2>3. ASSUME NEW x \in Entities
        PROVE  Cardinality(Mine(x, pending)) + InFlight(x, inFlight') <= 2
    BY <1>8
  <2> QED
    BY <1>1, <1>5, <1>7, <2>1, <2>2, <2>3 DEF QueueInv, SoundSchedule
<1> QED
  BY <1>9, <1>10

LEMMA MemoryInit == Memory!Init => MemoryInv
<1> SUFFICES ASSUME Memory!Init PROVE MemoryInv
  OBVIOUS
<1>1. MaxTick \in Nat /\ MaxEntries \in Nat
  BY RuntimesAssumption DEF Memory!MemoryRuntimeAssumption
<1>2. /\ <<>> \in Seq(CacheRows) /\ <<>> \in Seq(Memory!Entries) /\ Len(<<>>) = 0
      /\ DOMAIN <<>> = {}
  BY EmptySeq
<1>3. Cardinality({}) = 0
  BY FS_EmptySet
<1>4. \A e : Mine(e, <<>>) = {} /\ InFlight(e, <<>>) = 0
  BY <1>2 DEF Mine, InFlight
<1>5. SoundCache(<<>>, 0)
  BY <1>1, <1>2 DEF SoundCache
<1>6. SoundSchedule(<<>>, <<>>)
  <2>1. \A e \in Entities : Cardinality(Mine(e, <<>>)) + InFlight(e, <<>>) <= 2
    <3> SUFFICES ASSUME NEW e \in Entities
                 PROVE  Cardinality(Mine(e, <<>>)) + InFlight(e, <<>>) <= 2
      OBVIOUS
    <3>1. Mine(e, <<>>) = {} /\ InFlight(e, <<>>) = 0
      BY <1>4
    <3> QED
      BY <1>3, <3>1
  <2> QED
    BY <1>2, <2>1 DEF SoundSchedule
<1> QED
  BY <1>1, <1>2, <1>5, <1>6 DEF Memory!Init, MemoryInv, ClaimsInv, CacheInv, QueueInv

LEMMA MemoryStepInv == ASSUME MemoryInv, [Memory!Next]_memoryVars PROVE MemoryInv'
<1> USE DEF MemoryInv
<1>c. MaxTick \in Nat
  BY RuntimesAssumption DEF Memory!MemoryRuntimeAssumption
<1>1. CASE UNCHANGED memoryVars
  BY <1>1 DEF memoryVars, ClaimsInv, CacheInv, QueueInv
<1>2. CASE Memory!AdvanceCycle
  <2>1. tick' = tick + 1 /\ tick' \in 0..MaxTick /\ UNCHANGED <<cache, pending, inFlight, failed>>
    BY <1>2, <1>c DEF Memory!AdvanceCycle
  <2>2. ClaimsInv'
    BY <1>2, AgeInv
  <2>3. CacheInv'
    BY <2>1, CacheLater
  <2> QED
    BY <2>1, <2>2, <2>3 DEF QueueInv
<1>3. CASE Memory!Purge
  <2>1. UNCHANGED <<tick, claims, pending, inFlight, failed>>
    BY <1>3 DEF Memory!Purge
  <2> QED
    BY <1>3, <2>1, PurgeInv DEF ClaimsInv, QueueInv
<1>4. CASE Memory!NextReady
  <2>1. UNCHANGED <<tick, claims, cache>>
    BY <1>4 DEF Memory!NextReady
  <2> QED
    BY <1>4, <2>1, NextReadyInv DEF ClaimsInv, CacheInv
<1>5. ASSUME NEW k \in Keys, Memory!Put(k) \/ Memory!Get(k) \/ Memory!Evict(k)
      PROVE  MemoryInv'
  <2>1. UNCHANGED <<tick, claims, pending, inFlight, failed>>
    BY <1>5 DEF Memory!Put, Memory!Get, Memory!Evict
  <2> QED
    BY <1>5, <2>1, PutInv, GetInv DEF ClaimsInv, QueueInv
<1>6. ASSUME NEW k \in Keys, NEW s \in Memory!Statuses,
             Memory!Register(k, s) \/ Memory!Transition(k, s)
      PROVE  MemoryInv'
  <2>1. UNCHANGED <<tick, cache, pending, inFlight, failed>>
    BY <1>6 DEF Memory!Register, Memory!Transition
  <2> QED
    BY <1>6, <2>1, RegisterInv, TransitionInv DEF CacheInv, QueueInv
<1>7. ASSUME NEW e \in Entities, Memory!Complete(e) \/ Memory!Fail(e)
      PROVE  MemoryInv'
  <2>1. UNCHANGED <<tick, claims, cache>>
    BY <1>7 DEF Memory!Complete, Memory!Fail
  <2> QED
    BY <1>7, <2>1, CompleteInv, FailInv DEF ClaimsInv, CacheInv
<1>8. ASSUME NEW e \in Entities, NEW p \in Priorities, NEW d \in 0..1, Memory!Schedule(e, p, d)
      PROVE  MemoryInv'
  <2>1. UNCHANGED <<tick, claims, cache>>
    BY <1>8 DEF Memory!Schedule
  <2> QED
    BY <1>8, <2>1, ScheduleInv DEF ClaimsInv, CacheInv
<1> QED
  BY <1>1, <1>2, <1>3, <1>4, <1>5, <1>6, <1>7, <1>8 DEF Memory!Next

\* However calls, cycles and retries interleave, no claim outstays its limits, the cache
\* holds one entry per key and serves none past its time, and the scheduler keeps two
\* entries of an entity at most and gives up after the retries.
THEOREM MemoryStaysBounded == Spec => []MemorySafe
<1>1. Init => MemoryInv
  BY MemoryInit DEF Init
<1>2. MemoryInv /\ [Next]_vars => MemoryInv'
  BY MemoryStepInv DEF Next, IngestStep, MemoryStep, PipelineStep, VaultStep, StoreStep, RaceStep,
     vars, memoryVars
<1>3. MemoryInv => MemorySafe
  <2> SUFFICES ASSUME MemoryInv PROVE MemorySafe
    OBVIOUS
  <2>1. /\ cache \in Seq(CacheRows) /\ Len(cache) \in Nat /\ DOMAIN cache = 1..Len(cache)
        /\ \A i \in 1..Len(cache) : cache[i] \in CacheRows
        /\ pending \in Seq(Memory!Entries) /\ DOMAIN pending = 1..Len(pending)
        /\ tick \in Nat /\ Ttl \in Nat
    BY LenProperties, RuntimesAssumption
       DEF MemoryInv, CacheInv, QueueInv, SoundCache, SoundSchedule, Memory!MemoryRuntimeAssumption
  <2>2. Memory!TypeOK
    BY <2>1 DEF MemoryInv, ClaimsInv, QueueInv, SoundClaim, SoundSchedule, CacheRows,
       Memory!TypeOK
  <2>3. Memory!AgesBounded
    BY DEF MemoryInv, ClaimsInv, SoundClaim, Memory!AgesBounded
  <2>4. Memory!CacheBounded
    <3>1. ASSUME NEW i \in DOMAIN cache
          PROVE  /\ Memory!Cardinality(Memory!Cached(cache[i].key)) = 1
                 /\ cache[i].inserted <= cache[i].value /\ cache[i].value <= cache[i].accessed
                 /\ ~Memory!Expired(cache[i]) => tick - cache[i].value < Ttl
      <4>1. Memory!Cached(cache[i].key) = {i}
        BY <2>1 DEF MemoryInv, CacheInv, SoundCache, Memory!Cached
      <4>2. cache[i].inserted <= cache[i].value /\ cache[i].value <= cache[i].accessed
        BY <2>1 DEF MemoryInv, CacheInv, SoundCache
      <4>3. cache[i].inserted \in Nat /\ cache[i].value \in Nat
        BY <2>1 DEF CacheRows
      <4>4. Memory!Cardinality(Memory!Cached(cache[i].key)) = 1
        BY <4>1, SameCardinality, FS_Singleton
      <4>5. ~Memory!Expired(cache[i]) => tick - cache[i].value < Ttl
        BY <2>1, <4>2, <4>3 DEF Memory!Expired
      <4> QED
        BY <4>2, <4>4, <4>5
    <3> QED
      BY <3>1 DEF MemoryInv, CacheInv, SoundCache, Memory!CacheBounded
  <2>5. Memory!ScheduleBounded
    BY <2>1, SameCardinality
       DEF MemoryInv, QueueInv, SoundSchedule, Mine, InFlight, Memory!ScheduleBounded
  <2> QED
    BY <2>2, <2>3, <2>4, <2>5 DEF MemorySafe, Memory!MemorySafe
<1> QED
  BY <1>1, <1>2, <1>3, PTL DEF Spec

--------------------------------------------------------------------------------
(* The ingestion runtime.                                                    *)

Calls == [pc : {"idle", "fetch", "records", "parsed"}, run : Nat, outer : Nat, left : Nat,
          todo : Nat, parsed : Nat, persisted : Nat, skipped : Nat, errors : Nat, batch : Nat,
          dead : BOOLEAN]

\* A row that is closed without an exception accounts for what it parsed.
Balanced(r) ==
    /\ r.parsed = r.persisted + r.skipped + (r.errs - r.unparsed)
    /\ r.unparsed <= r.fetched /\ r.unparsed <= r.errs
    /\ r.errcount = 2 * r.errs
    /\ ~r.kept => r.errs > r.unparsed /\ r.status # "completed"

SoundRun(r) ==
    /\ r \in Ingest!Runs
    /\ r.status # "running" /\ ~r.fatal /\ ~r.replay => Balanced(r)

\* The locals of a call and its row make up the records fetched and parsed so far.
Accounts(d, r) ==
    /\ ~r.replay /\ r.parsed = 0 /\ r.persisted = 0 /\ r.skipped = 0
    /\ r.errs = d.errors /\ r.errcount = d.errors /\ r.unparsed <= d.errors
    /\ d.parsed = d.persisted + d.skipped + (d.errors - r.unparsed) + d.todo
    /\ r.fetched = d.left + d.batch + r.unparsed + (IF d.pc = "parsed" THEN 1 ELSE 0)
    /\ d.pc = "fetch" => d.left = 0 /\ d.batch = 0 /\ d.errors = 0
    /\ d.pc # "parsed" => d.todo = 0
    /\ d.dead => d.errors > r.unparsed

\* A call under way has its open row, and the open row of the replay it came from.
SoundWork(d, list) ==
    /\ d \in Calls
    /\ d.pc # "idle" =>
        /\ d.run \in DOMAIN list
        /\ list[d.run].status = "running"
        /\ Accounts(d, list[d.run])
        /\ d.outer # 0 =>
            /\ d.outer \in DOMAIN list /\ d.outer # d.run
            /\ list[d.outer].status = "running" /\ list[d.outer].replay
            /\ list[d.outer].source = list[d.run].source

At(d, i) == d.pc # "idle" /\ (d.run = i \/ d.outer = i)

\* The rows and the calls at work on them: no two calls share a row, no open row is left.
RowsInv(list, work) ==
    /\ list \in Seq(Ingest!Runs)
    /\ \A i \in 1..Len(list) : SoundRun(list[i])
    /\ work = [w \in Workers |-> work[w]]
    /\ \A w \in Workers : SoundWork(work[w], list)
    /\ \A v, w \in Workers, i \in 1..Len(list) : At(work[v], i) /\ At(work[w], i) => v = w
    /\ \A i \in 1..Len(list) :
        list[i].status = "running" => \E w \in Workers : At(work[w], i)

\* A checkpoint is of its source, of a row at work or ended by an exception, within what
\* that fetched.
Explained(s, c, list, work) ==
    /\ c \in [run : Nat, offset : Nat]
    /\ c.run \in 1..Len(list) /\ list[c.run].source = s
    /\ c.offset <= list[c.run].fetched
    /\ list[c.run].fatal \/ \E w \in Workers : At(work[w], c.run)

CheckpointInv(marks, list, work) ==
    /\ marks = [s \in Sources |-> marks[s]]
    /\ \A s \in Sources : marks[s] # None => Explained(s, marks[s], list, work)

CrawlInv(states, list, work) ==
    /\ states = [s \in Sources |-> states[s]]
    /\ \A s \in Sources : states[s] # None =>
        /\ states[s] \in [total : Nat, page : Nat]
        /\ \E w \in Workers : work[w].pc # "idle" /\ list[work[w].run].source = s

SoundHealth(h) ==
    /\ h \in [consecutive : Nat, total : Nat, success : Nat, failure : Nat]
    /\ h.total = h.success + h.failure /\ h.consecutive <= h.failure

SideInv ==
    /\ active \in [Sources -> BOOLEAN]
    /\ schedule \in [Sources -> [enabled : BOOLEAN, due : BOOLEAN]]
    /\ health = [s \in Sources |-> health[s]]
    /\ \A s \in Sources : SoundHealth(health[s])
    /\ \A k \in DOMAIN retries : retries[k] \in [attempt : Nat, due : BOOLEAN]

IngestInv ==
    /\ SideInv
    /\ RowsInv(runs, wk)
    /\ CheckpointInv(checkpoint, runs, wk)
    /\ CrawlInv(crawl, runs, wk)

\* The rows of an invariant are a sequence with its positions.
LEMMA RowsAreRuns ==
    ASSUME NEW list, NEW work, RowsInv(list, work)
    PROVE  /\ Len(list) \in Nat /\ DOMAIN list = 1..Len(list)
           /\ \A i \in 1..Len(list) : list[i] \in Ingest!Runs
  BY LenProperties DEF RowsInv

\* A function changed at one place, and one that is over the sources.
Updated(f, x, v) == [f EXCEPT ![x] = v]
OverSources(f) == f = [s \in Sources |-> f[s]]

\* A step of a call that keeps its rows open: one row and the locals move together.
LEMMA RowMoves ==
    ASSUME NEW list, NEW work, RowsInv(list, work),
           NEW w \in Workers, work[w].pc # "idle",
           NEW r \in Ingest!Runs, NEW d \in Calls,
           d.pc # "idle", d.run = work[w].run, d.outer = work[w].outer,
           r.source = list[d.run].source, r.status = "running", Accounts(d, r),
           NEW list2, list2 = Updated(list, d.run, r),
           NEW work2, work2 = Updated(work, w, d)
    PROVE  /\ RowsInv(list2, work2)
           /\ d.run \in 1..Len(list)
           /\ Len(list2) = Len(list)
           /\ \A i \in 1..Len(list) : list2[i] = IF i = d.run THEN r ELSE list[i]
           /\ \A v \in Workers, i \in 1..Len(list) : At(work2[v], i) <=> At(work[v], i)
<1>1. /\ Len(list) \in Nat /\ DOMAIN list = 1..Len(list)
      /\ \A i \in 1..Len(list) : list[i] \in Ingest!Runs
  BY RowsAreRuns
<1>2. /\ d.run \in 1..Len(list)
      /\ list[d.run].status = "running"
      /\ d.outer # 0 =>
            /\ d.outer \in 1..Len(list) /\ d.outer # d.run
            /\ list[d.outer].status = "running" /\ list[d.outer].replay
            /\ list[d.outer].source = list[d.run].source
  BY <1>1 DEF RowsInv, SoundWork
<1>3. /\ list2 \in Seq(Ingest!Runs) /\ Len(list2) = Len(list)
      /\ \A i \in 1..Len(list) : list2[i] = IF i = d.run THEN r ELSE list[i]
      /\ DOMAIN list2 = 1..Len(list)
  BY <1>1, <1>2, ExceptSeq, LenProperties DEF RowsInv, Updated
<1>4. /\ work2 = [v \in Workers |-> work2[v]] /\ work2[w] = d
      /\ \A v \in Workers : v # w => work2[v] = work[v]
  BY DEF RowsInv, Updated
<1>5. \A v \in Workers, i \in 1..Len(list) : At(work2[v], i) <=> At(work[v], i)
  BY <1>4 DEF At
<1>6. \A i \in 1..Len(list) : SoundRun(list2[i])
  BY <1>3 DEF RowsInv, SoundRun
<1>7. ASSUME NEW v \in Workers PROVE SoundWork(work2[v], list2)
  <2>1. CASE v = w
    BY <1>2, <1>3, <1>4, <2>1 DEF SoundWork
  <2>2. CASE v # w
    <3>1. work2[v] = work[v] /\ SoundWork(work[v], list)
      BY <1>4, <2>2 DEF RowsInv
    <3>2. work[v].pc # "idle" => work[v].run # d.run /\ work[v].outer # d.run
      BY <1>2, <2>2 DEF RowsInv, At
    <3>3. work[v].pc # "idle" =>
            /\ work[v].run \in 1..Len(list) /\ list2[work[v].run] = list[work[v].run]
            /\ work[v].outer # 0 => /\ work[v].outer \in 1..Len(list)
                                    /\ list2[work[v].outer] = list[work[v].outer]
      BY <1>1, <1>3, <3>1, <3>2 DEF SoundWork
    <3> QED
      BY <1>1, <1>3, <3>1, <3>3 DEF SoundWork
  <2> QED
    BY <2>1, <2>2
<1>8. \A u, v \in Workers, i \in 1..Len(list2) : At(work2[u], i) /\ At(work2[v], i) => u = v
  BY <1>3, <1>5 DEF RowsInv
<1>9. ASSUME NEW i \in 1..Len(list2), list2[i].status = "running"
      PROVE  \E v \in Workers : At(work2[v], i)
  <2>1. list[i].status = "running"
    BY <1>2, <1>3, <1>9
  <2> QED
    BY <1>3, <1>5, <2>1 DEF RowsInv
<1> QED
  BY <1>2, <1>3, <1>4, <1>5, <1>6, <1>7, <1>8, <1>9 DEF RowsInv

\* The end of a call from a replay, in row o, closes that row too: as q.
Completed(list, o, q) == IF o = 0 THEN list ELSE [list EXCEPT ![o] = q]
Closes(q, old) ==
    /\ q \in Ingest!Runs /\ q.status = "completed" /\ q.replay
    /\ q.source = old.source /\ q.fetched = old.fetched

CallCloses(list, work, w, r, q, list2, work2) ==
    /\ RowsInv(list, work)
    /\ w \in Workers /\ work[w].pc # "idle"
    /\ r \in Ingest!Runs /\ SoundRun(r) /\ r.status # "running"
    /\ r.source = list[work[w].run].source /\ r.fetched = list[work[w].run].fetched
    /\ work[w].outer # 0 => Closes(q, list[work[w].outer])
    /\ list2 = Completed(Updated(list, work[w].run, r), work[w].outer, q)
    /\ work2 = Updated(work, w, Ingest!Idle)

\* The end of a call: its row is closed, and that of the replay it came from.
LEMMA RowCloses ==
    ASSUME NEW list, NEW work, NEW w, NEW r, NEW q, NEW list2, NEW work2,
           CallCloses(list, work, w, r, q, list2, work2)
    PROVE  /\ RowsInv(list2, work2)
           /\ work[w].run \in 1..Len(list)
           /\ Len(list2) = Len(list)
           /\ \A i \in 1..Len(list) :
                list2[i].source = list[i].source /\ list2[i].fetched = list[i].fetched
           /\ \A i \in 1..Len(list) : ~At(work[w], i) => list2[i] = list[i]
           /\ list2[work[w].run] = r
           /\ \A i \in 1..Len(list) : At(work[w], i) => list[i].source = r.source
           /\ \A v \in Workers, i \in 1..Len(list) :
                At(work2[v], i) <=> v # w /\ At(work[v], i)
<1>0. /\ RowsInv(list, work)
      /\ w \in Workers /\ work[w].pc # "idle"
      /\ r \in Ingest!Runs /\ SoundRun(r) /\ r.status # "running"
      /\ r.source = list[work[w].run].source /\ r.fetched = list[work[w].run].fetched
      /\ work[w].outer # 0 => Closes(q, list[work[w].outer])
      /\ list2 = Completed(Updated(list, work[w].run, r), work[w].outer, q)
      /\ work2 = Updated(work, w, Ingest!Idle)
  BY DEF CallCloses
<1> USE <1>0
<1> DEFINE d == work[w]
           mid == Updated(list, d.run, r)
<1>1. /\ Len(list) \in Nat /\ DOMAIN list = 1..Len(list)
      /\ \A i \in 1..Len(list) : list[i] \in Ingest!Runs
  BY RowsAreRuns
<1>2. /\ d.run \in 1..Len(list) /\ d.outer \in Nat
      /\ list[d.run].status = "running"
      /\ d.outer # 0 =>
            /\ d.outer \in 1..Len(list) /\ d.outer # d.run
            /\ list[d.outer].status = "running" /\ list[d.outer].replay
            /\ list[d.outer].source = list[d.run].source
  BY <1>1 DEF RowsInv, SoundWork, Calls
<1>3. /\ mid \in Seq(Ingest!Runs) /\ Len(mid) = Len(list)
      /\ \A i \in 1..Len(list) : mid[i] = IF i = d.run THEN r ELSE list[i]
  BY <1>1, <1>2, ExceptSeq DEF RowsInv, Updated
<1> HIDE DEF mid
<1>4. /\ list2 \in Seq(Ingest!Runs) /\ Len(list2) = Len(list)
      /\ \A i \in 1..Len(list) : i # d.run /\ i # d.outer => list2[i] = list[i]
      /\ list2[d.run] = r
      /\ d.outer # 0 => /\ list2[d.outer].status = "completed"
                        /\ list2[d.outer].fetched = list[d.outer].fetched
                        /\ list2[d.outer].replay
                        /\ list2[d.outer].source = list[d.run].source
  <2>0. list2 = Completed(mid, d.outer, q)
    BY DEF mid
  <2>1. CASE d.outer = 0
    BY <1>2, <1>3, <2>0, <2>1 DEF Completed
  <2>2. CASE d.outer # 0
    <3>1. d.outer \in 1..Len(mid) /\ Closes(q, list[d.outer]) /\ q \in Ingest!Runs
      BY <1>2, <1>3, <2>2 DEF Closes
    <3>2. list2 = [mid EXCEPT ![d.outer] = q]
      BY <2>0, <2>2 DEF Completed
    <3>3. /\ list2 \in Seq(Ingest!Runs) /\ Len(list2) = Len(mid)
          /\ \A i \in 1..Len(mid) : list2[i] = IF i = d.outer THEN q ELSE mid[i]
      BY <1>3, <3>1, <3>2, ExceptSeq
    <3> QED
      BY <1>2, <1>3, <2>2, <3>1, <3>3 DEF Closes
  <2> QED
    BY <2>1, <2>2
<1>5. DOMAIN list2 = 1..Len(list) /\ \A i \in 1..Len(list) : list2[i] \in Ingest!Runs
  BY <1>4, LenProperties
<1>6. /\ work2 = [v \in Workers |-> work2[v]] /\ work2[w] = Ingest!Idle
      /\ \A v \in Workers : v # w => work2[v] = work[v]
  BY DEF RowsInv, Updated
<1>7. \A v \in Workers, i \in 1..Len(list) : At(work2[v], i) <=> v # w /\ At(work[v], i)
  BY <1>6 DEF At, Ingest!Idle
<1>8. \A i \in 1..Len(list) : At(d, i) <=> i = d.run \/ i = d.outer
  BY DEF At
<1>z. 0 \notin 1..Len(list)
  BY <1>1
<1>9. ASSUME NEW i \in 1..Len(list2) PROVE SoundRun(list2[i])
  <2>1. CASE i = d.run
    BY <1>4, <2>1
  <2>2. CASE i = d.outer
    <3>1. d.outer # 0
      BY <1>z, <1>4, <2>2
    <3>2. list2[i].replay /\ list2[i] \in Ingest!Runs
      BY <1>2, <1>4, <1>5, <2>2, <3>1
    <3> QED
      BY <3>2 DEF SoundRun
  <2>3. CASE i # d.run /\ i # d.outer
    BY <1>4, <2>3 DEF RowsInv
  <2> QED
    BY <2>1, <2>2, <2>3
<1>10. ASSUME NEW v \in Workers PROVE SoundWork(work2[v], list2)
  <2>1. CASE v = w
    <3>1. Ingest!Idle \in Calls /\ Ingest!Idle.pc = "idle"
      BY DEF Calls, Ingest!Idle
    <3> QED
      BY <1>6, <2>1, <3>1 DEF SoundWork
  <2>2. CASE v # w
    <3>1. work2[v] = work[v] /\ SoundWork(work[v], list)
      BY <1>6, <2>2 DEF RowsInv
    <3>2. ASSUME NEW i \in 1..Len(list), At(work[v], i) PROVE i # d.run /\ i # d.outer
      BY <1>8, <2>2, <3>2 DEF RowsInv
    <3>3. work[v].pc # "idle" =>
            /\ work[v].run \in 1..Len(list) /\ list2[work[v].run] = list[work[v].run]
            /\ work[v].outer # 0 => /\ work[v].outer \in 1..Len(list)
                                    /\ list2[work[v].outer] = list[work[v].outer]
      BY <1>1, <1>4, <3>1, <3>2 DEF SoundWork, At
    <3> QED
      BY <1>1, <1>5, <3>1, <3>3 DEF SoundWork
  <2> QED
    BY <2>1, <2>2
<1>11. \A u, v \in Workers, i \in 1..Len(list2) : At(work2[u], i) /\ At(work2[v], i) => u = v
  BY <1>4, <1>7 DEF RowsInv
<1>12. ASSUME NEW i \in 1..Len(list2), list2[i].status = "running"
       PROVE  \E v \in Workers : At(work2[v], i)
  <2>1. i # d.run /\ i # d.outer
    <3>1. i # 0
      BY <1>z, <1>4
    <3>2. list2[d.run].status # "running" /\ (d.outer # 0 => list2[d.outer].status # "running")
      BY <1>4
    <3> QED
      BY <1>12, <3>1, <3>2
  <2>2. list[i].status = "running" /\ ~At(d, i)
    BY <1>4, <1>8, <1>12, <2>1
  <2> QED
    BY <1>4, <1>7, <2>2 DEF RowsInv
<1>13. RowsInv(list2, work2)
  BY <1>4, <1>6, <1>9, <1>10, <1>11, <1>12 DEF RowsInv
<1>14. ASSUME NEW i \in 1..Len(list)
       PROVE  /\ list2[i].source = list[i].source /\ list2[i].fetched = list[i].fetched
              /\ ~At(d, i) => list2[i] = list[i]
              /\ At(d, i) => list[i].source = r.source
  <2>1. i # 0
    BY <1>z
  <2>2. CASE i = d.run
    BY <1>2, <1>4, <1>8, <2>2
  <2>3. CASE i # d.run /\ i = d.outer
    BY <1>2, <1>4, <1>8, <2>1, <2>3
  <2>4. CASE i # d.run /\ i # d.outer
    BY <1>2, <1>4, <1>8, <2>4
  <2> QED
    BY <2>2, <2>3, <2>4
<1> QED
  BY <1>2, <1>4, <1>7, <1>13, <1>14

\* The rows a call adds after the first n: sound, its own where they are open.
Opens(d, more, n) ==
    /\ \A i \in 1..Len(more) :
        SoundRun(more[i]) /\ (more[i].status = "running" => At(d, n + i))
    /\ \A i \in 1..n : ~At(d, i)

\* New rows go to the end; a call that takes some of them on was idle.
LEMMA RowsOpen ==
    ASSUME NEW list, NEW work, RowsInv(list, work),
           NEW more \in Seq(Ingest!Runs),
           NEW w \in Workers, work[w].pc = "idle",
           NEW d \in Calls,
           NEW list2, list2 = list \o more,
           NEW work2, work2 = Updated(work, w, d),
           SoundWork(d, list2),
           Opens(d, more, Len(list))
    PROVE  /\ RowsInv(list2, work2)
           /\ Len(list2) \in Nat /\ Len(list2) >= Len(list)
           /\ \A i \in 1..Len(list) : list2[i] = list[i]
           /\ \A v \in Workers, i \in 1..Len(list) : At(work2[v], i) <=> At(work[v], i)
<1>1. /\ Len(list) \in Nat /\ DOMAIN list = 1..Len(list)
      /\ \A i \in 1..Len(list) : list[i] \in Ingest!Runs
      /\ Len(more) \in Nat
  BY RowsAreRuns, LenProperties
<1>2. /\ list2 \in Seq(Ingest!Runs) /\ Len(list2) = Len(list) + Len(more)
      /\ \A i \in 1..Len(list) : list2[i] = list[i]
      /\ \A i \in 1..Len(more) : list2[Len(list) + i] = more[i]
  <2>1. list \in Seq(Ingest!Runs)
    BY DEF RowsInv
  <2>2. /\ list \o more \in Seq(Ingest!Runs) /\ Len(list \o more) = Len(list) + Len(more)
        /\ \A i \in 1..Len(list) + Len(more) :
            (list \o more)[i] = IF i <= Len(list) THEN list[i] ELSE more[i - Len(list)]
    BY <2>1, ConcatProperties
  <2>3. ASSUME NEW i \in 1..Len(list) PROVE list2[i] = list[i]
    <3>1. i \in 1..Len(list) + Len(more) /\ i <= Len(list)
      BY <1>1
    <3> QED
      BY <2>2, <3>1
  <2>4. ASSUME NEW i \in 1..Len(more) PROVE list2[Len(list) + i] = more[i]
    <3>1. /\ Len(list) + i \in 1..Len(list) + Len(more) /\ ~(Len(list) + i <= Len(list))
          /\ Len(list) + i - Len(list) = i
      BY <1>1
    <3> QED
      BY <2>2, <3>1
  <2> QED
    BY <2>2, <2>3, <2>4
<1>3. DOMAIN list2 = 1..Len(list2)
  BY <1>2, LenProperties
<1>4. /\ work2 = [v \in Workers |-> work2[v]] /\ work2[w] = d
      /\ \A v \in Workers : v # w => work2[v] = work[v]
  BY DEF RowsInv, Updated
<1>5. \A v \in Workers, i \in 1..Len(list) : At(work2[v], i) <=> At(work[v], i)
  BY <1>4 DEF At, Opens
<1>6. ASSUME NEW i \in 1..Len(list2), i \notin 1..Len(list)
      PROVE  i - Len(list) \in 1..Len(more) /\ Len(list) + (i - Len(list)) = i
  BY <1>1, <1>2, <1>6
<1>7. ASSUME NEW i \in 1..Len(list2) PROVE SoundRun(list2[i])
  <2>1. CASE i \in 1..Len(list)
    BY <1>2, <2>1 DEF RowsInv
  <2>2. CASE i \notin 1..Len(list)
    BY <1>2, <1>6, <2>2 DEF Opens
  <2> QED
    BY <2>1, <2>2
<1>8. ASSUME NEW v \in Workers PROVE SoundWork(work2[v], list2)
  <2>1. CASE v = w
    BY <1>4, <2>1
  <2>2. CASE v # w
    <3>1. work2[v] = work[v] /\ SoundWork(work[v], list)
      BY <1>4, <2>2 DEF RowsInv
    <3>2. 1..Len(list) \subseteq 1..Len(list2)
      BY <1>1, <1>2
    <3> QED
      BY <1>1, <1>2, <1>3, <3>1, <3>2 DEF SoundWork
  <2> QED
    BY <2>1, <2>2
<1>9. ASSUME NEW v \in Workers, NEW i \in 1..Len(list2), i \notin 1..Len(list), At(work2[v], i)
      PROVE  v = w
  <2>1. SUFFICES ASSUME v # w PROVE FALSE
    OBVIOUS
  <2>2. work2[v] = work[v] /\ SoundWork(work[v], list)
    BY <1>4, <2>1 DEF RowsInv
  <2>3. i # 0
    BY <1>2, <1>1
  <2> QED
    BY <1>1, <1>9, <2>2, <2>3 DEF SoundWork, At
<1>10. ASSUME NEW u \in Workers, NEW v \in Workers, NEW i \in 1..Len(list2),
              At(work2[u], i), At(work2[v], i)
       PROVE  u = v
  BY <1>5, <1>9, <1>10 DEF RowsInv
<1>11. ASSUME NEW i \in 1..Len(list2), list2[i].status = "running"
       PROVE  \E v \in Workers : At(work2[v], i)
  <2>1. CASE i \in 1..Len(list)
    BY <1>2, <1>5, <1>11, <2>1 DEF RowsInv
  <2>2. CASE i \notin 1..Len(list)
    BY <1>2, <1>4, <1>6, <1>11, <2>2 DEF Opens
  <2> QED
    BY <2>1, <2>2
<1>12. RowsInv(list2, work2)
  BY <1>2, <1>4, <1>7, <1>8, <1>10, <1>11 DEF RowsInv
<1> QED
  BY <1>1, <1>2, <1>5, <1>12

Marks(c, i, n) == c \in [run : Nat, offset : Nat] /\ c.run = i /\ c.offset <= n

\* An ended call leaves no crawl state of its source behind, and a checkpoint only when an
\* exception ended it outside a replay.
LEMMA CallEnds ==
    ASSUME IngestInv, NEW w \in Workers, wk[w].pc # "idle",
           NEW r, SoundRun(r), r.status # "running", r.source = runs[wk[w].run].source,
           r.fetched = runs[wk[w].run].fetched,
           NEW q, wk[w].outer # 0 => Closes(q, runs[wk[w].outer]),
           runs' = Completed(Updated(runs, wk[w].run, r), wk[w].outer, q),
           wk' = Updated(wk, w, Ingest!Idle),
           OverSources(crawl'), crawl'[r.source] = None,
           \A x \in Sources : x # r.source => crawl'[x] = crawl[x],
           OverSources(checkpoint'),
           \A x \in Sources : x # r.source => checkpoint'[x] = checkpoint[x],
           \/ checkpoint'[r.source] = None
           \/ /\ r.fatal /\ wk[w].outer = 0
              /\ \/ checkpoint'[r.source] = checkpoint[r.source]
                 \/ Marks(checkpoint'[r.source], wk[w].run, r.fetched)
    PROVE  /\ RowsInv(runs', wk')
           /\ CheckpointInv(checkpoint', runs', wk')
           /\ CrawlInv(crawl', runs', wk')
<1> DEFINE s == r.source
<1>1. /\ RowsInv(runs, wk) /\ CheckpointInv(checkpoint, runs, wk) /\ CrawlInv(crawl, runs, wk)
      /\ r \in Ingest!Runs /\ s \in Sources
  BY DEF IngestInv, SoundRun, Ingest!Runs
<1>3. /\ RowsInv(runs', wk')
      /\ wk[w].run \in 1..Len(runs)
      /\ Len(runs') = Len(runs)
      /\ \A i \in 1..Len(runs) :
            runs'[i].source = runs[i].source /\ runs'[i].fetched = runs[i].fetched
      /\ \A i \in 1..Len(runs) : ~At(wk[w], i) => runs'[i] = runs[i]
      /\ runs'[wk[w].run] = r
      /\ \A i \in 1..Len(runs) : At(wk[w], i) => runs[i].source = s
      /\ \A v \in Workers, i \in 1..Len(runs) : At(wk'[v], i) <=> v # w /\ At(wk[v], i)
  <2>1. /\ RowsInv(runs, wk) /\ w \in Workers /\ r \in Ingest!Runs /\ SoundRun(r)
        /\ r.status # "running" /\ wk[w].pc # "idle"
        /\ r.source = runs[wk[w].run].source /\ r.fetched = runs[wk[w].run].fetched
        /\ (wk[w].outer # 0 => Closes(q, runs[wk[w].outer]))
        /\ runs' = Completed(Updated(runs, wk[w].run, r), wk[w].outer, q)
        /\ wk' = Updated(wk, w, Ingest!Idle)
    BY <1>1
  <2>2. CallCloses(runs, wk, w, r, q, runs', wk')
    BY <2>1 DEF CallCloses
  <2> QED
    BY ONLY <2>2, RowCloses
<1>4. Len(runs) \in Nat /\ DOMAIN runs = 1..Len(runs) /\ 0 \notin 1..Len(runs)
  BY <1>1, RowsAreRuns
<1>5. ASSUME NEW x \in Sources, NEW c, c # None, checkpoint[x] = c,
             x # s \/ (r.fatal /\ wk[w].outer = 0)
      PROVE  Explained(x, c, runs', wk')
  <2>1. Explained(x, c, runs, wk)
    BY <1>1, <1>5 DEF CheckpointInv
  <2>2. c \in [run : Nat, offset : Nat] /\ c.run \in 1..Len(runs) /\ runs[c.run].source = x
        /\ c.offset <= runs[c.run].fetched
        /\ (runs[c.run].fatal \/ \E v \in Workers : At(wk[v], c.run))
    BY <2>1 DEF Explained
  <2>3. CASE At(wk[w], c.run)
    <3>1. x = s
      BY <1>3, <2>2, <2>3
    <3>2. c.run = wk[w].run /\ r.fatal
      BY <1>4, <1>5, <2>2, <2>3, <3>1 DEF At
    <3>3. runs'[c.run] = r
      BY <1>3, <3>2
    <3>4. runs'[c.run].fatal /\ runs'[c.run].source = x /\ c.offset <= runs'[c.run].fetched
      BY <1>3, <2>2, <3>1, <3>2, <3>3
    <3> QED
      BY <1>3, <2>2, <3>4 DEF Explained
  <2>4. CASE ~At(wk[w], c.run)
    <3>1. runs'[c.run] = runs[c.run]
      BY <1>3, <2>2, <2>4
    <3>2. \A v \in Workers : At(wk[v], c.run) => At(wk'[v], c.run)
      BY <1>3, <2>2, <2>4
    <3> QED
      BY <1>3, <2>2, <3>1, <3>2 DEF Explained
  <2> QED
    BY <2>3, <2>4
<1>6. ASSUME NEW x \in Sources, checkpoint'[x] # None
      PROVE  Explained(x, checkpoint'[x], runs', wk')
  <2>1. CASE x = s /\ r.fatal /\ Marks(checkpoint'[s], wk[w].run, r.fetched)
    <3>1. PICK c : c = checkpoint'[x]
      OBVIOUS
    <3>2. wk[w].run \in Nat
      <4>1. wk[w].run \in 1..Len(runs) /\ Len(runs) \in Nat
        BY <1>3, <1>4
      <4> QED
        BY ONLY <4>1
    <3>3. c.run = wk[w].run /\ c \in [run : Nat, offset : Nat] /\ c.offset <= r.fetched
      BY <2>1, <3>1, <3>2 DEF Marks
    <3>4. runs'[c.run].source = x /\ runs'[c.run].fatal /\ c.run \in 1..Len(runs')
          /\ c.offset <= runs'[c.run].fetched
      BY <1>3, <2>1, <3>3
    <3> QED
      BY <3>1, <3>3, <3>4 DEF Explained
  <2>2. CASE x # s \/ (r.fatal /\ wk[w].outer = 0 /\ checkpoint'[s] = checkpoint[s])
    <3>1. checkpoint'[x] = checkpoint[x]
      BY <2>2
    <3> QED
      BY <1>5, <1>6, <2>2, <3>1
  <2> QED
    BY <1>6, <2>1, <2>2
<1>7. ASSUME NEW x \in Sources, crawl'[x] # None
      PROVE  /\ crawl'[x] \in [total : Nat, page : Nat]
             /\ \E v \in Workers : wk'[v].pc # "idle" /\ runs'[wk'[v].run].source = x
  <2>1. x # s /\ crawl'[x] = crawl[x] /\ crawl[x] # None
    BY <1>7
  <2>2. crawl[x] \in [total : Nat, page : Nat]
        /\ \E v \in Workers : wk[v].pc # "idle" /\ runs[wk[v].run].source = x
    BY <1>1, <2>1 DEF CrawlInv
  <2>3. PICK v \in Workers : wk[v].pc # "idle" /\ runs[wk[v].run].source = x
    BY <2>2
  <2>4. v # w
    BY <2>1, <2>3
  <2>5. wk[v].run \in 1..Len(runs)
    BY <1>1, <1>4, <2>3 DEF RowsInv, SoundWork
  <2>6. wk'[v] = wk[v]
    BY <1>1, <2>4 DEF RowsInv, Updated
  <2>7. runs'[wk[v].run].source = x
    BY <1>3, <2>3, <2>5
  <2> QED
    BY <2>1, <2>2, <2>3, <2>6, <2>7
<1> QED
  BY <1>3, <1>6, <1>7 DEF CheckpointInv, CrawlInv, OverSources

\* The row an error is appended to, and the one an exception closes.
LEMMA ErrorRow ==
    ASSUME NEW r \in Ingest!Runs, NEW q, q = Ingest!WithError(r)
    PROVE  /\ q \in Ingest!Runs /\ q.source = r.source /\ q.status = r.status
           /\ q.replay = r.replay /\ q.fetched = r.fetched /\ q.parsed = r.parsed
           /\ q.persisted = r.persisted /\ q.skipped = r.skipped /\ q.unparsed = r.unparsed
           /\ q.errs = r.errs + 1 /\ q.errcount = r.errs + 1
<1>1. r.errs + 1 \in Nat
  BY DEF Ingest!Runs
<1> QED
  BY <1>1 DEF Ingest!Runs, Ingest!WithError

LEMMA RaisedRow ==
    ASSUME NEW r \in Ingest!Runs, NEW dead, NEW q, q = Ingest!Raised(r, dead)
    PROVE  /\ SoundRun(q) /\ q.status = "failed" /\ q.fatal
           /\ q.source = r.source /\ q.fetched = r.fetched
<1>1. PICK e : e = Ingest!WithError(r)
  OBVIOUS
<1>2. e \in Ingest!Runs /\ e.source = r.source /\ e.fetched = r.fetched
  BY <1>1, ErrorRow
<1>3. PICK k : k = ~dead /\ k \in BOOLEAN
  OBVIOUS
<1>4. q = [e EXCEPT !.status = "failed", !.fatal = TRUE, !.kept = k]
  BY <1>1, <1>3 DEF Ingest!Raised
<1>5. q \in Ingest!Runs /\ q.status = "failed" /\ q.fatal /\ q.source = r.source
      /\ q.fetched = r.fetched
  BY <1>2, <1>3, <1>4 DEF Ingest!Runs, Ingest!Statuses
<1> QED
  BY <1>5 DEF SoundRun

\* The row of the replay a call came from, at its end.
LEMMA ReplayCloses ==
    ASSUME IngestInv, NEW w \in Workers, wk[w].pc # "idle", NEW r, NEW p \in Nat
    PROVE  \E q :
             /\ wk[w].outer # 0 => Closes(q, runs[wk[w].outer])
             /\ Ingest!OuterClosed(w, Updated(runs, wk[w].run, r), p)
                = Completed(Updated(runs, wk[w].run, r), wk[w].outer, q)
<1> DEFINE o == wk[w].outer
           mid == Updated(runs, wk[w].run, r)
<1>1. CASE o = 0
  BY <1>1 DEF Ingest!OuterClosed, Completed
<1>2. CASE o # 0
  <2>1. /\ o \in 1..Len(runs) /\ o # wk[w].run /\ DOMAIN runs = 1..Len(runs)
        /\ runs[o] \in Ingest!Runs /\ runs[o].replay
    BY <1>2, RowsAreRuns DEF IngestInv, RowsInv, SoundWork
  <2>2. PICK k : k = ~wk[w].dead /\ k \in BOOLEAN
    OBVIOUS
  <2>3. PICK q : q = [runs[o] EXCEPT !.status = "completed", !.persisted = p, !.kept = k]
    OBVIOUS
  <2>4. Closes(q, runs[o])
    BY <2>1, <2>2, <2>3 DEF Closes, Ingest!Runs, Ingest!Statuses
  <2>5. mid[o] = runs[o] /\ o \in DOMAIN mid
    BY <2>1 DEF Updated
  <2> HIDE DEF mid
  <2>6. Ingest!OuterClosed(w, mid, p) = Completed(mid, o, q)
    BY <1>2, <2>2, <2>3, <2>5 DEF Ingest!OuterClosed, Completed
  <2> QED
    BY <2>4, <2>6 DEF mid
<1> QED
  BY <1>1, <1>2

\* Health and schedule of one source move.
LEMMA HealthMoves ==
    ASSUME NEW h, SoundHealth(h)
    PROVE  SoundHealth(Ingest!Success(h)) /\ SoundHealth(Ingest!Failure(h))
  BY DEF SoundHealth, Ingest!Success, Ingest!Failure

LEMMA SideMoves ==
    ASSUME SideInv, NEW s \in Sources, NEW h, SoundHealth(h),
           health' = [health EXCEPT ![s] = h],
           schedule' = [schedule EXCEPT ![s].due = FALSE],
           UNCHANGED <<active, retries>>
    PROVE  SideInv'
<1>1. schedule' \in [Sources -> [enabled : BOOLEAN, due : BOOLEAN]]
  BY DEF SideInv
<1>2. health' = [x \in Sources |-> health'[x]] /\ \A x \in Sources : SoundHealth(health'[x])
  BY DEF SideInv
<1> QED
  BY <1>1, <1>2 DEF SideInv

\* What an exception that ends a call leaves of its row.
LEMMA EndsParts ==
    ASSUME IngestInv, NEW w \in Workers, wk[w].pc # "idle", Ingest!Ends(w, runs[wk[w].run])
    PROVE  /\ SideInv'
           /\ \E r, q :
                /\ SoundRun(r) /\ r.status # "running" /\ r.fatal
                /\ r.source = runs[wk[w].run].source /\ r.fetched = runs[wk[w].run].fetched
                /\ wk[w].outer # 0 => Closes(q, runs[wk[w].outer])
                /\ runs' = Completed(Updated(runs, wk[w].run, r), wk[w].outer, q)
           /\ wk' = Updated(wk, w, Ingest!Idle)
<1> DEFINE old == runs[wk[w].run]
           s == old.source
<1>1. PICK r : r = Ingest!Raised(old, wk[w].dead)
  OBVIOUS
<1>2. old \in Ingest!Runs /\ s \in Sources /\ old.persisted \in Nat
  BY RowsAreRuns DEF IngestInv, RowsInv, SoundWork, Ingest!Runs
<1>3. SoundRun(r) /\ r.status = "failed" /\ r.fatal /\ r.source = s /\ r.fetched = old.fetched
  <2> HIDE DEF old
  <2> QED
    BY <1>1, <1>2, RaisedRow
<1>4. /\ runs' = Ingest!OuterClosed(w, Updated(runs, wk[w].run, r), old.persisted)
      /\ schedule' = [schedule EXCEPT ![s].due = FALSE]
      /\ wk' = Updated(wk, w, Ingest!Idle)
      /\ UNCHANGED <<active, retries>>
  BY <1>1 DEF Ingest!Ends, Updated
<1>5. health' = [health EXCEPT ![s] = Ingest!Failure(health[s])]
  BY <1>2 DEF Ingest!Ends, IngestInv, SideInv
<1>6. SideInv /\ SoundHealth(Ingest!Failure(health[s]))
  BY <1>2, HealthMoves DEF IngestInv, SideInv
<1>7. SideInv'
  <2> HIDE DEF old
  <2> QED
    BY <1>2, <1>4, <1>5, <1>6, SideMoves
<1>8. PICK q : /\ wk[w].outer # 0 => Closes(q, runs[wk[w].outer])
               /\ runs' = Completed(Updated(runs, wk[w].run, r), wk[w].outer, q)
  BY <1>2, <1>4, ReplayCloses
<1> QED
  BY <1>3, <1>4, <1>7, <1>8

LEMMA FatalInv ==
    ASSUME IngestInv, NEW w \in Workers, wk[w].pc # "idle", Ingest!Fatal(w, runs[wk[w].run])
    PROVE  IngestInv'
<1> DEFINE s == runs[wk[w].run].source
<1>1. /\ Ingest!Ends(w, runs[wk[w].run])
      /\ crawl' = [crawl EXCEPT ![s] = None]
      /\ checkpoint' = IF wk[w].outer = 0 THEN checkpoint ELSE [checkpoint EXCEPT ![s] = None]
  BY DEF Ingest!Fatal
<1>2. PICK r, q :
         /\ SoundRun(r) /\ r.status # "running" /\ r.fatal
         /\ r.source = s /\ r.fetched = runs[wk[w].run].fetched
         /\ wk[w].outer # 0 => Closes(q, runs[wk[w].outer])
         /\ runs' = Completed(Updated(runs, wk[w].run, r), wk[w].outer, q)
  BY <1>1, EndsParts
<1>3. SideInv' /\ wk' = Updated(wk, w, Ingest!Idle)
  BY <1>1, EndsParts
<1>4. s \in Sources
  BY RowsAreRuns DEF IngestInv, RowsInv, SoundWork, Ingest!Runs
<1>5. /\ OverSources(crawl') /\ crawl'[s] = None
      /\ \A x \in Sources : x # s => crawl'[x] = crawl[x]
      /\ OverSources(checkpoint')
      /\ \A x \in Sources : x # s => checkpoint'[x] = checkpoint[x]
      /\ \/ checkpoint'[s] = None
         \/ wk[w].outer = 0 /\ checkpoint'[s] = checkpoint[s]
  BY <1>1, <1>4 DEF IngestInv, CheckpointInv, CrawlInv, OverSources
<1>6. r.source = runs[wk[w].run].source
  BY <1>2
<1>7. /\ OverSources(crawl') /\ crawl'[r.source] = None
      /\ \A x \in Sources : x # r.source => crawl'[x] = crawl[x]
      /\ OverSources(checkpoint')
      /\ \A x \in Sources : x # r.source => checkpoint'[x] = checkpoint[x]
      /\ \/ checkpoint'[r.source] = None
         \/ r.fatal /\ wk[w].outer = 0 /\ checkpoint'[r.source] = checkpoint[r.source]
  BY <1>2, <1>5
<1> HIDE DEF s
<1>8. /\ RowsInv(runs', wk')
      /\ CheckpointInv(checkpoint', runs', wk')
      /\ CrawlInv(crawl', runs', wk')
  BY <1>2, <1>3, <1>6, <1>7, CallEnds
<1> QED
  BY <1>3, <1>8 DEF IngestInv

\* A call that goes on may mark its own row and move the crawl state of its source.
LEMMA CallMoves ==
    ASSUME IngestInv, NEW w \in Workers, wk[w].pc # "idle",
           NEW r \in Ingest!Runs, NEW d \in Calls,
           d.pc # "idle", d.run = wk[w].run, d.outer = wk[w].outer,
           r.source = runs[d.run].source, r.status = "running", Accounts(d, r),
           r.fetched >= runs[d.run].fetched,
           runs' = Updated(runs, d.run, r), wk' = Updated(wk, w, d),
           OverSources(crawl'),
           \A x \in Sources : x # r.source => crawl'[x] = crawl[x],
           crawl'[r.source] # None => crawl'[r.source] \in [total : Nat, page : Nat],
           OverSources(checkpoint'),
           \A x \in Sources : x # r.source => checkpoint'[x] = checkpoint[x],
           \/ checkpoint'[r.source] = None
           \/ checkpoint'[r.source] = checkpoint[r.source]
           \/ Marks(checkpoint'[r.source], d.run, r.fetched)
    PROVE  /\ RowsInv(runs', wk')
           /\ CheckpointInv(checkpoint', runs', wk')
           /\ CrawlInv(crawl', runs', wk')
<1> DEFINE s == r.source
<1>1. /\ RowsInv(runs, wk) /\ CheckpointInv(checkpoint, runs, wk) /\ CrawlInv(crawl, runs, wk)
      /\ s \in Sources
  BY DEF IngestInv, Ingest!Runs
<1>2. /\ RowsInv(runs', wk')
      /\ d.run \in 1..Len(runs)
      /\ Len(runs') = Len(runs)
      /\ \A i \in 1..Len(runs) : runs'[i] = IF i = d.run THEN r ELSE runs[i]
      /\ \A v \in Workers, i \in 1..Len(runs) : At(wk'[v], i) <=> At(wk[v], i)
  BY <1>1, RowMoves
<1>3. Len(runs) \in Nat /\ DOMAIN runs = 1..Len(runs)
  BY <1>1, RowsAreRuns
<1>4. At(wk[w], d.run)
  BY DEF At
<1>5. \A i \in 1..Len(runs) :
        /\ runs'[i].source = runs[i].source /\ runs[i].fetched \in Nat
        /\ runs'[i].fetched \in Nat /\ runs'[i].fetched >= runs[i].fetched
  <2>1. \A i \in 1..Len(runs) : runs[i].fetched \in Nat
    BY <1>1, RowsAreRuns DEF Ingest!Runs
  <2>2. /\ r.fetched \in Nat
        /\ r.source = runs[d.run].source /\ r.fetched >= runs[d.run].fetched
    BY DEF Ingest!Runs
  <2>3. \A i \in 1..Len(runs) : runs'[i] = IF i = d.run THEN r ELSE runs[i]
    BY <1>2
  <2> QED
    BY ONLY <2>1, <2>2, <2>3
<1>6. ASSUME NEW x \in Sources, NEW c, c # None, checkpoint[x] = c
      PROVE  Explained(x, c, runs', wk')
  <2>1. Explained(x, c, runs, wk)
    BY <1>1, <1>6 DEF CheckpointInv
  <2>2. c \in [run : Nat, offset : Nat] /\ c.run \in 1..Len(runs) /\ runs[c.run].source = x
        /\ c.offset <= runs[c.run].fetched
        /\ (runs[c.run].fatal \/ \E v \in Workers : At(wk[v], c.run))
    BY <2>1 DEF Explained
  <2>3. runs'[c.run].fatal \/ \E v \in Workers : At(wk'[v], c.run)
    <3>1. CASE c.run = d.run
      BY <1>2, <1>4, <2>2, <3>1
    <3>2. CASE c.run # d.run
      <4>1. runs'[c.run] = runs[c.run]
        BY <1>2, <2>2, <3>2
      <4> QED
        BY <1>2, <2>2, <4>1
    <3> QED
      BY <3>1, <3>2
  <2>4. c.offset <= runs'[c.run].fetched
    <3>1. c.offset \in Nat /\ c.run \in 1..Len(runs) /\ c.offset <= runs[c.run].fetched
      BY <2>2
    <3> QED
      BY ONLY <1>5, <3>1
  <2> QED
    BY <1>2, <1>5, <2>2, <2>3, <2>4 DEF Explained
<1>7. ASSUME NEW x \in Sources, checkpoint'[x] # None
      PROVE  Explained(x, checkpoint'[x], runs', wk')
  <2>1. CASE x = s /\ Marks(checkpoint'[s], d.run, r.fetched)
    <3>1. PICK c : c = checkpoint'[x]
      OBVIOUS
    <3>2. c.run = d.run /\ c \in [run : Nat, offset : Nat] /\ c.offset <= r.fetched
      BY <2>1, <3>1 DEF Marks
    <3>3. runs'[c.run].source = x /\ c.run \in 1..Len(runs') /\ At(wk'[w], c.run)
          /\ c.offset <= runs'[c.run].fetched
      BY <1>2, <1>4, <2>1, <3>2
    <3> QED
      BY <3>1, <3>2, <3>3 DEF Explained
  <2>2. CASE x # s \/ checkpoint'[s] = checkpoint[s]
    <3>1. checkpoint'[x] = checkpoint[x]
      BY <2>2
    <3> QED
      BY <1>6, <1>7, <3>1
  <2> QED
    BY <1>7, <2>1, <2>2
<1>8. /\ wk'[w] = d /\ \A v \in Workers : v # w => wk'[v] = wk[v]
  BY <1>1 DEF RowsInv, Updated
<1>9. ASSUME NEW x \in Sources, crawl'[x] # None
      PROVE  /\ crawl'[x] \in [total : Nat, page : Nat]
             /\ \E v \in Workers : wk'[v].pc # "idle" /\ runs'[wk'[v].run].source = x
  <2>1. CASE x = s
    <3>1. runs'[wk'[w].run].source = x /\ wk'[w].pc # "idle"
      BY <1>2, <1>8, <2>1
    <3> QED
      BY <1>9, <2>1, <3>1
  <2>2. CASE x # s
    <3>1. crawl'[x] = crawl[x] /\ crawl[x] # None
      BY <1>9, <2>2
    <3>2. crawl[x] \in [total : Nat, page : Nat]
          /\ \E v \in Workers : wk[v].pc # "idle" /\ runs[wk[v].run].source = x
      BY <1>1, <3>1 DEF CrawlInv
    <3>3. PICK v \in Workers : wk[v].pc # "idle" /\ runs[wk[v].run].source = x
      BY <3>2
    <3>4. wk[v].run \in 1..Len(runs)
      BY <1>1, <1>3, <3>3 DEF RowsInv, SoundWork
    <3>5. wk'[v].pc # "idle" /\ wk'[v].run = wk[v].run
      BY <1>8, <3>3
    <3>6. runs'[wk'[v].run].source = x
      BY <1>5, <3>3, <3>4, <3>5
    <3> QED
      BY <3>1, <3>2, <3>5, <3>6
  <2> QED
    BY <2>1, <2>2
<1> QED
  BY <1>2, <1>7, <1>9 DEF CheckpointInv, CrawlInv, OverSources

\* The row and the locals of a call under way.
LEMMA CallParts ==
    ASSUME IngestInv, NEW w \in Workers, wk[w].pc # "idle"
    PROVE  /\ wk[w] \in Calls
           /\ wk[w].run \in 1..Len(runs) /\ wk[w].run \in Nat
           /\ runs[wk[w].run] \in Ingest!Runs
           /\ runs[wk[w].run].status = "running"
           /\ Accounts(wk[w], runs[wk[w].run])
           /\ runs[wk[w].run].source \in Sources
           /\ OverSources(crawl) /\ OverSources(checkpoint)
           /\ crawl[runs[wk[w].run].source] # None =>
                crawl[runs[wk[w].run].source] \in [total : Nat, page : Nat]
<1>1. RowsInv(runs, wk) /\ CheckpointInv(checkpoint, runs, wk) /\ CrawlInv(crawl, runs, wk)
  BY DEF IngestInv
<1>2. /\ Len(runs) \in Nat /\ DOMAIN runs = 1..Len(runs)
      /\ \A i \in 1..Len(runs) : runs[i] \in Ingest!Runs
  BY <1>1, RowsAreRuns
<1>3. /\ wk[w] \in Calls /\ wk[w].run \in 1..Len(runs)
      /\ runs[wk[w].run].status = "running" /\ Accounts(wk[w], runs[wk[w].run])
  BY <1>1, <1>2 DEF RowsInv, SoundWork
<1>4. runs[wk[w].run] \in Ingest!Runs /\ runs[wk[w].run].source \in Sources
  BY <1>2, <1>3 DEF Ingest!Runs
<1>5. OverSources(crawl) /\ OverSources(checkpoint)
  BY <1>1 DEF CrawlInv, CheckpointInv, OverSources
<1> QED
  BY <1>1, <1>2, <1>3, <1>4, <1>5 DEF CrawlInv

LEMMA FetchedInv ==
    ASSUME IngestInv, NEW w \in Workers, NEW n \in 0..MaxFetched, Ingest!Fetched(w, n)
    PROVE  IngestInv'
<1> DEFINE old == runs[wk[w].run]
           c == wk[w]
<1>1. /\ c.pc = "fetch" /\ UNCHANGED <<active, schedule, checkpoint, crawl, health, retries>>
      /\ n \in Nat
  BY RuntimesAssumption DEF Ingest!Fetched, Ingest!IngestionRuntimeAssumption
<1>2. PICK r, d : r = [old EXCEPT !.fetched = n] /\ d = [c EXCEPT !.pc = "records", !.left = n]
  OBVIOUS
<1>3. /\ c \in Calls /\ old \in Ingest!Runs /\ old.status = "running" /\ Accounts(c, old)
      /\ OverSources(crawl) /\ OverSources(checkpoint)
      /\ crawl[old.source] # None => crawl[old.source] \in [total : Nat, page : Nat]
  BY <1>1, CallParts
<1> HIDE DEF old, c
<1>4. /\ r \in Ingest!Runs /\ r.source = old.source /\ r.status = "running"
      /\ r.replay = old.replay /\ r.parsed = old.parsed
      /\ r.persisted = old.persisted /\ r.skipped = old.skipped /\ r.errs = old.errs
      /\ r.errcount = old.errcount /\ r.unparsed = old.unparsed
      /\ r.fetched = n /\ old.fetched = 0
  <2>1. c.errors \in Nat /\ old.unparsed \in Nat
    BY <1>3 DEF Calls, Ingest!Runs
  <2>2. old.fetched = 0
    BY <1>1, <1>3, <2>1 DEF Accounts
  <2> QED
    BY <1>1, <1>2, <1>3, <2>2 DEF Ingest!Runs
<1>5. /\ d \in Calls /\ d.pc = "records" /\ d.run = c.run /\ d.outer = c.outer /\ d.left = n
      /\ d.todo = c.todo /\ d.parsed = c.parsed /\ d.persisted = c.persisted
      /\ d.skipped = c.skipped /\ d.errors = c.errors /\ d.batch = c.batch /\ d.dead = c.dead
  BY <1>1, <1>2, <1>3 DEF Calls
<1>6. Accounts(d, r)
  <2>1. /\ c.left \in Nat /\ c.todo \in Nat /\ c.parsed \in Nat /\ c.persisted \in Nat
        /\ c.skipped \in Nat /\ c.errors \in Nat /\ c.batch \in Nat /\ c.dead \in BOOLEAN
        /\ old.unparsed \in Nat
    BY <1>3 DEF Calls, Ingest!Runs
  <2> QED
    BY <1>1, <1>3, <1>4, <1>5, <2>1 DEF Accounts
<1>7. runs' = Updated(runs, d.run, r) /\ wk' = Updated(wk, w, d)
  BY <1>2, <1>5 DEF Ingest!Fetched, Updated, old, c
<1>8. /\ RowsInv(runs', wk')
      /\ CheckpointInv(checkpoint', runs', wk')
      /\ CrawlInv(crawl', runs', wk')
  <2>1. wk[w].pc # "idle" /\ d.run = wk[w].run /\ d.outer = wk[w].outer
        /\ r.source = runs[d.run].source /\ d.pc # "idle"
        /\ r.fetched >= runs[d.run].fetched
    BY <1>1, <1>3, <1>4, <1>5 DEF old, c, Ingest!Runs
  <2> QED
    BY <1>1, <1>3, <1>4, <1>5, <1>6, <1>7, <2>1, CallMoves
<1> QED
  BY <1>1, <1>8 DEF IngestInv, SideInv

LEMMA ParseFailsInv ==
    ASSUME IngestInv, NEW w \in Workers, Ingest!ParseFails(w)
    PROVE  IngestInv'
<1> DEFINE old == runs[wk[w].run]
           c == wk[w]
<1>1. /\ c.pc = "records" /\ c.left > 0
      /\ UNCHANGED <<active, schedule, checkpoint, crawl, health, retries>>
  BY DEF Ingest!ParseFails
<1>2. PICK r, d : /\ r = Ingest!NotParsed(old)
                  /\ d = [c EXCEPT !.left = c.left - 1, !.errors = c.errors + 1]
  OBVIOUS
<1>3. /\ c \in Calls /\ old \in Ingest!Runs /\ old.status = "running" /\ Accounts(c, old)
      /\ OverSources(crawl) /\ OverSources(checkpoint)
      /\ crawl[old.source] # None => crawl[old.source] \in [total : Nat, page : Nat]
  BY <1>1, CallParts
<1>9. runs' = Updated(runs, c.run, r) /\ wk' = Updated(wk, w, d)
  BY <1>2 DEF Ingest!ParseFails, Updated
<1> HIDE DEF old, c
<1>4. /\ r \in Ingest!Runs /\ r.source = old.source /\ r.status = "running"
      /\ r.replay = old.replay /\ r.parsed = old.parsed
      /\ r.persisted = old.persisted /\ r.skipped = old.skipped /\ r.errs = old.errs + 1
      /\ r.errcount = old.errs + 1 /\ r.unparsed = old.unparsed + 1
      /\ r.fetched = old.fetched
  <2>1. PICK e : e = Ingest!WithError(old)
    OBVIOUS
  <2>2. /\ e \in Ingest!Runs /\ e.source = old.source /\ e.status = old.status
        /\ e.replay = old.replay /\ e.fetched = old.fetched /\ e.parsed = old.parsed
        /\ e.persisted = old.persisted /\ e.skipped = old.skipped
        /\ e.unparsed = old.unparsed /\ e.errs = old.errs + 1 /\ e.errcount = old.errs + 1
    BY <1>3, <2>1, ErrorRow
  <2>3. PICK u \in Nat : u = old.unparsed + 1
    BY <1>3 DEF Ingest!Runs
  <2>4. r = [e EXCEPT !.unparsed = u]
    BY <1>2, <2>1, <2>2, <2>3 DEF Ingest!NotParsed
  <2> QED
    BY <1>3, <2>2, <2>3, <2>4 DEF Ingest!Runs
<1>5. /\ d \in Calls /\ d.pc = "records" /\ d.run = c.run /\ d.outer = c.outer
      /\ d.left = c.left - 1
      /\ d.todo = c.todo /\ d.parsed = c.parsed /\ d.persisted = c.persisted
      /\ d.skipped = c.skipped /\ d.errors = c.errors + 1 /\ d.batch = c.batch
      /\ d.dead = c.dead
  <2>1. c.left - 1 \in Nat /\ c.errors + 1 \in Nat
    BY <1>1, <1>3 DEF Calls
  <2> QED
    BY <1>1, <1>2, <1>3, <2>1 DEF Calls
<1>6. Accounts(d, r)
  <2>1. /\ c.left \in Nat /\ c.todo \in Nat /\ c.parsed \in Nat /\ c.persisted \in Nat
        /\ c.skipped \in Nat /\ c.errors \in Nat /\ c.batch \in Nat /\ c.dead \in BOOLEAN
        /\ old.unparsed \in Nat
    BY <1>3 DEF Calls, Ingest!Runs
  <2> QED
    BY <1>1, <1>3, <1>4, <1>5, <2>1 DEF Accounts
<1>7. runs' = Updated(runs, d.run, r) /\ wk' = Updated(wk, w, d)
  BY <1>5, <1>9
<1>8. /\ RowsInv(runs', wk')
      /\ CheckpointInv(checkpoint', runs', wk')
      /\ CrawlInv(crawl', runs', wk')
  <2>1. wk[w].pc # "idle" /\ d.run = wk[w].run /\ d.outer = wk[w].outer
        /\ r.source = runs[d.run].source /\ d.pc # "idle"
        /\ r.fetched >= runs[d.run].fetched
    BY <1>1, <1>3, <1>4, <1>5 DEF old, c, Ingest!Runs
  <2> QED
    BY <1>1, <1>3, <1>4, <1>5, <1>6, <1>7, <2>1, CallMoves
<1> QED
  BY <1>1, <1>8 DEF IngestInv, SideInv

\* The raw record makes any number of records, all to be worked on.
LEMMA ParseInv ==
    ASSUME IngestInv, NEW w \in Workers, NEW n \in 0..MaxParsed, Ingest!Parse(w, n)
    PROVE  IngestInv'
<1> DEFINE old == runs[wk[w].run]
           c == wk[w]
<1>1. /\ c.pc = "records" /\ c.left > 0 /\ n \in Nat
      /\ UNCHANGED <<active, schedule, checkpoint, crawl, health, retries>>
  BY RuntimesAssumption DEF Ingest!Parse, Ingest!IngestionRuntimeAssumption
<1>2. PICK r, d : /\ r = old
                  /\ d = [c EXCEPT !.pc = "parsed", !.left = c.left - 1, !.todo = n,
                                   !.parsed = c.parsed + n]
  OBVIOUS
<1>3. /\ c \in Calls /\ old \in Ingest!Runs /\ old.status = "running" /\ Accounts(c, old)
      /\ OverSources(crawl) /\ OverSources(checkpoint)
      /\ crawl[old.source] # None => crawl[old.source] \in [total : Nat, page : Nat]
  BY <1>1, CallParts
<1>9. wk' = Updated(wk, w, d) /\ runs' = runs
  BY <1>2 DEF Ingest!Parse, Updated
<1>10. runs = Updated(runs, c.run, old)
  BY DEF IngestInv, RowsInv, Updated
<1> HIDE DEF old, c
<1>4. /\ r \in Ingest!Runs /\ r.source = old.source /\ r.status = "running"
      /\ r.fetched = old.fetched
  BY <1>2, <1>3
<1>5. /\ d \in Calls /\ d.pc = "parsed" /\ d.run = c.run /\ d.outer = c.outer
      /\ d.left = c.left - 1 /\ d.todo = n /\ d.parsed = c.parsed + n
      /\ d.persisted = c.persisted /\ d.skipped = c.skipped /\ d.errors = c.errors
      /\ d.batch = c.batch /\ d.dead = c.dead
  <2>1. c.left - 1 \in Nat /\ c.parsed + n \in Nat
    BY <1>1, <1>3 DEF Calls
  <2> QED
    BY <1>1, <1>2, <1>3, <2>1 DEF Calls
<1>6. Accounts(d, r)
  <2>1. /\ c.left \in Nat /\ c.todo \in Nat /\ c.parsed \in Nat /\ c.persisted \in Nat
        /\ c.skipped \in Nat /\ c.errors \in Nat /\ c.batch \in Nat /\ c.dead \in BOOLEAN
        /\ old.unparsed \in Nat
    BY <1>3 DEF Calls, Ingest!Runs
  <2> QED
    BY <1>1, <1>2, <1>3, <1>5, <2>1 DEF Accounts
<1>7. runs' = Updated(runs, d.run, r) /\ wk' = Updated(wk, w, d)
  BY <1>2, <1>5, <1>9, <1>10
<1>8. /\ RowsInv(runs', wk')
      /\ CheckpointInv(checkpoint', runs', wk')
      /\ CrawlInv(crawl', runs', wk')
  <2>1. wk[w].pc # "idle" /\ d.run = wk[w].run /\ d.outer = wk[w].outer
        /\ r.source = runs[d.run].source /\ d.pc # "idle"
        /\ r.fetched >= runs[d.run].fetched
    BY <1>1, <1>3, <1>4, <1>5 DEF old, c, Ingest!Runs
  <2> QED
    BY <1>1, <1>3, <1>4, <1>5, <1>6, <1>7, <2>1, CallMoves
<1> QED
  BY <1>1, <1>8 DEF IngestInv, SideInv

LEMMA FinishInv ==
    ASSUME IngestInv, NEW w \in Workers, Ingest!Finish(w)
    PROVE  IngestInv'
<1> DEFINE old == runs[wk[w].run]
           c == wk[w]
           s == old.source
           status == Ingest!FinalStatus(c.errors, c.persisted)
<1>1. /\ c.pc = "records" /\ c.left = 0
      /\ UNCHANGED <<active, retries>>
  BY DEF Ingest!Finish
<1>2. PICK r : r = Ingest!Counted(old, c)
  OBVIOUS
<1>3. /\ c \in Calls /\ old \in Ingest!Runs /\ Accounts(c, old) /\ s \in Sources
      /\ OverSources(crawl) /\ OverSources(checkpoint)
  BY <1>1, CallParts
<1>4. /\ runs' = Ingest!OuterClosed(w, Updated(runs, wk[w].run, r), c.persisted)
      /\ health' = [health EXCEPT ![s] = IF status = "failed" THEN Ingest!Failure(@)
                                                              ELSE Ingest!Success(@)]
      /\ schedule' = [schedule EXCEPT ![s].due = FALSE]
      /\ crawl' = [crawl EXCEPT ![s] = None]
      /\ checkpoint' = [checkpoint EXCEPT ![s] = None]
      /\ wk' = Updated(wk, w, Ingest!Idle)
  <2>1. runs' = Ingest!OuterClosed(w, [runs EXCEPT ![wk[w].run] = Ingest!Counted(@, c)],
                                   c.persisted)
    BY DEF Ingest!Finish
  <2>2. Updated(runs, wk[w].run, r) = [runs EXCEPT ![wk[w].run] = Ingest!Counted(@, c)]
    BY <1>2 DEF Updated
  <2>3. /\ health' = [health EXCEPT ![s] = IF status = "failed" THEN Ingest!Failure(@)
                                                                ELSE Ingest!Success(@)]
        /\ schedule' = [schedule EXCEPT ![s].due = FALSE]
        /\ crawl' = [crawl EXCEPT ![s] = None]
        /\ checkpoint' = [checkpoint EXCEPT ![s] = None]
        /\ wk' = Updated(wk, w, Ingest!Idle)
    BY DEF Ingest!Finish, Ingest!Src, Updated
  <2> QED
    BY <2>1, <2>2, <2>3
<1> HIDE DEF old, c, status
<1>5. c.parsed \in Nat /\ c.persisted \in Nat /\ c.skipped \in Nat /\ c.errors \in Nat
      /\ c.left \in Nat /\ c.batch \in Nat /\ c.dead \in BOOLEAN /\ old.unparsed \in Nat
  BY <1>3 DEF Calls, Ingest!Runs
<1>6. status \in Ingest!Statuses \ {"running"}
  BY DEF Ingest!FinalStatus, Ingest!Statuses, status
<1>7. /\ r \in Ingest!Runs /\ r.source = s /\ r.status = status
      /\ r.fetched = old.fetched /\ r.errs = old.errs
      /\ r.persisted = old.persisted + c.persisted /\ r.skipped = old.skipped + c.skipped
      /\ r.parsed = old.parsed + c.parsed /\ r.errcount = old.errcount + c.errors
      /\ r.unparsed = old.unparsed /\ r.replay = old.replay /\ r.kept = ~c.dead
  <2>1. /\ old.parsed + c.parsed \in Nat /\ old.persisted + c.persisted \in Nat
        /\ old.skipped + c.skipped \in Nat /\ old.errcount + c.errors \in Nat
    BY <1>3, <1>5 DEF Ingest!Runs
  <2> QED
    BY <1>2, <1>3, <1>6, <2>1 DEF Ingest!Runs, Ingest!Counted, status
<1>8. SoundRun(r) /\ r.status # "running"
  <2>1. c.errors > 0 => status # "completed"
    BY <1>5 DEF Ingest!FinalStatus, status
  <2>2. /\ old.fetched \in Nat /\ old.fetched = c.batch + old.unparsed
        /\ old.parsed = 0 /\ old.persisted = 0 /\ old.skipped = 0
        /\ old.errs = c.errors /\ old.errcount = c.errors /\ old.unparsed <= c.errors
        /\ c.parsed = c.persisted + c.skipped + (c.errors - old.unparsed)
    BY <1>1, <1>3, <1>5 DEF Accounts, Ingest!Runs
  <2>3. c.dead => c.errors > old.unparsed /\ c.errors > 0
    BY <1>3, <1>5 DEF Accounts
  <2>4. /\ r.parsed = r.persisted + r.skipped + (r.errs - r.unparsed)
        /\ r.unparsed <= r.fetched /\ r.unparsed <= r.errs
        /\ r.errcount = 2 * r.errs
    BY <1>5, <1>7, <2>2
  <2>5. ~r.kept => r.errs > r.unparsed /\ r.status # "completed"
    BY <1>7, <2>1, <2>2, <2>3
  <2> QED
    BY <1>6, <1>7, <2>4, <2>5 DEF SoundRun, Balanced
<1>9. SideInv'
  <2>1. /\ SideInv /\ SoundHealth(Ingest!Failure(health[s])) /\ SoundHealth(Ingest!Success(health[s]))
    BY <1>3, HealthMoves DEF IngestInv, SideInv
  <2>2. PICK h : /\ h = IF status = "failed" THEN Ingest!Failure(health[s])
                                             ELSE Ingest!Success(health[s])
                 /\ SoundHealth(h)
    BY <2>1
  <2>3. health' = [health EXCEPT ![s] = h]
    BY <1>3, <1>4, <2>1, <2>2 DEF SideInv
  <2> QED
    BY <1>1, <1>3, <1>4, <2>1, <2>2, <2>3, SideMoves
<1>10. /\ OverSources(crawl') /\ crawl'[r.source] = None
       /\ \A x \in Sources : x # r.source => crawl'[x] = crawl[x]
       /\ OverSources(checkpoint') /\ checkpoint'[r.source] = None
       /\ \A x \in Sources : x # r.source => checkpoint'[x] = checkpoint[x]
  BY <1>3, <1>4, <1>7 DEF OverSources
<1>11. r.source = runs[wk[w].run].source /\ r.fetched = runs[wk[w].run].fetched
       /\ wk[w].pc # "idle"
  BY <1>1, <1>7 DEF old, c
<1>13. PICK q : /\ wk[w].outer # 0 => Closes(q, runs[wk[w].outer])
                /\ runs' = Completed(Updated(runs, wk[w].run, r), wk[w].outer, q)
  BY <1>4, <1>5, <1>11, ReplayCloses
<1>12. /\ RowsInv(runs', wk')
       /\ CheckpointInv(checkpoint', runs', wk')
       /\ CrawlInv(crawl', runs', wk')
  BY <1>4, <1>8, <1>10, <1>11, <1>13, CallEnds
<1> QED
  BY <1>9, <1>12 DEF IngestInv

\* One parsed record moves from the work to do to one of the three counts.
LEMMA RecordInv ==
    ASSUME IngestInv, NEW w \in Workers, NEW outcome \in Ingest!Outcomes,
           Ingest!Record(w, outcome)
    PROVE  IngestInv'
<1> DEFINE old == runs[wk[w].run]
           c == wk[w]
           raises == outcome \in {"persist_error", "flush_error"}
<1>1. /\ c.pc = "parsed" /\ c.todo > 0
      /\ UNCHANGED <<active, schedule, checkpoint, crawl, health, retries>>
  BY DEF Ingest!Record
<1>2. PICK r, d : /\ r = IF raises THEN Ingest!WithError(old) ELSE old
                  /\ d = [c EXCEPT !.todo = @ - 1,
                                   !.errors = IF raises THEN @ + 1 ELSE @,
                                   !.skipped = IF outcome = "skipped" THEN @ + 1 ELSE @,
                                   !.persisted = IF outcome = "persisted" THEN @ + 1 ELSE @,
                                   !.dead = @ \/ outcome = "flush_error"]
  OBVIOUS
<1>3. /\ c \in Calls /\ old \in Ingest!Runs /\ old.status = "running" /\ Accounts(c, old)
      /\ OverSources(crawl) /\ OverSources(checkpoint)
      /\ crawl[old.source] # None => crawl[old.source] \in [total : Nat, page : Nat]
  BY <1>1, CallParts
<1>9. runs' = Updated(runs, c.run, r) /\ wk' = Updated(wk, w, d)
  <2>1. runs' = Updated(runs, c.run, r)
    <3>1. CASE raises
      BY <1>2, <3>1 DEF Ingest!Record, Updated
    <3>2. CASE ~raises
      BY <1>2, <3>2 DEF Ingest!Record, IngestInv, RowsInv, Updated
    <3> QED
      BY <3>1, <3>2
  <2>2. wk' = Updated(wk, w, d)
    BY <1>2 DEF Ingest!Record, Updated
  <2> QED
    BY <2>1, <2>2
<1> HIDE DEF old, c
<1>4. /\ r \in Ingest!Runs /\ r.source = old.source /\ r.status = "running"
      /\ r.replay = old.replay /\ r.fetched = old.fetched /\ r.parsed = old.parsed
      /\ r.persisted = old.persisted /\ r.skipped = old.skipped /\ r.unparsed = old.unparsed
      /\ r.errs = IF raises THEN old.errs + 1 ELSE old.errs
      /\ r.errcount = IF raises THEN old.errs + 1 ELSE old.errcount
  <2>1. CASE raises
    BY <1>2, <1>3, <2>1, ErrorRow
  <2>2. CASE ~raises
    BY <1>2, <1>3, <2>2
  <2> QED
    BY <2>1, <2>2
<1>11. /\ c.left \in Nat /\ c.todo \in Nat /\ c.parsed \in Nat /\ c.persisted \in Nat
       /\ c.skipped \in Nat /\ c.errors \in Nat /\ c.batch \in Nat /\ c.dead \in BOOLEAN
       /\ old.unparsed \in Nat
  BY <1>3 DEF Calls, Ingest!Runs
<1>5. /\ d \in Calls /\ d.pc = "parsed" /\ d.run = c.run /\ d.outer = c.outer
      /\ d.left = c.left /\ d.parsed = c.parsed /\ d.batch = c.batch
      /\ d.todo = c.todo - 1
      /\ d.errors = IF raises THEN c.errors + 1 ELSE c.errors
      /\ d.skipped = IF outcome = "skipped" THEN c.skipped + 1 ELSE c.skipped
      /\ d.persisted = IF outcome = "persisted" THEN c.persisted + 1 ELSE c.persisted
      /\ d.dead => c.dead \/ raises
  <2>1. PICK todo \in Nat : todo = c.todo - 1
    BY <1>1, <1>11
  <2>2. PICK errors \in Nat : errors = IF raises THEN c.errors + 1 ELSE c.errors
    BY <1>11
  <2>3. PICK skipped \in Nat : skipped = IF outcome = "skipped" THEN c.skipped + 1 ELSE c.skipped
    BY <1>11
  <2>4. PICK persisted \in Nat :
            persisted = IF outcome = "persisted" THEN c.persisted + 1 ELSE c.persisted
    BY <1>11
  <2>5. PICK dead \in BOOLEAN : dead = (c.dead \/ outcome = "flush_error")
    OBVIOUS
  <2>6. d = [c EXCEPT !.todo = todo, !.errors = errors, !.skipped = skipped,
                      !.persisted = persisted, !.dead = dead]
    BY <1>2, <2>1, <2>2, <2>3, <2>4, <2>5
  <2>7. c \in Calls /\ c.pc = "parsed"
    BY <1>1, <1>3
  <2>8. /\ d \in Calls /\ d.pc = "parsed" /\ d.run = c.run /\ d.outer = c.outer
        /\ d.left = c.left /\ d.parsed = c.parsed /\ d.batch = c.batch
        /\ d.todo = todo /\ d.errors = errors /\ d.skipped = skipped
        /\ d.persisted = persisted /\ d.dead = dead
    BY ONLY <2>6, <2>7 DEF Calls
  <2> QED
    BY <2>1, <2>2, <2>3, <2>4, <2>5, <2>8
<1>6. Accounts(d, r)
  <2>1. outcome \in {"persisted", "skipped"} \/ raises
    BY DEF Ingest!Outcomes
  <2>2. Accounts(c, old) /\ c.pc = "parsed" /\ c.todo > 0
    BY <1>1, <1>3
  <2>3. /\ r.errcount = (IF raises THEN old.errs + 1 ELSE old.errs)
        /\ r.errs = (IF raises THEN old.errs + 1 ELSE old.errs)
    BY <1>4, <2>2 DEF Accounts
  <2>4. CASE raises
    <3>1. /\ d.errors = c.errors + 1 /\ d.skipped = c.skipped /\ d.persisted = c.persisted
          /\ r.errs = old.errs + 1 /\ r.errcount = old.errs + 1
      BY <1>5, <2>3, <2>4
    <3> QED
      BY ONLY <1>4, <1>5, <1>11, <2>2, <3>1 DEF Accounts
  <2>5. CASE outcome = "persisted"
    <3>1. /\ d.errors = c.errors /\ d.skipped = c.skipped /\ d.persisted = c.persisted + 1
          /\ r.errs = old.errs /\ r.errcount = old.errs /\ (d.dead => c.dead)
      BY <1>5, <2>3, <2>5
    <3> QED
      BY ONLY <1>4, <1>5, <1>11, <2>2, <3>1 DEF Accounts
  <2>6. CASE outcome = "skipped"
    <3>1. /\ d.errors = c.errors /\ d.skipped = c.skipped + 1 /\ d.persisted = c.persisted
          /\ r.errs = old.errs /\ r.errcount = old.errs /\ (d.dead => c.dead)
      BY <1>5, <2>3, <2>6
    <3> QED
      BY ONLY <1>4, <1>5, <1>11, <2>2, <3>1 DEF Accounts
  <2> QED
    BY <2>1, <2>4, <2>5, <2>6
<1>7. runs' = Updated(runs, d.run, r) /\ wk' = Updated(wk, w, d)
  BY <1>5, <1>9
<1>8. /\ RowsInv(runs', wk')
      /\ CheckpointInv(checkpoint', runs', wk')
      /\ CrawlInv(crawl', runs', wk')
  <2>1. wk[w].pc # "idle" /\ d.run = wk[w].run /\ d.outer = wk[w].outer
        /\ r.source = runs[d.run].source /\ d.pc # "idle"
        /\ r.fetched >= runs[d.run].fetched
    BY <1>1, <1>3, <1>4, <1>5 DEF old, c, Ingest!Runs
  <2> QED
    BY <1>1, <1>3, <1>4, <1>5, <1>6, <1>7, <2>1, CallMoves
<1> QED
  BY <1>1, <1>8 DEF IngestInv, SideInv

\* A batch that is full marks its own row, within what it fetched.
LEMMA RawDoneInv ==
    ASSUME IngestInv, NEW w \in Workers, Ingest!RawDone(w)
    PROVE  IngestInv'
<1> DEFINE old == runs[wk[w].run]
           c == wk[w]
           s == old.source
           full == Ingest!BatchFull(w)
<1>1. /\ c.pc = "parsed" /\ c.todo = 0 /\ ~(full /\ crawl[s] = None)
      /\ UNCHANGED <<active, schedule, health, retries>>
  BY DEF Ingest!RawDone, Ingest!Src
<1>2. PICK d : d = [c EXCEPT !.pc = "records", !.batch = c.batch + 1]
  OBVIOUS
<1>3. /\ c \in Calls /\ old \in Ingest!Runs /\ old.status = "running" /\ Accounts(c, old)
      /\ s \in Sources /\ OverSources(crawl) /\ OverSources(checkpoint)
      /\ crawl[s] # None => crawl[s] \in [total : Nat, page : Nat]
  BY <1>1, CallParts
<1>4. /\ wk' = Updated(wk, w, d) /\ runs' = runs
      /\ checkpoint' = IF full THEN [checkpoint EXCEPT ![s] = [run |-> c.run, offset |-> c.batch + 1]]
                       ELSE checkpoint
      /\ crawl' = IF full
                  THEN [crawl EXCEPT ![s] = [total |-> @.total + c.batch + 1, page |-> @.page + 1]]
                  ELSE crawl
  BY <1>2 DEF Ingest!RawDone, Ingest!Src, Updated
<1>5. runs = Updated(runs, c.run, old)
  BY DEF IngestInv, RowsInv, Updated
<1> HIDE DEF old, c, full
<1>6. /\ c.run \in Nat /\ c.left \in Nat /\ c.todo \in Nat /\ c.parsed \in Nat
      /\ c.persisted \in Nat /\ c.skipped \in Nat /\ c.errors \in Nat /\ c.batch \in Nat
      /\ c.dead \in BOOLEAN /\ old.unparsed \in Nat /\ old.fetched \in Nat
  BY <1>3 DEF Calls, Ingest!Runs
<1>7. PICK batch \in Nat : batch = c.batch + 1
  BY <1>6
<1>8. /\ d \in Calls /\ d.pc = "records" /\ d.run = c.run /\ d.outer = c.outer
      /\ d.left = c.left /\ d.todo = c.todo /\ d.parsed = c.parsed
      /\ d.persisted = c.persisted /\ d.skipped = c.skipped /\ d.errors = c.errors
      /\ d.batch = batch /\ d.dead = c.dead
  BY <1>2, <1>3, <1>7 DEF Calls
<1>9. Accounts(d, old) /\ batch <= old.fetched
  BY <1>1, <1>3, <1>6, <1>7, <1>8 DEF Accounts
<1>10. /\ OverSources(crawl')
       /\ \A x \in Sources : x # s => crawl'[x] = crawl[x]
       /\ crawl'[s] # None => crawl'[s] \in [total : Nat, page : Nat]
  <2>1. CASE full
    <3>1. crawl[s] \in [total : Nat, page : Nat]
      BY <1>1, <1>3, <2>1
    <3>2. PICK m : m = [total |-> crawl[s].total + c.batch + 1, page |-> crawl[s].page + 1]
      OBVIOUS
    <3>3. m \in [total : Nat, page : Nat]
      BY <1>6, <3>1, <3>2
    <3>4. crawl' = [crawl EXCEPT ![s] = m]
      BY <1>4, <2>1, <3>2
    <3> QED
      BY <1>3, <3>3, <3>4 DEF OverSources
  <2>2. CASE ~full
    BY <1>3, <1>4, <2>2
  <2> QED
    BY <2>1, <2>2
<1>11. /\ OverSources(checkpoint')
       /\ \A x \in Sources : x # s => checkpoint'[x] = checkpoint[x]
       /\ checkpoint'[s] = checkpoint[s] \/ Marks(checkpoint'[s], c.run, old.fetched)
  <2>1. CASE full
    <3>1. PICK m : m = [run |-> c.run, offset |-> batch]
      OBVIOUS
    <3>2. Marks(m, c.run, old.fetched)
      BY <1>6, <1>9, <3>1 DEF Marks
    <3>3. checkpoint' = [checkpoint EXCEPT ![s] = m]
      BY <1>4, <1>7, <2>1, <3>1
    <3> QED
      BY <1>3, <3>2, <3>3 DEF OverSources
  <2>2. CASE ~full
    BY <1>3, <1>4, <2>2
  <2> QED
    BY <2>1, <2>2
<1>12. /\ RowsInv(runs', wk')
       /\ CheckpointInv(checkpoint', runs', wk')
       /\ CrawlInv(crawl', runs', wk')
  <2>1. /\ wk[w].pc # "idle" /\ d.run = wk[w].run /\ d.outer = wk[w].outer
        /\ old.source = runs[d.run].source /\ d.pc # "idle"
        /\ old.fetched >= runs[d.run].fetched
    BY <1>1, <1>6, <1>8 DEF old, c
  <2>2. runs' = Updated(runs, d.run, old)
    BY <1>4, <1>5, <1>8
  <2>3. /\ \A x \in Sources : x # old.source => crawl'[x] = crawl[x]
        /\ crawl'[old.source] # None => crawl'[old.source] \in [total : Nat, page : Nat]
        /\ \A x \in Sources : x # old.source => checkpoint'[x] = checkpoint[x]
        /\ \/ checkpoint'[old.source] = checkpoint[old.source]
           \/ Marks(checkpoint'[old.source], d.run, old.fetched)
    BY <1>8, <1>10, <1>11
  <2> QED
    BY <1>3, <1>4, <1>8, <1>9, <1>10, <1>11, <2>1, <2>2, <2>3, CallMoves
<1> QED
  BY <1>1, <1>12 DEF IngestInv, SideInv

\* A crawl state another worker has finished is a KeyError at the end of a batch.
LEMMA AdvanceFailsInv ==
    ASSUME IngestInv, NEW w \in Workers, Ingest!AdvanceFails(w)
    PROVE  IngestInv'
<1> DEFINE old == runs[wk[w].run]
           c == wk[w]
           s == old.source
<1>1. /\ c.pc = "parsed" /\ c.todo = 0 /\ crawl[s] = None /\ Ingest!Ends(w, old)
      /\ checkpoint' = [checkpoint EXCEPT ![s] =
            IF c.outer # 0 THEN None ELSE [run |-> c.run, offset |-> c.batch + 1]]
      /\ crawl' = crawl
  BY DEF Ingest!AdvanceFails, Ingest!Src
<1>2. PICK r, q :
         /\ SoundRun(r) /\ r.status # "running" /\ r.fatal
         /\ r.source = s /\ r.fetched = old.fetched
         /\ wk[w].outer # 0 => Closes(q, runs[wk[w].outer])
         /\ runs' = Completed(Updated(runs, wk[w].run, r), wk[w].outer, q)
  BY <1>1, EndsParts
<1>3. SideInv' /\ wk' = Updated(wk, w, Ingest!Idle)
  BY <1>1, EndsParts
<1>4. /\ c \in Calls /\ old \in Ingest!Runs /\ Accounts(c, old) /\ s \in Sources
      /\ OverSources(crawl) /\ OverSources(checkpoint)
  BY <1>1, CallParts
<1>5. r.source = runs[wk[w].run].source /\ r.fetched = runs[wk[w].run].fetched
      /\ wk[w].pc # "idle" /\ wk[w].outer = c.outer /\ wk[w].run = c.run
  BY <1>1, <1>2
<1> HIDE DEF old, c
<1>6. /\ c.run \in Nat /\ c.left \in Nat /\ c.batch \in Nat
      /\ old.unparsed \in Nat /\ old.fetched \in Nat
  BY <1>4 DEF Calls, Ingest!Runs
<1>7. c.batch + 1 <= old.fetched /\ c.batch + 1 \in Nat
  BY <1>1, <1>4, <1>6 DEF Accounts
<1>8. /\ OverSources(crawl') /\ crawl'[r.source] = None
      /\ \A x \in Sources : x # r.source => crawl'[x] = crawl[x]
      /\ OverSources(checkpoint')
      /\ \A x \in Sources : x # r.source => checkpoint'[x] = checkpoint[x]
      /\ \/ checkpoint'[r.source] = None
         \/ r.fatal /\ wk[w].outer = 0 /\ Marks(checkpoint'[r.source], wk[w].run, r.fetched)
  <2>1. PICK m : m = IF c.outer # 0 THEN None ELSE [run |-> c.run, offset |-> c.batch + 1]
    OBVIOUS
  <2>2. m = None \/ (c.outer = 0 /\ Marks(m, c.run, old.fetched))
    BY <1>6, <1>7, <2>1 DEF Marks
  <2>3. checkpoint' = [checkpoint EXCEPT ![s] = m]
    BY <1>1, <2>1
  <2> QED
    BY <1>1, <1>2, <1>4, <1>5, <2>2, <2>3 DEF OverSources
<1>9. /\ RowsInv(runs', wk')
      /\ CheckpointInv(checkpoint', runs', wk')
      /\ CrawlInv(crawl', runs', wk')
  BY <1>2, <1>3, <1>5, <1>8, CallEnds
<1> QED
  BY <1>3, <1>9 DEF IngestInv

\* A new call, or the refused replay: checkpoints and the other calls stay explained.
LEMMA CallStarts ==
    ASSUME IngestInv, NEW w \in Workers, wk[w].pc = "idle",
           NEW more \in Seq(Ingest!Runs), NEW d \in Calls, NEW s \in Sources,
           runs' = runs \o more, wk' = Updated(wk, w, d), SoundWork(d, runs'),
           Opens(d, more, Len(runs)),
           UNCHANGED checkpoint,
           OverSources(crawl'),
           \A x \in Sources : x # s => crawl'[x] = crawl[x],
           \/ crawl'[s] = crawl[s]
           \/ /\ crawl'[s] \in [total : Nat, page : Nat]
              /\ d.pc # "idle" /\ runs'[d.run].source = s
    PROVE  /\ RowsInv(runs', wk')
           /\ CheckpointInv(checkpoint', runs', wk')
           /\ CrawlInv(crawl', runs', wk')
<1>1. RowsInv(runs, wk) /\ CheckpointInv(checkpoint, runs, wk) /\ CrawlInv(crawl, runs, wk)
  BY DEF IngestInv
<1>2. /\ RowsInv(runs', wk')
      /\ Len(runs') \in Nat /\ Len(runs') >= Len(runs)
      /\ \A i \in 1..Len(runs) : runs'[i] = runs[i]
      /\ \A v \in Workers, i \in 1..Len(runs) : At(wk'[v], i) <=> At(wk[v], i)
  <2>1. /\ RowsInv(runs, wk) /\ wk[w].pc = "idle" /\ runs' = runs \o more
        /\ wk' = Updated(wk, w, d) /\ SoundWork(d, runs') /\ Opens(d, more, Len(runs))
        /\ w \in Workers /\ d \in Calls /\ more \in Seq(Ingest!Runs)
    BY <1>1
  <2>2. RowsInv(runs', wk')
    BY ONLY <2>1, RowsOpen
  <2>3. Len(runs') \in Nat /\ Len(runs') >= Len(runs)
    BY ONLY <2>1, RowsOpen
  <2>4. \A i \in 1..Len(runs) : runs'[i] = runs[i]
    BY ONLY <2>1, RowsOpen
  <2>5. \A v \in Workers, i \in 1..Len(runs) : At(wk'[v], i) <=> At(wk[v], i)
    BY ONLY <2>1, RowsOpen
  <2> QED
    BY <2>2, <2>3, <2>4, <2>5
<1>3. Len(runs) \in Nat /\ DOMAIN runs = 1..Len(runs) /\ 1..Len(runs) \subseteq 1..Len(runs')
  BY <1>1, <1>2, RowsAreRuns
<1>4. ASSUME NEW x \in Sources, NEW c, c # None, checkpoint[x] = c
      PROVE  Explained(x, c, runs', wk')
  <2>1. Explained(x, c, runs, wk)
    BY <1>1, <1>4 DEF CheckpointInv
  <2>2. c \in [run : Nat, offset : Nat] /\ c.run \in 1..Len(runs) /\ runs[c.run].source = x
        /\ c.offset <= runs[c.run].fetched
        /\ (runs[c.run].fatal \/ \E v \in Workers : At(wk[v], c.run))
    BY <2>1 DEF Explained
  <2>3. /\ runs'[c.run] = runs[c.run] /\ c.run \in 1..Len(runs')
        /\ \A v \in Workers : At(wk[v], c.run) => At(wk'[v], c.run)
    BY <1>2, <1>3, <2>2
  <2> QED
    BY <2>2, <2>3 DEF Explained
<1>5. wk'[w] = d /\ \A v \in Workers : v # w => wk'[v] = wk[v]
  BY <1>1 DEF RowsInv, Updated
<1>6. ASSUME NEW x \in Sources, crawl'[x] # None
      PROVE  /\ crawl'[x] \in [total : Nat, page : Nat]
             /\ \E v \in Workers : wk'[v].pc # "idle" /\ runs'[wk'[v].run].source = x
  <2>1. CASE crawl'[x] = crawl[x]
    <3>1. crawl[x] \in [total : Nat, page : Nat]
          /\ \E v \in Workers : wk[v].pc # "idle" /\ runs[wk[v].run].source = x
      BY <1>1, <1>6, <2>1 DEF CrawlInv
    <3>2. PICK v \in Workers : wk[v].pc # "idle" /\ runs[wk[v].run].source = x
      BY <3>1
    <3>3. v # w /\ wk'[v] = wk[v]
      BY <1>5, <3>2
    <3>4. wk[v].run \in 1..Len(runs)
      BY <1>1, <1>3, <3>2 DEF RowsInv, SoundWork
    <3>5. runs'[wk'[v].run].source = x /\ wk'[v].pc # "idle"
      BY <1>2, <3>2, <3>3, <3>4
    <3> QED
      BY <2>1, <3>1, <3>5
  <2>2. CASE x = s /\ crawl'[s] # crawl[s]
    BY <1>5, <2>2
  <2> QED
    BY <2>1, <2>2
<1> QED
  BY <1>1, <1>2, <1>4, <1>6 DEF CheckpointInv, CrawlInv, OverSources

LEMMA NewRunSound ==
    ASSUME NEW s \in Sources, NEW r, r = Ingest!NewRun(s, FALSE) \/ r = Ingest!NewRun(s, TRUE)
    PROVE  /\ r \in Ingest!Runs /\ SoundRun(r) /\ r.status = "running" /\ r.source = s
           /\ r.fetched = 0 /\ r.persisted = 0 /\ r.skipped = 0 /\ r.errs = 0
           /\ r.parsed = 0 /\ r.errcount = 0 /\ r.unparsed = 0
           /\ (r = Ingest!NewRun(s, FALSE) => ~r.replay)
           /\ (r = Ingest!NewRun(s, TRUE) => r.replay)
<1>1. /\ r \in Ingest!Runs /\ r.status = "running" /\ r.source = s
      /\ r.fetched = 0 /\ r.persisted = 0 /\ r.skipped = 0 /\ r.errs = 0
      /\ r.parsed = 0 /\ r.errcount = 0 /\ r.unparsed = 0
  <2>1. CASE r = Ingest!NewRun(s, FALSE)
    BY <2>1 DEF Ingest!NewRun, Ingest!Runs, Ingest!Statuses
  <2>2. CASE r = Ingest!NewRun(s, TRUE)
    BY <2>2 DEF Ingest!NewRun, Ingest!Runs, Ingest!Statuses
  <2> QED
    BY <2>1, <2>2
<1>2. Ingest!NewRun(s, FALSE).replay = FALSE /\ Ingest!NewRun(s, TRUE).replay = TRUE
  BY Zenon DEF Ingest!NewRun
<1> QED
  BY <1>1, <1>2 DEF SoundRun

LEMMA StartInv ==
    ASSUME IngestInv, NEW w \in Workers, NEW s \in Sources, Ingest!Start(w, s)
    PROVE  IngestInv'
<1>1. wk[w].pc = "idle" /\ UNCHANGED <<active, schedule, checkpoint, health, retries>>
  BY DEF Ingest!Start
<1>2. PICK r, d : /\ r = Ingest!NewRun(s, FALSE)
                  /\ d = [Ingest!Idle EXCEPT !.pc = "fetch", !.run = Len(runs) + 1]
  OBVIOUS
<1>3. /\ RowsInv(runs, wk) /\ CrawlInv(crawl, runs, wk) /\ runs \in Seq(Ingest!Runs)
      /\ Len(runs) \in Nat
  BY RowsAreRuns DEF IngestInv, RowsInv
<1>4. /\ r \in Ingest!Runs /\ SoundRun(r) /\ r.status = "running" /\ r.source = s
      /\ r.fetched = 0 /\ r.persisted = 0 /\ r.skipped = 0 /\ r.errs = 0
      /\ r.parsed = 0 /\ r.errcount = 0 /\ r.unparsed = 0 /\ ~r.replay
  BY <1>2, NewRunSound
<1>5. /\ d \in Calls /\ d.pc = "fetch" /\ d.run = Len(runs) + 1 /\ d.outer = 0 /\ d.left = 0
      /\ d.persisted = 0 /\ d.skipped = 0 /\ d.errors = 0 /\ d.todo = 0 /\ d.parsed = 0
      /\ d.batch = 0 /\ ~d.dead
  <2>1. PICK idle : idle = Ingest!Idle
    OBVIOUS
  <2>2. /\ idle \in Calls /\ idle.outer = 0 /\ idle.left = 0 /\ idle.persisted = 0
        /\ idle.skipped = 0 /\ idle.errors = 0 /\ idle.todo = 0 /\ idle.parsed = 0
        /\ idle.batch = 0 /\ ~idle.dead
    BY <2>1 DEF Calls, Ingest!Idle
  <2>3. PICK n \in Nat : n = Len(runs) + 1
    BY <1>3
  <2>4. d = [idle EXCEPT !.pc = "fetch", !.run = n]
    BY <1>2, <2>1, <2>3
  <2> QED
    BY <2>2, <2>3, <2>4 DEF Calls
<1>6. /\ runs' = Append(runs, r)
      /\ wk' = Updated(wk, w, d)
      /\ crawl' = [crawl EXCEPT ![s] = [total |-> 0, page |-> 0]]
  BY <1>2 DEF Ingest!Start, Updated
<1>7. runs' = runs \o <<r>> /\ runs' \in Seq(Ingest!Runs) /\ Len(runs') = Len(runs) + 1
      /\ runs'[Len(runs) + 1] = r /\ DOMAIN runs' = 1..Len(runs) + 1
  BY <1>3, <1>4, <1>6, AppendProperties, AppendIsConcat, LenProperties
<1>8. <<r>> \in Seq(Ingest!Runs) /\ Len(<<r>>) = 1 /\ <<r>>[1] = r
  BY <1>4
<1>9. SoundWork(d, runs')
  <2>1. Accounts(d, r)
    BY <1>4, <1>5 DEF Accounts
  <2> QED
    BY <1>3, <1>4, <1>5, <1>7, <2>1 DEF SoundWork
<1>11. Opens(d, <<r>>, Len(runs))
  <2>1. At(d, Len(runs) + 1) /\ \A i \in 1..Len(runs) : ~At(d, i)
    BY <1>3, <1>5 DEF At
  <2> QED
    BY <1>4, <1>8, <2>1 DEF Opens
<1>12. /\ OverSources(crawl')
       /\ \A x \in Sources : x # s => crawl'[x] = crawl[x]
       /\ crawl'[s] \in [total : Nat, page : Nat]
  <2>1. crawl'[s] = [total |-> 0, page |-> 0]
    BY <1>3, <1>6 DEF CrawlInv
  <2> QED
    BY <1>3, <1>6, <2>1 DEF CrawlInv, OverSources
<1>13. d.pc # "idle" /\ runs'[d.run].source = s
  BY <1>4, <1>5, <1>7
<1>14. /\ RowsInv(runs', wk')
       /\ CheckpointInv(checkpoint', runs', wk')
       /\ CrawlInv(crawl', runs', wk')
  BY <1>1, <1>5, <1>6, <1>7, <1>8, <1>9, <1>11, <1>12, <1>13, CallStarts
<1> QED
  BY <1>1, <1>14 DEF IngestInv, SideInv

LEMMA ReplayInv ==
    ASSUME IngestInv, NEW w \in Workers, NEW s \in Sources, Ingest!Replay(w, s)
    PROVE  IngestInv'
<1>1. wk[w].pc = "idle" /\ UNCHANGED <<active, schedule, checkpoint, health, retries>>
  BY DEF Ingest!Replay
<1>2. PICK q, r, d : /\ q = Ingest!NewRun(s, TRUE) /\ r = Ingest!NewRun(s, FALSE)
                     /\ d = [Ingest!Idle EXCEPT !.pc = "fetch", !.run = Len(runs) + 2,
                                                !.outer = Len(runs) + 1]
  OBVIOUS
<1>3. /\ RowsInv(runs, wk) /\ CrawlInv(crawl, runs, wk) /\ runs \in Seq(Ingest!Runs)
      /\ Len(runs) \in Nat
  BY RowsAreRuns DEF IngestInv, RowsInv
<1>4. /\ r \in Ingest!Runs /\ SoundRun(r) /\ r.status = "running" /\ r.source = s
      /\ r.fetched = 0 /\ r.persisted = 0 /\ r.skipped = 0 /\ r.errs = 0
      /\ r.parsed = 0 /\ r.errcount = 0 /\ r.unparsed = 0 /\ ~r.replay
  BY <1>2, NewRunSound
<1>10. q \in Ingest!Runs /\ SoundRun(q) /\ q.status = "running" /\ q.source = s /\ q.replay
  BY <1>2, NewRunSound
<1>5. /\ d \in Calls /\ d.pc = "fetch" /\ d.run = Len(runs) + 2 /\ d.outer = Len(runs) + 1
      /\ d.left = 0 /\ d.persisted = 0 /\ d.skipped = 0 /\ d.errors = 0 /\ d.todo = 0
      /\ d.parsed = 0 /\ d.batch = 0 /\ ~d.dead
  <2>1. PICK idle : idle = Ingest!Idle
    OBVIOUS
  <2>2. /\ idle \in Calls /\ idle.left = 0 /\ idle.persisted = 0
        /\ idle.skipped = 0 /\ idle.errors = 0 /\ idle.todo = 0 /\ idle.parsed = 0
        /\ idle.batch = 0 /\ ~idle.dead
    BY <2>1 DEF Calls, Ingest!Idle
  <2>3. PICK n \in Nat : n = Len(runs) + 2
    BY <1>3
  <2>4. PICK m \in Nat : m = Len(runs) + 1
    BY <1>3
  <2>5. d = [idle EXCEPT !.pc = "fetch", !.run = n, !.outer = m]
    BY <1>2, <2>1, <2>3, <2>4
  <2> QED
    BY <2>2, <2>3, <2>4, <2>5 DEF Calls
<1>6. /\ runs' = runs \o <<q, r>>
      /\ wk' = Updated(wk, w, d)
      /\ crawl' = [crawl EXCEPT ![s] = [total |-> 0, page |-> 0]]
  BY <1>2 DEF Ingest!Replay, Updated
<1>8. <<q, r>> \in Seq(Ingest!Runs) /\ Len(<<q, r>>) = 2 /\ <<q, r>>[1] = q /\ <<q, r>>[2] = r
  BY <1>4, <1>10
<1>7. runs' \in Seq(Ingest!Runs) /\ DOMAIN runs' = 1..Len(runs) + 2
      /\ runs'[Len(runs) + 1] = q /\ runs'[Len(runs) + 2] = r
  <2>1. /\ runs' \in Seq(Ingest!Runs) /\ Len(runs') = Len(runs) + 2
        /\ \A i \in 1..Len(runs) + 2 :
            runs'[i] = IF i <= Len(runs) THEN runs[i] ELSE <<q, r>>[i - Len(runs)]
    BY <1>3, <1>6, <1>8, ConcatProperties
  <2>2. /\ Len(runs) + 1 \in 1..Len(runs) + 2 /\ ~(Len(runs) + 1 <= Len(runs))
        /\ Len(runs) + 1 - Len(runs) = 1
        /\ Len(runs) + 2 \in 1..Len(runs) + 2 /\ ~(Len(runs) + 2 <= Len(runs))
        /\ Len(runs) + 2 - Len(runs) = 2
    BY <1>3
  <2>3. DOMAIN runs' = 1..Len(runs) + 2
    BY <2>1, LenProperties
  <2> QED
    BY <1>8, <2>1, <2>2, <2>3
<1>9. SoundWork(d, runs')
  <2>1. Accounts(d, r)
    BY <1>4, <1>5 DEF Accounts
  <2>2. d.run \in DOMAIN runs' /\ d.outer \in DOMAIN runs' /\ d.outer # d.run
    BY <1>3, <1>5, <1>7
  <2>3. runs'[d.run] = r /\ runs'[d.outer] = q
    BY <1>5, <1>7
  <2> QED
    BY <1>4, <1>5, <1>10, <2>1, <2>2, <2>3 DEF SoundWork
<1>11. Opens(d, <<q, r>>, Len(runs))
  <2>1. At(d, Len(runs) + 1) /\ At(d, Len(runs) + 2) /\ \A i \in 1..Len(runs) : ~At(d, i)
    BY <1>3, <1>5 DEF At
  <2>2. ASSUME NEW i \in 1..Len(<<q, r>>)
        PROVE  SoundRun(<<q, r>>[i])
               /\ (<<q, r>>[i].status = "running" => At(d, Len(runs) + i))
    <3>1. i = 1 \/ i = 2
      BY <1>8
    <3> QED
      BY <1>4, <1>8, <1>10, <2>1, <3>1
  <2> QED
    BY <2>1, <2>2 DEF Opens
<1>12. /\ OverSources(crawl')
       /\ \A x \in Sources : x # s => crawl'[x] = crawl[x]
       /\ crawl'[s] \in [total : Nat, page : Nat]
  <2>1. crawl'[s] = [total |-> 0, page |-> 0]
    BY <1>3, <1>6 DEF CrawlInv
  <2> QED
    BY <1>3, <1>6, <2>1 DEF CrawlInv, OverSources
<1>13. d.pc # "idle" /\ runs'[d.run].source = s
  BY <1>4, <1>5, <1>7
<1>14. /\ RowsInv(runs', wk')
       /\ CheckpointInv(checkpoint', runs', wk')
       /\ CrawlInv(crawl', runs', wk')
  BY <1>1, <1>5, <1>6, <1>8, <1>9, <1>11, <1>12, <1>13, CallStarts
<1> QED
  BY <1>1, <1>14 DEF IngestInv, SideInv

LEMMA ReplayRefusedInv ==
    ASSUME IngestInv, NEW w \in Workers, NEW s \in Sources, Ingest!ReplayRefused(w, s)
    PROVE  IngestInv'
<1>1. /\ wk[w].pc = "idle"
      /\ UNCHANGED <<active, schedule, checkpoint, crawl, health, retries, wk>>
  BY DEF Ingest!ReplayRefused
<1>2. PICK new : new = Ingest!NewRun(s, TRUE)
  OBVIOUS
<1>3. PICK r : r = [new EXCEPT !.status = "failed", !.errs = 1, !.errcount = 1, !.fatal = TRUE]
  OBVIOUS
<1>4. SoundRun(r) /\ r \in Ingest!Runs /\ r.status = "failed"
  <2>1. new \in Ingest!Runs
    BY <1>2, NewRunSound
  <2>2. r \in Ingest!Runs /\ r.status = "failed" /\ r.fatal
    BY <1>3, <2>1 DEF Ingest!Runs, Ingest!Statuses
  <2> QED
    BY <2>2 DEF SoundRun
<1>5. /\ RowsInv(runs, wk) /\ CrawlInv(crawl, runs, wk) /\ runs \in Seq(Ingest!Runs)
      /\ Len(runs) \in Nat
  BY RowsAreRuns DEF IngestInv, RowsInv
<1>6. runs' = Append(runs, r)
  BY <1>2, <1>3 DEF Ingest!ReplayRefused
<1>7. runs' = runs \o <<r>>
  BY <1>4, <1>5, <1>6, AppendIsConcat
<1>8. <<r>> \in Seq(Ingest!Runs) /\ Len(<<r>>) = 1 /\ <<r>>[1] = r
  BY <1>4
<1>9. wk[w] \in Calls /\ wk' = Updated(wk, w, wk[w]) /\ SoundWork(wk[w], runs')
  <2>1. wk[w] \in Calls
    BY <1>5 DEF RowsInv, SoundWork
  <2>2. wk' = Updated(wk, w, wk[w])
    BY <1>1, <1>5 DEF RowsInv, Updated
  <2> QED
    BY <1>1, <2>1, <2>2 DEF SoundWork
<1>10. Opens(wk[w], <<r>>, Len(runs))
  BY <1>1, <1>4, <1>8 DEF Opens, At
<1>11. OverSources(crawl') /\ \A x \in Sources : crawl'[x] = crawl[x]
  BY <1>1, <1>5 DEF CrawlInv, OverSources
<1>12. /\ RowsInv(runs', wk')
       /\ CheckpointInv(checkpoint', runs', wk')
       /\ CrawlInv(crawl', runs', wk')
  BY <1>1, <1>7, <1>8, <1>9, <1>10, <1>11, CallStarts
<1> QED
  BY <1>1, <1>12 DEF IngestInv, SideInv

\* The retry queue, the schedule, health and the switches leave the calls alone.
LEMMA AroundInv ==
    ASSUME IngestInv,
           \/ \E i \in DOMAIN runs : Ingest!Enqueue(i)
           \/ Ingest!DequeueDue \/ Ingest!Elapse
           \/ \E s \in Sources : Ingest!SetActive(s) \/ Ingest!SetEnabled(s) \/ Ingest!Refresh(s)
    PROVE  IngestInv'
<1> USE DEF IngestInv
<1>1. ASSUME UNCHANGED <<checkpoint, crawl, runs, wk>>, SideInv' PROVE IngestInv'
  BY <1>1
<1>2. ASSUME NEW i \in DOMAIN runs, Ingest!Enqueue(i) PROVE IngestInv'
  <2>1. Ingest!Attempts(<<runs[i].source, i>>) \in Nat
    BY DEF SideInv, Ingest!Attempts
  <2>2. SideInv'
    BY <1>2, <2>1 DEF SideInv, Ingest!Enqueue
  <2> QED
    BY <1>1, <1>2, <2>2 DEF Ingest!Enqueue
<1>3. CASE Ingest!DequeueDue
  <2>1. SideInv'
    BY <1>3 DEF SideInv, Ingest!DequeueDue
  <2> QED
    BY <1>1, <1>3, <2>1 DEF Ingest!DequeueDue
<1>4. CASE Ingest!Elapse
  <2>1. SideInv'
    <3>1. ASSUME NEW s \in Sources, schedule' = [schedule EXCEPT ![s].due = TRUE]
          PROVE  schedule' \in [Sources -> [enabled : BOOLEAN, due : BOOLEAN]]
      BY <3>1 DEF SideInv
    <3>2. ASSUME NEW k \in DOMAIN retries, retries' = [retries EXCEPT ![k].due = TRUE]
          PROVE  \A x \in DOMAIN retries' : retries'[x] \in [attempt : Nat, due : BOOLEAN]
      BY <3>2 DEF SideInv
    <3> QED
      BY <1>4, <3>1, <3>2 DEF SideInv, Ingest!Elapse
  <2> QED
    BY <1>1, <1>4, <2>1 DEF Ingest!Elapse
<1>5. ASSUME NEW s \in Sources, Ingest!SetActive(s) \/ Ingest!SetEnabled(s) PROVE IngestInv'
  <2>1. SideInv'
    <3>1. CASE Ingest!SetActive(s)
      <4>1. active' \in [Sources -> BOOLEAN]
        BY <3>1, Zenon DEF SideInv, Ingest!SetActive
      <4> QED
        BY <3>1, <4>1 DEF SideInv, Ingest!SetActive
    <3>2. CASE Ingest!SetEnabled(s)
      <4>1. schedule' \in [Sources -> [enabled : BOOLEAN, due : BOOLEAN]]
        BY <3>2 DEF SideInv, Ingest!SetEnabled
      <4> QED
        BY <3>2, <4>1 DEF SideInv, Ingest!SetEnabled
    <3> QED
      BY <1>5, <3>1, <3>2
  <2> QED
    BY <1>1, <1>5, <2>1 DEF Ingest!SetActive, Ingest!SetEnabled
<1>6. ASSUME NEW s \in Sources, Ingest!Refresh(s) PROVE IngestInv'
  <2> DEFINE mine == {i \in DOMAIN runs : /\ runs[i].source = s
                                         /\ runs[i].status # "running" /\ runs[i].kept}
  <2>1. PICK n : n = Ingest!Cardinality(mine)
    OBVIOUS
  <2>2. n \in Nat
    <3>1. Ingest!Cardinality(mine) = Cardinality(mine)
      BY DEF Ingest!Cardinality, Cardinality
    <3>2. 1 \in Int /\ Len(runs) \in Int /\ DOMAIN runs = 1..Len(runs)
      BY RowsAreRuns
    <3>3. IsFiniteSet(1..Len(runs)) /\ mine \in SUBSET (1..Len(runs))
      BY <3>2, FS_Interval
    <3> QED
      BY <2>1, <3>1, <3>3, FS_Subset, FS_CardinalityType
  <2>3. SoundHealth([consecutive |-> n, total |-> n, success |-> 0, failure |-> n])
    BY <2>2 DEF SoundHealth
  <2>4. health' = [health EXCEPT ![s] =
                [consecutive |-> n, total |-> n, success |-> 0, failure |-> n]]
    BY <1>6, <2>1 DEF Ingest!Refresh
  <2>5. SideInv'
    BY <1>6, <2>3, <2>4 DEF SideInv, Ingest!Refresh
  <2> QED
    BY <1>1, <1>6, <2>5 DEF Ingest!Refresh
<1> QED
  BY <1>2, <1>3, <1>4, <1>5, <1>6

LEMMA RestartInv == ASSUME IngestInv, Ingest!Restart PROVE IngestInv'
<1>1. /\ UNCHANGED <<active, runs, wk>> /\ retries' = <<>>
      /\ schedule' = [s \in Sources |-> [enabled |-> TRUE, due |-> TRUE]]
      /\ checkpoint' = [s \in Sources |-> None]
      /\ crawl' = [s \in Sources |-> None]
      /\ health' = [s \in Sources |-> Ingest!NoHealth]
  BY DEF Ingest!Restart
<1>2. SoundHealth(Ingest!NoHealth)
  BY DEF SoundHealth, Ingest!NoHealth
<1>3. SideInv'
  BY <1>1, <1>2 DEF IngestInv, SideInv
<1>4. RowsInv(runs', wk')
  BY <1>1 DEF IngestInv
<1>5. CheckpointInv(checkpoint', runs', wk') /\ CrawlInv(crawl', runs', wk')
  BY <1>1 DEF CheckpointInv, CrawlInv
<1> QED
  BY <1>3, <1>4, <1>5 DEF IngestInv

LEMMA IngestInit == Ingest!Init => IngestInv
<1> SUFFICES ASSUME Ingest!Init PROVE IngestInv
  OBVIOUS
<1> USE DEF Ingest!Init
<1>1. SoundHealth(Ingest!NoHealth)
  BY DEF SoundHealth, Ingest!NoHealth
<1>2. SideInv
  BY <1>1 DEF SideInv
<1>3. Ingest!Idle \in Calls /\ Ingest!Idle.pc = "idle"
  BY DEF Calls, Ingest!Idle
<1>4. runs \in Seq(Ingest!Runs) /\ Len(runs) = 0
  BY EmptySeq
<1>5. RowsInv(runs, wk)
  BY <1>3, <1>4 DEF RowsInv, SoundWork
<1>6. CheckpointInv(checkpoint, runs, wk) /\ CrawlInv(crawl, runs, wk)
  BY DEF CheckpointInv, CrawlInv
<1> QED
  BY <1>2, <1>5, <1>6 DEF IngestInv

LEMMA IngestStepInv == ASSUME IngestInv, [Ingest!Next]_ingestVars PROVE IngestInv'
<1>1. CASE UNCHANGED ingestVars
  BY <1>1 DEF ingestVars, IngestInv, SideInv
<1>2. ASSUME NEW w \in Workers, NEW s \in Sources,
             Ingest!Start(w, s) \/ Ingest!Replay(w, s) \/ Ingest!ReplayRefused(w, s)
      PROVE  IngestInv'
  BY <1>2, StartInv, ReplayInv, ReplayRefusedInv
<1>3. ASSUME NEW w \in Workers, Ingest!Work(w) PROVE IngestInv'
  <2>1. CASE Ingest!FetchFails(w)
    BY <2>1, FatalInv DEF Ingest!FetchFails
  <2>2. CASE Ingest!ParseFails(w)
    BY <2>2, ParseFailsInv
  <2>3. CASE Ingest!Finish(w)
    BY <2>3, FinishInv
  <2>4. ASSUME NEW n \in 0..MaxFetched, Ingest!Fetched(w, n) PROVE IngestInv'
    BY <2>4, FetchedInv
  <2>5. ASSUME NEW n \in 0..MaxParsed, Ingest!Parse(w, n) PROVE IngestInv'
    BY <2>5, ParseInv
  <2>6. ASSUME NEW o \in Ingest!Outcomes, Ingest!Record(w, o) PROVE IngestInv'
    BY <2>6, RecordInv
  <2>7. CASE Ingest!RawDone(w)
    BY <2>7, RawDoneInv
  <2>8. CASE Ingest!AdvanceFails(w)
    BY <2>8, AdvanceFailsInv
  <2> QED
    BY <1>3, <2>1, <2>2, <2>3, <2>4, <2>5, <2>6, <2>7, <2>8 DEF Ingest!Work
<1>4. CASE Ingest!Restart
  BY <1>4, RestartInv
<1> QED
  BY <1>1, <1>2, <1>3, <1>4, AroundInv DEF Ingest!Next

\* What the parts of the invariant say of a run, a checkpoint and a crawl state.
LEMMA RunsSafe == ASSUME IngestInv PROVE Ingest!CountsBalance
<1>1. /\ RowsInv(runs, wk) /\ Len(runs) \in Nat /\ DOMAIN runs = 1..Len(runs)
  BY RowsAreRuns DEF IngestInv
<1>2. \A i \in DOMAIN runs, w \in Workers : w \in Ingest!OnRun(i) <=> At(wk[w], i)
  BY DEF Ingest!OnRun, At
<1>3. ASSUME NEW i \in DOMAIN runs, NEW w \in Workers, At(wk[w], i)
      PROVE  runs[i].status = "running"
  <2>1. i # 0
    BY <1>1
  <2> QED
    BY <1>1, <1>3, <2>1 DEF RowsInv, SoundWork, At
<1>4. ASSUME NEW i \in DOMAIN runs
      PROVE  runs[i].status = "running" <=> Ingest!OnRun(i) # {}
  <2>1. runs[i].status = "running" => \E w \in Workers : At(wk[w], i)
    BY <1>1 DEF RowsInv
  <2>2. Ingest!OnRun(i) \subseteq Workers
    BY DEF Ingest!OnRun
  <2> QED
    BY <1>2, <1>3, <2>1, <2>2
<1> QED
  BY <1>1, <1>4 DEF RowsInv, SoundRun, Balanced, Ingest!CountsBalance

\* However workers, replays, retries and restarts interleave over a source, a closed run
\* accounts for its records, checkpoints and crawl states explain themselves, and the
\* health counters add up.
THEOREM RunsAccountedFor == Spec => []RuntimeSafe
<1>1. Init => IngestInv
  BY IngestInit DEF Init
<1>2. IngestInv /\ [Next]_vars => IngestInv'
  BY IngestStepInv DEF Next, IngestStep, MemoryStep, PipelineStep, VaultStep, StoreStep, RaceStep,
     vars, ingestVars
<1>3. IngestInv => RuntimeSafe
  <2> SUFFICES ASSUME IngestInv PROVE RuntimeSafe
    OBVIOUS
  <2>1. Ingest!TypeOK
    <3>1. checkpoint \in [Sources -> [run : Nat, offset : Nat] \cup {None}]
      BY DEF IngestInv, CheckpointInv, Explained
    <3>2. crawl \in [Sources -> [total : Nat, page : Nat] \cup {None}]
      BY DEF IngestInv, CrawlInv
    <3>3. health \in [Sources -> [consecutive : Nat, total : Nat, success : Nat, failure : Nat]]
      BY DEF IngestInv, SideInv, SoundHealth
    <3> QED
      BY <3>1, <3>2, <3>3 DEF IngestInv, SideInv, RowsInv, Ingest!TypeOK
  <2>2. Ingest!CountsBalance
    BY RunsSafe
  <2>3. Ingest!CheckpointExplained
    <3>1. Len(runs) \in Nat /\ DOMAIN runs = 1..Len(runs)
      BY RowsAreRuns DEF IngestInv
    <3>2. \A i \in DOMAIN runs, w \in Workers : At(wk[w], i) => w \in Ingest!OnRun(i)
      BY DEF Ingest!OnRun, At
    <3>3. ASSUME NEW s \in Sources, checkpoint[s] # None
          PROVE  /\ checkpoint[s].run \in DOMAIN runs
                 /\ runs[checkpoint[s].run].fatal \/ Ingest!OnRun(checkpoint[s].run) # {}
                 /\ checkpoint[s].offset <= runs[checkpoint[s].run].fetched
      <4>1. Explained(s, checkpoint[s], runs, wk)
        BY <3>3 DEF IngestInv, CheckpointInv
      <4> QED
        BY <3>1, <3>2, <4>1 DEF Explained
    <3> QED
      BY <3>3 DEF Ingest!CheckpointExplained
  <2>4. Ingest!CrawlOwned
    BY DEF IngestInv, CrawlInv, Ingest!CrawlOwned, Ingest!Src
  <2>5. Ingest!HealthAdds
    BY DEF IngestInv, SideInv, SoundHealth, Ingest!HealthAdds
  <2> QED
    BY <2>1, <2>2, <2>3, <2>4, <2>5 DEF RuntimeSafe, Ingest!RuntimeSafe
<1> QED
  BY <1>1, <1>2, <1>3, PTL DEF Spec

--------------------------------------------------------------------------------
(* One claim row under any number of overlapping rebuild and reject sessions  *)
(* (ClaimRowRace).                                                            *)

\* InactiveIsAudited alone is not inductive: a session that assigns the reason
\* it already read writes no reason, so the one in the row must be audited
\* too.  Hence every reason in the row is audited, whether it is active or not,
\* and a row never loses its reason once some session has read one.
RowAudited ==
    claim # None =>
        /\ claim.reason \in audited \cup {None}
        /\ claim.active \/ claim.reason # None

CopiesAreOlder ==
    \A t \in Race!Sessions : loaded[t] # None =>
        /\ claim # None
        /\ loaded[t].reason # None => claim.reason # None

Intended ==
    \A t \in Race!Sessions : wants[t] # None =>
        IF wants[t].active
        THEN wants[t].reason = IF loaded[t] = None THEN None ELSE loaded[t].reason
        ELSE loaded[t] # None /\ wants[t].reason \in Reasons

RaceInv == Race!TypeOK /\ RowAudited /\ CopiesAreOlder /\ Intended

\* Initially there is no row and no session has read anything.
LEMMA RaceInit == Race!Init => RaceInv
  BY DEF Race!Init, RaceInv, Race!TypeOK, RowAudited, CopiesAreOlder, Intended

\* A step keeps the types.  An update writes over the row, so the row must
\* exist for every session that read one.
LEMMA RaceTypesKept ==
    ASSUME RaceInv, [Race!Next]_raceVars PROVE Race!TypeOK'
<1>a. /\ Rebuilds \cap Rejects = {} /\ HardReasons \subseteq Reasons
      /\ StaleRebuild \in Reasons /\ None \notin Reasons /\ None \notin Race!Rows
  BY RuntimesAssumption DEF Race!RaceAssumption, Race!Rows
<1> USE DEF RaceInv, Race!TypeOK, Race!Rows, Race!Sessions
<1>1. ASSUME NEW t \in Rebuilds, Race!ReadToCreate(t) PROVE Race!TypeOK'
  BY <1>1 DEF Race!ReadToCreate, Race!Read
<1>2. ASSUME NEW t \in Rebuilds, Race!ReadToReactivate(t) PROVE Race!TypeOK'
  BY <1>2 DEF Race!ReadToReactivate, Race!Read
<1>3. ASSUME NEW t \in Rebuilds, Race!ReadToWithdraw(t) PROVE Race!TypeOK'
  BY <1>3, <1>a DEF Race!ReadToWithdraw, Race!Read
<1>4. ASSUME NEW t \in Rejects, NEW r \in Reasons, Race!ReadToInvalidate(t, r)
      PROVE Race!TypeOK'
  BY <1>4 DEF Race!ReadToInvalidate, Race!Read
<1>5. ASSUME NEW t \in Race!Sessions, Race!CommitInsert(t) PROVE Race!TypeOK'
  BY <1>5 DEF Race!CommitInsert, Race!Close
<1>6. ASSUME NEW t \in Race!Sessions, Race!CommitUpdate(t) PROVE Race!TypeOK'
  <2>1. claim \in Race!Rows /\ loaded[t] \in Race!Rows /\ wants[t] \in Race!Rows
    BY <1>6, <1>a DEF Race!CommitUpdate, CopiesAreOlder
  <2>2. Race!Written(t) \in Race!Rows
    BY <2>1 DEF Race!Written
  <2>3. audited' \subseteq Reasons
    BY <1>6, <1>a DEF Race!CommitUpdate, Intended
  <2> QED
    BY <1>6, <1>a, <2>2, <2>3 DEF Race!CommitUpdate, Race!Close
<1>7. ASSUME NEW t \in Race!Sessions, Race!Rollback(t) PROVE Race!TypeOK'
  BY <1>7 DEF Race!Rollback, Race!Close
<1>8. CASE UNCHANGED raceVars
  BY <1>8 DEF raceVars
<1> QED
  BY <1>1, <1>2, <1>3, <1>4, <1>5, <1>6, <1>7, <1>8 DEF Race!Next

\* The invariant is inductive.
LEMMA RaceStepInv ==
    ASSUME RaceInv, [Race!Next]_raceVars PROVE RaceInv'
<1>a. /\ Rebuilds \cap Rejects = {} /\ HardReasons \subseteq Reasons
      /\ StaleRebuild \in Reasons /\ None \notin Reasons /\ None \notin Race!Rows
  BY RuntimesAssumption DEF Race!RaceAssumption, Race!Rows
<1>0. Race!TypeOK /\ Race!TypeOK'
  BY RaceTypesKept DEF RaceInv
<1> USE DEF RaceInv, RowAudited, CopiesAreOlder, Intended
<1> HIDE DEF Race!TypeOK
<1>1. ASSUME NEW t \in Rebuilds, Race!ReadToCreate(t) PROVE RaceInv'
  BY <1>0, <1>1 DEF Race!ReadToCreate, Race!Read, Race!TypeOK, Race!Rows, Race!Sessions
<1>2. ASSUME NEW t \in Rebuilds, Race!ReadToReactivate(t) PROVE RaceInv'
  BY <1>0, <1>2 DEF Race!ReadToReactivate, Race!Read, Race!TypeOK, Race!Rows, Race!Sessions
<1>3. ASSUME NEW t \in Rebuilds, Race!ReadToWithdraw(t) PROVE RaceInv'
  BY <1>0, <1>3, <1>a DEF Race!ReadToWithdraw, Race!Read, Race!TypeOK, Race!Rows, Race!Sessions
<1>4. ASSUME NEW t \in Rejects, NEW r \in Reasons, Race!ReadToInvalidate(t, r)
      PROVE RaceInv'
  BY <1>0, <1>4 DEF Race!ReadToInvalidate, Race!Read, Race!TypeOK, Race!Rows, Race!Sessions
<1>5. ASSUME NEW t \in Race!Sessions, Race!CommitInsert(t) PROVE RaceInv'
  BY <1>0, <1>5 DEF Race!CommitInsert, Race!Close, Race!TypeOK, Race!Rows
<1>6. ASSUME NEW t \in Race!Sessions, Race!CommitUpdate(t) PROVE RaceInv'
  <2>1. /\ claim # None /\ claim \in Race!Rows
        /\ loaded[t] \in Race!Rows /\ wants[t] \in Race!Rows
        /\ claim' = Race!Written(t) /\ claim' \in Race!Rows /\ claim' # None
        /\ audited' = IF wants[t].active THEN audited ELSE audited \cup {wants[t].reason}
    BY <1>0, <1>6, <1>a DEF Race!CommitUpdate, Race!Written, Race!TypeOK, Race!Rows
  <2>2. wants[t] # None /\ loaded[t] # None
    BY <1>6, <1>a DEF Race!CommitUpdate
  <2>3. /\ claim'.reason \in audited' \cup {None}
        /\ claim'.active \/ claim'.reason # None
        /\ claim.reason # None => claim'.reason # None
    BY <1>a, <2>1, <2>2 DEF Race!Written, Race!Rows
  <2>4. /\ loaded' = [loaded EXCEPT ![t] = None]
        /\ wants' = [wants EXCEPT ![t] = None]
    BY <1>6, <1>a DEF Race!CommitUpdate, Race!Close
  <2>5. CopiesAreOlder' /\ Intended'
    BY <1>0, <2>1, <2>3, <2>4 DEF Race!TypeOK
  <2> QED
    BY <1>0, <2>3, <2>5
<1>7. ASSUME NEW t \in Race!Sessions, Race!Rollback(t) PROVE RaceInv'
  BY <1>0, <1>7 DEF Race!Rollback, Race!Close, Race!TypeOK
<1>8. CASE UNCHANGED raceVars
  BY <1>0, <1>8 DEF raceVars
<1> QED
  BY <1>1, <1>2, <1>3, <1>4, <1>5, <1>6, <1>7, <1>8 DEF Race!Next

LEMMA RaceHolds == Spec => []RaceInv
<1>1. Init => RaceInv
  BY RaceInit DEF Init
<1>2. RaceInv /\ [Next]_vars => RaceInv'
  BY RaceStepInv DEF Next, IngestStep, MemoryStep, PipelineStep, VaultStep, StoreStep,
                     RaceStep, vars, raceVars
<1> QED
  BY <1>1, <1>2, PTL DEF Spec

\* The row and the copies of every session are of the declared types, whatever overlaps
\* (memory/rebuild.py, memory/invalidation.py).
THEOREM RaceTypeCorrect == Spec => []Race!TypeOK
<1>1. RaceInv => Race!TypeOK
  BY DEF RaceInv
<1> QED
  BY <1>1, RaceHolds, PTL

\* However many sessions overlap, an inactive claim's reason is audited
\* (invalidation.py writes the MemoryInvalidation row in the same transaction).
THEOREM RaceKeepsAudits == Spec => []RowIsAudited
<1>1. RaceInv => RowIsAudited
  BY DEF RaceInv, RowAudited, RowIsAudited, Race!InactiveIsAudited
<1> QED
  BY <1>1, RaceHolds, PTL
================================================================================
