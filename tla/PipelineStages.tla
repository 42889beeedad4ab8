----------------------------- MODULE PipelineStages -----------------------------
(***************************************************************************)
(* The stage pipeline (services/pipeline): threads run registered stages   *)
(* one by one behind a tick-based circuit breaker per stage.               *)
(***************************************************************************)
EXTENDS Integers, Sequences, FiniteSets

CONSTANTS
    Stages, Threads,
    FailureThreshold, RecoveryTicks, HalfOpenSuccesses, \* CircuitBreaker
    Unbounded,   \* a number of ticks no breaker ever counts
    NoStage

PipelineAssumption ==
    /\ FailureThreshold \in Nat \ {0} /\ HalfOpenSuccesses \in Nat \ {0}
    /\ RecoveryTicks \in Nat \ {0}
    /\ Unbounded \in Nat /\ Unbounded >= RecoveryTicks
    /\ NoStage \notin Stages

VARIABLES
    registry,  \* registered stages -> enabled
    breaker,   \* Stages -> CircuitBreaker; quiet: ticks since it last opened (history)
    calls      \* Threads -> the stages still to run and the one running

vars == <<registry, breaker, calls>>

Fresh(quiet) == [state |-> "closed", failures |-> 0, streak |-> 0, open |-> 0,
                 quiet |-> quiet]
Idle == [todo |-> <<>>, running |-> NoStage, after |-> Unbounded]

Init ==
    /\ registry = [s \in Stages |-> TRUE]
    /\ breaker = [s \in Stages |-> Fresh(Unbounded)]
    /\ calls = [t \in Threads |-> Idle]

--------------------------------------------------------------------------------
(* The breaker.                                                               *)

\* Mutant: the ticks of an earlier opening are kept.
OpenedLate(b) == [b EXCEPT !.state = "open", !.streak = 0, !.quiet = 0]

\* _open
Opened(b) == [state |-> "open", failures |-> b.failures, streak |-> 0, open |-> 0, quiet |-> 0]
\* _close
Closed(b) == Fresh(b.quiet)

Succeeded(b) ==
    CASE b.state = "half_open" -> IF b.streak + 1 >= HalfOpenSuccesses THEN Closed(b)
                                  ELSE [b EXCEPT !.streak = @ + 1]
      [] b.state = "closed"    -> [b EXCEPT !.failures = 0]
      [] OTHER                 -> b

Failed(b) ==
    CASE b.state = "half_open" -> Opened(b)
      [] b.state = "closed"    -> IF b.failures + 1 >= FailureThreshold
                                  THEN Opened([b EXCEPT !.failures = @ + 1])
                                  ELSE [b EXCEPT !.failures = @ + 1]
      [] OTHER                 -> b

\* tick; the count of ticks goes on in half_open as _half_open leaves it.
Ticked(b) ==
    LET quiet == IF b.quiet + 1 >= RecoveryTicks THEN Unbounded ELSE b.quiet + 1
        over  == b.open + 1 >= RecoveryTicks
    IN IF b.state # "open" THEN [b EXCEPT !.quiet = quiet]
       ELSE [state |-> IF over THEN "half_open" ELSE "open", failures |-> b.failures,
             streak |-> IF over THEN 0 ELSE b.streak, open |-> b.open + 1, quiet |-> quiet]

Tick(s) ==
    /\ breaker' = [breaker EXCEPT ![s] = Ticked(@)]
    /\ UNCHANGED <<registry, calls>>

Reset(s) ==
    /\ breaker' = [breaker EXCEPT ![s] = Fresh(Unbounded)]
    /\ UNCHANGED <<registry, calls>>

--------------------------------------------------------------------------------
(* The runtime.  An unregistered stage and an open breaker raise, which ends  *)
(* the sequence; run itself does not ask whether the stage is enabled.        *)

\* run_sequence, with any order of the stages.
RunSequence(t, order) ==
    /\ calls[t] = Idle
    /\ calls' = [calls EXCEPT ![t].todo = order]
    /\ UNCHANGED <<registry, breaker>>

\* run: the lookup and the breaker's answer.
Begin(t) ==
    /\ calls[t].running = NoStage /\ calls[t].todo # <<>>
    /\ LET s == Head(calls[t].todo) IN
       calls' = [calls EXCEPT ![t] =
            IF s \in DOMAIN registry /\ breaker[s].state # "open"
            THEN [todo |-> Tail(@.todo), running |-> s, after |-> breaker[s].quiet]
            ELSE Idle]
    /\ UNCHANGED <<registry, breaker>>

\* run's finally: the call reports whatever state the breaker is in by now.
Finish(t, success) ==
    LET s == calls[t].running IN
    /\ s # NoStage
    /\ breaker' = [breaker EXCEPT ![s] = IF success THEN Succeeded(@) ELSE Failed(@)]
    /\ calls' = [calls EXCEPT ![t] = IF success /\ @.todo # <<>>
                    THEN [todo |-> @.todo, running |-> NoStage, after |-> Unbounded] ELSE Idle]
    /\ UNCHANGED registry

Register(s) ==
    /\ s \notin DOMAIN registry
    /\ registry' = [x \in DOMAIN registry \cup {s} |-> IF x = s THEN TRUE ELSE registry[x]]
    /\ UNCHANGED <<breaker, calls>>

Unregister(s) ==
    /\ s \in DOMAIN registry
    /\ registry' = [x \in DOMAIN registry \ {s} |-> registry[x]]
    /\ UNCHANGED <<breaker, calls>>

SetEnabled(s, on) ==
    /\ s \in DOMAIN registry
    /\ registry' = [registry EXCEPT ![s] = on]
    /\ UNCHANGED <<breaker, calls>>

\* run_tagged: the enabled stages, as the registry lists them now.
RunTagged(t, order) ==
    /\ calls[t] = Idle
    /\ calls' = [calls EXCEPT ![t].todo =
            SelectSeq(order, LAMBDA s : s \in DOMAIN registry /\ registry[s])]
    /\ UNCHANGED <<registry, breaker>>

Orders == {o \in [1..Cardinality(Stages) -> Stages] :
            \A i, j \in DOMAIN o : i # j => o[i] # o[j]}

Next ==
    \/ \E s \in Stages : Tick(s) \/ Reset(s) \/ Register(s) \/ Unregister(s)
    \/ \E s \in Stages, on \in BOOLEAN : SetEnabled(s, on)
    \/ \E t \in Threads : Begin(t)
    \/ \E t \in Threads, b \in BOOLEAN : Finish(t, b)
    \/ \E t \in Threads, o \in Orders : RunSequence(t, o) \/ RunTagged(t, o)

Spec == Init /\ [][Next]_vars

--------------------------------------------------------------------------------
TypeOK ==
    /\ DOMAIN registry \subseteq Stages
    /\ \A s \in DOMAIN registry : registry[s] \in BOOLEAN
    /\ \A s \in Stages :
        /\ breaker[s].state \in {"closed", "open", "half_open"}
        /\ breaker[s].failures \in 0..FailureThreshold
        /\ breaker[s].streak \in Nat /\ breaker[s].open \in Nat
    /\ \A t \in Threads : calls[t].running \in Stages \cup {NoStage}

\* A breaker counts below its limits, and no call starts within the recovery time of
\* the last opening, although calls begun before it report their outcome at any time
\* (circuit_breaker.py:38-80, pipeline_runtime.py:84-105).
CoolDownKept ==
    /\ \A s \in Stages :
        /\ breaker[s].state = "closed" => breaker[s].failures < FailureThreshold
        /\ breaker[s].state = "half_open" => breaker[s].streak < HalfOpenSuccesses
        /\ breaker[s].state = "open" => breaker[s].open < RecoveryTicks
    /\ \A t \in Threads : calls[t].running # NoStage => calls[t].after = Unbounded

BreakerSafe == TypeOK /\ CoolDownKept
================================================================================
