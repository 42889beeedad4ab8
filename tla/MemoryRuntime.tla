----------------------------- MODULE MemoryRuntime -----------------------------
(***************************************************************************)
(* The in-process memory runtime (memory/runtime): the claim lifecycle,    *)
(* the claim cache and the rebuild scheduler behind the facade             *)
(* MemoryRuntime, whose advance_rebuild_cycle ticks all three.             *)
(***************************************************************************)
EXTENDS Integers, Sequences, FiniteSets

CONSTANTS
    Keys,          \* claim keys
    Entities,      \* entity ids, a set of integers
    Priorities,    \* of rebuild requests; a lower number runs first
    StaleAfter, ArchiveAfter,     \* LifecyclePolicy
    MaxEntries, Ttl,              \* CachePolicy, strategy LRU
    MaxRetries, RetryDelay,       \* MemoryRuntimeConfig
    MaxTick        \* bound on the rebuild cycles

MemoryRuntimeAssumption ==
    /\ Entities \subseteq Int /\ Priorities \subseteq Int
    /\ StaleAfter \in Nat \ {0} /\ ArchiveAfter \in Nat \ {0}
    /\ MaxEntries \in Nat \ {0} /\ Ttl \in Nat \ {0}
    /\ MaxRetries \in Nat /\ RetryDelay \in Nat /\ MaxTick \in Nat

VARIABLES
    tick,      \* the cycle count the cache and the scheduler share
    claims,    \* registered keys -> [status, touch, since]
    cache,     \* the dict of entries in insertion order; value: the tick of the last put
    pending,   \* the scheduler's list
    inFlight,  \* entity -> entry
    failed     \* the entries whose retries are used up

vars == <<tick, claims, cache, pending, inFlight, failed>>

Statuses == {"draft", "active", "stale", "invalidated", "archived"}
Allowed == [draft |-> {"active", "invalidated"}, active |-> {"stale", "invalidated"},
            stale |-> {"active", "invalidated", "archived"},
            invalidated |-> {"archived"}, archived |-> {}]

Init ==
    /\ tick = 0
    /\ claims = <<>>
    /\ cache = <<>>
    /\ pending = <<>>
    /\ inFlight = <<>>
    /\ failed = {}

--------------------------------------------------------------------------------
(* The claim lifecycle.                                                       *)

Register(k, status) ==
    /\ k \notin DOMAIN claims
    /\ claims' = [x \in DOMAIN claims \cup {k} |->
            IF x = k THEN [status |-> status, touch |-> 0, since |-> 0] ELSE claims[x]]
    /\ UNCHANGED <<tick, cache, pending, inFlight, failed>>

\* Mutant: an activated claim keeps its count.
TransitionKeepsTouch(k, to) ==
    /\ k \in DOMAIN claims
    /\ to \in Allowed[claims[k].status]
    /\ claims' = [claims EXCEPT ![k].status = to,
                                ![k].since = IF to = "invalidated" THEN 0 ELSE @]
    /\ UNCHANGED <<tick, cache, pending, inFlight, failed>>

\* transition, reactivation allowed; the cache keeps the payload of the claim.
Transition(k, to) ==
    /\ k \in DOMAIN claims
    /\ to \in Allowed[claims[k].status]
    /\ claims' = [claims EXCEPT ![k].status = to,
                                ![k].touch = IF to = "active" THEN 0 ELSE @,
                                ![k].since = IF to = "invalidated" THEN 0 ELSE @]
    /\ UNCHANGED <<tick, cache, pending, inFlight, failed>>

\* One claim over one cycle.
Aged(c) ==
    LET touch == c.touch + 1
        since == IF c.status = "invalidated" THEN c.since + 1 ELSE c.since
    IN [touch  |-> touch,
        since  |-> since,
        status |-> IF c.status = "active" /\ touch >= StaleAfter THEN "stale"
                   ELSE IF c.status = "invalidated" /\ since >= ArchiveAfter THEN "archived"
                   ELSE c.status]

AdvanceCycle ==
    /\ tick < MaxTick
    /\ tick' = tick + 1
    /\ claims' = [k \in DOMAIN claims |-> Aged(claims[k])]
    /\ UNCHANGED <<cache, pending, inFlight, failed>>

--------------------------------------------------------------------------------
(* The claim cache.                                                           *)

Cached(k) == {i \in DOMAIN cache : cache[i].key = k}
Expired(e) == tick - e.inserted >= Ttl
Without(seq, i) == SubSeq(seq, 1, i - 1) \o SubSeq(seq, i + 1, Len(seq))

\* _evict_one: the least recently used, of several the one inserted first.
Victim == CHOOSE i \in DOMAIN cache : \A j \in DOMAIN cache :
            cache[i].accessed < cache[j].accessed
            \/ (cache[i].accessed = cache[j].accessed /\ i <= j)

\* A key that is there keeps its insertion tick, also when it has expired.
Put(k) ==
    /\ cache' =
        IF Cached(k) # {}
        THEN [i \in DOMAIN cache |-> IF cache[i].key = k
                THEN [cache[i] EXCEPT !.value = tick, !.accessed = tick] ELSE cache[i]]
        ELSE Append(IF Len(cache) >= MaxEntries THEN Without(cache, Victim) ELSE cache,
                    [key |-> k, value |-> tick, inserted |-> tick, accessed |-> tick])
    /\ UNCHANGED <<tick, claims, pending, inFlight, failed>>

\* get, on a key that is there; an expired entry is deleted.
Get(k) ==
    \E i \in Cached(k) :
        /\ cache' = IF Expired(cache[i]) THEN Without(cache, i)
                    ELSE [cache EXCEPT ![i].accessed = tick]
        /\ UNCHANGED <<tick, claims, pending, inFlight, failed>>

Evict(k) ==
    \E i \in Cached(k) :
        /\ cache' = Without(cache, i)
        /\ UNCHANGED <<tick, claims, pending, inFlight, failed>>

\* purge_expired: what has not expired stays, in its order.
Purge ==
    LET alive == {i \in DOMAIN cache : ~Expired(cache[i])} IN
    /\ alive # DOMAIN cache
    /\ \E f \in [1..Cardinality(alive) -> alive] :
        /\ \A m, n \in DOMAIN f : m < n => f[m] < f[n]
        /\ cache' = [n \in DOMAIN f |-> cache[f[n]]]
    /\ UNCHANGED <<tick, claims, pending, inFlight, failed>>

--------------------------------------------------------------------------------
(* The rebuild scheduler.                                                     *)

\* The first pending entry of e is promoted; an entry in flight is no reason not to add.
Schedule(e, priority, delay) ==
    LET mine  == {i \in DOMAIN pending : pending[i].entity = e}
        first == CHOOSE i \in mine : \A j \in mine : i <= j
        after == tick + delay
    IN
    /\ pending' =
        IF mine = {}
        THEN Append(pending, [entity |-> e, priority |-> priority,
                              after |-> after, attempt |-> 0])
        ELSE IF priority < pending[first].priority
        THEN [pending EXCEPT ![first].priority = priority,
                             ![first].after = IF after < @ THEN after ELSE @]
        ELSE pending
    /\ UNCHANGED <<tick, claims, cache, inFlight, failed>>

\* The order of min(key=(priority, entity_id)), of equals the first in the list.
Before(i, j) ==
    LET a == pending[i]
        b == pending[j]
    IN \/ a.priority < b.priority
       \/ a.priority = b.priority /\ a.entity < b.entity
       \/ a.priority = b.priority /\ a.entity = b.entity /\ i <= j

\* next_ready: an entry of the same entity already in flight is overwritten.
NextReady ==
    LET ready == {i \in DOMAIN pending : tick >= pending[i].after} IN
    \E i \in ready :
        /\ \A j \in ready : Before(i, j)
        /\ pending' = Without(pending, i)
        /\ inFlight' = [x \in DOMAIN inFlight \cup {pending[i].entity} |->
                            IF x = pending[i].entity THEN pending[i] ELSE inFlight[x]]
        /\ UNCHANGED <<tick, claims, cache, failed>>

Landed(e) == [x \in DOMAIN inFlight \ {e} |-> inFlight[x]]

Complete(e) ==
    /\ e \in DOMAIN inFlight
    /\ inFlight' = Landed(e)
    /\ UNCHANGED <<tick, claims, cache, pending, failed>>

\* fail appends to the list whether or not the entity is pending again.
Fail(e) ==
    /\ e \in DOMAIN inFlight
    /\ inFlight' = Landed(e)
    /\ LET attempt == inFlight[e].attempt + 1
           entry   == [inFlight[e] EXCEPT !.attempt = attempt]
       IN IF attempt <= MaxRetries
          THEN /\ pending' = Append(pending,
                    [entry EXCEPT !.after = tick + RetryDelay * attempt])
               /\ UNCHANGED failed
          ELSE /\ failed' = failed \cup {entry}
               /\ UNCHANGED pending
    /\ UNCHANGED <<tick, claims, cache>>

Next ==
    \/ AdvanceCycle \/ Purge \/ NextReady
    \/ \E k \in Keys : Put(k) \/ Get(k) \/ Evict(k)
    \/ \E k \in Keys, s \in Statuses : Register(k, s) \/ Transition(k, s)
    \/ \E e \in Entities : Complete(e) \/ Fail(e)
    \/ \E e \in Entities, p \in Priorities, d \in 0..1 : Schedule(e, p, d)

Spec == Init /\ [][Next]_vars

--------------------------------------------------------------------------------
Entries == [entity : Entities, priority : Priorities, after : Nat, attempt : 0..(MaxRetries + 1)]

TypeOK ==
    /\ tick \in 0..MaxTick
    /\ DOMAIN claims \subseteq Keys
    /\ \A k \in DOMAIN claims : claims[k] \in [status : Statuses, touch : Nat, since : Nat]
    /\ cache \in Seq([key : Keys, value : Nat, inserted : Nat, accessed : Nat])
    /\ pending \in Seq(Entries)
    /\ DOMAIN inFlight \subseteq Entities
    /\ \A e \in DOMAIN inFlight : inFlight[e] \in Entries
    /\ failed \subseteq Entries

\* No claim stays active past the stale limit or invalidated past the archive limit,
\* however registrations, transitions and cycles interleave
\* (state_machine.py:101-159).
AgesBounded ==
    \A k \in DOMAIN claims :
        /\ claims[k].status = "active" => claims[k].touch < StaleAfter
        /\ claims[k].status = "invalidated" => claims[k].since < ArchiveAfter

\* The cache holds one entry per key, never more than max_entries, and what get may
\* still serve was put less than ttl ticks ago (cache_policy.py:86-125).
CacheBounded ==
    /\ Len(cache) <= MaxEntries
    /\ \A i \in DOMAIN cache :
        /\ Cardinality(Cached(cache[i].key)) = 1
        /\ cache[i].inserted <= cache[i].value /\ cache[i].value <= cache[i].accessed
        /\ ~Expired(cache[i]) => tick - cache[i].value < Ttl

\* Although a running entity may be scheduled again, dispatched again and failed, it has
\* at most two entries, and no entry is tried more often than the retries allow
\* (rebuild_scheduler.py:87-176).
ScheduleBounded ==
    /\ \A e \in Entities :
        Cardinality({i \in DOMAIN pending : pending[i].entity = e})
            + (IF e \in DOMAIN inFlight THEN 1 ELSE 0) <= 2
    /\ \A e \in DOMAIN inFlight : inFlight[e].entity = e
    /\ \A i \in DOMAIN pending : pending[i].attempt <= MaxRetries
    /\ \A x \in failed : x.attempt = MaxRetries + 1

MemorySafe == TypeOK /\ AgesBounded /\ CacheBounded /\ ScheduleBounded
================================================================================
