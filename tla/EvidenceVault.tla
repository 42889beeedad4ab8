----------------------------- MODULE EvidenceVault -----------------------------
(***************************************************************************)
(* VaultRuntime (evidence/runtime): addresses, lifecycle and retention of  *)
(* snapshots in memory.  The three registries are written one after the    *)
(* other, so an exception in between leaves them as they are by then.      *)
(***************************************************************************)
EXTENDS Integers, FiniteSets

CONSTANTS
    Ids,        \* snapshot ids
    Contents,   \* what a snapshot may hold; equal contents have equal hashes
    Tiers,
    Ttl,        \* Tiers -> ticks, Never for the permanent tier
    Never,
    MaxTick     \* bound on the clock

VaultAssumption ==
    /\ Never \notin Nat /\ MaxTick \in Nat
    /\ \A t \in Tiers : Ttl[t] \in Nat \ {0} \/ Ttl[t] = Never

VARIABLES
    tick,
    address,   \* ContentAddresser._registry: ids -> content
    state,     \* SnapshotLifecycle: ids -> state
    schedule   \* RetentionScheduler: ids -> [tier, stored, purged]

vars == <<tick, address, state, schedule>>

States == {"stored", "verified", "expired", "purged"}

\* The dict with one key set.
With(f, k, v) == [x \in DOMAIN f \cup {k} |-> IF x = k THEN v ELSE f[x]]

Init ==
    /\ tick = 0
    /\ address = [x \in {} |-> 0]
    /\ state = [x \in {} |-> "stored"]
    /\ schedule = [x \in {} |-> 0]

\* store_snapshot: pending is left within the call.
Store(i, c, t) ==
    /\ i \notin DOMAIN state
    /\ address' = With(address, i, c)
    /\ state' = With(state, i, "stored")
    /\ schedule' = With(schedule, i, [tier |-> t, stored |-> tick, purged |-> FALSE])
    /\ UNCHANGED tick

\* A known id: the address is replaced, then the lifecycle raises.
StoreRefused(i, c) ==
    /\ i \in DOMAIN state
    /\ address' = With(address, i, c)
    /\ UNCHANGED <<tick, state, schedule>>

\* verify_snapshot compares the content with the hash the caller gives; the registered
\* address is not looked up, and only a stored snapshot moves on.
Verify(i, content, expected) ==
    /\ i \in DOMAIN state
    /\ content = expected
    /\ state[i] = "stored"
    /\ state' = [state EXCEPT ![i] = "verified"]
    /\ UNCHANGED <<tick, address, schedule>>

Expire(i) ==
    /\ i \in DOMAIN state
    /\ state[i] \in {"stored", "verified"}
    /\ state' = [state EXCEPT ![i] = "expired"]
    /\ UNCHANGED <<tick, address, schedule>>

Purged(S) ==
    /\ state' = [i \in DOMAIN state |-> IF i \in S THEN "purged" ELSE state[i]]
    /\ schedule' = [i \in DOMAIN schedule |->
            IF i \in S THEN [schedule[i] EXCEPT !.purged = TRUE] ELSE schedule[i]]
    /\ UNCHANGED <<tick, address>>

Purge(i) == i \in DOMAIN state /\ state[i] = "expired" /\ Purged({i})

\* purge_expired
PurgeExpired ==
    LET expired == {i \in DOMAIN state : state[i] = "expired"} IN
    expired # {} /\ Purged(expired)

Due(i, now) ==
    LET s == schedule[i] IN ~s.purged /\ Ttl[s.tier] # Never /\ now >= s.stored + Ttl[s.tier]

\* Mutant: only stored snapshots expire on time.
AdvanceStored(by) ==
    /\ tick + by <= MaxTick
    /\ tick' = tick + by
    /\ state' = [i \in DOMAIN state |->
            IF state[i] = "stored" /\ Due(i, tick + by) THEN "expired" ELSE state[i]]
    /\ UNCHANGED <<address, schedule>>

\* advance_tick
Advance(by) ==
    /\ tick + by <= MaxTick
    /\ tick' = tick + by
    /\ state' = [i \in DOMAIN state |->
            IF state[i] \in {"stored", "verified"} /\ Due(i, tick + by) THEN "expired"
            ELSE state[i]]
    /\ UNCHANGED <<address, schedule>>

Next ==
    \/ \E i \in Ids, c \in Contents, t \in Tiers : Store(i, c, t)
    \/ \E i \in Ids, c \in Contents : StoreRefused(i, c)
    \/ \E i \in Ids, c, d \in Contents : Verify(i, c, d)
    \/ \E i \in Ids : Expire(i) \/ Purge(i)
    \/ PurgeExpired
    \/ \E by \in 1..2 : Advance(by)

Spec == Init /\ [][Next]_vars

--------------------------------------------------------------------------------
TypeOK ==
    /\ tick \in 0..MaxTick
    /\ \A i \in DOMAIN address : address[i] \in Contents
    /\ \A i \in DOMAIN state : state[i] \in States
    /\ \A i \in DOMAIN schedule : schedule[i] \in [tier : Tiers, stored : Nat, purged : BOOLEAN]

\* The three registries know the same ids, whatever was refused in between, and the
\* schedule is closed exactly for what is purged (vault_runtime.py:103-118, 184-188).
RegistriesAgree ==
    /\ DOMAIN state = DOMAIN schedule /\ DOMAIN state = DOMAIN address
    /\ \A i \in DOMAIN state : schedule[i].purged <=> state[i] = "purged"

\* No live snapshot outlives its tier, however the clock jumps (vault_runtime.py:198-221).
NothingOverdue ==
    \A i \in DOMAIN state : state[i] \in {"stored", "verified"} => ~Due(i, tick)

VaultSafe == TypeOK /\ RegistriesAgree /\ NothingOverdue
================================================================================
