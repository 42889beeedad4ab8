------------------------------ MODULE EntityMerge ------------------------------
(***************************************************************************)
(* Canonical entities: resolution and creation (graph/graph_resolver.py,   *)
(* services/canonical_resolver.py), merging (graph/graph_merge.py) and     *)
(* the source records that point at them.                                  *)
(***************************************************************************)
EXTENDS Integers, Sequences, FiniteSets

CONSTANTS
    Names,       \* normalised names of one entity_type
    Externals,   \* external ids
    Alike,       \* pairs of names above the fuzzy threshold, symmetric
    Sessions,    \* sessions in progress
    MaxEntities, \* bound on the CanonicalEntity rows
    MaxRecords,  \* bound on the EntitySourceRecord rows
    None

EntityMergeAssumption == None \notin Nat

\* generate_canonical_id: a name's id is told apart from every external id.
Ids == Externals \cup Names \cup {None}

VARIABLES
    entities, \* CanonicalEntity rows: [name, ext, into]; into is merged_into_id, None while active
    records,  \* EntitySourceRecord rows: the entity each one points at
    tx,       \* Sessions -> what an open transaction has decided
    crossed   \* history: a merge took effect towards an entity no longer active

vars == <<entities, records, tx, crossed>>

Idle == [op |-> "idle"]
Active(i) == entities[i].into = None

Init ==
    /\ entities = <<>> /\ records = <<>>
    /\ tx = [s \in Sessions |-> Idle]
    /\ crossed = FALSE

--------------------------------------------------------------------------------
(* Resolution.                                                                *)

WithId(x) == {i \in DOMAIN entities : Active(i) /\ x # None /\ entities[i].ext = x}
Named(n)  == {i \in DOMAIN entities : Active(i) /\ entities[i].name = n}
Near(n)   == {i \in DOMAIN entities : Active(i) /\ <<entities[i].name, n>> \in Alike}

\* Mutant: the name is left to the similarity scan.
ResolvedById(n, x) ==
    IF WithId(x) # {} THEN WithId(x) ELSE IF WithId(n) # {} THEN WithId(n) ELSE Near(n)

\* GraphResolver.resolve: external id, the name's own id, the name, a similar name; the
\* first that finds something, active rows only.
Resolved(n, x) ==
    IF WithId(x) # {} THEN WithId(x)
    ELSE IF WithId(n) # {} THEN WithId(n)
    ELSE IF Named(n) # {} THEN Named(n)
    ELSE Near(n)

\* What the merged_into links lead to from row i.
Followed(rows) == \A k \in rows : ~Active(k) => entities[k].into \in rows
Reached(i) == {j \in DOMAIN entities :
                  \A rows \in SUBSET DOMAIN entities : i \in rows /\ Followed(rows) => j \in rows}

\* The rows resolve_merge_chain looks at before it takes a chain for a cycle.
Hops == 50
Short(i) == Cardinality(Reached(i)) <= Hops

\* resolve_merge_chain: the entity at the end of the merged_into links; None is the
\* ValueError of a cycle, or of a chain too long.
Chain(i) == IF Short(i) /\ \E j \in Reached(i) : Active(j)
            THEN CHOOSE j \in Reached(i) : Active(j) ELSE None

--------------------------------------------------------------------------------
(* GraphResolver.get_or_create and CanonicalResolver.create_canonical_entity.  *)

\* What resolve finds decides; a miss inserts when the transaction ends.
GetOrCreate(s, n, x) ==
    /\ tx[s] = Idle
    /\ Resolved(n, x) = {}
    /\ tx' = [tx EXCEPT ![s] = [op |-> "create", name |-> n, ext |-> IF x = None THEN n ELSE x,
                                linked |-> FALSE, against |-> DOMAIN entities]]
    /\ UNCHANGED <<entities, records, crossed>>

\* create_canonical_entity asks nothing first, and links the source record it came from.
CreateLinked(s, n, x) ==
    /\ tx[s] = Idle
    /\ tx' = [tx EXCEPT ![s] = [op |-> "create", name |-> n, ext |-> x, linked |-> TRUE,
                                against |-> {}]]
    /\ UNCHANGED <<entities, records, crossed>>

Insert(s) ==
    LET d == tx[s] IN
    /\ d.op = "create"
    /\ Len(entities) < MaxEntities /\ (d.linked => Len(records) < MaxRecords)
    /\ entities' = Append(entities, [name |-> d.name, ext |-> d.ext, into |-> None,
                                     unseen |-> DOMAIN entities \ d.against, linked |-> d.linked])
    /\ records' = IF d.linked THEN Append(records, Len(entities) + 1) ELSE records
    /\ tx' = [tx EXCEPT ![s] = Idle]
    /\ UNCHANGED crossed
--------------------------------------------------------------------------------
(* Merging.                                                                   *)

Merges == {s \in Sessions : tx[s].op = "merge"}

\* execute_merge asks the source's status only, never the target's, nor whether they differ.
Execute(s, i, j) ==
    /\ tx[s] = Idle /\ Active(i)
    /\ tx' = [tx EXCEPT ![s] = [op |-> "merge", from |-> {i}, to |-> j, moves |-> {},
                                moved |-> FALSE]]
    /\ UNCHANGED <<entities, records, crossed>>

\* CanonicalResolver.apply_merge: any rows but the target, merged ones too.
Apply(s, from, j) ==
    /\ tx[s] = Idle /\ from # {}
    /\ tx' = [tx EXCEPT ![s] = [op |-> "merge", from |-> from \ {j}, to |-> j, moves |-> {},
                                moved |-> FALSE]]
    /\ UNCHANGED <<entities, records, crossed>>

\* The UPDATE of the source records waits for one that holds the same rows.
Move(s) ==
    LET d    == tx[s]
        mine == {k \in DOMAIN records : records[k] \in d.from}
    IN
    /\ s \in Merges /\ ~d.moved
    /\ \A r \in Merges \ {s} : tx[r].moves \cap mine = {}
    /\ tx' = [tx EXCEPT ![s].moved = TRUE, ![s].moves = mine]
    /\ UNCHANGED <<entities, records, crossed>>

\* The entities are flushed at the commit, by what was read before the wait.
CommitMerge(s) ==
    LET d == tx[s] IN
    /\ s \in Merges /\ d.moved
    /\ entities' = [i \in DOMAIN entities |->
                        IF i \in d.from THEN [entities[i] EXCEPT !.into = d.to] ELSE entities[i]]
    /\ records' = [k \in DOMAIN records |-> IF k \in d.moves THEN d.to ELSE records[k]]
    /\ crossed' = (crossed \/ ~Active(d.to) \/ d.to \in d.from)
    /\ tx' = [tx EXCEPT ![s] = Idle]

\* link_source_record, with an id its caller resolved at any earlier time.
LinkRecord(i) ==
    /\ Len(records) < MaxRecords
    /\ records' = Append(records, i)
    /\ UNCHANGED <<entities, tx, crossed>>

Rollback(s) ==
    /\ tx[s] # Idle
    /\ tx' = [tx EXCEPT ![s] = Idle]
    /\ UNCHANGED <<entities, records, crossed>>

Next ==
    \/ \E s \in Sessions :
        \/ \E n \in Names, x \in Externals \cup {None} : GetOrCreate(s, n, x) \/ CreateLinked(s, n, x)
        \/ \E j \in DOMAIN entities :
            \/ \E i \in DOMAIN entities : Execute(s, i, j)
            \/ \E from \in SUBSET DOMAIN entities : Apply(s, from, j)
        \/ Insert(s) \/ Move(s) \/ CommitMerge(s) \/ Rollback(s)
    \/ \E i \in DOMAIN entities : LinkRecord(i)

Spec == Init /\ [][Next]_vars

--------------------------------------------------------------------------------

TypeOK ==
    /\ \A i \in DOMAIN entities :
        /\ entities[i].name \in Names /\ entities[i].ext \in Ids
        /\ entities[i].into \in {None} \cup DOMAIN entities
    /\ \A k \in DOMAIN records : records[k] \in DOMAIN entities

\* Two active rows of one name come from get_or_create only when the later one's resolution
\* could not see the earlier: no constraint backs the query (graph_resolver.py:108-162).
TwinsRaced ==
    \A i, j \in DOMAIN entities :
        /\ i < j /\ Active(i) /\ Active(j) /\ entities[i].name = entities[j].name
        /\ ~entities[j].linked
        => i \in entities[j].unseen

\* Short of a merge into a row that was merged first, or into itself, every row and every
\* source record still leads to an active entity, however merges overlap, unless more than
\* fifty rows were merged one into the next (graph_merge.py:124-245).
Resolves(i) == Short(i) => Chain(i) # None
ChainsEnd ==
    ~crossed => /\ \A i \in DOMAIN entities : Resolves(i)
                /\ \A k \in DOMAIN records : Resolves(records[k])

MergeSafe == TypeOK /\ TwinsRaced /\ ChainsEnd
================================================================================
