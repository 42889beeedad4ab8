------------------------------ MODULE EntityGraph ------------------------------
(***************************************************************************)
(* The entity graph: edges written by the API and by GraphQueryEngine, the *)
(* two path searches and the neighbourhood query over them                 *)
(* (services/graph_queries.py, graph/graph_queries.py).  A search reads    *)
(* the rows of one node at a time, and edges are written in between.       *)
(***************************************************************************)
EXTENDS Integers, Sequences, FiniteSets

CONSTANTS
    Nodes,       \* entities: <<type, id>>
    ValidFroms,  \* values of valid_from
    Depths,      \* depths the callers ask for
    EdgeLimit,   \* rows the engine reads of one node: limit=100
    Enough,      \* paths at which a search stops: 5 in the service, 10 in the engine
    MaxEdges,    \* bound on the edge rows
    None

\* Query(3, ge=1, le=5).  A depth is below the one that stands for a node not visited.
EntityGraphAssumption ==
    /\ ValidFroms \subseteq Nat
    /\ Depths \subseteq 1..5
    /\ EdgeLimit \in Nat \ {0}
    /\ Enough \in [{"service", "engine"} -> Nat \ {0}]

\* "disputed" is written nowhere.
Statuses == {"active", "retracted"}

VARIABLES
    edges,   \* EntityGraphEdge rows in the order of their ids
    search,  \* None or a path search: [by, from, to, depth, queue, met, read, found, quiet]
    nearby   \* None or a neighbourhood query: [node, rounds, depth, frontier, next, seen,
             \* kept, quiet]

vars == <<edges, search, nearby>>

Init == edges = <<>> /\ search = None /\ nearby = None

--------------------------------------------------------------------------------
(* Edges.                                                                     *)

\* The searches ask for no predicate, so one stands for all: edges of two nodes differ in
\* direction or valid_from.
Key(e) == <<e.s, e.o, e.from>>

\* History: an edge was written while the request was at work.
Disturbed(request) == IF request = None THEN None ELSE [request EXCEPT !.quiet = FALSE]

Written == search' = Disturbed(search) /\ nearby' = Disturbed(nearby)

\* create_edge: the unique constraint answers 400; write_edge: the existing row is
\* returned unchanged, whether the check or the constraint finds it.  Every caller leaves
\* the status to its default.
Insert(s, o, from) ==
    LET e == [s |-> s, o |-> o, from |-> from, status |-> "active"] IN
    /\ Len(edges) < MaxEdges
    /\ \A i \in DOMAIN edges : Key(edges[i]) # Key(e)
    /\ edges' = Append(edges, e)
    /\ Written

\* The memory bridge retracts and reactivates edges (memory/memory_graph_bridge.py).
SetStatus(i, status) ==
    /\ edges[i].status # status
    /\ edges' = [edges EXCEPT ![i].status = status]
    /\ Written

\* Active edges at node n.
Touching(n) == {i \in DOMAIN edges : edges[i].status = "active" /\ n \in {edges[i].s, edges[i].o}}

Other(i, n) == IF edges[i].s = n THEN edges[i].o ELSE edges[i].s

\* get_entity_edges of the engine: newest first, and no more than its limit.
Newer(i, k) == edges[i].from > edges[k].from \/ (edges[i].from = edges[k].from /\ i > k)
Newest(n)   == {i \in Touching(n) : Cardinality({k \in Touching(n) : Newer(k, i)}) < EdgeLimit}

--------------------------------------------------------------------------------
(* find_path and find_paths: breadth first, a queue of nodes with the path to them.  *)

\* visited_at_depth.get(key, 999).
Unread == 999

\* The service marks a node it queues (met); the engine remembers the depth at which it
\* has read a node (read).  The other field is history.
Ask(by, n, m, d) ==
    /\ search = None
    /\ search' = [by |-> by, from |-> n, to |-> m, depth |-> d,
                  queue |-> <<[node |-> n, path |-> <<>>]>>, met |-> {n},
                  read |-> [x \in Nodes |-> Unread], found |-> <<>>, quiet |-> TRUE]
    /\ UNCHANGED <<edges, nearby>>

Cur  == Head(search.queue)
Done == search.queue = <<>> \/ Len(search.found) >= Enough[search.by]

\* Mutant: the depth is compared after the next edge is taken.
TooDeepLate == Len(Cur.path) > search.depth

TooDeep == Len(Cur.path) >= search.depth

\* The engine passes over a node it has read.
Passed == TooDeep \/ (search.by = "engine" /\ search.read[Cur.node] <= Len(Cur.path))

\* The sequences that list each element of a set once.
Listed(S) ==
    {q \in [1..Cardinality(S) -> S] :
        \A i \in S : \E j \in DOMAIN q : \A k \in DOMAIN q : q[k] = i <=> k = j}

\* The engine's rows come newest first.
Sorted(q) == \A j, k \in DOMAIN q : j < k => Newer(q[j], q[k])

Longer(at) == [k \in DOMAIN at |-> Append(Cur.path, at[k])]

\* The rows that lead to the target, in the order at, are paths; entries are the nodes to
\* look at later.
Read(at, entries, new) ==
    search' = [search EXCEPT !.queue = Tail(@) \o entries,
                             !.met   = @ \cup new,
                             !.read  = [@ EXCEPT ![Cur.node] = Len(Cur.path)],
                             !.found = @ \o Longer(at)]

Pass ==
    /\ search # None /\ ~Done /\ Passed
    /\ search' = [search EXCEPT !.queue = Tail(@)]
    /\ UNCHANGED <<edges, nearby>>

\* GraphQueryService.find_path: the database returns the rows in any order, and a node not
\* met before enters the queue once, by the first of its rows.
FindPath ==
    /\ search # None /\ ~Done /\ ~Passed /\ search.by = "service"
    /\ LET rows == Touching(Cur.node)
           hits == {i \in rows : Other(i, Cur.node) = search.to}
           new  == {Other(i, Cur.node) : i \in rows} \ (search.met \cup {search.to})
       IN  \E at \in Listed(hits), q \in Listed(new), first \in [new -> rows] :
               /\ \A y \in new : Other(first[y], Cur.node) = y
               /\ Read(at, [k \in DOMAIN q |-> [node |-> q[k],
                                                path |-> Append(Cur.path, first[q[k]])]], new)
    /\ UNCHANGED <<edges, nearby>>

\* GraphQueryEngine.find_paths: every row that does not lead to the target is an entry.
FindPaths ==
    /\ search # None /\ ~Done /\ ~Passed /\ search.by = "engine"
    /\ LET rows == Newest(Cur.node)
           hits == {i \in rows : Other(i, Cur.node) = search.to}
       IN  \E at \in Listed(hits), q \in Listed(rows \ hits) :
               /\ Sorted(at) /\ Sorted(q)
               /\ Read(at, [k \in DOMAIN q |-> [node |-> Other(q[k], Cur.node),
                                                path |-> Append(Cur.path, q[k])]], {})
    /\ UNCHANGED <<edges, nearby>>

Answer ==
    /\ search # None /\ Done
    /\ search' = None
    /\ UNCHANGED <<edges, nearby>>

--------------------------------------------------------------------------------
(* get_neighborhood: rounds over a frontier.  A node queued twice is visited once, and *)
(* the order within a round is not seen, so a frontier is a set.                        *)

AskNearby(n, d) ==
    /\ nearby = None
    /\ nearby' = [node |-> n, depth |-> IF d > 3 THEN 3 ELSE d, rounds |-> 0, frontier |-> {n},
                  next |-> {}, seen |-> {}, kept |-> {}, quiet |-> TRUE]
    /\ UNCHANGED <<edges, search>>

\* The far end of an edge: the ids are compared, the types are not.
FarEnd(i, n) == IF edges[i].s[2] = n[2] THEN edges[i].o ELSE edges[i].s

Visit(x) ==
    /\ nearby # None /\ nearby.rounds < nearby.depth
    /\ x \in nearby.frontier
    /\ LET rows == IF x \in nearby.seen THEN {} ELSE Newest(x)
           seen == nearby.seen \cup {x}
       IN  nearby' = [nearby EXCEPT !.frontier = @ \ {x}, !.seen = seen, !.kept = @ \cup rows,
                                    !.next = @ \cup ({FarEnd(i, x) : i \in rows} \ seen)]
    /\ UNCHANGED <<edges, search>>

NextRound ==
    /\ nearby # None /\ nearby.rounds < nearby.depth
    /\ nearby.frontier = {}
    /\ nearby' = [nearby EXCEPT !.frontier = nearby.next, !.next = {}, !.rounds = @ + 1]
    /\ UNCHANGED <<edges, search>>

AnswerNearby ==
    /\ nearby # None /\ nearby.rounds = nearby.depth
    /\ nearby' = None
    /\ UNCHANGED <<edges, search>>

Next ==
    \/ \E s, o \in Nodes, t \in ValidFroms : Insert(s, o, t)
    \/ \E i \in DOMAIN edges, st \in Statuses : SetStatus(i, st)
    \/ \E by \in {"service", "engine"}, n, m \in Nodes, d \in Depths : Ask(by, n, m, d)
    \/ Pass \/ FindPath \/ FindPaths \/ Answer
    \/ \E n \in Nodes, d \in Depths : AskNearby(n, d)
    \/ \E x \in Nodes : Visit(x)
    \/ NextRound \/ AnswerNearby

Spec == Init /\ [][Next]_vars

--------------------------------------------------------------------------------

TypeOK ==
    /\ edges \in Seq([s : Nodes, o : Nodes, from : ValidFroms, status : Statuses])
    /\ search # None =>
        search \in [by : {"service", "engine"}, from : Nodes, to : Nodes, depth : Depths,
                    queue : Seq([node : Nodes, path : Seq(DOMAIN edges)]), met : SUBSET Nodes,
                    read : [Nodes -> 0..Unread], found : Seq(Seq(DOMAIN edges)), quiet : BOOLEAN]
    /\ nearby # None =>
        nearby \in [node : Nodes, depth : 1..3, rounds : 0..3, frontier : SUBSET Nodes,
                    next : SUBSET Nodes, seen : SUBSET Nodes, kept : SUBSET DOMAIN edges,
                    quiet : BOOLEAN]

\* A path leads from n to m and meets no node twice.
IsPath(path, n, m) ==
    \E w \in [0..Len(path) -> Nodes] :
        /\ w[0] = n /\ w[Len(path)] = m
        /\ \A j, k \in DOMAIN w : w[j] = w[k] => j = k
        /\ \A k \in DOMAIN path : {w[k - 1], w[k]} = {edges[path[k]].s, edges[path[k]].o}

\* The reference: what active edges reach in at most d steps.
Linked(x, y) == \E i \in Touching(x) : y = Other(i, x)
Reaches(n, m, d) ==
    \E k \in 0..d : \E w \in [0..k -> Nodes] :
        /\ w[0] = n /\ w[k] = m
        /\ \A j \in 1..k : Linked(w[j - 1], w[j])

\* A search between two nodes returns simple paths no longer than asked, whatever is
\* written meanwhile, and their edges are active if nothing is
\* (services/graph_queries.py:190-277, graph/graph_queries.py:196-284).
PathsSound ==
    search # None /\ search.from # search.to =>
        \A k \in DOMAIN search.found :
            LET p == search.found[k] IN
            /\ Len(p) <= search.depth
            /\ IsPath(p, search.from, search.to)
            /\ search.quiet => \A j \in DOMAIN p : edges[p[j]].status = "active"

\* Shorter paths come first, also while edges are written.
ShortestFirst ==
    search # None =>
        \A j, k \in DOMAIN search.found : j < k => Len(search.found[j]) <= Len(search.found[k])

\* No node has more active edges than the engine reads.
Narrow == \A x \in Nodes : Cardinality(Touching(x)) <= EdgeLimit

\* A search nothing was written under ends with a shortest path, if there is one within its
\* depth, although the service cuts by the nodes it has met and the engine by those it has
\* read; of the engine this holds as long as no node has more edges than its limit
\* (services/graph_queries.py:190-277, graph/graph_queries.py:196-284).
PathsComplete ==
    /\ search # None /\ search.from # search.to /\ search.quiet /\ Done
    /\ search.by = "engine" => Narrow
    =>  \A d \in 1..search.depth : Reaches(search.from, search.to, d) =>
                search.found # <<>> /\ Len(search.found[1]) <= d

\* get_neighborhood returns no edge beyond its depth, and every edge within it unless an
\* edge joins two entities with one number or a node has more edges than the limit
\* (graph/graph_queries.py:145-193).
NeighbourhoodExact ==
    nearby # None /\ nearby.quiet =>
        /\ \A i \in nearby.kept : \E x \in Nodes :
            i \in Touching(x) /\ Reaches(nearby.node, x, nearby.depth - 1)
        /\ /\ nearby.rounds = nearby.depth /\ Narrow
           /\ \A i \in DOMAIN edges : edges[i].s[2] = edges[i].o[2] => edges[i].s = edges[i].o
           =>  \A x \in Nodes : Reaches(nearby.node, x, nearby.depth - 1) => Touching(x) \subseteq nearby.kept

GraphSafe == TypeOK /\ PathsSound /\ ShortestFirst /\ PathsComplete /\ NeighbourhoodExact
================================================================================
