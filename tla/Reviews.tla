-------------------------------- MODULE Reviews --------------------------------
(***************************************************************************)
(* Who is let in and what review lets out: sessions and tokens, the gate   *)
(* before the admin routes, legal text, the AI review pipeline, the        *)
(* correctness checks, the evidence of relationships, the merges of        *)
(* entities, the public views and the searches of the entity graph.  No    *)
(* step of one reads or writes the modelled state of another, so the       *)
(* system of the nine is their interleaving.                               *)
(***************************************************************************)
EXTENDS Integers, Sequences, FiniteSets

CONSTANTS
    None, Sessions,
    Users, Threads, MaxSessions,                            \* AuthSessions
    Procs, Limit, Window, MaxTime, Bearers,                 \* RequestGate
    Labels, Unnamed, Texts, Documents,                      \* LegalText
    MaxRows, MaxRevs, MaxItems,
    Sources, MaxDrafts, MaxActions,                         \* AIReview
    Forms, MaxRecords, MaxSnapshots,                        \* Correctness
    Pairs, Reviewers, MaxLog,                               \* RelationshipEvidence
    Names, Externals, Alike, MaxEntities, MaxRefs,          \* EntityMerge
    SourceTypes, EventForms, IncidentForms, Chosen,         \* PublicViews
    MaxSources, MaxEvents, MaxIncidents, Limits, CaseLimit,
    Nodes, ValidFroms, Depths, EdgeLimit, Enough, MaxEdges  \* EntityGraph

VARIABLES
    users, sessions, access, swept, req,
    settings, now, window, redisUp, lapsed, entered,
    inst, rows, revs, items, tx, last, raced,
    drafts, log, events, links, reviews, crossed,
    records, checks, snapshots, requests,
    evidence, verdicts, verifying, overwritten,
    entities, refs, merging, crossing,
    citedSources, courtEvents, incidents,
    edges, search, nearby

Auth   == INSTANCE AuthSessions
Gate   == INSTANCE RequestGate
Legal  == INSTANCE LegalText
AI     == INSTANCE AIReview WITH
              MaxItems <- MaxDrafts, items <- drafts, tx <- reviews, raced <- crossed
Checks == INSTANCE Correctness WITH
              MaxRows <- MaxRecords, rows <- records, tx <- requests
Rel    == INSTANCE RelationshipEvidence WITH
              log <- verdicts, tx <- verifying, raced <- overwritten
Merge  == INSTANCE EntityMerge WITH
              MaxRecords <- MaxRefs, records <- refs, tx <- merging, crossed <- crossing
View   == INSTANCE PublicViews WITH
              sources <- citedSources, events <- courtEvents
Graph  == INSTANCE EntityGraph

ASSUME ReviewsAssumption ==
    /\ Gate!RequestGateAssumption
    /\ Legal!LegalTextAssumption
    /\ AI!AIReviewAssumption
    /\ Checks!CorrectnessAssumption
    /\ Rel!EvidenceAssumption
    /\ Merge!EntityMergeAssumption
    /\ View!PublicViewsAssumption
    /\ Graph!EntityGraphAssumption

authVars   == <<users, sessions, access, swept, req>>
gateVars   == <<settings, now, window, redisUp, lapsed, entered>>
legalVars  == <<inst, rows, revs, items, tx, last, raced>>
aiVars     == <<drafts, log, events, links, reviews, crossed>>
checksVars == <<records, checks, snapshots, requests>>
relVars    == <<evidence, verdicts, verifying, overwritten>>
mergeVars  == <<entities, refs, merging, crossing>>
viewVars   == <<citedSources, courtEvents, incidents>>
graphVars  == <<edges, search, nearby>>
vars == <<authVars, gateVars, legalVars, aiVars, checksVars, relVars, mergeVars, viewVars, graphVars>>

Init == /\ Auth!Init /\ Gate!Init /\ Legal!Init /\ AI!Init /\ Checks!Init
        /\ Rel!Init /\ Merge!Init /\ View!Init /\ Graph!Init

AuthStep ==
    /\ Auth!Next
    /\ UNCHANGED <<gateVars, legalVars, aiVars, checksVars, relVars, mergeVars, viewVars, graphVars>>
GateStep ==
    /\ Gate!Next
    /\ UNCHANGED <<authVars, legalVars, aiVars, checksVars, relVars, mergeVars, viewVars, graphVars>>
LegalStep ==
    /\ Legal!Next
    /\ UNCHANGED <<authVars, gateVars, aiVars, checksVars, relVars, mergeVars, viewVars, graphVars>>
AIStep ==
    /\ AI!Next
    /\ UNCHANGED <<authVars, gateVars, legalVars, checksVars, relVars, mergeVars, viewVars, graphVars>>
ChecksStep ==
    /\ Checks!Next
    /\ UNCHANGED <<authVars, gateVars, legalVars, aiVars, relVars, mergeVars, viewVars, graphVars>>
RelStep ==
    /\ Rel!Next
    /\ UNCHANGED <<authVars, gateVars, legalVars, aiVars, checksVars, mergeVars, viewVars, graphVars>>
MergeStep ==
    /\ Merge!Next
    /\ UNCHANGED <<authVars, gateVars, legalVars, aiVars, checksVars, relVars, viewVars, graphVars>>
ViewStep ==
    /\ View!Next
    /\ UNCHANGED <<authVars, gateVars, legalVars, aiVars, checksVars, relVars, mergeVars, graphVars>>
GraphStep ==
    /\ Graph!Next
    /\ UNCHANGED <<authVars, gateVars, legalVars, aiVars, checksVars, relVars, mergeVars, viewVars>>

Next == AuthStep \/ GateStep \/ LegalStep \/ AIStep \/ ChecksStep \/ RelStep \/ MergeStep
            \/ ViewStep \/ GraphStep

Spec == Init /\ [][Next]_vars

--------------------------------------------------------------------------------
\* Sessions, tokens, roles and the rate limit (api/routes/auth.py, auth/admin.py,
\* core/rate_limit.py).
AccessSafe == Auth!SessionsSafe /\ Gate!GateSafe

\* What reviews and correctness checks let through, and what the public pages then show
\* (review/decisions.py, api/routes/ai_review.py, services/ai_correctness.py,
\* api/routes/map.py, serializers/public.py).
ReviewSafe ==
    /\ Legal!LegalTextSafe /\ AI!AIReviewSafe /\ Checks!CorrectnessSafe
    /\ View!PublicViewsSafe

\* Verified relationships and merged entities (services/relationship_evidence.py,
\* graph/graph_merge.py, graph/graph_resolver.py).
EntitiesSafe == Rel!RelationshipsSafe /\ Merge!MergeSafe

\* What the searches of the entity graph return (services/graph_queries.py,
\* graph/graph_queries.py).
SearchesSafe == Graph!GraphSafe
================================================================================
