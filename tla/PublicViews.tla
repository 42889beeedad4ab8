------------------------------ MODULE PublicViews ------------------------------
(***************************************************************************)
(* What the public routes show of events, incidents and their sources      *)
(* (serializers/public.py, api/routes/map.py, map_record.py,               *)
(* public_events.py) while reviewers decide on them and retract sources    *)
(* (api/routes/admin_review.py).  The views are operators: a GET changes   *)
(* nothing.                                                                *)
(***************************************************************************)
EXTENDS Integers, Sequences, FiniteSets

CONSTANTS
    SourceTypes, EventForms, IncidentForms,  \* what the imports and routes create
    Chosen,                                  \* the statuses reviewers choose
    MaxSources, MaxEvents, MaxIncidents,     \* bounds on the rows
    Limits,                                  \* the page sizes clients ask for
    CaseLimit                                \* the length of list_cases, 200 in the code

Places     == {"mapped", "placeholder"}
Precisions == {"safe", "unsafe", "unsafe_word"}
Reviews    == {"publish", "hold", "block"}

Official == {"court_records", "government_data", "official_government_open_data"}
News     == {"news", "news_article"}
\* The status auto_review gives what it publishes, and reviewers by default.
MachineApproved == "official_police_open_data_report"
Published == {"verified_court_record", MachineApproved, "news_only_context", "corrected"}
Statuses  == Published \cup {"pending_review", "disputed", "rejected", "removed_from_public"}

\* An event may have no judge.
NoJudge == 0

\* review: what auto_review says of the record; an adapter's is held.  It validates the
\* place and the precision, and lets nothing out without an address.
Imported(form) == form.placed /\ form.precision = "safe"

\* A page and the list of cases hold at least one row.
PublicViewsAssumption ==
    /\ EventForms \subseteq [place : Places, judge : Nat, case : Nat]
    /\ IncidentForms \subseteq [placed : BOOLEAN, precision : Precisions, url : BOOLEAN,
                               snapshot : BOOLEAN, review : Reviews]
    /\ \A form \in IncidentForms : form.review # "hold" => Imported(form) /\ form.url
    /\ Chosen \subseteq Statuses
    /\ Limits \subseteq Nat \ {0} /\ CaseLimit \in Nat \ {0}

VARIABLES
    sources,   \* LegalSource rows: [type, status, public]
    events,    \* Event rows: [place, judge, case, sources, status, public]
    incidents  \* CrimeIncident rows: [placed, precision, url, snapshot, sources, status, public]

vars == <<sources, events, incidents>>

Init == sources = <<>> /\ events = <<>> /\ incidents = <<>>

--------------------------------------------------------------------------------
(* What is stored.                                                            *)

AddSource(type) ==
    /\ Len(sources) < MaxSources
    /\ sources' = Append(sources, [type |-> type, status |-> "pending_review", public |-> FALSE])
    /\ UNCHANGED <<events, incidents>>

\* create_event, and what importers and the AI review add: neither names a status, so the
\* event waits for review whatever its sources are.
AddEvent(form, linked) ==
    /\ Len(events) < MaxEvents
    /\ events' = Append(events,
           [place |-> form.place, judge |-> form.judge, case |-> form.case, sources |-> linked,
            status |-> "pending_review", public |-> FALSE])
    /\ UNCHANGED <<sources, incidents>>

Suggested(form) == IF form.review = "publish" THEN MachineApproved ELSE "pending_review"

\* An incident with its structured source links.  An adapter's waits for review; of an
\* import's, auto_review publishes some at once, and one it blocks is stored hidden and
\* without its snapshot.
AddIncident(form, linked) ==
    /\ Len(incidents) < MaxIncidents
    /\ incidents' = Append(incidents,
           [placed |-> form.placed, precision |-> form.precision, url |-> form.url,
            snapshot |-> form.snapshot /\ form.review # "block", sources |-> linked,
            status |-> Suggested(form), public |-> form.review = "publish"])
    /\ UNCHANGED <<sources, events>>

\* Mutant: the flag is only assigned with auto_review's decision.
RefreshedKeepsFlag(row, form, changed) ==
    LET reset == form.review # "block" /\ (changed \/ row.status = "rejected") IN
    [row EXCEPT !.placed = form.placed, !.precision = form.precision, !.url = form.url,
                !.public = IF reset THEN form.review = "publish" ELSE @,
                !.status = IF reset THEN Suggested(form) ELSE @]

\* An existing row: every field is assigned and the flag cleared, then a change or an
\* earlier rejection lets auto_review decide anew.
Refreshed(row, form, changed) ==
    LET reset == form.review # "block" /\ (changed \/ row.status = "rejected") IN
    [row EXCEPT !.placed = form.placed, !.precision = form.precision, !.url = form.url,
                !.public = reset /\ form.review = "publish",
                !.status = IF reset THEN Suggested(form)
                           ELSE IF form.review = "hold" /\ @ = MachineApproved
                                THEN "pending_review" ELSE @]

\* persist_crime_incident of a record stored before; changed: a safety field differs, as
\* the coordinates do of a row that had none.
Reimport(i, form, changed) ==
    /\ Imported(form)
    /\ ~incidents[i].placed => changed
    /\ incidents' = [incidents EXCEPT ![i] = Refreshed(@, form, changed)]
    /\ UNCHANGED <<sources, events>>

Decided(row, status) == [row EXCEPT !.status = status, !.public = status \in Published]

DecideSource(i, status) ==
    /\ sources' = [sources EXCEPT ![i] = Decided(@, status)]
    /\ UNCHANGED <<events, incidents>>

DecideEvent(i, status) ==
    /\ events' = [events EXCEPT ![i] = Decided(@, status)]
    /\ UNCHANGED <<sources, incidents>>

\* An incident is published only with a hashed snapshot.
DecideIncident(i, status) ==
    /\ status \in Published => incidents[i].snapshot
    /\ incidents' = [incidents EXCEPT ![i] = Decided(@, status)]
    /\ UNCHANGED <<sources, events>>

Retract(i) ==
    /\ sources' = [sources EXCEPT ![i].status = "removed_from_public", ![i].public = FALSE]
    /\ UNCHANGED <<events, incidents>>

Next ==
    \/ \E t \in SourceTypes : AddSource(t)
    \/ \E f \in EventForms, S \in SUBSET DOMAIN sources : AddEvent(f, S)
    \/ \E f \in IncidentForms, S \in SUBSET DOMAIN sources : AddIncident(f, S)
    \/ \E i \in DOMAIN incidents, f \in IncidentForms, changed \in BOOLEAN :
        Reimport(i, f, changed)
    \/ \E d \in Chosen :
        \/ \E i \in DOMAIN sources : DecideSource(i, d)
        \/ \E i \in DOMAIN events : DecideEvent(i, d)
        \/ \E i \in DOMAIN incidents : DecideIncident(i, d)
    \/ \E i \in DOMAIN sources : Retract(i)

Spec == Init /\ [][Next]_vars

--------------------------------------------------------------------------------
(* What is shown.                                                             *)

\* is_public_event, is_public_source, is_public_crime_incident.
IsPublic(row) == row.public /\ row.status \in Published

PublicSources(row) == {i \in row.sources : IsPublic(sources[i])}
NewsOf(row)        == {i \in PublicSources(row) : sources[i].type \in News}

\* Mutant: the SQL of map_events without its place conditions.
OnMapAnywhere(e) == IsPublic(e)

OnMap(e) == IsPublic(e) /\ e.place = "mapped"

\* What one event is joined with in the query of map_events: nothing, or each of its
\* sources, public or not, that passes official_only.
Joined(e, filter) ==
    IF filter = "all" THEN {0}
    ELSE {j \in e.sources : (sources[j].type \in Official) = (filter = "official")}

Mapped       == {i \in DOMAIN events : OnMap(events[i])}
Rows(filter) == UNION {{i} \X Joined(events[i], filter) : i \in Mapped}

\* Newest first; how the rows of one event are ordered is not seen.
Before(r, rows) == {q \in rows : q[1] > r[1] \/ (q[1] = r[1] /\ q[2] < r[2])}

\* OFFSET and LIMIT.
Slice(rows, offset, limit) ==
    {r \in rows : Cardinality(Before(r, rows)) \in offset..offset + limit - 1}

\* Mutant: no row more than the page shows is asked for.
PageOfLimit(filter, limit, offset) ==
    LET found == {r[1] : r \in Slice(Rows(filter), offset, limit)}
    IN  [ids |-> found, truncated |-> Cardinality(found) > limit]

\* limit + 1 rows are asked for, then duplicates dropped, then counted.
Page(filter, limit, offset) ==
    LET found == {r[1] : r \in Slice(Rows(filter), offset, limit + 1)}
    IN  [ids |-> {i \in found : Cardinality({k \in found : k > i}) < limit},
         truncated |-> Cardinality(found) > limit]

\* is_public_crime_incident_mappable; the SQL lets through a precision whose name merely
\* contains an unsafe word.
IncidentInQuery(r) == IsPublic(r) /\ r.placed /\ r.precision # "unsafe"
IncidentOnMap(r)   == IncidentInQuery(r) /\ r.precision # "unsafe_word"

\* _court_event_detail, _incident_detail, source_panel_payload: the addresses shown.  An
\* incident without public linked sources shows its own.
EventPanel(e)    == {<<"source", i>> : i \in PublicSources(e)}
EventDetail(e)   == {<<"source", i>> : i \in PublicSources(e) \ NewsOf(e)}
                        \cup {<<"source", i>> : i \in NewsOf(e)}
IncidentPanel(r) == IF PublicSources(r) # {} THEN {<<"source", i>> : i \in PublicSources(r)}
                    ELSE {<<"own", r.url>>}
\* The detail falls back as soon as every public source is news.
IncidentDetail(r) == {<<"source", i>> : i \in PublicSources(r)}
                        \cup {<<"own", TRUE>> : x \in {y \in {r} : r.url /\ PublicSources(r) \subseteq NewsOf(r)}}
IncidentCount(r) == IF PublicSources(r) # {} THEN Cardinality(PublicSources(r))
                    ELSE IF r.url THEN 1 ELSE 0

\* list_judges; the cases whose page opens (get_case), and those list_cases returns, the
\* last filed first: cases are numbered as they were filed.
Judges   == {events[i].judge : i \in {j \in DOMAIN events : IsPublic(events[j])}} \ {NoJudge}
Cases    == {events[i].case : i \in {j \in DOMAIN events : IsPublic(events[j])}}
CaseList == {c \in Cases : Cardinality({k \in Cases : k > c}) < CaseLimit}

--------------------------------------------------------------------------------

TypeOK ==
    /\ sources \in Seq([type : SourceTypes, status : Statuses, public : BOOLEAN])
    /\ events \in Seq([place : Places, judge : Nat, case : Nat, sources : SUBSET DOMAIN sources,
                       status : Statuses, public : BOOLEAN])
    /\ incidents \in Seq([placed : BOOLEAN, precision : Precisions, url : BOOLEAN,
                          snapshot : BOOLEAN, sources : SUBSET DOMAIN sources,
                          status : Statuses, public : BOOLEAN])

\* Whoever follows a dot gets somewhere: the event of every feature has its detail and its
\* panel, its case and its judge, if it has one, have a page, it has coordinates to be
\* drawn at, and the list of cases leaves its case out only when the list is full
\* (map.py:122-228, map_record.py:91-97, public_events.py:168-275).
DotsResolve ==
    \A i, o \in DOMAIN events, f \in {"all", "official", "other"}, l \in Limits :
        i \in Page(f, l, o - 1).ids =>
            LET e == events[i] IN
            /\ IsPublic(e) /\ e.place = "mapped"
            /\ e.judge \in Judges \cup {NoJudge} /\ e.case \in Cases
            /\ e.case \in CaseList \/ Cardinality(CaseList) = CaseLimit

\* Without the official_only filter no page loses an event or shows one again: the pages up
\* to the first that is not truncated hold every event of the map, newest first
\* (map.py:122-228).
PagesAreWhole ==
    \A l \in Limits : \E last \in 0..Len(events) :
        LET page(m) == Page("all", l, m * l) IN
        /\ \A m \in 0..last : page(m).truncated = (m < last)
        /\ Mapped = UNION {page(m).ids : m \in 0..last}
        /\ \A m, n \in 0..last : m < n => \A i \in page(m).ids, k \in page(n).ids : k < i

\* The source count of a dot is what its panel and its detail show, except for an
\* incident whose public sources are all news: the detail adds the incident's own
\* address (serializers/public.py:285-345, map_record.py:169-215).
CountsAgree ==
    /\ \A i \in DOMAIN events :
        EventPanel(events[i]) = EventDetail(events[i])
    /\ \A i \in DOMAIN incidents :
        LET r == incidents[i] IN
        IsPublic(r) => Cardinality(IncidentDetail(r)) =
            IF PublicSources(r) # {} /\ PublicSources(r) = NewsOf(r) /\ r.url
            THEN IncidentCount(r) + 1 ELSE IncidentCount(r)

\* However imports, re-imports and decisions alternate: a public incident has a snapshot,
\* as every reviewer's decision needs, or it is what auto_review published, with an
\* address, a place and a general precision; and no incident is drawn without place or at
\* an unsafe precision (admin_review.py:267-276, persistence.py:105-136,
\* serializers/public.py:82-104).
ShownIsReviewed ==
    \A i \in DOMAIN incidents :
        LET r == incidents[i] IN
        /\ IsPublic(r) /\ ~r.snapshot => r.status = MachineApproved /\ r.url /\ Imported(r)
        /\ IncidentOnMap(r) => Imported(r)

PublicViewsSafe ==
    TypeOK /\ DotsResolve /\ PagesAreWhole /\ CountsAgree /\ ShownIsReviewed

\* serializers/public.py:442 "Fall back to top-level source fields only if no structured
\* links exist".  The code breaks it: it falls back when no linked source is public.
FallbackOnlyWithoutLinks ==
    \A i \in DOMAIN incidents :
        <<"own", TRUE>> \in IncidentPanel(incidents[i]) => incidents[i].sources = {}

\* map.py:195 truncated tells whether events were left out.  The official_only filter
\* breaks it: the duplicates of an event use up the page.
UntruncatedIsWhole ==
    \A l \in Limits :
        LET p == Page("official", l, 0) IN
        ~p.truncated => {r[1] : r \in Rows("official")} \subseteq p.ids
================================================================================
