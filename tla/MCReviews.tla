-------------------------------- MODULE MCReviews --------------------------------
\* The subsystems of Reviews share no state in the models: a behaviour exercises one of them,
\* chosen by which.
EXTENDS Reviews

CONSTANTS u1, t1, t2, p1, p2, s1, s2, r1, r2, x1, i1, k1

VARIABLE which

MCUsers    == {u1}
MCThreads  == {t1, t2}
MCProcs    == {p1, p2}
MCSessions == {s1, s2}
MCBearers  == {[role |-> "viewer", type |-> "access"], [role |-> "admin", type |-> "access"],
               [role |-> "owner", type |-> "refresh"], None}

Section(label, text) == [label |-> label, text |-> text]
MCDocuments == {<<Section("1", "a")>>, <<Section("1", "b")>>,
                <<Section("1", "a"), Section("1(a)", "b")>>}

Source(official, crime, repeat, risk, whole, link) ==
    [official |-> official, crime |-> crime, repeat |-> repeat, risk |-> risk,
     whole |-> whole, link |-> link]
MCSources == {Source(TRUE, FALSE, FALSE, "none", TRUE, "x"),
              Source(FALSE, FALSE, TRUE, "soft", TRUE, None),
              Source(TRUE, TRUE, FALSE, "hard", FALSE, "y")}

\* An incident's source address, external id, precision, place and day.
Incident(url, key, precision, area, cell) ==
    [kind |-> "crime_incident", supports |-> TRUE, url |-> url, key |-> key,
     precision |-> precision, area |-> area, cell |-> cell, dated |-> TRUE,
     status |-> TRUE, private |-> FALSE]
CourtEvent == [Incident("x", None, "safe", "a", 1) EXCEPT !.kind = "court_event", !.status = FALSE]
MCForms == {Incident("x", "k", "safe", "a", 1), Incident("x", None, "safe", "b", 2),
            [Incident("y", "k", "blocked", "b", None) EXCEPT !.dated = FALSE],
            Incident(None, None, "safe", "a", 1),
            [Incident("y", None, "unsafe", "a", 2) EXCEPT !.private = TRUE], CourtEvent}

\* An event of the second case has no judge.  Records an import publishes, holds for their
\* missing address or blocks, and an adapter's with a precision that names an address.
EventForm(place, judge, case) == [place |-> place, judge |-> judge, case |-> case]
MCEvents    == {EventForm("mapped", 1, 1), EventForm("mapped", 0, 2), EventForm("placeholder", 2, 1)}
IncidentForm(precision, url, snapshot, review) ==
    [placed |-> TRUE, precision |-> precision, url |-> url, snapshot |-> snapshot, review |-> review]
MCIncidents == {IncidentForm("safe", TRUE, FALSE, "publish"), IncidentForm("safe", FALSE, TRUE, "hold"),
                IncidentForm("safe", TRUE, TRUE, "block"), IncidentForm("unsafe_word", FALSE, TRUE, "hold")}

MCNodes  == {<<"judge", 1>>, <<"case", 1>>, <<"court", 3>>}
MCEnough == [service |-> 2, engine |-> 2]

MCInit ==
    /\ Init
    /\ which \in {"auth", "gate", "legal", "ai", "checks", "evidence", "merges", "chains",
                 "pages", "panels", "paths", "near"}
    /\ which = "gate" \/ settings = [redis |-> FALSE, production |-> FALSE, jwt |-> FALSE,
                                     legacy |-> FALSE, enforce |-> FALSE, limited |-> TRUE,
                                     open |-> {}]

\* The correctness checks in one session.
OneSession == requests'[s2] = requests[s2]

\* Two entities under two sessions; three, for chains of merges, under one.
Merging ==
    /\ which \in {"merges", "chains"} /\ MergeStep
    /\ which = "merges" => Len(entities') <= 2
    /\ which = "chains" => merging'[s2] = merging[s2]

\* Pages and panels of two events, panels of one incident; the sources are stored first.
Viewing ==
    /\ which \in {"pages", "panels"} /\ ViewStep
    /\ Len(citedSources') > Len(citedSources) =>
        courtEvents = <<>> /\ incidents = <<>>
    /\ which = "pages" => incidents' = <<>>
    /\ which = "panels" => courtEvents' = <<>>

\* Everything is asked of the judge; the court is no subject, and no case is tied to itself.
\* The case and the court are alike to a path, and no path is longer than two; of the
\* neighbourhoods, those one or three deep.
Searching ==
    /\ which \in {"paths", "near"} /\ GraphStep
    /\ \A i \in DOMAIN edges' :
        edges'[i].s # <<"court", 3>> /\ (edges'[i].s = edges'[i].o => edges'[i].s = <<"judge", 1>>)
    /\ which = "paths" =>
        /\ nearby' = None
        /\ search' # None =>
            search'.from = <<"judge", 1>> /\ search'.to # <<"court", 3>> /\ search'.depth <= 2
    /\ which = "near" =>
        /\ search' = None
        /\ nearby' # None => nearby'.node = <<"judge", 1>> /\ nearby'.depth # 2

MCNext ==
    /\ UNCHANGED which
    /\ \/ which = "auth" /\ AuthStep
       \/ which = "gate" /\ GateStep
       \/ which = "legal" /\ LegalStep
       \/ which = "ai" /\ AIStep
       \/ which = "checks" /\ ChecksStep /\ OneSession
       \/ which = "evidence" /\ RelStep
       \/ Merging
       \/ Viewing
       \/ Searching

MCSpec == MCInit /\ [][MCNext]_<<which, vars>>
================================================================================
