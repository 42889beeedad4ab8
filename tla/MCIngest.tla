-------------------------------- MODULE MCIngest --------------------------------
\* A behaviour exercises one of the subsystems of Ingest, chosen by which; the adapters,
\* the imports and the gates are checked once alone and once overlapping, each within
\* bounds of its own.
EXTENDS Ingest

CONSTANTS s1, s2

VARIABLE which

\* federal_court_html over a year, as seeded, and without a version; the statutes; a
\* machine-ready row of scc_lexum_api; and a keyed row that may create for each other parser.
Row(parser, version, ready, year) ==
    [parser |-> parser, version |-> version, ready |-> ready, year |-> year,
     keyed |-> TRUE, creates |-> TRUE, listed |-> TRUE]
Federal  == Row("federal_court_html", "1.0", TRUE, TRUE)
Statutes == Row("laws_justice_xml", "xml_v1", FALSE, FALSE)
Others   == {"canlii_api", "sk_legislature_html", "sk_courts_html", "laws_justice_html",
             "saskatoon_csv", "saskatoon_police_csv", "statscan_table", "ckan_api",
             "crawlee_gov_news", "crawlee_police_release"}
MCRows   == {Federal, [Federal EXCEPT !.version = None], Statutes,
             Row("scc_lexum_api", "1.0", TRUE, FALSE)}
            \cup {Row(p, "1.0", FALSE, FALSE) : p \in Others}

Good(rows, links, next) == [up |-> "good", rows |-> rows, links |-> links, next |-> next]
Down == [up |-> "down", rows |-> <<>>, links |-> <<>>, next |-> FALSE]
Junk == [Down EXCEPT !.up = "junk"]
MCSites    == {<<Good(<<"a", "b">>, <<>>, TRUE), Good(<<"c">>, <<>>, FALSE)>>,
               <<Good(<<"a">>, <<"b">>, FALSE), Down>>, <<Junk, Down>>, <<Down, Down>>}
MCFixed    == <<"f">>
MCSessions == {s1, s2}

\* Pages a and b have the same content; c is as deep as the crawl goes, d is a file, e not
\* listed; the limit is below what is found.
MCContent == [a |-> "x", b |-> "x", c |-> "y", d |-> "file", e |-> "z"]
MCLinksOf == [a |-> {"c", "d", "e"}, b |-> {"c"}, c |-> {"e"}, d |-> {}, e |-> {}]

Line(key, needs) == [key |-> key, needs |-> needs]
File(stem, rows) == [stem |-> stem, rows |-> rows]
MCFiles == <<File("courts", <<Line("c1", {}), Line("c2", {})>>),
             File("people", <<Line("j1", {})>>),
             File("positions", <<Line("s1", {"j1", "c1"})>>),
             File("dockets", <<Line("d1", {"c1"})>>),
             File("clusters", <<Line("e1", {"d1"})>>),
             File("opinions", <<Line(None, {}), Line("o1", {})>>)>>

Check(name, after) == [name |-> name, after |-> after]
MCSteps == <<Check("docker", None), Check("postgis", "docker"), Check("pytest", None)>>

\* A file that is changed, and one that is added.
MCEdits == [old |-> <<"p", "q">>, new |-> <<None, "p">>]

\* Bound: the files are moved from either end of this order.
Order == <<"json", "manifest", "proof", "docker", "postgis", "pytest", "proof_freshness",
           "readiness", "archive">>
FromAnEnd(before, after) ==
    LET left == {k \in DOMAIN Order : Order[k] \in before}
        now  == {k \in DOMAIN Order : Order[k] \in after} IN
    before # after => \/ \A k \in left \ now, l \in left : k <= l
                      \/ \A k \in left \ now, l \in left : l <= k

MCInit ==
    /\ which \in {"adapt", "races", "crawl", "bulk", "whole", "alone", "both"}
    /\ Init

\* One run after another over every row; two runs that overlap on two rows.
Runs ==
    /\ which \in {"adapt", "races"} /\ AdaptStep
    /\ which = "adapt" => tx'[s2] = Adapt!Idle
    /\ which = "races" => /\ Cardinality(items') <= 4
                          /\ \A s \in Sessions : tx'[s] = Adapt!Idle
                                                 \/ tx'[s].row \in {Federal, Statutes}

\* An import of the first two files by the route while one takes the first three; one of
\* all of them.
Imports ==
    /\ which \in {"bulk", "whole"} /\ BulkStep
    /\ which = "bulk" => /\ call'[s1].at <= 2 /\ call'[s2].at <= 3
                         /\ call'[s1] = Bulk!Idle \/ call'[s1].via = "route"
    /\ which = "whole" => calls' = 1

\* Gates one after another while the tree is edited; two in one directory, whose first
\* checks pass.
Releases ==
    /\ which \in {"alone", "both"} /\ GateStep
    /\ \A g \in Gates : gate'[g].pc = "moving" /\ gate[g].pc = "moving" =>
                       FromAnEnd(gate[g].todo, gate'[g].todo)
    /\ which = "alone" => gate'[s2] = Gate!Idle
    /\ which = "both" => /\ starts' <= 2 /\ tree' = tree
                         /\ \A g \in Gates : \A k \in DOMAIN gate'[g].results :
                               k < Len(Steps) => gate'[g].results[k].passed

MCNext ==
    /\ UNCHANGED which
    /\ \/ Runs \/ Imports \/ Releases
       \/ which = "crawl" /\ CrawlStep

MCSpec == MCInit /\ [][MCNext]_<<which, vars>>
================================================================================
