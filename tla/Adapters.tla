------------------------------- MODULE Adapters -------------------------------
(***************************************************************************)
(* The source adapters (ingestion/source_adapters) and what becomes of     *)
(* what they return: build_adapter, the fetch and parse of each parser,    *)
(* the machine-ingest contract, the snapshot and the review items and      *)
(* incidents of ingestion/source_runner.py.  A run reads and writes in one *)
(* transaction; runs of different sources overlap.                         *)
(***************************************************************************)
EXTENDS Integers, Sequences, FiniteSets, SequencesExt

CONSTANTS
    Rows,        \* SourceRegistry rows, see RegistryRows
    Sites,       \* what a publisher may serve: page number -> page, see Pages
    Links,       \* what a page lists: decisions, statutes, table rows
    Fixed,       \* the CanLII links sk_courts_html falls back on
    Targets,     \* the statutes of JTA_LAWS_XML_TARGET_IDS
    PageLimit,   \* config limit of federal_court_html
    Sessions,
    MaxItems,    \* bound on the review items
    MaxRuns,     \* bound on the snapshots
    None

Parsers == {"federal_court_html", "canlii_api", "scc_lexum_api", "sk_legislature_html",
            "sk_courts_html", "laws_justice_html", "laws_justice_xml", "saskatoon_csv",
            "saskatoon_police_csv", "statscan_table", "ckan_api", "crawlee_gov_news",
            "crawlee_police_release"}

\* ready: seeded as machine_ready_disabled; keyed: an API key, or a resource id, is set;
\* year: federal_court_html walks a year; creates: the authority may create incidents.
RegistryRows == [parser : Parsers \cup {None}, version : {"1.0", "xml_v1", None},
                 ready : BOOLEAN, keyed : BOOLEAN, year : BOOLEAN, creates : BOOLEAN,
                 listed : BOOLEAN]

\* down: an error, or nothing; junk: what the adapter cannot parse.  rows are the entries
\* where the adapter looks first, links the other links, next the link to a further page.
Pages == {p \in [up : {"down", "junk", "good"}, rows : Seq(Links), links : Seq(Links),
                 next : BOOLEAN] : p.up # "good" => p.rows = <<>> /\ p.links = <<>>}

AdaptersAssumption ==
    /\ Rows \subseteq RegistryRows
    /\ \A site \in Sites : site[1] \in Pages /\ site[2] \in Pages

VARIABLES
    items,     \* ReviewItem rows: [parser, link, page, at, snap, status]
    incidents, \* CrimeIncident rows: <<parser, external id>>
    snapshots, \* SourceSnapshot rows: the pages whose bytes they hold, as served
    tx,        \* Sessions -> the run between its reads and its commit
    missed,    \* history: a run of a ready source whose publisher answered was refused
    raced      \* history: a run stored items though its reads were no longer true

vars == <<items, incidents, snapshots, tx, missed, raced>>

Idle == [pc |-> "idle"]

Init ==
    /\ items = {} /\ incidents = {} /\ snapshots = <<>>
    /\ tx = [s \in Sessions |-> Idle]
    /\ missed = FALSE
    /\ raced = FALSE

--------------------------------------------------------------------------------
(* The adapters: the pages whose bytes are kept, what is found on which page  *)
(* and at which place of it, an error, and the parser version reported.       *)

Nothing == [raw |-> {}, found |-> {}, error |-> FALSE, version |-> None]
On(p, links) == {[page |-> p, at |-> k, link |-> links[k]] : k \in DOMAIN links}

\* fetch of the adapters that ask for one page: a failure is nothing found, not an error;
\* the bytes are kept before they are parsed.
Single(site, found) == IF site[1].up = "down" THEN Nothing
                       ELSE [Nothing EXCEPT !.raw = {1}, !.found = On(1, found)]

SccLexumApi(site)       == Single(site, site[1].rows)
SkLegislatureHtml(site) == Single(site, site[1].rows)
SaskatoonCsv(site)      == Single(site, site[1].rows)

\* The amendments table, or else any link to an act.
LawsJusticeHtml(site) == Single(site, IF site[1].rows # <<>> THEN site[1].rows
                                      ELSE site[1].links)

\* Links to CanLII, or else links the page does not have.
SkCourtsHtml(site) == Single(site, IF site[1].links # <<>> THEN site[1].links ELSE Fixed)

\* The external id is a hash of the row and of its place in the file.
SaskatoonPoliceCsv(site) == Single(site, [k \in DOMAIN site[1].rows |-> <<k, site[1].rows[k]>>])

\* A table that is no JSON is one row that parse skips.
StatscanTable(site) == Single(site, site[1].rows)

\* Nothing without a resource id, and the bytes are never kept.
CkanApi(site, row) == [Single(site, IF row.keyed THEN site[1].rows ELSE <<>>) EXCEPT !.raw = {}]

\* Two databases, each with its answer; the bytes of the first that has one.
CanliiApi(site, row) ==
    LET up == {d \in {1, 2} : site[d].up # "down"} IN
    IF ~row.keyed THEN [Nothing EXCEPT !.error = TRUE]
    ELSE [Nothing EXCEPT !.raw = {d \in up : \A e \in up : d <= e},
                         !.found = On(1, site[1].rows) \cup On(2, site[2].rows)]

\* Stubs: not implemented, unless the address is refused first.
CrawleeGovNews(row) == IF row.listed THEN [Nothing EXCEPT !.error = TRUE] ELSE Nothing
CrawleePoliceRelease(row) == CrawleeGovNews(row)

\* The recent decisions, or the pages of a year until one fails or is empty, or there is
\* no next one.  The snapshot is the first page.
FederalCourtHtml(site, row) ==
    LET rows  == site[1].rows
        both  == row.year /\ rows # <<>> /\ site[1].next
        place(f) == IF f.page = 1 THEN f.at ELSE Len(rows) + f.at
        found == On(1, rows) \cup (IF both THEN On(2, site[2].rows) ELSE {})
    IN  [Single(site, rows) EXCEPT !.found = {f \in found : place(f) <= PageLimit},
                                   !.version = "1.0"]

\* The index and the statute it names: any failure is an error and nothing is kept.
LawsJusticeXml(site) ==
    LET chosen == {f \in On(1, site[1].rows) : f.link \in Targets}
        whole  == site[1].up = "good" /\ (chosen # {} => site[2].up = "good")
    IN  IF ~whole THEN [Nothing EXCEPT !.error = TRUE, !.version = "xml_v1"]
        ELSE [Nothing EXCEPT !.raw = IF chosen = {} THEN {1} ELSE {1, 2},
                             !.found = chosen, !.version = "xml_v1"]

--------------------------------------------------------------------------------
(* A run.                                                                     *)

\* build_adapter finds a class for the parser, and run calls fetch and parse.
Result(row, site) ==
    CASE row.parser = "federal_court_html"     -> FederalCourtHtml(site, row)
      [] row.parser = "canlii_api"             -> CanliiApi(site, row)
      [] row.parser = "scc_lexum_api"          -> SccLexumApi(site)
      [] row.parser = "sk_legislature_html"    -> SkLegislatureHtml(site)
      [] row.parser = "sk_courts_html"         -> SkCourtsHtml(site)
      [] row.parser = "laws_justice_html"      -> LawsJusticeHtml(site)
      [] row.parser = "laws_justice_xml"       -> LawsJusticeXml(site)
      [] row.parser = "saskatoon_csv"          -> SaskatoonCsv(site)
      [] row.parser = "saskatoon_police_csv"   -> SaskatoonPoliceCsv(site)
      [] row.parser = "statscan_table"         -> StatscanTable(site)
      [] row.parser = "ckan_api"               -> CkanApi(site, row)
      [] row.parser = "crawlee_gov_news"       -> CrawleeGovNews(row)
      [] row.parser = "crawlee_police_release" -> CrawleePoliceRelease(row)

CreatesIncidents(row) == row.parser \in {"saskatoon_csv", "saskatoon_police_csv"}

\* check_record_type_allowed drops every record of a type the authority may not create.
Parsed(row, result) == IF CreatesIncidents(row) /\ ~row.creates THEN {} ELSE result.found

\* Mutant: a run is taken without a parser version.
RefusedUnfetched(row, result) == result.raw = {}

\* _validate_machine_ingest_contract
Refused(row, result) ==
    result.raw = {} \/ row.version = None \/ result.version # row.version

\* What _insert_review_item compares: only the statute adapter names its records; all
\* items of the others are the same unknown one.
Identity(parser, link) == IF parser = "laws_justice_xml" THEN link ELSE None

Waiting == {Identity(i.parser, i.link) : i \in {j \in items : j.status = "pending"}}

\* The items of a run, those that are already waiting left out.
Fresh(row, found) == {f \in found : Identity(row.parser, f.link) \notin Waiting}

Start(s, row, site) ==
    LET result == Result(row, site)
        found  == Parsed(row, result)
    IN
    /\ tx[s] = Idle
    /\ row.parser # None
    /\ tx' = [tx EXCEPT ![s] =
        [pc |-> "run", row |-> row, site |-> site, refused |-> Refused(row, result),
         raw |-> result.raw, waiting |-> Waiting,
         items |-> IF CreatesIncidents(row) THEN {} ELSE Fresh(row, found),
         incidents |-> IF CreatesIncidents(row)
                       THEN {<<row.parser, f.link>> : f \in found} ELSE {}]]
    /\ UNCHANGED <<items, incidents, snapshots, missed, raced>>

\* persist_ingestion_result and the commit: a refused run keeps nothing but its reason.
Commit(s) ==
    LET d    == tx[s]
        made == {[parser |-> d.row.parser, page |-> f.page, at |-> f.at, link |-> f.link,
                  snap |-> Len(snapshots) + 1, status |-> "pending"] : f \in d.items}
    IN
    /\ d.pc = "run"
    /\ IF d.refused THEN UNCHANGED <<items, incidents, snapshots, raced>>
       ELSE /\ Len(snapshots) < MaxRuns /\ Cardinality(items \cup made) <= MaxItems
            /\ snapshots' = Append(snapshots, [p \in d.raw |-> d.site[p]])
            /\ items' = items \cup made
            /\ incidents' = incidents \cup d.incidents
            /\ raced' = (raced \/ d.waiting # Waiting)
    /\ missed' = (missed \/ (d.row.ready /\ d.site[1].rows # <<>> /\ d.refused))
    /\ tx' = [tx EXCEPT ![s] = Idle]

Rollback(s) ==
    /\ tx[s] # Idle
    /\ tx' = [tx EXCEPT ![s] = Idle]
    /\ UNCHANGED <<items, incidents, snapshots, missed, raced>>

\* A reviewer decides; an item decided no longer waits.
Decide(i) ==
    /\ i.status = "pending"
    /\ items' = (items \ {i}) \cup {[i EXCEPT !.status = "decided"]}
    /\ UNCHANGED <<incidents, snapshots, tx, missed, raced>>

Next ==
    \/ \E s \in Sessions :
        \/ \E row \in Rows, site \in Sites : Start(s, row, site)
        \/ Commit(s) \/ Rollback(s)
    \/ \E i \in items : Decide(i)

Spec == Init /\ [][Next]_vars

--------------------------------------------------------------------------------
TypeOK ==
    /\ \A i \in items : i.parser \in Parsers /\ i.snap \in DOMAIN snapshots
    /\ \A s \in Sessions : tx[s] # Idle => tx[s].row \in Rows

\* Every review item was listed on a page whose bytes its snapshot holds, except those on
\* the later pages of a year of the federal court (source_runner.py:94,
\* federal_court_html.py:141).
ItemsHaveEvidence ==
    \A i \in items :
        LET pages == snapshots[i.snap] IN
        \/ /\ i.page \in DOMAIN pages
           /\ i.link \in ToSet(pages[i.page].rows) \cup ToSet(pages[i.page].links)
        \/ i.parser = "federal_court_html" /\ i.page > 1

\* Unless two runs overlapped, all items that wait under one identity come from one run:
\* as long as one decision of the first run waits, no later run queues anything
\* (source_runner.py:202).
OneRunWaits ==
    raced \/ \A i, j \in items :
        /\ i.status = "pending" /\ j.status = "pending"
        /\ Identity(i.parser, i.link) = Identity(j.parser, j.link)
        => i.snap = j.snap

\* No adapter that creates incidents reports its version: none of their records is ever
\* stored (source_runner.py:83).
NoIncidents == incidents = {}

AdaptersSafe == TypeOK /\ ItemsHaveEvidence /\ OneRunWaits /\ NoIncidents

\* Not true: docs/SOURCE_REGISTRY.md:47 says of machine_ready_disabled that only /enable
\* is missing.  The run of such a source is refused though its publisher answered.
ReadyDelivers == ~missed
================================================================================
