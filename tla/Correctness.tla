------------------------------ MODULE Correctness ------------------------------
(***************************************************************************)
(* The correctness checks of incidents and court events                    *)
(* (services/ai_correctness.py, api/routes/ai_correctness.py), the source  *)
(* verification by a local model (services/source_verifier.py) and the     *)
(* fetch both rest on (services/source_fetcher.py).                        *)
(***************************************************************************)
EXTENDS Integers, Sequences

CONSTANTS
    Forms,       \* the records imports store, see Records
    Sessions,
    MaxRows,     \* bound on the incident and event rows
    MaxSnapshots,\* bound on the SourceSnapshot rows
    None

Kinds == {"crime_incident", "court_event"}

\* supports: type and source present; url: the primary source's address; key: the stable
\* external id; area: type and city, or type and case; cell: the coordinates and the date,
\* None when absent; private: the text matches _PRIVATE_PATTERNS.
Records == [kind : Kinds, supports : BOOLEAN, url : {"x", "y", None}, key : {"k", None},
            precision : {"safe", "unsafe", "blocked", "unknown"}, area : {"a", "b"},
            cell : {1, 2, None}, dated : BOOLEAN, status : BOOLEAN, private : BOOLEAN]

CorrectnessAssumption == Forms \subseteq Records

VARIABLES
    rows,      \* CrimeIncident and Event rows
    checks,    \* AICorrectnessCheck rows: [of, kind, verdict, verified]
    snapshots, \* SourceSnapshot rows: [url, error, text]
    tx         \* Sessions -> the request that has not ended

vars == <<rows, checks, snapshots, tx>>

Idle == [op |-> "idle", of |-> 0]

Init ==
    /\ rows = <<>> /\ checks = <<>> /\ snapshots = <<>>
    /\ tx = [s \in Sessions |-> Idle]

--------------------------------------------------------------------------------
(* The five checks.                                                           *)

\* _check_incident_source, _check_event_source: an event needs no address.
SourceSupports(r) == r.supports /\ (r.kind = "crime_incident" => r.url # None)

\* _SAFE_PRECISIONS and coordinates, or a primary location.
Located(r) == r.cell # None /\ (r.kind = "crime_incident" => r.precision = "safe")

PrivacyHigh(r) == r.private \/ (r.kind = "crime_incident" /\ r.precision = "unsafe")

Others(i) == {j \in DOMAIN rows \ {i} : rows[j].kind = rows[i].kind}

\* Mutant: the stable id is compared, the address is not.
DuplicatesByKey(i) ==
    {j \in Others(i) : rows[i].key # None /\ rows[j].key = rows[i].key}

\* _find_incident_duplicates: the first phase that finds something; what the record does
\* not say is not compared.  _find_event_duplicates is the last phase alone.
Duplicates(i) ==
    LET r     == rows[i]
        same  == {j \in Others(i) : r.key # None /\ rows[j].key = r.key}
        alike == {j \in Others(i) : r.url # None /\ rows[j].url = r.url}
        near  == {j \in Others(i) : rows[j].area = r.area /\ r.cell \in {None, rows[j].cell}}
    IN  IF r.kind = "crime_incident" /\ same # {} THEN same
        ELSE IF r.kind = "crime_incident" /\ alike # {} THEN alike
        ELSE near

\* _derive_quality
Verdict(i) ==
    LET r == rows[i] IN
    IF PrivacyHigh(r) \/ ~SourceSupports(r) THEN "rejected"
    ELSE IF Duplicates(i) # {} THEN "duplicate_candidate"
    ELSE IF ~Located(r) THEN "location_uncertain"
    ELSE IF ~(r.dated /\ r.status) THEN "needs_review"
    ELSE "verified"

SafeToShow(verdict) == verdict \in {"verified", "location_uncertain"}

\* public_record_quality: the latest check under that record type.
Quality(i, kind) ==
    LET mine == {k \in DOMAIN checks : checks[k].of = i /\ checks[k].kind = kind}
    IN  IF mine = {} THEN "unverified" ELSE checks[CHOOSE k \in mine : \A l \in mine : l <= k].verdict

--------------------------------------------------------------------------------
(* The routes.                                                                *)

Store(form) ==
    /\ Len(rows) < MaxRows
    /\ rows' = Append(rows, form)
    /\ UNCHANGED <<checks, snapshots, tx>>

\* A later import, or a reviewer, changes a record.
Change(i, form) ==
    /\ form.kind = rows[i].kind
    /\ rows' = [rows EXCEPT ![i] = form]
    /\ UNCHANGED <<checks, snapshots, tx>>

\* run_incident_check, run_event_check: the check and its findings are flushed.
RunCheck(s, i) ==
    /\ tx[s] = Idle
    /\ tx' = [tx EXCEPT ![s] = [op |-> "run", of |-> i, kind |-> rows[i].kind,
                                verdict |-> Verdict(i)]]
    /\ UNCHANGED <<rows, checks, snapshots>>

\* The audit payload asks the check for a status, a field AICorrectnessCheck does not
\* have: the request rolls back and answers 500.
EndCheck(s) ==
    /\ tx[s].op = "run"
    /\ tx' = [tx EXCEPT ![s] = Idle]
    /\ UNCHANGED <<rows, checks, snapshots>>

\* What a fetch comes to; only HTML has its text extracted.
Fetches == {"blocked", "http_error", "wrong_type", "too_large", "not_html", "empty", "html"}

Snapshot(url, fetch) == [url |-> url, error |-> fetch \notin {"not_html", "empty", "html"},
                         text |-> fetch = "html"]

\* What verify_source reports: a fetch without text ends it; the model's answer may be
\* missing, no JSON list, or a list.
Reports(fetch) ==
    CASE fetch = "html"  -> {"model_failed", "parse_failed", "ok"}
      [] fetch = "empty" -> {"empty_source"}
      [] OTHER           -> {"fetch_failed"}

\* verify_source_endpoint: the snapshot is committed in a session of its own, or lost
\* without a word, before the request's own transaction ends.
Verify(s, i, fetch, report, kept) ==
    LET r == rows[i] IN
    /\ tx[s] = Idle
    /\ r.url # None
    /\ kept => Len(snapshots) < MaxSnapshots
    /\ snapshots' = IF kept THEN Append(snapshots, Snapshot(r.url, fetch)) ELSE snapshots
    /\ tx' = [tx EXCEPT ![s] = [op |-> "verify", of |-> i, report |-> report,
                kind |-> IF r.kind = "court_event" THEN "event" ELSE r.kind]]
    /\ UNCHANGED <<rows, checks>>

\* The report goes into the latest check under the record type of the path.
EndVerify(s) ==
    LET d    == tx[s]
        mine == {k \in DOMAIN checks : checks[k].of = d.of /\ checks[k].kind = d.kind}
    IN
    /\ d.op = "verify"
    /\ checks' = [k \in DOMAIN checks |->
                    IF k \in mine /\ \A l \in mine : l <= k
                    THEN [checks[k] EXCEPT !.verified = d.report] ELSE checks[k]]
    /\ tx' = [tx EXCEPT ![s] = Idle]
    /\ UNCHANGED <<rows, snapshots>>

\* The model is switched off (503), an item of its list is no object, or the audit entry
\* fails.
VerifyFails(s) ==
    /\ tx[s].op = "verify"
    /\ tx' = [tx EXCEPT ![s] = Idle]
    /\ UNCHANGED <<rows, checks, snapshots>>

Next ==
    \/ \E f \in Forms : Store(f) \/ \E i \in DOMAIN rows : Change(i, f)
    \/ \E s \in Sessions :
        \/ \E i \in DOMAIN rows :
            \/ RunCheck(s, i)
            \/ \E f \in Fetches, kept \in BOOLEAN :
                \E report \in Reports(f) : Verify(s, i, f, report, kept)
        \/ EndCheck(s) \/ EndVerify(s) \/ VerifyFails(s)

Spec == Init /\ [][Next]_vars

--------------------------------------------------------------------------------

TypeOK ==
    /\ rows \in Seq(Records)
    /\ snapshots \in Seq([url : {"x", "y"}, error : BOOLEAN, text : BOOLEAN])
    /\ \A s \in Sessions : tx[s].of \in 0..Len(rows)

\* Two incidents with one source address or one stable id are each other's candidates,
\* whatever else they say: neither verdict lets its dot be shown (ai_correctness.py:
\* 438-482), as each would be hidden in favour of the other.
TwinsHidden ==
    \A i, j \in DOMAIN rows :
        /\ i # j /\ rows[i].kind = "crime_incident" /\ rows[j].kind = "crime_incident"
        /\ (rows[i].url # None /\ rows[i].url = rows[j].url)
           \/ (rows[i].key # None /\ rows[i].key = rows[j].key)
        => ~SafeToShow(Verdict(i)) /\ ~SafeToShow(Verdict(j))

\* What the checks call private or unsupported is not shown, and a source without text
\* never counts as verified (ai_correctness.py:237-256, source_verifier.py:176-196).
UnsafeHidden ==
    \A i \in DOMAIN rows :
        PrivacyHigh(rows[i]) \/ ~SourceSupports(rows[i]) => ~SafeToShow(Verdict(i))

\* As no check is ever stored, no record has a public label, whatever its type
\* (api/routes/ai_correctness.py:280-310).
NoLabel == \A i \in DOMAIN rows, k \in Kinds \cup {"event"} : Quality(i, k) = "unverified"

CorrectnessSafe == TypeOK /\ TwinsHidden /\ UnsafeHidden /\ NoLabel

\* "POST /api/admin/correctness/run/incident/{id} - run check on CrimeIncident"
\* (api/routes/ai_correctness.py:5): the request that runs a check stores it.  The code
\* breaks it on every request.
CheckIsStored ==
    [][\A s \in Sessions :
        tx[s].op = "run" /\ tx'[s] # tx[s] => \E k \in DOMAIN checks' : checks'[k].of = tx[s].of]_vars
================================================================================
