------------------------------ MODULE WebMonitor ------------------------------
(***************************************************************************)
(* One crawl of a web monitor target (ingestion/web_monitor): concurrent   *)
(* page handlers that interleave at their awaits, share the sets of what   *)
(* was seen and one database session, and the end of the run, which        *)
(* commits everything or nothing.                                          *)
(***************************************************************************)
EXTENDS Integers, Sequences, FiniteSets

CONSTANTS
    Urls, StartUrls,
    Content,       \* Urls -> what the address serves; "file" is no HTML
    LinksOf,       \* Urls -> the addresses of the same host a page links to
    Deepest,       \* the pages at the depth limit, whose links are left alone
    Listed,        \* the addresses the target's domains allow
    Disallowed,    \* those robots.txt forbids, or whose robots.txt cannot be read
    Blocked,       \* contents auto_review blocks
    MaxRequests,
    Concurrency

WebMonitorAssumption ==
    /\ \A S \in {StartUrls, Listed, Disallowed, Deepest} : S \subseteq Urls
    /\ \A u \in Urls : LinksOf[u] \subseteq Urls
    /\ MaxRequests \in 1..100 /\ Concurrency \in 1..5

VARIABLES
    page,      \* Urls -> the state of its request
    hashes,    \* _seen_hashes
    snapshots, \* contents flushed, in order
    items,     \* the review items added: content -> status
    errors,    \* the number of errors collected
    parsed,
    dead,      \* a flush has failed: the session refuses everything until a rollback
    run        \* the IngestionRun; its status is "none", "running" and "lost" too

vars == <<page, hashes, snapshots, items, errors, parsed, dead, run>>

Active == {u \in Urls : page[u] \in {"reading", "linking", "storing"}}

Row(status) == [status |-> status, fetched |-> Len(snapshots), parsed |-> parsed,
                persisted |-> Len(items), errors |-> errors]

Init ==
    /\ page = [u \in Urls |-> "unknown"]
    /\ hashes = {} /\ snapshots = <<>> /\ items = <<>>
    /\ errors = 0 /\ parsed = 0
    /\ dead = FALSE
    /\ run = Row("none")

\* check_ingestion_allowed refuses: a failed run with one error is committed.
Refuse ==
    /\ run.status = "none"
    /\ run' = [Row("failed") EXCEPT !.errors = 1]
    /\ UNCHANGED <<page, hashes, snapshots, items, errors, parsed, dead>>

Start ==
    /\ run.status = "none"
    /\ run' = Row("running")
    /\ page' = [u \in Urls |-> IF u \in StartUrls THEN "queued" ELSE "unknown"]
    /\ UNCHANGED <<hashes, snapshots, items, errors, parsed, dead>>

--------------------------------------------------------------------------------
(* The handler.                                                               *)

\* Up to its first await.  The limit counts the pages stored, not those under way.
Enter(u) ==
    /\ run.status = "running" /\ page[u] = "queued"
    /\ Cardinality(Active) < Concurrency
    /\ page' = [page EXCEPT ![u] =
                 IF Len(snapshots) < MaxRequests /\ u \in Listed /\ u \notin Disallowed
                 THEN "reading" ELSE "skipped"]
    /\ UNCHANGED <<hashes, snapshots, items, errors, parsed, dead, run>>

\* The request fails, and each retry: the handler is never called and no error collected.
Unanswered(u) ==
    /\ run.status = "running" /\ page[u] = "queued"
    /\ page' = [page EXCEPT ![u] = "unanswered"]
    /\ UNCHANGED <<hashes, snapshots, items, errors, parsed, dead, run>>

\* Crawlee gives a handler up at one of its awaits; the retry finds its address seen.
TimeOut(u) ==
    /\ run.status = "running" /\ u \in Active
    /\ page' = [page EXCEPT ![u] = "given_up"]
    /\ UNCHANGED <<hashes, snapshots, items, errors, parsed, dead, run>>

Fails(u) ==
    /\ page' = [page EXCEPT ![u] = "failed"]
    /\ errors' = errors + 1

\* The body has been read: the content type, the contents seen in this run.
Read(u) ==
    /\ run.status = "running" /\ page[u] = "reading"
    /\ IF Content[u] = "file" \/ Content[u] \in hashes
       THEN page' = [page EXCEPT ![u] = "done"] /\ UNCHANGED hashes
       ELSE page' = [page EXCEPT ![u] = "linking"] /\ hashes' = hashes \cup {Content[u]}
    /\ UNCHANGED <<snapshots, items, errors, parsed, dead, run>>

\* Mutant: an error that is logged and not collected.
BreakQuietly(u) ==
    /\ run.status = "running" /\ u \in Active
    /\ page' = [page EXCEPT ![u] = "failed"]
    /\ UNCHANGED <<hashes, snapshots, items, errors, parsed, dead, run>>

\* enqueue_links: the addresses not queued before, whatever becomes of the page itself.
Link(u) ==
    LET found == {v \in LinksOf[u] : u \notin Deepest /\ page[v] = "unknown"} IN
    /\ run.status = "running" /\ page[u] = "linking"
    /\ page' = [v \in Urls |-> IF v = u THEN "storing" ELSE IF v \in found THEN "queued"
                               ELSE page[v]]
    /\ UNCHANGED <<hashes, snapshots, items, errors, parsed, dead, run>>

\* Reading the body, enqueueing the links or writing the evidence raises; so does every
\* use of a dead session.
Break(u) ==
    /\ run.status = "running" /\ u \in Active
    /\ Fails(u)
    /\ UNCHANGED <<hashes, snapshots, items, parsed, dead, run>>

\* The flush of the snapshot fails, or of the item of an earlier page.
FlushFails(u) ==
    /\ run.status = "running" /\ page[u] = "storing"
    /\ Fails(u)
    /\ dead' = TRUE
    /\ UNCHANGED <<hashes, snapshots, items, parsed, run>>

\* Mutant: a page whose item cannot be made leaves no error.
KeepQuietly(u, outcome) ==
    /\ run.status = "running" /\ page[u] = "storing"
    /\ ~dead
    /\ page' = [page EXCEPT ![u] = "done"]
    /\ snapshots' = Append(snapshots, Content[u])
    /\ parsed' = parsed + (IF outcome = "unparsed" THEN 0 ELSE 1)
    /\ items' = IF outcome = "item"
                THEN Append(items, IF Content[u] \in Blocked THEN "blocked" ELSE "pending")
                ELSE items
    /\ errors' = errors + (IF outcome = "unparsed" THEN 1 ELSE 0)
    /\ UNCHANGED <<hashes, dead, run>>

\* The snapshot is stored and counted.  Then the page is parsed and its item added, or
\* extract_from_page raises, or _create_review_item does, after the page was counted as
\* parsed; either error is collected and the snapshot stays.
Keep(u, outcome) ==
    /\ run.status = "running" /\ page[u] = "storing"
    /\ ~dead
    /\ page' = [page EXCEPT ![u] = "done"]
    /\ snapshots' = Append(snapshots, Content[u])
    /\ parsed' = parsed + (IF outcome = "unparsed" THEN 0 ELSE 1)
    /\ items' = IF outcome = "item"
                THEN Append(items, IF Content[u] \in Blocked THEN "blocked" ELSE "pending")
                ELSE items
    /\ errors' = errors + (IF outcome = "item" THEN 0 ELSE 1)
    /\ UNCHANGED <<hashes, dead, run>>

--------------------------------------------------------------------------------
(* The end of the run.                                                        *)

Opened == {u \in Urls : page[u] \notin {"unknown", "queued"}}

\* The crawler stops when nothing is queued, or after as many requests as it may make:
\* max_requests once more.
Ready ==
    /\ run.status = "running" /\ Active = {}
    /\ (\A u \in Urls : page[u] # "queued") \/ Cardinality(Opened) >= MaxRequests

\* The commit; a dead session, or a commit that fails, fails again in the except branch,
\* which records nothing.  When update_source_health raises, the run committed is failed.
End ==
    /\ Ready
    /\ \/ ~dead /\ run' = Row(IF errors = 0 THEN "completed" ELSE "completed_with_warnings")
       \/ ~dead /\ run' = [Row("failed") EXCEPT !.errors = @ + 1]
       \/ run' = Row("lost")
    /\ UNCHANGED <<page, hashes, snapshots, items, errors, parsed, dead>>

\* crawler.run raises: the counts so far, and that error alone.
Fatal ==
    /\ run.status = "running"
    /\ run' = IF dead THEN Row("lost") ELSE [Row("failed") EXCEPT !.errors = 1]
    /\ UNCHANGED <<page, hashes, snapshots, items, errors, parsed, dead>>

Next ==
    \/ Refuse \/ Start \/ End \/ Fatal
    \/ \E u \in Urls :
        \/ Enter(u) \/ Unanswered(u) \/ Read(u) \/ Link(u) \/ TimeOut(u)
        \/ Break(u) \/ FlushFails(u)
        \/ \E outcome \in {"item", "no_item", "unparsed"} : Keep(u, outcome)

Spec == Init /\ [][Next]_vars

--------------------------------------------------------------------------------
Committed == run.status \notin {"none", "running", "lost"}

TypeOK ==
    /\ page \in [Urls -> {"unknown", "queued", "unanswered", "reading", "linking", "storing",
                        "done", "skipped", "failed", "given_up"}]
    /\ Len(items) <= parsed /\ parsed <= Len(snapshots)
    /\ dead \in BOOLEAN

\* A run that completed without warnings has a snapshot of every HTML page it was let
\* in to, though a content is noted as seen before it is stored: a page skipped as a
\* duplicate is one whose first copy was stored, or was given up unstored, which leaves no
\* error (crawlee_runner.py:352-391).
CompletedIsWhole ==
    Committed /\ run.status = "completed" =>
        \A u \in Urls : page[u] \in {"done", "failed"} /\ Content[u] # "file" =>
            \/ \E k \in DOMAIN snapshots : snapshots[k] = Content[u]
            \/ \E v \in Urls : page[v] = "given_up" /\ Content[v] = Content[u]

\* A crawl that reached its end tells of every page it stored without an item, wherever
\* between snapshot, count and item it failed (crawlee_runner.py:393-426).
GapsReported ==
    run.status \in {"completed", "completed_with_warnings"} =>
        /\ run.persisted <= run.parsed /\ run.parsed <= run.fetched
        /\ run.fetched - run.persisted <= run.errors

\* No content is stored twice, whatever the interleaving (crawlee_runner.py:352).
StoredOnce == \A k, l \in DOMAIN snapshots : snapshots[k] = snapshots[l] => k = l

\* A page whose flush failed is never in a run that was recorded: the whole run is lost
\* (crawlee_runner.py:391, 448-462).
DeadIsLost == dead => ~Committed

\* Handlers under way when the limit is reached go on: it is passed, but by at most the
\* concurrency less one (crawlee_runner.py:92, 311, 395).
LimitPassed == Len(snapshots) < MaxRequests + Concurrency

WebMonitorSafe ==
    /\ TypeOK /\ CompletedIsWhole /\ GapsReported /\ StoredOnce /\ DeadIsLost
    /\ LimitPassed
================================================================================
