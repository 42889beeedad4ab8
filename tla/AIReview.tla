------------------------------- MODULE AIReview -------------------------------
(***************************************************************************)
(* The review items the AI pipeline drafts (ai/pipeline.py), the decisions *)
(* reviewers take on them and the event drafts they publish                *)
(* (api/routes/ai_review.py).  Every request reads the item in one         *)
(* transaction, without a lock, and writes when it commits.                *)
(***************************************************************************)
EXTENDS Integers, Sequences, FiniteSets

CONSTANTS
    Sources,    \* what a source text may amount to, see SourceTexts
    Sessions,
    MaxItems,   \* bound on the ReviewItem rows
    MaxActions, \* bound on the ReviewActionLog rows
    None

Risks       == {"none", "soft", "hard"}
Transitions == {"approved", "rejected", "needs_more_sources", "blocked"}
Statuses    == Transitions \cup {"pending", "published"}

\* risk: what the redaction patterns find; whole: the court, case and location the event
\* needs are named and exist; link: the source's address, or None.
SourceTexts == [official : BOOLEAN, crime : BOOLEAN, repeat : BOOLEAN, risk : Risks,
                whole : BOOLEAN, link : {"x", "y", None}]

AIReviewAssumption == Sources \subseteq SourceTexts

VARIABLES
    items,   \* ReviewItem rows: [of (the source text), recommend, status]
    log,     \* ReviewActionLog rows: [item, action]
    events,  \* Event rows made from items, with their LegalSource: [item, link]
    links,   \* the addresses with a LegalSource row
    tx,      \* Sessions -> the request between its reads and its commit
    raced    \* history: the items on which two requests have overlapped

vars == <<items, log, events, links, tx, raced>>

Idle == [pc |-> "idle", item |-> 0, was |-> "pending", to |-> "pending", fresh |-> FALSE]

Init ==
    /\ items = <<>>
    /\ log = <<>>
    /\ events = <<>>
    /\ links = {}
    /\ tx = [s \in Sessions |-> Idle]
    /\ raced = {}

--------------------------------------------------------------------------------
(* The pipeline.                                                              *)

\* redact_private_data: the kinds of private data that block, those that only ask for
\* a review; any of them is a privacy risk.
Redacted(x) == CASE x.risk = "hard" -> "block"
                 [] OTHER           -> "review_required"

\* An official source without a privacy risk; a repeat-offender indicator is a field of
\* the legal payload only.
LowRisk(x) == x.official /\ (x.crime \/ ~x.repeat)

Recommendation(x) == IF x.risk = "none" /\ LowRisk(x) THEN "safe_auto_publish" ELSE Redacted(x)

\* process_source_with_ai, ingest_raw_source: analyse, insert, commit.  Whatever the
\* recommendation, the item waits for a reviewer.
Process(x) ==
    /\ Len(items) < MaxItems
    /\ items' = Append(items, [of |-> x, recommend |-> Recommendation(x),
                     status |-> IF Recommendation(x) = "block" THEN "blocked" ELSE "pending"])
    /\ UNCHANGED <<log, events, links, tx, raced>>

--------------------------------------------------------------------------------
(* Reviewers.                                                                 *)

\* approve, reject, needs-more-sources, block: from any status.
ReadToTransition(s, i, to) ==
    /\ tx[s] = Idle
    /\ tx' = [tx EXCEPT ![s] = [pc |-> "commit", item |-> i, was |-> items[i].status,
                                to |-> to, fresh |-> FALSE]]
    /\ UNCHANGED <<items, log, events, links, raced>>

\* Mutant: publish as the pipeline recommends, without the reviewer's approval.
PublishableUnapproved(i) ==
    /\ items[i].status # "blocked" /\ items[i].recommend # "block"
    /\ items[i].of.risk = "none"
    /\ ~items[i].of.crime /\ items[i].of.whole

\* The guards of publish_ai_review_item and of _publish_review_item_as_event.
Publishable(i) ==
    /\ items[i].status # "blocked" /\ items[i].recommend # "block"
    /\ items[i].of.risk = "none"
    /\ items[i].status = "approved"
    /\ ~items[i].of.crime /\ items[i].of.whole

\* The event, its source (the row with that address, or a new one) and the transition.
ReadToPublish(s, i) ==
    /\ tx[s] = Idle
    /\ Publishable(i)
    /\ tx' = [tx EXCEPT ![s] = [pc |-> "commit", item |-> i, was |-> items[i].status,
                                to |-> "published",
                                fresh |-> items[i].of.link \notin links \cup {None}]]
    /\ UNCHANGED <<items, log, events, links, raced>>

\* The status is written when it differs from the one read; the log row, and a
\* publication's event, always.  The unique url_hash refuses a second new source.
Commit(s) ==
    LET d    == tx[s]
        link == items[d.item].of.link
    IN
    /\ d.pc = "commit"
    /\ ~(d.fresh /\ link \in links)
    /\ Len(log) < MaxActions
    /\ items' = [items EXCEPT ![d.item].status = IF d.to = d.was THEN @ ELSE d.to]
    /\ log' = Append(log, [item |-> d.item, action |-> d.to])
    /\ events' = IF d.to = "published" THEN Append(events, [item |-> d.item, link |-> link])
                 ELSE events
    /\ links' = IF d.fresh THEN links \cup {link} ELSE links
    /\ raced' = raced \cup {i \in {d.item} : items[i].status # d.was}
    /\ tx' = [tx EXCEPT ![s] = Idle]

\* The audit entry fails (fail_closed), a constraint refuses, the connection drops.
Rollback(s) ==
    /\ tx[s] # Idle
    /\ tx' = [tx EXCEPT ![s] = Idle]
    /\ UNCHANGED <<items, log, events, links, raced>>

Next ==
    \/ \E x \in Sources : Process(x)
    \/ \E s \in Sessions :
        \/ \E i \in DOMAIN items, to \in Transitions : ReadToTransition(s, i, to)
        \/ \E i \in DOMAIN items : ReadToPublish(s, i)
        \/ Commit(s)
        \/ Rollback(s)

Spec == Init /\ [][Next]_vars

--------------------------------------------------------------------------------

TypeOK ==
    /\ items \in Seq([of : SourceTexts, status : Statuses,
                      recommend : {"safe_auto_publish", "review_required", "block"}])
    /\ log \in Seq([item : DOMAIN items, action : Transitions \cup {"published"}])
    /\ events \in Seq([item : DOMAIN items, link : {"x", "y", None}])
    /\ links \subseteq {"x", "y"}
    /\ raced \subseteq DOMAIN items

Logged(i, action) == {k \in DOMAIN log : log[k] = [item |-> i, action |-> action]}
EventsOf(i)       == {k \in DOMAIN events : events[k].item = i}

\* An event draft comes with its log row and its source, in one transaction, or not at
\* all (ai_review.py:336-349).
EventsAreLogged ==
    /\ \A i \in DOMAIN items : Cardinality(EventsOf(i)) = Cardinality(Logged(i, "published"))
    /\ \A k \in DOMAIN events : events[k].link \in links \cup {None}

\* Nothing is published that no reviewer approved before, whatever the pipeline
\* recommended and however requests overlap (ai_review.py:329-336).
PublishedWasApproved ==
    \A i \in DOMAIN items, k \in DOMAIN log :
        k \in Logged(i, "published") => \E j \in Logged(i, "approved") : j < k

\* Private data, a blocked recommendation, an incident: never an event.
HeldBack ==
    \A k \in DOMAIN events :
        LET x == items[events[k].item].of IN x.risk = "none" /\ ~x.crime /\ x.whole

\* The item's status is the last action of its log unless requests overlapped: two that
\* read the same status write it only when theirs differs (ai_review.py:49-61).
LogTellsStatus ==
    \A i \in DOMAIN items \ raced, k \in DOMAIN log :
        log[k].item = i /\ (\A l \in DOMAIN log : k < l => log[l].item # i)
            => items[i].status = log[k].action

AIReviewSafe == TypeOK /\ EventsAreLogged /\ PublishedWasApproved /\ HeldBack /\ LogTellsStatus

\* ai_review.py:331 "Blocked review items cannot publish".  The code breaks it: a block
\* committed between the reads and the commit of a publication is overwritten.
BlockStands ==
    [][\A i \in DOMAIN items : items[i].status = "blocked" => items'[i].status # "published"]_vars
================================================================================
