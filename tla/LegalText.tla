------------------------------- MODULE LegalText -------------------------------
(***************************************************************************)
(* One legal instrument: its sections and their revisions as the statute   *)
(* imports write them (ingestion/source_runner.py), the review items made  *)
(* for it, and the decisions on those items (review/decisions.py), which   *)
(* make its text citable (services/evidence_chat.py).  An import and a     *)
(* decision each read in one transaction and write when it commits.        *)
(***************************************************************************)
EXTENDS Integers, Sequences

CONSTANTS
    Labels,     \* what identifies a section: its label and subsection label
    Unnamed,    \* the labels without a subsection label: NULLs never collide
    Texts,
    Documents,  \* the statutes a fetch may return: sequences of [label, text]
    Sessions,
    MaxRows,    \* bound on the section rows
    MaxRevs,    \* bound on the revision rows
    MaxItems,   \* bound on the review items
    None

Decisions == {"approved", "rejected", "flagged"}
Statuses  == Decisions \cup {"pending"}

\* None is neither a decision nor a row.
LegalTextAssumption ==
    /\ Documents \subseteq Seq([label : Labels, text : Texts])
    /\ None \notin Decisions /\ None \notin [status : Statuses, public : BOOLEAN]

VARIABLES
    inst,   \* LegalInstrument: None or [status, public]
    rows,   \* LegalSection rows by id
    revs,   \* LegalSectionRevision rows in commit order; row: the section's id
    items,  \* ReviewItem rows of the instrument
    tx,     \* Sessions -> the transaction between its reads and its commit
    last,   \* history: the last decision committed that found the instrument
    raced   \* history: two transactions on the instrument have overlapped

vars == <<inst, rows, revs, items, tx, last, raced>>

Rows  == [label : Labels, text : Texts, version : Nat \ {0}]
Revs  == [row : Nat \ {0}, number : Nat \ {0}, prev : Texts \cup {None}, new : Texts]
Items == [status : Statuses, public : BOOLEAN, document : Documents]

Idle == [pc |-> "idle"]

Init ==
    /\ inst = None
    /\ rows = <<>>
    /\ revs = <<>>
    /\ items = <<>>
    /\ tx = [s \in Sessions |-> Idle]
    /\ last = None
    /\ raced = FALSE

--------------------------------------------------------------------------------
(* Imports.                                                                   *)

\* The row a section of a document updates: the first with its label, 0 for none.
RowOf(table, label) ==
    LET found == {i \in DOMAIN table : table[i].label = label}
    IN  IF found = {} THEN 0 ELSE CHOOSE i \in found : \A j \in found : i <= j

Revision(row, number, prev, new) == [row |-> row, number |-> number, prev |-> prev, new |-> new]

\* One section: a new row with revision 1, or a changed text with the next revision.  A
\* label that comes twice changes its row twice, at every import.
AddSection(tables, section) ==
    LET i   == RowOf(tables.rows, section.label)
        old == tables.rows[i]
    IN  IF i = 0
        THEN [rows |-> Append(tables.rows, [label |-> section.label, text |-> section.text,
                                            version |-> 1]),
              revs |-> Append(tables.revs,
                              Revision(Len(tables.rows) + 1, 1, None, section.text))]
        ELSE IF old.text = section.text THEN tables
        ELSE [rows |-> [tables.rows EXCEPT ![i] = [old EXCEPT !.text = section.text,
                                                              !.version = old.version + 1]],
              revs |-> Append(tables.revs,
                              Revision(i, old.version + 1, old.text, section.text))]

\* persist_ingestion_result: the instrument, its sections as the session reads them, and a
\* review item unless one is pending.  An approved instrument stays approved whatever its
\* new text is.
ReadToImport(s, doc) ==
    /\ tx[s] = Idle
    /\ tx' = [tx EXCEPT ![s] =
                [pc |-> "import", base |-> rows, inst |-> inst, left |-> doc,
                 tables |-> [rows |-> rows, revs |-> <<>>],
                 fresh |-> IF \E i \in DOMAIN items : items[i].status = "pending" THEN <<>>
                           ELSE <<[status |-> "pending", public |-> FALSE, document |-> doc]>>]]
    /\ UNCHANGED <<inst, rows, revs, items, last, raced>>

\* The document, section after section, in the session.
ImportSection(s) ==
    /\ tx[s].pc = "import" /\ tx[s].left # <<>>
    /\ tx' = [tx EXCEPT ![s].tables = AddSection(@, Head(tx[s].left)), ![s].left = Tail(@)]
    /\ UNCHANGED <<inst, rows, revs, items, last, raced>>

\* Only the columns that differ from what the session read are written.
Written(row, was, now) ==
    [row EXCEPT !.status = IF was.status = now.status THEN @ ELSE now.status,
                !.public = IF was.public = now.public THEN @ ELSE now.public]

Draft == [status |-> "pending", public |-> FALSE]

\* The ids the new rows get are those after the rows committed meanwhile.
Shifted(d) ==
    LET base == Len(d.base) IN
    [k \in DOMAIN d.tables.revs |->
        IF d.tables.revs[k].row <= base THEN d.tables.revs[k]
        ELSE [d.tables.revs[k] EXCEPT !.row = @ + Len(rows) - base]]

NewRows(d) == SubSeq(d.tables.rows, Len(d.base) + 1, Len(d.tables.rows))

\* Mutant: revisions without their unique constraint.
CollidesNever(d) == d.inst = None /\ inst # None

\* The unique constraints of the three tables.
Collides(d) ==
    \/ d.inst = None /\ inst # None
    \/ \E i \in DOMAIN NewRows(d), j \in DOMAIN rows :
          NewRows(d)[i].label = rows[j].label /\ rows[j].label \notin Unnamed
    \/ \E k \in DOMAIN Shifted(d), l \in DOMAIN revs :
          revs[l].row = Shifted(d)[k].row /\ revs[l].number = Shifted(d)[k].number

CommitImport(s) ==
    LET d == tx[s] IN
    /\ d.pc = "import" /\ d.left = <<>>
    /\ ~Collides(d)
    /\ Len(rows) + Len(NewRows(d)) <= MaxRows /\ Len(items) + Len(d.fresh) <= MaxItems
    /\ Len(revs) + Len(d.tables.revs) <= MaxRevs
    /\ inst' = IF d.inst = None THEN Draft
               ELSE IF d.inst.status = "approved" THEN inst
               ELSE Written(inst, d.inst, Draft)
    /\ rows' = [i \in DOMAIN rows |->
                  IF i <= Len(d.base) /\ d.base[i] # d.tables.rows[i] THEN d.tables.rows[i]
                  ELSE rows[i]] \o NewRows(d)
    /\ revs' = revs \o Shifted(d)
    /\ items' = items \o d.fresh
    /\ tx' = [tx EXCEPT ![s] = Idle]
    /\ raced' = (raced \/ d.inst # inst)
    /\ UNCHANGED last

--------------------------------------------------------------------------------
(* Decisions.                                                                 *)

\* record_decision: on an item in any status.
ReadToDecide(s, i, decision) ==
    /\ tx[s] = Idle
    /\ tx' = [tx EXCEPT ![s] = [pc |-> "decide", item |-> i, was |-> items[i],
                                decision |-> decision, inst |-> inst]]
    /\ UNCHANGED <<inst, rows, revs, items, last, raced>>

\* Mutant: a decision that leaves the instrument's visibility as it was.
DecidedStatusOnly(decision) ==
    [status |-> decision, public |-> decision = "approved" \/ (inst # None /\ inst.public)]

Decided(decision) == [status |-> decision, public |-> decision = "approved"]

\* An approved item stays public_visibility TRUE when it is rejected later.
CommitDecision(s) ==
    LET d   == tx[s]
        now == [status |-> d.decision, public |-> d.was.public \/ d.decision = "approved"]
    IN
    /\ d.pc = "decide"
    /\ items' = [items EXCEPT ![d.item] = Written(@, d.was, now)]
    /\ inst' = IF d.inst = None THEN inst ELSE Written(inst, d.inst, Decided(d.decision))
    /\ last' = IF d.inst = None THEN last ELSE d.decision
    /\ tx' = [tx EXCEPT ![s] = Idle]
    /\ raced' = (raced \/ d.inst # inst)
    /\ UNCHANGED <<rows, revs>>

\* An IntegrityError, a failed commit, a lost connection.
Rollback(s) ==
    /\ tx[s] # Idle
    /\ tx' = [tx EXCEPT ![s] = Idle]
    /\ UNCHANGED <<inst, rows, revs, items, last, raced>>

Next ==
    \E s \in Sessions :
        \/ \E doc \in Documents : ReadToImport(s, doc)
        \/ ImportSection(s)
        \/ CommitImport(s)
        \/ \E i \in DOMAIN items, decision \in Decisions : ReadToDecide(s, i, decision)
        \/ CommitDecision(s)
        \/ Rollback(s)

Spec == Init /\ [][Next]_vars

--------------------------------------------------------------------------------

TypeOK ==
    /\ inst = None \/ inst \in [status : Statuses, public : BOOLEAN]
    /\ rows \in Seq(Rows)
    /\ revs \in Seq(Revs)
    /\ items \in Seq(Items)
    /\ last \in Decisions \cup {None}
    /\ raced \in BOOLEAN

\* The revisions of the row i in table lead from the text of version from to what row
\* says: each number once and in order, each from the text the one before it stored.
Leads(table, i, from, text, row) ==
    /\ from <= row.version /\ (from = row.version => text = row.text)
    /\ \A n \in from + 1..row.version :
          \E k \in DOMAIN table : table[k].row = i /\ table[k].number = n
    /\ \A k \in DOMAIN table : table[k].row = i =>
          /\ table[k].number \in from + 1..row.version
          /\ table[k].number = from + 1 => table[k].prev = text
          /\ table[k].number = row.version => table[k].new = row.text
          /\ \A l \in DOMAIN table : table[l].row = i =>
                /\ k < l => table[k].number < table[l].number
                /\ table[l].number = table[k].number + 1 => table[l].prev = table[k].new

\* The revisions of a section are 1, 2, ... up to its text_version, each starts from the
\* text the one before it stored, and the last one stored the section's text, however
\* imports overlap (source_runner.py:326-351: the hash is compared with what the
\* session read, and nothing is locked).
RevisionsChain ==
    /\ \A k \in DOMAIN revs : revs[k].row \in DOMAIN rows
    /\ \A i \in DOMAIN rows : Leads(revs, i, 0, None, rows[i])

\* What evidence_chat.py:98-99 and assert_legal_instrument_publication_ready ask.
Citable == inst # None /\ inst.status = "approved" /\ inst.public

\* Text is cited only after an approval and, unless transactions overlapped, only while
\* no later decision has withdrawn it (decisions.py:68-75, source_runner.py:296-298:
\* an import resets what is not approved).
CitableIsApproved ==
    /\ Citable => last # None
    /\ Citable /\ ~raced => last = "approved"
    /\ inst # None /\ inst.public /\ ~raced => inst.status = "approved"

LegalTextSafe == TypeOK /\ RevisionsChain /\ CitableIsApproved

\* The text a reader is shown is the text of an approved review item.  The code breaks
\* it: an import of changed text leaves the approval in place.
CitedTextIsReviewed ==
    Citable => \E i \in DOMAIN items :
        /\ items[i].status = "approved"
        /\ \A r \in DOMAIN rows : \E k \in DOMAIN items[i].document :
              items[i].document[k].text = rows[r].text
================================================================================
