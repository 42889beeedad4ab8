----------------------------- MODULE EvidenceStore -----------------------------
(***************************************************************************)
(* Evidence snapshots: write_snapshot (services/snapshot_writer.py) keeps  *)
(* small contents in the row and large ones in the content-addressed store *)
(* (services/evidence_store.py), whose steps other processes interleave    *)
(* with: the look at the file that is there, the temporary file, the       *)
(* rename, the check of what was written.  Row and custody event are       *)
(* committed by the caller.  Files may be damaged at rest, processes crash.*)
(***************************************************************************)
EXTENDS Integers, Sequences, FiniteSets

CONSTANTS
    Contents,  \* the byte strings fetched
    Form,      \* Contents -> "empty", "text", "binary", "prefixed" (a text that begins
               \* with base64:) or "large" (above MAX_DB_SIZE)
    Writers,   \* sessions, in one process or several
    MaxRows,   \* bound on the snapshot rows
    None, Garbled

EvidenceStoreAssumption ==
    /\ None \notin Contents /\ Garbled \notin Contents
    /\ Form \in [Contents -> {"empty", "text", "binary", "prefixed", "large"}]

VARIABLES
    root,     \* JTA_EVIDENCE_STORE_ROOT is set
    files,    \* Contents -> what the path of its hash holds: the content, None or Garbled
    rows,     \* SourceSnapshot rows, committed
    custody,  \* ChainOfCustodyLog: the indices of the rows with a "created" event
    wr        \* Writers -> the write_snapshot under way

vars == <<root, files, rows, custody, wr>>

\* sound (history): the file was whole when the store step ended and was not damaged since.
Idle == [pc |-> "idle", content |-> None, named |-> FALSE, sound |-> FALSE]

Init ==
    /\ root \in BOOLEAN
    /\ files = [c \in Contents |-> None]
    /\ rows = <<>>
    /\ custody = {}
    /\ wr = [w \in Writers |-> Idle]

--------------------------------------------------------------------------------
(* The column raw_content.                                                    *)

\* _encode_for_db: text as it is, other bytes in base64 behind the prefix.
Encoded(c) ==
    CASE Form[c] = "binary"   -> [prefix |-> TRUE,  body |-> c]
      [] Form[c] = "prefixed" -> [prefix |-> TRUE,  body |-> Garbled]
      [] OTHER                -> [prefix |-> FALSE, body |-> c]

\* _decode_from_db: what follows the prefix is decoded, whoever wrote the prefix.
Decoded(raw) == raw.body

\* read_snapshot_content; None also stands for the OSError of a missing file or root.
Read(row) ==
    IF row.backend = "filesystem" THEN IF root THEN files[row.content] ELSE None
    ELSE IF Form[row.content] = "empty" THEN None ELSE Decoded(row.raw)

\* verify_snapshot_integrity, retrieve_and_verify and the two verify routes: the hash of
\* what is read against the hash of what was given.
Verifies(row) == Read(row) = row.content

--------------------------------------------------------------------------------
(* write_snapshot.                                                            *)

\* A named source with an empty content and a large content without a store raise
\* ValueError before anything is written.
Begin(w, c, named) ==
    /\ wr[w].pc = "idle"
    /\ Len(rows) < MaxRows
    /\ ~(Form[c] = "empty" /\ named)
    /\ Form[c] = "large" => root
    /\ wr' = [wr EXCEPT ![w] = [pc |-> IF Form[c] = "large" THEN "look" ELSE "row",
                                content |-> c, named |-> named, sound |-> FALSE]]
    /\ UNCHANGED <<root, files, rows, custody>>

\* Mutant: a file that is there is trusted without reading it.
LookTrusting(w) ==
    /\ wr[w].pc = "look"
    /\ wr' = [wr EXCEPT ![w].pc = IF files[wr[w].content] # None THEN "row" ELSE "temp",
                        ![w].sound = files[wr[w].content] # None]
    /\ UNCHANGED <<root, files, rows, custody>>

\* A file that is there is taken only if its bytes have the hash.
Look(w) ==
    LET whole == files[wr[w].content] = wr[w].content IN
    /\ wr[w].pc = "look"
    /\ wr' = [wr EXCEPT ![w].pc = IF whole THEN "row" ELSE "temp", ![w].sound = whole]
    /\ UNCHANGED <<root, files, rows, custody>>

\* os.replace of the temporary file, written and synced under another name.
Replace(w) ==
    /\ wr[w].pc = "temp"
    /\ files' = [files EXCEPT ![wr[w].content] = wr[w].content]
    /\ wr' = [wr EXCEPT ![w].pc = "check", ![w].sound = TRUE]
    /\ UNCHANGED <<root, rows, custody>>

\* The check after the rename; an IOError leaves the file where it is.
Check(w) ==
    /\ wr[w].pc = "check"
    /\ wr' = [wr EXCEPT ![w] = IF files[@.content] = @.content
                               THEN [@ EXCEPT !.pc = "row"] ELSE Idle]
    /\ UNCHANGED <<root, files, rows, custody>>

Row(d) == [content |-> d.content, named |-> d.named, sound |-> d.sound,
           backend |-> IF Form[d.content] = "large" THEN "filesystem" ELSE "db",
           raw |-> Encoded(d.content)]

\* The caller commits the row with its custody event.
Commit(w) ==
    /\ wr[w].pc = "row"
    /\ Len(rows) < MaxRows
    /\ rows' = Append(rows, Row(wr[w]))
    /\ custody' = custody \cup {Len(rows) + 1}
    /\ wr' = [wr EXCEPT ![w] = Idle]
    /\ UNCHANGED <<root, files>>

\* A write that fails, a rollback or the end of the process: a file that is already
\* renamed stays.
Abandon(w) ==
    /\ wr[w].pc # "idle"
    /\ wr' = [wr EXCEPT ![w] = Idle]
    /\ UNCHANGED <<root, files, rows, custody>>

\* All processes restart, perhaps with another configuration.
Restart ==
    /\ wr' = [w \in Writers |-> Idle]
    /\ root' \in BOOLEAN
    /\ UNCHANGED <<files, rows, custody>>

\* Bytes at rest are damaged or a file is lost.
Damage(c) ==
    /\ files[c] = c
    /\ \E x \in {None, Garbled} : files' = [files EXCEPT ![c] = x]
    /\ rows' = [i \in DOMAIN rows |-> IF rows[i].content = c
                                      THEN [rows[i] EXCEPT !.sound = FALSE] ELSE rows[i]]
    /\ wr' = [w \in Writers |-> IF wr[w].content = c
                                THEN [wr[w] EXCEPT !.sound = FALSE] ELSE wr[w]]
    /\ UNCHANGED <<root, custody>>

--------------------------------------------------------------------------------
(* The archive.                                                               *)

\* export_snapshots_to_jsonl: one record for each row, the source key as it is.
Exported == [i \in DOMAIN rows |-> [id |-> i, key |-> rows[i].named, hash |-> rows[i].content]]

\* _check_snapshot_record: the fields that must not be empty.
RecordValid(r) == r.key /\ r.hash # None

\* VerifyResult.ok of verify_jsonl_export.
ExportVerifies == Len(Exported) > 0 /\ \A i \in DOMAIN Exported : RecordValid(Exported[i])

Next ==
    \/ \E w \in Writers, c \in Contents, b \in BOOLEAN : Begin(w, c, b)
    \/ \E w \in Writers : Look(w) \/ Replace(w) \/ Check(w) \/ Commit(w) \/ Abandon(w)
    \/ Restart
    \/ \E c \in Contents : Damage(c)

Spec == Init /\ [][Next]_vars

--------------------------------------------------------------------------------
TypeOK ==
    /\ root \in BOOLEAN
    /\ \A c \in Contents : files[c] \in {c, None, Garbled}
    /\ \A i \in DOMAIN rows : rows[i].content \in Contents /\ rows[i].sound \in BOOLEAN
    /\ custody \subseteq DOMAIN rows
    /\ \A w \in Writers :
        /\ wr[w].pc \in {"idle", "look", "temp", "check", "row"}
        /\ wr[w].content \in Contents \cup {None} /\ wr[w].sound \in BOOLEAN

\* A writer goes on to its row, and a row is committed, only with a file that is whole
\* unless it was damaged later: not when another writer found, replaced or checked the
\* same path meanwhile or crashed in between (evidence_store.py:156-207).
FilesWhole ==
    /\ \A w \in Writers : wr[w].sound => files[wr[w].content] = wr[w].content
    /\ \A i \in DOMAIN rows : rows[i].sound => files[rows[i].content] = rows[i].content

\* Damage at rest aside, every committed row reads back the bytes it was given, except
\* texts that begin with the prefix themselves (snapshot_writer.py:48-85, 207-236).
ReadsBack ==
    \A i \in DOMAIN rows :
        CASE Form[rows[i].content] = "large"              -> root /\ rows[i].sound => Verifies(rows[i])
          [] Form[rows[i].content] \in {"text", "binary"} -> Verifies(rows[i])
          [] OTHER                                        -> ~Verifies(rows[i])

\* Row and custody event are there together (snapshot_writer.py:198-204).
CustodyComplete == custody = DOMAIN rows

\* The archive of a database verifies unless it is empty or some adapter wrote a
\* snapshot without source key (verify_export.py:112-160, export_snapshots.py:50-72).
ArchiveExplained ==
    ExportVerifies <=> rows # <<>> /\ \A i \in DOMAIN rows : rows[i].named

EvidenceSafe == TypeOK /\ FilesWhole /\ ReadsBack /\ CustodyComplete /\ ArchiveExplained

\* "The original raw bytes, identical to what was passed to _encode_for_db"
\* (snapshot_writer.py:75-77).
LosslessText == \A i \in DOMAIN rows : rows[i].backend = "db" => Decoded(rows[i].raw) = rows[i].content
================================================================================
