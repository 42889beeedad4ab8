------------------------------ MODULE ReleaseGate ------------------------------
(***************************************************************************)
(* scripts/release_gate.py: the checks run one after another, each leaving *)
(* its log in artifacts/proof/current, and the proof written from them     *)
(* while the source tree may change, the gate may die and another gate may *)
(* run in the same directory.                                              *)
(***************************************************************************)
EXTENDS Integers, Sequences, SequencesExt

CONSTANTS
    Steps,     \* the gate_steps in order: [name, after], after a step or None
    Gates,     \* the processes
    MaxStarts, \* bound: gates started
    Edits,     \* bound: the contents each proof input has, edit after edit, or None
    None       \* where it is not there

StepNames == {Steps[k].name : k \in DOMAIN Steps}
Closing   == {"proof_freshness", "readiness", "archive"}
Reports   == {"json", "manifest", "proof"}
Inputs    == DOMAIN Edits

ReleaseGateAssumption ==
    /\ Steps # <<>> /\ Steps \in Seq([name : StepNames, after : StepNames \cup {None}])
    /\ \A k, l \in DOMAIN Steps : Steps[k].name = Steps[l].name => k = l
    /\ \A k \in DOMAIN Steps : Steps[k].after = None \/ \E l \in 1..k - 1 : Steps[l].name = Steps[k].after
    /\ StepNames \cap (Closing \cup Reports) = {}
    /\ \A f \in Inputs : Edits[f] \in Seq(Range(Edits[f])) /\ Edits[f] # <<>>
    /\ None \notin Gates /\ MaxStarts \in Nat

VARIABLES
    dir,     \* artifacts/proof/current: the logs by name, and the proof files
    gate,    \* Gates -> the local state of main
    tree,    \* the files PROOF_INPUT_PATTERNS names, each the place in its Edits
    last,    \* history: the gate that emptied the directory last
    torn,    \* history: a gate has moved part of it away since
    overlap, \* history: a gate was started while another ran
    starts

vars == <<dir, gate, tree, last, torn, overlap, starts>>

Logs  == StepNames \cup Closing
Parts == Logs \cup Reports

\* A proof file that is not there; a log says who wrote it and how the check ended.
NoTree == [f \in Inputs |-> 1]
NoLog == [by |-> None, passed |-> FALSE, tree |-> NoTree]
NoProof == [by |-> None, passed |-> FALSE, tree |-> NoTree, results |-> <<>>]
Empty == [logs |-> [n \in Logs |-> NoLog], json |-> NoProof, manifest |-> <<>>, proof |-> NoLog]

Idle == [pc |-> "idle", todo |-> {}, results |-> <<>>, tree |-> NoTree, ok |-> FALSE]

Init ==
    /\ dir = Empty
    /\ gate = [g \in Gates |-> Idle]
    /\ tree = NoTree
    /\ last = None /\ torn = FALSE /\ overlap = FALSE /\ starts = 0

Running(g) == gate[g].pc # "idle"

\* The files of the directory that are there, and the directory without some of them.
Present ==
    {n \in Logs : dir.logs[n] # NoLog}
    \cup {r \in Reports : \/ r = "json" /\ dir.json # NoProof
                          \/ r = "manifest" /\ dir.manifest # <<>>
                          \/ r = "proof" /\ dir.proof # NoLog}

Without(parts) ==
    [logs     |-> [n \in Logs |-> IF n \in parts THEN NoLog ELSE dir.logs[n]],
     json     |-> IF "json" \in parts THEN NoProof ELSE dir.json,
     manifest |-> IF "manifest" \in parts THEN <<>> ELSE dir.manifest,
     proof    |-> IF "proof" \in parts THEN NoLog ELSE dir.proof]

\* Mutant: the files of the last run stay where they are.
StartOver(g) ==
    /\ ~Running(g) /\ starts < MaxStarts
    /\ starts' = starts + 1 /\ last' = g
    /\ overlap' = (overlap \/ \E h \in Gates : Running(h))
    /\ gate' = [gate EXCEPT ![g] = [Idle EXCEPT !.pc = "steps"]]
    /\ UNCHANGED <<dir, tree, torn>>

\* _archive_current_proof lists what is there,
Start(g) ==
    /\ ~Running(g) /\ starts < MaxStarts
    /\ starts' = starts + 1
    /\ overlap' = (overlap \/ \E h \in Gates : Running(h))
    /\ gate' = [gate EXCEPT ![g] = [Idle EXCEPT !.pc = "moving", !.todo = Present]]
    /\ UNCHANGED <<dir, tree, last, torn>>

\* and moves it away, one file after another in the order of the directory; the move of a
\* file another gate has taken raises.
Move(g, part) ==
    /\ gate[g].pc = "moving" /\ part \in gate[g].todo \cap Present
    /\ dir' = Without({part})
    /\ gate' = [gate EXCEPT ![g].todo = @ \ {part}]
    /\ torn' = TRUE
    /\ UNCHANGED <<tree, last, overlap, starts>>

\* stale_outputs, unlinked: a log of the archive check or the readiness is not among them.
Clear(g) ==
    /\ gate[g].pc = "moving" /\ gate[g].todo = {}
    /\ dir' = Without(StepNames \cup {"proof_freshness"} \cup Reports)
    /\ gate' = [gate EXCEPT ![g].pc = "steps"]
    /\ last' = g /\ torn' = FALSE
    /\ UNCHANGED <<tree, overlap, starts>>

Log(g, passed) == [by |-> g, passed |-> passed, tree |-> tree]
Entry(name, log) == [name |-> name, passed |-> log.passed, tree |-> log.tree]

\* The step writes its log and its result; then names the next state of main.
Record(g, name, passed, then) ==
    LET log == Log(g, passed) IN
    /\ dir' = [dir EXCEPT !.logs[name] = log]
    /\ gate' = [gate EXCEPT ![g].results = Append(@, Entry(name, log)), ![g].pc = then]
    /\ UNCHANGED <<tree, last, torn, overlap, starts>>

Failed(g, name) == \E k \in DOMAIN gate[g].results :
                     gate[g].results[k].name = name /\ ~gate[g].results[k].passed

\* _run: a check passes, fails or times out; one whose dependency failed is blocked.
Step(g) ==
    /\ gate[g].pc = "steps"
    /\ LET k == Len(gate[g].results) + 1
           then == IF k = Len(Steps) THEN "collect" ELSE "steps" IN
       \E passed \in BOOLEAN :
        /\ Failed(g, Steps[k].after) => ~passed
        /\ Record(g, Steps[k].name, passed, then)

\* _collect_proof_input_metadata, again, after the checks: this is the hash that is kept.
Collect(g) ==
    /\ gate[g].pc = "collect"
    /\ gate' = [gate EXCEPT ![g].pc = "draft", ![g].tree = tree]
    /\ UNCHANGED <<dir, tree, last, torn, overlap, starts>>

\* The first release_gate.json, with alpha_gate_passed false.
Draft(g) ==
    /\ gate[g].pc = "draft"
    /\ dir' = [dir EXCEPT !.json = [by |-> g, passed |-> FALSE, tree |-> gate[g].tree,
                                    results |-> gate[g].results]]
    /\ gate' = [gate EXCEPT ![g].pc = "freshness"]
    /\ UNCHANGED <<tree, last, torn, overlap, starts>>

\* validate_stored_manifest: every file the manifest lists is there with the content it had;
\* one that was not there then is not looked for (no --strict-extra-files).
ContentAt(f, listing) == Edits[f][listing[f]]
Kept(listing, now) ==
    \A f \in Inputs : ContentAt(f, listing) # None => ContentAt(f, now) = ContentAt(f, listing)

\* Mutant: the files the manifest lists need only be there.
FreshnessByName(g) ==
    /\ gate[g].pc = "freshness"
    /\ Record(g, "proof_freshness",
              /\ dir.json.by # None
              /\ \A f \in Inputs : ContentAt(f, dir.json.tree) # None => ContentAt(f, tree) # None,
              "readiness")

\* check_proof_freshness reads the listing from whatever release_gate.json is there.
Freshness(g) ==
    /\ gate[g].pc = "freshness"
    /\ Record(g, "proof_freshness", dir.json.by # None /\ Kept(dir.json.tree, tree), "readiness")

\* _build_proof_manifest: the results, and the hashes of the logs as they are now.
Manifest(results) == [k \in DOMAIN results |->
    [name |-> results[k].name, passed |-> results[k].passed, log |-> dir.logs[results[k].name]]]

\* The blockers of _generate_release_readiness_from_manifest (every step is required).
Unblocked(manifest) ==
    /\ \A k \in DOMAIN manifest : manifest[k].passed /\ manifest[k].log # NoLog
    /\ \E k \in DOMAIN manifest : manifest[k].name = "archive"
    /\ \E k \in DOMAIN manifest : manifest[k].name = "readiness"

\* The manifest, a readiness that is blocked still, its step that is recorded as passed, and
\* the reports, which say BLOCKED.
Readiness(g) ==
    /\ gate[g].pc = "readiness"
    /\ LET log == Log(g, FALSE) IN
       /\ dir' = [dir EXCEPT !.manifest = Manifest(gate[g].results),
                             !.logs["readiness"] = log, !.proof = log]
       /\ gate' = [gate EXCEPT ![g].results = Append(@, Entry("readiness", [log EXCEPT !.passed = TRUE])),
                               ![g].pc = "archive"]
    /\ UNCHANGED <<tree, last, torn, overlap, starts>>

\* validate_archive_proof.sh
Archive(g) ==
    /\ gate[g].pc = "archive"
    /\ \E passed \in BOOLEAN : Record(g, "archive", passed, "rewrite")

\* The manifest once more, and the readiness from it.
Rewrite(g) ==
    /\ gate[g].pc = "rewrite"
    /\ LET manifest == Manifest(gate[g].results) IN
       /\ dir' = [dir EXCEPT !.manifest = manifest,
                             !.logs["readiness"] = Log(g, Unblocked(manifest))]
       /\ gate' = [gate EXCEPT ![g].pc = "publish"]
    /\ UNCHANGED <<tree, last, torn, overlap, starts>>

\* _missing_logs
Missing(g) == \E k \in DOMAIN gate[g].results : dir.logs[gate[g].results[k].name] = NoLog

Passed(g) == ~Missing(g) /\ \A k \in DOMAIN gate[g].results : gate[g].results[k].passed

Proof(g, passed) == [by |-> g, passed |-> passed, tree |-> gate[g].tree,
                     results |-> gate[g].results]

\* Mutant: the manifest is not written again after the readiness.
PublishOldManifest(g) ==
    /\ gate[g].pc = "publish"
    /\ dir' = [dir EXCEPT !.json = Proof(g, Passed(g))]
    /\ gate' = [gate EXCEPT ![g].pc = "report", ![g].ok = Passed(g)]
    /\ UNCHANGED <<tree, last, torn, overlap, starts>>

\* The manifest a third time, with the readiness as it is now; the final release_gate.json.
Publish(g) ==
    /\ gate[g].pc = "publish"
    /\ dir' = [dir EXCEPT !.manifest = Manifest(gate[g].results), !.json = Proof(g, Passed(g))]
    /\ gate' = [gate EXCEPT ![g].pc = "report", ![g].ok = Passed(g)]
    /\ UNCHANGED <<tree, last, torn, overlap, starts>>

\* CURRENT_PROOF.md and the other reports from the payload, and the payload once more.
Report(g) ==
    /\ gate[g].pc = "report"
    /\ dir' = [dir EXCEPT !.json = Proof(g, gate[g].ok), !.proof = Log(g, gate[g].ok)]
    /\ gate' = [gate EXCEPT ![g] = Idle]
    /\ UNCHANGED <<tree, last, torn, overlap, starts>>

\* Killed, or an exception (node is not installed, a log cannot be written).
Die(g) ==
    /\ Running(g)
    /\ gate' = [gate EXCEPT ![g] = Idle]
    /\ UNCHANGED <<dir, tree, last, torn, overlap, starts>>

\* An input is changed, added, removed or put back.
Edit(f) ==
    /\ tree[f] < Len(Edits[f])
    /\ tree' = [tree EXCEPT ![f] = @ + 1]
    /\ UNCHANGED <<dir, gate, last, torn, overlap, starts>>

Next ==
    \/ \E f \in Inputs : Edit(f)
    \/ \E g \in Gates : \/ Start(g) \/ (\E part \in Parts : Move(g, part)) \/ Clear(g) \/ Step(g) \/ Collect(g) \/ Draft(g) \/ Freshness(g)
                        \/ Readiness(g) \/ Archive(g) \/ Rewrite(g) \/ Publish(g)
                        \/ Report(g) \/ Die(g)

Spec == Init /\ [][Next]_vars

--------------------------------------------------------------------------------
\* No file of the one listing was edited before the other.
Precedes(listing, later) == \A f \in Inputs : listing[f] <= later[f]

TypeOK ==
    /\ \A g \in Gates : Precedes(gate[g].tree, tree) /\ gate[g].todo \subseteq Parts
    /\ starts <= MaxStarts /\ last \in Gates \cup {None}

\* A PASS in artifacts/proof/current is of the gate that emptied it last: one that got so far
\* leaves no PASS of an earlier gate, also when it dies (release_gate.py:1437).
NoStalePass == dir.json.passed /\ ~overlap => dir.json.by = last

\* A PASS stands on checks of one gate that all passed, and on the logs they left: each is
\* there with the hash the manifest gives, the readiness written last included
\* (release_gate.py:1814), or was moved away by a gate that began since and may have died
\* before it took the PASS (release_gate.py:166).
PassIsWhole ==
    dir.json.passed =>
        /\ \A k \in DOMAIN dir.json.results : dir.json.results[k].passed
        /\ Logs = {dir.json.results[k].name : k \in DOMAIN dir.json.results}
        /\ ~overlap => \A k \in DOMAIN dir.manifest :
              /\ dir.manifest[k].log.by = dir.json.by /\ dir.manifest[k].log.passed
              /\ \/ dir.manifest[k].log = dir.logs[dir.manifest[k].name]
                 \/ torn /\ dir.logs[dir.manifest[k].name] = NoLog

\* What a PASS lists of the inputs was theirs after the checks and still at the freshness
\* check, but for files added between; the checks may have seen older ones
\* (release_gate.py:1541, check_proof_freshness.py:263).
PassIsFresh ==
    dir.json.passed /\ ~overlap =>
        \A k \in DOMAIN dir.json.results :
            LET entry == dir.json.results[k] IN
            IF entry.name = "proof_freshness" THEN Kept(dir.json.tree, entry.tree)
            ELSE entry.name \in StepNames => Precedes(entry.tree, dir.json.tree)

\* CURRENT_PROOF.md never says PASS before release_gate.json does (release_gate.py:1852), nor
\* after it, unless a gate that archives has moved the one and not yet the other.
ReportsFollow ==
    dir.proof.passed /\ ~overlap =>
        \/ dir.json.passed /\ dir.json.by = dir.proof.by
        \/ torn /\ dir.json = NoProof

GateProofSafe == TypeOK /\ NoStalePass /\ PassIsWhole /\ PassIsFresh /\ ReportsFollow
================================================================================
