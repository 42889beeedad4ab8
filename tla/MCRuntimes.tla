------------------------------- MODULE MCRuntimes -------------------------------
\* A behaviour exercises one of the subsystems of Runtimes, chosen by which; the claims
\* and the scheduler of the memory runtime, and the runs with and without a replay, are
\* checked apart, each within bounds of its own.
EXTENDS Runtimes

CONSTANTS s1, g1, g2, w1, w2, k1, k2, t1, t2, v1, v2, c1, c2, empty, text, binary, prefixed, large,
    b1, b2, a1, a2

VARIABLE which

MCSources    == {s1}
MCWorkers    == {w1, w2}
MCKeys       == {k1, k2}
MCStages     == {g1, g2}
MCThreads    == {t1, t2}
MCIds        == {v1, v2}
MCHeld       == {c1, c2}
MCTiers      == {"permanent", "short"}
MCTierTtl    == [permanent |-> None, short |-> 2]
MCContents   == {empty, text, binary, prefixed, large}
MCForm       == [c \in MCContents |->
                    CASE c = empty -> "empty" [] c = text -> "text" [] c = binary -> "binary"
                      [] c = prefixed -> "prefixed" [] OTHER -> "large"]
MCRebuilds   == {b1, b2}
MCRejects    == {a1, a2}

Subsystems == {"ingest", "retries", "replays", "claims", "rebuilds", "promotions", "pipeline",
               "vault", "store", "row"}

MCInit ==
    /\ which \in Subsystems
    /\ Init
    /\ which = "store" \/ root

\* Two runs of two records; two of one record each, with retries and a schedule switched
\* off and on; three with a replay.
Runs ==
    /\ which \in {"ingest", "retries", "replays"} /\ IngestStep
    /\ which # "replays" => Len(runs') <= 2
    /\ which # "retries" => retries' = <<>> /\ \A s \in Sources : schedule'[s].enabled
    /\ \A w \in Workers :
        wk'[w].left + wk'[w].parsed <= IF which = "ingest" THEN 2 ELSE 1

\* The claims and the cache; two entities of one priority; one entity promoted.
Memories ==
    /\ which \in {"claims", "rebuilds", "promotions"} /\ MemoryStep
    /\ which = "claims" => UNCHANGED <<pending, inFlight>>
    /\ which # "claims" => UNCHANGED cache /\ claims' = <<>>
    /\ which = "rebuilds" => tick' <= 2 /\ \A i \in DOMAIN pending' : pending'[i].priority = 1
    /\ which = "promotions" => \A i \in DOMAIN pending' : pending'[i].entity = 1

MCNext ==
    /\ UNCHANGED which
    /\ \/ Runs \/ Memories
       \/ which = "pipeline" /\ PipelineStep
       \/ which = "vault" /\ VaultStep
       \/ which = "store" /\ StoreStep
       \/ which = "row" /\ RaceStep

MCSpec == MCInit /\ [][MCNext]_<<which, vars>>
================================================================================
