--------------------------- MODULE MCPublicationGate ---------------------------
\* Two incidents, one fed by sources on hold only (saskatoon_police), one by a
\* static source that may publish automatically, and one legal source.
EXTENDS PublicationGate

CONSTANTS held, open, source1, old, new, unsafe

MCImports == [i \in {held, open} |->
    IF i = held
    THEN {[content |-> c, provenance |-> p, auto |-> FALSE, snapshot |-> p] :
              c \in {old, new}, p \in BOOLEAN}
    ELSE {[content |-> c, provenance |-> TRUE, auto |-> a, snapshot |-> FALSE] :
              c \in {old, unsafe}, a \in BOOLEAN}]
MCDecisions == {"official_police_open_data_report", "corrected", "disputed", "rejected"}
================================================================================
