--------------------------- MODULE MCProofTracer ---------------------------
(* ProofTracer with bounds on the log and on the pending hints.            *)
EXTENDS ProofTracer

CONSTANTS MaxRecords, MaxHints, MaxUnits, MaxMarkers

Bounded ==
    /\ Len(db') <= MaxRecords
    /\ Len(an'.hints) <= MaxHints
    /\ Len(an'.units) <= MaxUnits
    /\ Len(an'.reverts) <= MaxMarkers

MCNext == (ClientStep /\ Bounded) \/ MarkStep
MCSpec == Init /\ [][MCNext]_vars
=============================================================================
