----------------------------- MODULE MCProofDump -----------------------------
(* ProofDump with bounds on the log and on the pending hints, which are    *)
(* given in the order of the log.                                          *)
EXTENDS ProofDump

CONSTANTS MaxRecords, MaxHints

Bounded ==
    /\ Len(db') <= MaxRecords
    /\ Len(an'.hints) <= MaxHints
    /\ \A j, k \in DOMAIN an'.hints : j < k => an'.hints[j] < an'.hints[k]
    /\ Len(an'.units) = 0
    /\ Len(an'.reverts) = 0

MCNext ==
    \/ ClientStep /\ Bounded /\ UNCHANGED dumpVars
    \/ MarkStep /\ UNCHANGED dumpVars
    \/ DumpStep
MCSpec == DumpInit /\ [][MCNext]_allVars
=============================================================================
