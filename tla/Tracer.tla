------------------------------- MODULE Tracer -------------------------------
(***************************************************************************)
(* The operations of PTB::Analyzer (ptb/ProofTracingBackend.hpp) on the    *)
(* clause log (PTB::ClauseDatabase) and on its hint buffers, as operators  *)
(* on values, so that the specification of the tracer itself and the       *)
(* specification of the solver that calls it use the same definitions.     *)
(*                                                                         *)
(* A clause identifier (Cid) is the position of the clause's record in the *)
(* log.  Rat hints are left out: no caller of the solver adds one.         *)
(***************************************************************************)
EXTENDS Naturals, Sequences

NoCid == 0              \* Cid_Undef

ClauseOrigin == {"INITIAL", "ORDERED", "UNORDERED", "REDUNDANT", "DELETE"}

(* A buffer as long as the log can refer to; a RevertMarker keeps the      *)
(* lengths the buffers had when it was taken.                              *)
RevertMarker == [nUnordered : Nat, nUnitHints : Nat, nHints : Nat]

NoHints == [hints |-> <<>>, units |-> <<>>, reverts |-> <<>>, nUnordered |-> 0]

AddHint(a, cid) == [a EXCEPT !.hints = Append(@, cid)]

AddHints(a, cids) == [a EXCEPT !.hints = @ \o cids]

AddUnorderedHint(a, cid) ==
    [a EXCEPT !.hints = Append(@, cid), !.nUnordered = @ + 1]

AddUnitHint(a, cid) == [a EXCEPT !.units = Append(@, cid)]

AddUnitHints(a, cids) == [a EXCEPT !.units = @ \o cids]

(* Mutant: the two lengths of the marker in the wrong order.               *)
MarkSwappedLengths(a) ==
    [a EXCEPT !.reverts = Append(@, [nUnordered |-> a.nUnordered,
                                     nUnitHints |-> Len(a.hints),
                                     nHints     |-> Len(a.units)])]

MarkRevertableHints(a) ==
    [a EXCEPT !.reverts = Append(@, [nUnordered |-> a.nUnordered,
                                     nUnitHints |-> Len(a.units),
                                     nHints     |-> Len(a.hints)])]

(* Mutant: nUnordered is not restored.                                     *)
RevertKeepsUnordered(a) ==
    LET m == a.reverts[Len(a.reverts)]
    IN  [a EXCEPT !.hints = SubSeq(@, 1, m.nHints),
                  !.units = SubSeq(@, 1, m.nUnitHints),
                  !.reverts = SubSeq(@, 1, Len(@) - 1)]

RevertHints(a) ==
    LET m == a.reverts[Len(a.reverts)]
    IN  [hints      |-> SubSeq(a.hints, 1, m.nHints),
         units      |-> SubSeq(a.units, 1, m.nUnitHints),
         reverts    |-> SubSeq(a.reverts, 1, Len(a.reverts) - 1),
         nUnordered |-> m.nUnordered]

HasResolvents(a) == a.hints # <<>> \/ a.units # <<>>

(* What a clause added now is: an input clause if no hint is pending, and  *)
(* otherwise derived, with its hints in propagation order or not.          *)
GetOrigin(a) ==
    IF ~HasResolvents(a) THEN "INITIAL"
    ELSE IF a.nUnordered # 0 THEN "UNORDERED"
    ELSE "ORDERED"

(* The record addResolvent appends: the unit hints follow the others.      *)
Resolvent(a, lits, origin) ==
    [type |-> origin, lits |-> lits, hints |-> a.hints \o a.units]

DeleteRecord(cid) == [type |-> "DELETE", lits |-> <<>>, hints |-> <<cid>>]

IsDelete(r) == r.type = "DELETE"

(* The clauses of the log d that a DELETE record names.                    *)
DeletedCids(d) == {d[i].hints[1] : i \in {j \in DOMAIN d : IsDelete(d[j])}}

(* Mutant: a caller gets hold of the position of a DELETE record.          *)
AnyCids(d) == DOMAIN d \ DeletedCids(d)

(* The clauses a caller may still hold a Cid of: addClause returns one,    *)
(* addDeleteClause does not.                                               *)
LiveCids(d) == {i \in DOMAIN d : ~IsDelete(d[i])} \ DeletedCids(d)
=============================================================================
