--------------------------- MODULE MCHintOrdering ---------------------------
(* HintOrdering on all derivations with a few hints, up to the names of    *)
(* the variables: the derived clause is within {0}, and the reasons make   *)
(* the variables 1, 2, ... known in this order, stored in any order.       *)
EXTENDS HintOrdering

CONSTANT MaxReasons

ReasonsOf(k) == {others \cup {k} : others \in SUBSET (0 .. k - 1)}

ReasonSequences(m) == {rs \in [1 .. m -> SUBSET (0 .. m)] : \A k \in 1 .. m : rs[k] \in ReasonsOf(k)}

DerivationsWith(m) ==
    {[lits |-> {0}, hints |-> <<conflict>> \o [k \in 1 .. m |-> rs[p[k] - 1]]] :
        conflict \in SUBSET (0 .. m), rs \in ReasonSequences(m), p \in Orders(m)}

Derivations == UNION {DerivationsWith(m) : m \in 0 .. MaxReasons}
Variables == 0 .. MaxReasons
=============================================================================
