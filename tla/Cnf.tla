--------------------------------- MODULE Cnf ---------------------------------
(***************************************************************************)
(* Literals, clauses and the reference definitions the proofs of the       *)
(* solver are judged by: satisfaction by an assignment, and reverse unit   *)
(* propagation (RUP) from the clauses a record names as its hints.         *)
(*                                                                         *)
(* A literal is a variable or its negative, as in a DIMACS file; -l is the *)
(* ~l of the code.  An assignment maps a variable to its true literal, or  *)
(* to 0 while it is unassigned.                                            *)
(***************************************************************************)
EXTENDS Integers, FiniteSets, SequencesExt

CONSTANT NumVars

ASSUME NumVarsAssumption == NumVars \in Nat \ {0}

Vars == 1 .. NumVars
Lits == {l \in -NumVars .. NumVars : l # 0}

Var(l) == IF l < 0 THEN -l ELSE l

(* Lit::x, the order in which addClause_ sorts a clause.                   *)
LitIndex(l) == 2 * Var(l) + (IF l < 0 THEN 1 ELSE 0)
LitBefore(l, m) == LitIndex(l) < LitIndex(m)

VarsOf(lits) == {Var(lits[i]) : i \in DOMAIN lits}

(* The numbers of a finite set in their order: the i-th has i - 1 before.  *)
Ascending[S \in SUBSET Nat] ==
    [i \in 1 .. Cardinality(S) |-> CHOOSE k \in S : Cardinality({j \in S : j < k}) = i - 1]

(* The numbers from 1 to n that pass a test, in their order.               *)
Places(n, Test(_)) == Ascending[{k \in 1 .. n : Test(k)}]

(* The elements that pass a test, in their order.                          *)
Selected(s, Test(_)) ==
    LET at == Ascending[{k \in DOMAIN s : Test(s[k])}] IN [n \in DOMAIN at |-> s[at[n]]]

SwapAt(s, i, j) == [s EXCEPT ![i] = s[j], ![j] = s[i]]

-----------------------------------------------------------------------------
Satisfies(assignment, lits) == \E l \in ToSet(lits) : assignment[Var(l)] = l

TotalAssignments == {[v \in Vars |-> IF v \in true THEN v ELSE -v] : true \in SUBSET Vars}

Satisfiable(cnf) ==
    \E a \in TotalAssignments : \A i \in DOMAIN cnf : Satisfies(a, cnf[i])

-----------------------------------------------------------------------------
(* A set of literals assumed true, and what a clause leaves open under it. *)

OpenLits(lits, true) == {l \in ToSet(lits) : -l \notin true}
NegationOf(lits) == {-l : l \in ToSet(lits)}

(* One hint applied: a unit clause adds its literal, a falsified one ends  *)
(* in the conflict 0, a satisfied one changes nothing, and a clause with   *)
(* two open literals makes the chain fail, which is the literal -          *)
(* NumVars - 1 in the result.                                              *)
Failed == -NumVars - 1

UnitStep(true, lits) ==
    LET open == OpenLits(lits, true)
    IN  IF 0 \in true \/ open \cap true # {} THEN true
        ELSE IF open = {} THEN true \cup {0}
        ELSE IF \E l \in open : open = {l} THEN true \cup open
        ELSE true \cup {Failed}

(* The hints are used from the last one to the first, the order in which   *)
(* isGritOrdered reads them and the GRIT and LRAT files list them.         *)
ChainRefutes(lits, hintLits) ==
    LET end == FoldLeft(UnitStep, NegationOf(lits), Reverse(hintLits))
    IN  0 \in end /\ Failed \notin end

(* isGritOrdered: read from the last hint to the first, no clause has two  *)
(* variables that neither the clause to be derived nor an earlier hint has.*)
isGritOrdered(lits, hintLits) ==
    \A k \in DOMAIN hintLits :
        LET known == VarsOf(lits) \cup
                       UNION {VarsOf(hintLits[j]) : j \in k + 1 .. Len(hintLits)}
        IN  Cardinality(VarsOf(hintLits[k]) \ known) <= 1

(* The hints in any order: unit propagation up to a fixed point.           *)
Propagated(true, hintLits) ==
    true \cup UNION {LET open == OpenLits(hintLits[i], true)
                     IN  IF open = {} THEN {0}
                         ELSE IF \E l \in open : open = {l} THEN open
                         ELSE {} : i \in DOMAIN hintLits}

ClosureRefutes(lits, hintLits) ==
    LET after[n \in 0 .. NumVars + 1] ==
            IF n = 0 THEN NegationOf(lits) ELSE Propagated(after[n - 1], hintLits)
    IN  0 \in after[NumVars + 1]
=============================================================================
