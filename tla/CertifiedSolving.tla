-------------------------- MODULE CertifiedSolving --------------------------
(***************************************************************************)
(* What the solver promises to whoever reads its answer and its clause     *)
(* log: a clause set that always has the models of the clauses read so     *)
(* far, on the variables that are kept, whatever is derived and deleted; a *)
(* refutation that ends in the empty clause; and a model of the formula.   *)
(***************************************************************************)
EXTENDS Cnf

VARIABLES
    formula,        \* the input clauses, in their order
    read,           \* how many of them have been added
    live,           \* the clauses derived and not deleted, as sets of literals
    kept,           \* the variables whose values the clauses still say all of
    verdict, model

Models(clauses) ==
    {a \in TotalAssignments : \A c \in clauses : \E l \in c : a[Var(l)] = l}

ModelsOn(vs, clauses) == {[v \in vs |-> a[v]] : a \in Models(clauses)}

Init == read = 0 /\ live = {} /\ kept = Vars /\ verdict = "none"

(* The answer comes with the empty clause, and not without it.             *)
RefutedWhenEmpty ==
    /\ verdict' = IF {} \in live' THEN "unsat" ELSE "none"
    /\ UNCHANGED model

(* The next input clause is added, possibly in a shorter form, with what   *)
(* follows from it.                                                        *)
Read ==
    /\ read < Len(formula)
    /\ read' = read + 1
    /\ Models(live') = Models(live \cup {ToSet(formula[read'])})
    /\ kept' = kept
    /\ RefutedWhenEmpty

(* Clauses that follow are added, redundant ones deleted, variables        *)
(* eliminated.                                                             *)
Rewrite ==
    /\ read' = read
    /\ kept' \subseteq kept
    /\ <<live, kept>>' # <<live, kept>>
    /\ ModelsOn(kept', live') = ModelsOn(kept', live)
    /\ RefutedWhenEmpty

(* The model is one of the formula, eliminated variables and all.          *)
AnswerSat ==
    /\ read = Len(formula)
    /\ verdict' = "sat"
    /\ model' \in Models({ToSet(formula[i]) : i \in DOMAIN formula})
    /\ UNCHANGED <<read, live, kept>>

Next ==
    /\ verdict = "none"
    /\ Read \/ Rewrite \/ AnswerSat
    /\ UNCHANGED formula

Spec == Init /\ [][Next]_<<formula, read, live, kept, verdict, model>>
=============================================================================
