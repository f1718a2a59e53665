--------------------------- MODULE MCChronoSearch ---------------------------
(* ChronoSearch on small formulas.                                         *)
EXTENDS CertifiedSearch

(* Every way addClause_ treats a clause: duplicate literals, tautologies,  *)
(* satisfied and shortened clauses, units, an empty clause, a conflict at  *)
(* level 0.                                                                *)
InputFormulas == {
    << <<1>>, <<2, -1, 2>>, <<1, 2>>, <<3, -3>>, <<-2, 3, -1>> >>,
    << <<1>>, <<-1, -2>>, <<2, -1, 2>> >>,
    << <<-1, 2>>, <<-1, 3, -2>>, <<-3, -2>>, <<1, 1>>, <<3>> >>,
    << <<1, 2>>, <<-1, 2>>, <<1, -2>>, <<-1, -2>> >> }

(* Formulas with implications of a level below the decision level, with    *)
(* conflicts that have one literal of the highest level, with clauses of   *)
(* three literals to learn and to forget; two have no model.               *)
SearchFormulas == {
    << <<1, 4, 5>>, <<-2, -5>>, <<-1, 2, 4>>, <<1, -3, -4, 5>>, <<-3, -4>>,
       <<-2, -3>>, <<2, -4>>, <<-1, -2>>, <<1, -2, -3>>, <<1, -3, 4>>, <<1, 2>>,
       <<1, -2, -4, 5>>, <<-1, 2, 3, -5>>, <<4, -5>> >>,
    << <<-1, 4, -5>>, <<1, -2, 5>>, <<1, 4>>, <<1, -5>>, <<-1, -3, 5>>,
       <<1, 2, -4, 5>>, <<-2, -4>>, <<3, -4>>, <<-1, 2, -4>>, <<3, 4>>,
       <<-1, -4, -5>>, <<1, 3, 4, -5>>, <<3, 5>>, <<3, -4, 5>> >>,
    << <<-1, -2>>, <<2, -3, -4>>, <<-1, 2, -3>>, <<3, -4>>, <<-3, 4>>,
       <<-1, -2, 3>>, <<4, 5>>, <<1, 2, -3, 5>>, <<-1, 2, 3, -5>>, <<-3, 5>>,
       <<-4, -5>>, <<1, 2, 4, -5>>, <<1, -2, -4, -5>>, <<-1, -4, -5>> >>,
    << <<3, -5>>, <<-2, 4, -5>>, <<1, 3, -4, -5>>, <<-1, -3>>, <<1, 2, -3, 5>>,
       <<-2, -4, 5>>, <<-3, -5>>, <<1, 2, 4, 5>>, <<-2, 4, 5>>, <<2, 3, 4, -5>>,
       <<-1, -2, 4>>, <<1, -2, 3, -4>>, <<2, -3>>, <<1, 4, 5>> >> }

(* Formulas of four variables, for runs with a restart.                    *)
RestartFormulas == {
    << <<1, 2, -3>>, <<-1, 3>>, <<-1, 2, 3>>, <<-2, 3, -4>>, <<-1, -2, 3>>,
       <<2, 4>>, <<-1, -4>>, <<-1, 2>>, <<1, 2>> >>,
    << <<1, -2, 4>>, <<1, -3, 4>>, <<-2, -3>>, <<1, -2, -3>>, <<-1, -3>>,
       <<-3, -4>>, <<1, -3, -4>>, <<1, -3>>, <<-1, 4>> >>,
    << <<1, 3>>, <<-3, -4>>, <<-2, 3, 4>>, <<1, -2, -3>>, <<1, -2, 4>>,
       <<2, -4>>, <<-1, 2>>, <<2, -3>>, <<1, 2, -4>> >>,
    << <<1, 2>>, <<-1, 3>>, <<-2, 4>>, <<-3, -4, 1>>, <<3, -4>>, <<-1, -3>> >> }

(* A formula without a model in which ccmin-mode 1 drops a literal.        *)
BasicMinimizationFormulas == {
    << <<-1, 5>>, <<1, -3, -5>>, <<1, 3>>, <<-2, 4, 5>>, <<-3, -4, 5>>,
       <<2, 3, 5>>, <<1, 4>>, <<-1, -3>>, <<3, -4, -5>>, <<-1, -2, -5>>, <<4, -5>> >> }

(* Learnt clauses that vivification meets after a restart: satisfied, with *)
(* a literal already false at level 0, with one that the assumptions make  *)
(* true or false, and with none of these.                                  *)
VivifyFormulas == {
    << <<-1, -2>>, <<2, -3, -4>>, <<-1, 2, -3>>, <<3, -4>>, <<-3, 4>>,
       <<-1, -2, 3>>, <<4, 5>>, <<1, 2, -3, 5>>, <<-1, 2, 3, -5>>, <<-3, 5>>,
       <<-4, -5>>, <<1, 2, 4, -5>>, <<1, -2, -4, -5>>, <<-1, -4, -5>> >>,
    << <<1, 2, 3, 4>>, <<1, 2, 3, -4>>, <<-3, 2, 4>>, <<-3, 2, -4>>, <<2, 5>>,
       <<-5, -1>>, <<-2, -3>>, <<-2, -1>>, <<-2, -4>> >> }

Problem(cnf, restarts_, reductions_, decisions_) ==
    [cnf |-> cnf, restarts |-> restarts_, reductions |-> reductions_,
     decisions |-> decisions_]

Negative == {-v : v \in Vars}

ChronoProblems ==
    {Problem(f, 0, 1, Lits) : f \in SearchFormulas}
        \cup {Problem(f, 1, 1, Negative) : f \in VivifyFormulas}

RestartProblems ==
    {Problem(f, 1, 1, Lits) : f \in RestartFormulas \cup InputFormulas}

BasicMinimizationProblems ==
    {Problem(f, 0, 0, Lits) : f \in BasicMinimizationFormulas}

(* The option value that turns chronological backtracking off.             *)
NeverChrono == -1
=============================================================================
