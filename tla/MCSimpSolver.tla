---------------------------- MODULE MCSimpSolver ----------------------------
(* SimpSolver on small formulas.                                           *)
EXTENDS SimpSolver

(* Formulas that preprocessing answers, with units that satisfy, shorten   *)
(* and falsify clauses, subsumed clauses and clauses to strengthen, down   *)
(* to a unit and again in the course of an elimination.                    *)
AnsweredFormulas == {
    << <<-5>>, <<-5, 3, -4>>, <<2, 3, 5>>, <<2>>, <<-5, -2>>, <<-5, -4, 2>>,
       <<-3, -2, 4>>, <<-3, 1>>, <<4, -5, 1>>, <<3, -5>>, <<-2, 1>>, <<2, 1>>,
       <<-2, 1, -5>>, <<-1, -2>> >>,
    << <<3>>, <<2>>, <<-4, 1, -2>>, <<4, 5, -2>>, <<4, 1>>, <<-2, 5, -1, 4>>,
       <<-4, -2, -1>>, <<-1, 5>>, <<4, 2>> >>,
    << <<4>>, <<-3, 2, -4, 1>>, <<-1, 2, 5>>, <<-1, 4, 3, 2>>, <<-2, 3, 1>>, <<1>>,
       <<-4, 2>>, <<-2, 5>>, <<5, -3>>, <<-3, -2, 5>> >>,
    << <<5, 4>>, <<4, 1, -2>>, <<-2, -4>>, <<-4, -1, -2>>, <<2, -1>>, <<-1, 2>>,
       <<-4, -5, -3>>, <<2, -1, -5>>, <<3, -5>>, <<4, -1>>, <<5, -3>>, <<1, -4>>,
       <<1, 5, -2>>, <<4, 5, -3>> >> }

(* Formulas with eliminations that need several resolvents.                *)
ResolvedFormulas == {
    << <<1, 4, 3>>, <<1, -5, -4>>, <<1, -2, -3>>, <<3, 2, -1>>, <<-5, -4, -2>>,
       <<-1, -4, -2>>, <<-2, 3, -1>>, <<1, -5, -3>>, <<-5, -2, -1>>, <<2, -3, 5>>,
       <<1, -3, 5>> >>,
    << <<1, 2, -4>>, <<3, 2, 1>>, <<-3, 4, -2>>, <<-4, -5, -3>>, <<-5, 1, -2>>,
       <<5, -2, 1>>, <<1, 4, -2>>, <<-3, -2, 5>>, <<-5, -4, -2>>, <<4, 5, 1>>,
       <<-3, -2, -4>>, <<-1, 4, 2>>, <<-1, -5, 3>>, <<2, 5, 1>>, <<1, -2, 4>> >>,
    << <<-1, -5, -4>>, <<5, -1, 4>>, <<-2, -4, -3>>, <<4, 5, 3>>, <<3, 5, -1, -2>>,
       <<1, 5, 4>>, <<1, 2, 3>> >> }

(* Formulas of which clauses are left for the search when resolvents may   *)
(* have two literals, two of them after another round of eliminations.     *)
RemainingFormulas == {
    << <<-3, 5, 1, 2>>, <<-3, -2>>, <<4, 2, 5>>, <<1, 2, 4>>, <<-3, 2>>, <<3, 2, -4>>,
       <<5, -2, 3>>, <<2, -1, -3, 5>>, <<-2, 3, 1, -4>>, <<-5, -4>> >>,
    << <<3, -4, -2>>, <<-5, -3, 2>>, <<-1, 5, -2>>, <<-2, 1, -4>>, <<-1, -2>>,
       <<-3, 4, 5>>, <<3, -2, 4>>, <<5, 1, -2>> >>,
    << <<3, -2, -4, 5>>, <<-1, 3, 4, 2>>, <<-1, -3>>, <<-5, 4, -3, -1>>,
       <<-3, 1, 5, -2>>, <<1, -2, 3>>, <<-4, 1, 3, -5>>, <<2, -4>>, <<-2, 4, -1>>,
       <<-3, -5, 2>> >> }

Problem(cnf, clause_lim_, restarts_) ==
    [cnf |-> cnf, clause_lim |-> clause_lim_, restarts |-> restarts_, reductions |-> 0,
     decisions |-> Lits]

SimpProblems ==
    {Problem(f, 3, 0) : f \in AnsweredFormulas \cup ResolvedFormulas}
        \cup {Problem(f, 2, 1) : f \in RemainingFormulas}

(* The option value that turns chronological backtracking off.             *)
NeverChrono == -1
=============================================================================
