--------------------------- MODULE MCImpliedCheck ---------------------------
(* ImpliedCheck on a formula with models.                                  *)
EXTENDS ImpliedCheck

SatisfiableProblems ==
    {[cnf |-> << <<1, 2>>, <<-1, 3>>, <<2, 3>> >>, clause_lim |-> 20, restarts |-> 0,
      reductions |-> 0, decisions |-> Lits]}
=============================================================================
