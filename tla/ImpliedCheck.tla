---------------------------- MODULE ImpliedCheck ----------------------------
(***************************************************************************)
(* Reading the formula with the option -rcheck of SimpSolver: addClause_   *)
(* first asks implied whether a clause follows by unit propagation, and    *)
(* leaves it out then.  What comes after reading is not in this module.    *)
(***************************************************************************)
EXTENDS SimpSolver

VARIABLE asked      \* implied: the next literal, and "no" once it has answered no

NotAsked == [i |-> 0, no |-> FALSE]

ImpliedInit == SimpInit /\ asked = NotAsked

Given == formula[next]
Asking == pc = "parse" /\ next <= Len(formula) /\ ~asked.no

impliedFrame == <<clauseVars, ok, seen, prop, analysisVars, vivifyVars, problem,
                  budgetVars, simpDB_assigns, model, simpVars>>

impliedBegin ==
    /\ Asking
    /\ asked.i = 0
    /\ trail_lim' = Append(trail_lim, Len(trail))
    /\ asked' = [asked EXCEPT !.i = 1]
    /\ UNCHANGED <<impliedFrame, assigns, vardata, trail, qhead, tracerVars, pc, confl, next>>

(* The negated literals are enqueued with the default level, 0.            *)
impliedAssume ==
    /\ Asking
    /\ asked.i \in DOMAIN Given
    /\ ~IsTrue(Given[asked.i])
    /\ IF IsUndef(Given[asked.i])
         THEN uncheckedEnqueue(-Given[asked.i], 0, CRef_Undef, db, an)
         ELSE UNCHANGED <<assigns, vardata, trail, tracerVars>>
    /\ asked' = [asked EXCEPT !.i = @ + 1]
    /\ UNCHANGED <<impliedFrame, trail_lim, qhead, pc, confl, next>>

impliedPropagate ==
    /\ Asking
    /\ asked.i > Len(Given)
    /\ pc' = "clean"
    /\ UNCHANGED <<impliedFrame, trailVars, tracerVars, confl, next, asked>>

(* A true literal or a conflict: the clause is left out.                   *)
impliedTrue ==
    /\ asked.i > 0
    /\ \/ Asking /\ asked.i \in DOMAIN Given /\ IsTrue(Given[asked.i])
       \/ pc = "conflict"
    /\ cancelUntil(0)
    /\ confl' = CRef_Undef
    /\ pc' = "parse"
    /\ next' = next + 1
    /\ asked' = NotAsked
    /\ UNCHANGED <<impliedFrame, vardata, tracerVars>>

impliedFalse ==
    /\ asked.i > 0
    /\ QueueEmpty
    /\ cancelUntil(0)
    /\ pc' = "parse"
    /\ asked' = [i |-> 0, no |-> TRUE]
    /\ UNCHANGED <<impliedFrame, vardata, tracerVars, confl, next>>

implied ==
    impliedBegin \/ impliedAssume \/ impliedPropagate \/ impliedTrue \/ impliedFalse

addNotImplied == asked.no /\ parse /\ asked' = NotAsked

ReadStep ==
    \/ implied \/ addNotImplied
    \/ (propagate /\ UNCHANGED <<analysisVars, vivifyVars, inputFrame, simpVars, asked>>)
    \/ /\ asked.i = 0
       /\ \/ levelZeroDone
          \/ levelZeroConflict /\ UNCHANGED <<vivifyVars, inputFrame, simpVars>>
       /\ UNCHANGED asked

AllRead == Answered \/ (pc = "parse" /\ next > Len(formula))

ReadSpec ==
    ImpliedInit /\ [][ReadStep \/ (AllRead /\ UNCHANGED <<allVars, asked>>)]_<<allVars, asked>>

-----------------------------------------------------------------------------
(* The option's text: a check whether a clause "is already implied", one   *)
(* that may leave out clauses and must not change the answer.              *)
UnsatOnlyIfSo == pc = "unsat" => ~Satisfiable(formula)
=============================================================================
