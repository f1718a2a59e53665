----------------------------- MODULE LearntVivify -----------------------------
(***************************************************************************)
(* Vivification (core/Solver.cc): when enough conflicts have passed,       *)
(* search first calls simplifyAll, which takes every learnt clause of      *)
(* learnts_core and learnts_tier2 that it has not taken before out of the  *)
(* watcher lists, assumes its literals false one by one with               *)
(* simplePropagate, and puts back what a conflict or an implied literal    *)
(* leaves of it.  The assumptions have no level of their own: vardata      *)
(* keeps the level of the last real assignment.                            *)
(***************************************************************************)
EXTENDS ConflictAnalysis

CONSTANT SimplifyEvery  \* nbconfbeforesimplify at the start, and incSimplify

ASSUME SimplifyAssumption == SimplifyEvery \in Nat \ {0}

VARIABLES
    viv,            \* simplifyAll: whether it runs, its clause and locals
    due             \* curSimplify and nbconfbeforesimplify

NotVivifying == [on |-> FALSE, cr |-> CRef_Undef, i |-> 1, kept |-> <<>>,
                 falseLit |-> <<>>, True_confl |-> FALSE, trailRecord |-> 0]

VivifyInit ==
    viv = NotVivifying /\ due = [curSimplify |-> 1, nbconf |-> SimplifyEvery]

vivifyVars == <<viv, due>>

(* The entry of search: propagate, and simplifyAll before it when it is    *)
(* due.  While it runs, a conflict belongs to propagateLevelZeroCheck.     *)
enterSearch ==
    LET vivify == conflicts >= due.curSimplify * due.nbconf
    IN  /\ viv' = [viv EXCEPT !.on = vivify]
        /\ searching' = ~vivify
        /\ pc' = "clean"
        /\ UNCHANGED due

-----------------------------------------------------------------------------
vivifyFrame == <<ok, seen, conflicts, learnt, ana>>

BetweenClauses == QueueEmpty /\ viv.on /\ viv.cr = CRef_Undef

(* Every learnt clause has a small enough LBD at these sizes to be in one  *)
(* of the two lists; their order is left open.                             *)
Unsimplified == {cr \in CRefs : ca[cr].learnt /\ ~ca[cr].simplified /\ ~ca[cr].freed}

simplifySatisfied ==
    /\ BetweenClauses
    /\ \E cr \in Unsimplified : satisfied(cr) /\ removeClauses(<<cr>>)
    /\ UNCHANGED <<vivifyFrame, vivifyVars, watches, assigns, trail, trail_lim,
                   qhead, an, unitCids, pc, prop, confl, searching>>

(* The clause leaves the watcher lists, and its false literals go.         *)
simplifyBegin ==
    /\ BetweenClauses
    /\ \E cr \in Unsimplified :
         LET lits == ca[cr].lits
             open == Selected(lits, LAMBDA l : ~IsFalse(l))
             a == AddUnitHints(AddHint(an, ca[cr].cid),
                               UnitCidsOf(Selected(lits, IsFalse)))
         IN  /\ ~satisfied(cr)
             /\ watches' = Detached(watches, cr, lits)
             /\ IF open = lits THEN UNCHANGED <<ca, tracerVars>>
                ELSE /\ db' = Replaced(db, a, cr, open)
                     /\ an' = NoHints
                     /\ ca' = [ca EXCEPT ![cr].lits = open, ![cr].cid = Len(db) + 1]
                     /\ UNCHANGED unitCids
             /\ viv' = [viv EXCEPT !.cr = cr, !.trailRecord = Len(trail)]
    /\ pc' = "simplifyLearnt"
    /\ UNCHANGED <<vivifyFrame, due, dirty, trailVars, prop, confl, searching>>

simplifyAllDone ==
    /\ BetweenClauses
    /\ Unsimplified = {}
    /\ viv' = NotVivifying
    /\ due' = [curSimplify |-> (conflicts \div due.nbconf) + 1,
               nbconf |-> due.nbconf + SimplifyEvery]
    /\ searching' = TRUE
    /\ pc' = "clean"
    /\ UNCHANGED <<vivifyFrame, clauseVars, trailVars, tracerVars, prop, confl>>

-----------------------------------------------------------------------------
(* simplifyLearnt: the literals of the clause one by one.                  *)

vivLits == ca[viv.cr].lits
vivLit == vivLits[viv.i]
NextLiteral == pc = "simplifyLearnt" /\ viv.i <= Len(vivLits)

assumeFalse ==
    /\ NextLiteral
    /\ IsUndef(vivLit)
    /\ simpleUncheckEnqueue(-vivLit, CRef_Undef)
    /\ cleanAll
    /\ viv' = [viv EXCEPT !.kept = Append(@, vivLit), !.i = @ + 1]
    /\ pc' = "simplePropagate"
    /\ UNCHANGED <<vivifyFrame, due, ca, trail_lim, qhead, prop, confl, searching>>

simplePropagateDone ==
    /\ Simple
    /\ prop.lit = 0
    /\ qhead = Len(trail)
    /\ pc' = "simplifyLearnt"
    /\ UNCHANGED <<vivifyFrame, vivifyVars, clauseVars, trailVars, tracerVars, prop,
                   confl, searching>>

literalFalse ==
    /\ NextLiteral
    /\ IsFalse(vivLit)
    /\ viv' = [viv EXCEPT !.falseLit = Append(@, vivLit), !.i = @ + 1]
    /\ UNCHANGED <<vivifyFrame, due, clauseVars, trailVars, tracerVars, pc, prop,
                   confl, searching>>

literalTrue ==
    /\ NextLiteral
    /\ IsTrue(vivLit)
    /\ viv' = [viv EXCEPT !.kept = Append(@, vivLit), !.True_confl = TRUE]
    /\ confl' = reason(vivLit)
    /\ pc' = "simpleAnalyze"
    /\ UNCHANGED <<vivifyFrame, due, clauseVars, trailVars, tracerVars, prop, searching>>

-----------------------------------------------------------------------------
(* What the assumptions imply, followed back from the end of the trail to  *)
(* trailRecord.  w has the hints so far, the marked variables, and the     *)
(* assumptions met.                                                        *)

Mark(w, cr, lits) ==
    LET fresh == Selected(lits, LAMBDA l : Var(l) \notin w.seen)
    IN  [w EXCEPT !.hints = AddUnitHints(AddHint(@, ca[cr].cid),
                                         UnitCidsOf(AtLevelZero(fresh))),
                  !.seen = @ \cup VarsOf(fresh)]

Visit(w, l) ==
    IF Var(l) \notin w.seen THEN w
    ELSE IF reason(l) = CRef_Undef THEN [w EXCEPT !.assumed = Append(@, l)]
    ELSE Mark(w, reason(l), Tail(ImpliedFirst(ca[reason(l)].lits)))

Assumptions == SubSeq(trail, viv.trailRecord + 1, Len(trail))
Traced(w) == FoldLeft(Visit, w, Reverse(Assumptions))

NoWalk == [hints |-> an, seen |-> {}, assumed |-> <<>>]

(* Mutant: the unit clauses of level 0 are not among the hints.            *)
simpleAnalyzeNoUnits ==
    LET w == Traced(Mark(NoWalk, confl, IF viv.True_confl THEN Tail(conflLits)
                                        ELSE conflLits))
    IN  [w EXCEPT !.hints.units = <<>>]

(* simpleAnalyze: from the conflict, or from the reason of the literal     *)
(* found true, which is then the first of the new clause.                  *)
simpleAnalyze ==
    Traced(Mark(NoWalk, confl, IF viv.True_confl THEN Tail(conflLits) ELSE conflLits))

(* analyzeFalseLits: the clause itself, then why its literals are false.   *)
analyzeFalseLits ==
    Traced([hints |-> AddHint(an, ca[viv.cr].cid), seen |-> VarsOf(viv.falseLit),
            assumed |-> <<>>])

(* Binary reasons get the implied literal first.                           *)
Normalized(w) ==
    [cr \in CRefs |->
        IF \E l \in ToSet(Assumptions) : reason(l) = cr /\ Var(l) \in w.seen
          THEN [ca[cr] EXCEPT !.lits = ImpliedFirst(@)] ELSE ca[cr]]

(* cancelUntilTrailRecord.                                                 *)
cancelUntilTrailRecord ==
    /\ assigns' = [v \in Vars |-> IF v \in VarsOf(Assumptions) THEN 0 ELSE assigns[v]]
    /\ trail' = SubSeq(trail, 1, viv.trailRecord)
    /\ qhead' = viv.trailRecord
    /\ UNCHANGED <<vardata, trail_lim>>

(* replaceAnalyze leaves a unit to uncheckedEnqueue, with its hints.       *)
ReplaceBy(lits, a, clauses) ==
    IF Len(lits) > 1
      THEN /\ db' = Replaced(db, a, viv.cr, lits)
           /\ an' = NoHints
           /\ ca' = [clauses EXCEPT ![viv.cr].lits = lits, ![viv.cr].cid = Len(db) + 1]
      ELSE /\ an' = a
           /\ ca' = [clauses EXCEPT ![viv.cr].lits = lits]
           /\ UNCHANGED db

shrinkFrame == <<vivifyFrame, vivifyVars, watches, dirty, unitCids, prop, searching>>

simplifyConflict ==
    /\ pc = "simpleAnalyze"
    /\ LET w == simpleAnalyze
           negated == [k \in DOMAIN w.assumed |-> -w.assumed[k]]
       IN  ReplaceBy((IF viv.True_confl THEN <<Last(viv.kept)>> ELSE <<>>) \o negated,
                     w.hints, Normalized(w))
    /\ cancelUntilTrailRecord
    /\ confl' = CRef_Undef
    /\ pc' = "simplified"
    /\ UNCHANGED shrinkFrame

simplifyNoConflict ==
    /\ pc = "simplifyLearnt"
    /\ viv.i > Len(vivLits)
    /\ IF viv.falseLit = <<>> THEN UNCHANGED <<ca, db, an>>
       ELSE ReplaceBy(viv.kept, analyzeFalseLits.hints, ca)
    /\ cancelUntilTrailRecord
    /\ pc' = "simplified"
    /\ UNCHANGED <<shrinkFrame, confl>>

-----------------------------------------------------------------------------
(* Mutant: the clause is attached by the literals it was detached from.    *)
simplifiedAttachBefore ==
    /\ pc = "simplified"
    /\ Len(vivLits) > 1
    /\ watches' = Attached(watches, viv.cr, viv.kept \o viv.falseLit)
    /\ ca' = [ca EXCEPT ![viv.cr].simplified = TRUE]
    /\ viv' = [NotVivifying EXCEPT !.on = TRUE]
    /\ pc' = "propagate"
    /\ UNCHANGED <<vivifyFrame, due, dirty, trailVars, tracerVars, prop, confl, searching>>

simplifiedAttach ==
    /\ pc = "simplified"
    /\ Len(vivLits) > 1
    /\ watches' = Attached(watches, viv.cr, vivLits)
    /\ ca' = [ca EXCEPT ![viv.cr].simplified = TRUE]
    /\ viv' = [NotVivifying EXCEPT !.on = TRUE]
    /\ pc' = "propagate"
    /\ UNCHANGED <<vivifyFrame, due, dirty, trailVars, tracerVars, prop, confl,
                   searching>>

(* A unit is assigned and propagated at level 0, and the clause is freed   *)
(* without a DELETE record.                                                *)
simplifiedUnit ==
    /\ pc = "simplified"
    /\ Len(vivLits) = 1
    /\ uncheckedEnqueue(vivLits[1], 0, CRef_Undef, db, an)
    /\ pc' = "clean"
    /\ UNCHANGED <<vivifyFrame, vivifyVars, clauseVars, trail_lim, qhead, prop, confl,
                   searching>>

simplifiedUnitDone ==
    /\ QueueEmpty
    /\ viv.cr # CRef_Undef
    /\ ca' = [ca EXCEPT ![viv.cr].freed = TRUE]
    /\ viv' = [NotVivifying EXCEPT !.on = TRUE]
    /\ UNCHANGED <<vivifyFrame, due, watches, dirty, trailVars, tracerVars, pc, prop,
                   confl, searching>>

simplifyAll ==
    \/ simplifySatisfied \/ simplifyBegin \/ simplifyAllDone
    \/ assumeFalse \/ simplePropagateDone \/ literalFalse \/ literalTrue
    \/ simplifyConflict \/ simplifyNoConflict
    \/ simplifiedAttach \/ simplifiedUnit \/ simplifiedUnitDone

(* The clause that is in no watcher list, and the part of the trail that   *)
(* is not an assumption.                                                   *)
InHand(cr) == viv.cr = cr
Settled ==
    IF pc \in {"simplifyLearnt", "simplePropagate", "simpleAnalyze"}
      THEN 1 .. viv.trailRecord ELSE DOMAIN trail
=============================================================================
