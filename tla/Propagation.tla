----------------------------- MODULE Propagation -----------------------------
(***************************************************************************)
(* Solver::propagate: the literals of the trail from qhead on are taken    *)
(* one by one, each with its binary watchers first and the watchers of the *)
(* longer clauses after them.  One action stands for one iteration of a    *)
(* loop, and the position in the loops is kept in prop.  With              *)
(* LOOSE_PROP_STAT, which GLUCOSE23 defines, a binary conflict returns at  *)
(* once.                                                                   *)
(*                                                                         *)
(* simplePropagate, which vivification uses, has the same loops; it        *)
(* assigns without a level and without a unit record (simpleUncheckEnqueue)*)
(* and hands a conflict to simpleAnalyze.                                  *)
(***************************************************************************)
EXTENDS SolverState

VARIABLES
    pc,             \* which part of the solver runs
    prop,           \* the literal being propagated (0: none) and loop indices
    confl           \* the conflicting clause, then the clause under analysis

NoProp == [lit |-> 0, k |-> 1, i |-> 1]

binWatchers == watches["bin"][prop.lit]
longWatchers == watches["long"][prop.lit]
currLevel == level(prop.lit)

Simple == pc = "simplePropagate"
Propagating == pc = "propagate" \/ Simple

Scanning == Propagating /\ prop.lit # 0
ScanningBinary == Scanning /\ prop.k <= Len(binWatchers)
ScanningLong == Scanning /\ prop.k > Len(binWatchers) /\ prop.i <= Len(longWatchers)

PropInit == pc = "parse" /\ prop = NoProp /\ confl = CRef_Undef

(* A temporary assignment: the level is the one of an earlier assignment.  *)
simpleUncheckEnqueue(p, from) ==
    /\ assigns' = [assigns EXCEPT ![Var(p)] = p]
    /\ vardata' = [vardata EXCEPT ![Var(p)].reason = from]
    /\ trail' = Append(trail, p)
    /\ UNCHANGED tracerVars

Imply(p, lvl, from) ==
    IF Simple THEN simpleUncheckEnqueue(p, from)
    ELSE uncheckedEnqueue(p, lvl, from, db, an)

ReturnConflict(cr) ==
    /\ confl' = cr
    /\ pc' = IF Simple THEN "simpleAnalyze" ELSE "conflict"
    /\ prop' = NoProp

(* The entry of propagate.                                                 *)
propagateBegin ==
    /\ pc = "clean"
    /\ cleanAll
    /\ pc' = "propagate"
    /\ UNCHANGED <<ca, trailVars, ok, tracerVars, seen, prop, confl>>

propagateDequeue ==
    /\ Propagating
    /\ prop.lit = 0
    /\ qhead < Len(trail)
    /\ qhead' = qhead + 1
    /\ prop' = [NoProp EXCEPT !.lit = trail[qhead + 1]]
    /\ UNCHANGED <<clauseVars, assigns, vardata, trail, trail_lim, ok,
                   tracerVars, seen, pc, confl>>

(* All watchers of the literal have been visited.                          *)
propagateNext ==
    /\ Scanning
    /\ prop.k > Len(binWatchers)
    /\ prop.i > Len(longWatchers)
    /\ prop' = NoProp
    /\ UNCHANGED <<clauseVars, trailVars, ok, tracerVars, seen, pc, confl>>

-----------------------------------------------------------------------------
(* A watcher of a binary clause.                                           *)

binarySatisfied ==
    /\ ScanningBinary
    /\ IsTrue(binWatchers[prop.k].blocker)
    /\ prop' = [prop EXCEPT !.k = @ + 1]
    /\ UNCHANGED <<clauseVars, trailVars, ok, tracerVars, seen, pc, confl>>

binaryConflict ==
    /\ ScanningBinary
    /\ IsFalse(binWatchers[prop.k].blocker)
    /\ ReturnConflict(binWatchers[prop.k].cref)
    /\ UNCHANGED <<clauseVars, trailVars, ok, tracerVars, seen>>

binaryImplies ==
    /\ ScanningBinary
    /\ IsUndef(binWatchers[prop.k].blocker)
    /\ Imply(binWatchers[prop.k].blocker, currLevel, binWatchers[prop.k].cref)
    /\ prop' = [prop EXCEPT !.k = @ + 1]
    /\ UNCHANGED <<clauseVars, trail_lim, qhead, ok, seen, pc, confl>>

-----------------------------------------------------------------------------
(* A watcher of a longer clause.                                           *)

longWatcher == longWatchers[prop.i]

(* The clause with the false literal at its second place.                  *)
normalized ==
    LET c == ca[longWatcher.cref].lits
    IN  IF c[1] = -prop.lit THEN SwapAt(c, 1, 2) ELSE c

first == normalized[1]
refreshed == Watcher(longWatcher.cref, first)
NewWatches == {k \in 3 .. Len(normalized) : ~IsFalse(normalized[k])}

StoreLits(lits) == ca' = [ca EXCEPT ![longWatcher.cref].lits = lits]

(* The watcher stays in its place with the first literal as blocker.       *)
KeepRefreshed ==
    /\ watches' = [watches EXCEPT !["long"][prop.lit][prop.i] = refreshed]
    /\ prop' = [prop EXCEPT !.i = @ + 1]
    /\ UNCHANGED dirty

(* It moves to the list of the literal that is now second in the clause.   *)
MoveTo(lits) ==
    /\ watches' = [watches EXCEPT !["long"][prop.lit] = RemoveAt(@, prop.i),
                                  !["long"][-lits[2]] = Append(@, refreshed)]
    /\ UNCHANGED <<dirty, prop>>

(* Mutant: the loop does not advance.                                      *)
blockerTrueStays ==
    /\ ScanningLong
    /\ IsTrue(longWatcher.blocker)
    /\ UNCHANGED prop
    /\ UNCHANGED <<clauseVars, trailVars, ok, tracerVars, seen, pc, confl>>

blockerTrue ==
    /\ ScanningLong
    /\ IsTrue(longWatcher.blocker)
    /\ prop' = [prop EXCEPT !.i = @ + 1]
    /\ UNCHANGED <<clauseVars, trailVars, ok, tracerVars, seen, pc, confl>>

firstTrue ==
    /\ ScanningLong
    /\ ~IsTrue(longWatcher.blocker)
    /\ IsTrue(first)
    /\ StoreLits(normalized)
    /\ KeepRefreshed
    /\ UNCHANGED <<trailVars, ok, tracerVars, seen, pc, confl>>

Unresolved == ScanningLong /\ ~IsTrue(longWatcher.blocker) /\ ~IsTrue(first)

newWatch ==
    /\ Unresolved
    /\ NewWatches # {}
    /\ LET lits == SwapAt(normalized, 2, Min(NewWatches))
       IN  StoreLits(lits) /\ MoveTo(lits)
    /\ UNCHANGED <<trailVars, ok, tracerVars, seen, pc, confl>>

longConflict ==
    /\ Unresolved
    /\ NewWatches = {}
    /\ IsFalse(first)
    /\ StoreLits(normalized)
    /\ watches' = [watches EXCEPT !["long"][prop.lit][prop.i] = refreshed]
    /\ ReturnConflict(longWatcher.cref)
    /\ qhead' = Len(trail)
    /\ UNCHANGED <<dirty, assigns, vardata, trail, trail_lim, ok, tracerVars, seen>>

Unit == Unresolved /\ NewWatches = {} /\ IsUndef(first)

unitAtDecisionLevel ==
    /\ Unit
    /\ Simple \/ currLevel = decisionLevel
    /\ StoreLits(normalized)
    /\ KeepRefreshed
    /\ Imply(first, currLevel, longWatcher.cref)
    /\ UNCHANGED <<trail_lim, qhead, ok, seen, pc, confl>>

(* Mutant: the implied literal gets the level of the literal propagated.   *)
unitBelowCurrLevel ==
    /\ Unit
    /\ ~Simple
    /\ currLevel # decisionLevel
    /\ StoreLits(normalized)
    /\ KeepRefreshed
    /\ uncheckedEnqueue(first, currLevel, longWatcher.cref, db, an)
    /\ UNCHANGED <<trail_lim, qhead, ok, seen, pc, confl>>

(* An out-of-order implication belongs to the highest level of the false   *)
(* literals, and the first of them with that level is watched.             *)
unitBelowDecisionLevel ==
    /\ Unit
    /\ ~Simple
    /\ currLevel # decisionLevel
    /\ LET others == 2 .. Len(normalized)
           maxLevel == Max({level(normalized[k]) : k \in others})
           maxInd == Min({k \in others : level(normalized[k]) = maxLevel})
           lits == SwapAt(normalized, 2, maxInd)
       IN  /\ StoreLits(lits)
           /\ IF maxInd = 2 THEN KeepRefreshed ELSE MoveTo(lits)
           /\ uncheckedEnqueue(first, maxLevel, longWatcher.cref, db, an)
    /\ UNCHANGED <<trail_lim, qhead, ok, seen, pc, confl>>

propagate ==
    \/ propagateBegin \/ propagateDequeue \/ propagateNext
    \/ binarySatisfied \/ binaryConflict \/ binaryImplies
    \/ blockerTrue \/ firstTrue \/ newWatch \/ longConflict
    \/ unitAtDecisionLevel \/ unitBelowDecisionLevel

(* simplePropagate, its entry apart.                                       *)
simplePropagate == Simple /\ propagate

(* The loop is over: every literal of the trail has been propagated.       *)
QueueEmpty == pc = "propagate" /\ prop.lit = 0 /\ qhead = Len(trail)
=============================================================================
