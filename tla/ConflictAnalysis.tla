-------------------------- MODULE ConflictAnalysis --------------------------
(***************************************************************************)
(* What search does with a conflict (core/Solver.cc): FindConflictLevel,   *)
(* analyze with the minimizations it calls (litRedundant, binResMinimize), *)
(* the backtrack that is chronological or not, and the learnt clause.      *)
(* Every step gives the tracer the hints the code gives it.  Activities    *)
(* and the tiers the learnt clauses are kept in are left out.              *)
(***************************************************************************)
EXTENDS Propagation

CONSTANTS
    Chrono,         \* option -chrono: the distance that makes a backjump chronological
    ConflToChrono,  \* option -confl-to-chrono: not before so many conflicts
    CcMinMode       \* option -ccmin-mode

ASSUME ConflictAssumption ==
    Chrono \in Int /\ ConflToChrono \in Int /\ CcMinMode \in 0 .. 2

VARIABLES
    searching,      \* solve_ was called
    conflicts,
    learnt,         \* learnt_clause
    ana             \* the local variables of analyze

NoAnalysis ==
    [p |-> 0, index |-> 0, pathC |-> 0, nDecisionLevel |-> 0, toclear |-> <<>>,
     levels |-> {}, i |-> 0, kept |-> <<>>, stack |-> <<>>, top |-> 0, btlevel |-> 0]

ConflictInit ==
    searching = FALSE /\ conflicts = 0 /\ learnt = <<>> /\ ana = NoAnalysis

analysisVars == <<searching, conflicts, learnt, ana>>

MaxLevelOf(lits) == Max({level(l) : l \in ToSet(lits)})

-----------------------------------------------------------------------------
(* FindConflictLevel.                                                      *)

conflLits == ca[confl].lits
BothAtDecisionLevel ==
    level(conflLits[1]) = decisionLevel /\ level(conflLits[2]) = decisionLevel
nHighestLevel ==
    IF BothAtDecisionLevel THEN decisionLevel ELSE MaxLevelOf(conflLits)
highestId == Min({k \in DOMAIN conflLits : level(conflLits[k]) = nHighestLevel})
bOnlyOneLitFromHighest ==
    /\ ~BothAtDecisionLevel
    /\ Cardinality({l \in ToSet(conflLits) : level(l) = nHighestLevel}) = 1

(* Mutant: the literals are swapped and the watchers are not.              *)
HighestFirstUnwatched ==
    /\ ca' = [ca EXCEPT ![confl].lits = SwapAt(conflLits, 1, highestId)]
    /\ UNCHANGED watches

(* The literal of the highest level becomes the first of the clause, with  *)
(* the watcher that needs.                                                 *)
HighestFirst ==
    LET lits == SwapAt(conflLits, 1, highestId)
        kind == Kind(lits)
        w == Watcher(confl, conflLits[2])
    IN  IF BothAtDecisionLevel THEN UNCHANGED <<ca, watches>>
        ELSE /\ ca' = [ca EXCEPT ![confl].lits = lits]
             /\ watches' =
                  IF highestId <= 2 THEN watches
                  ELSE [watches EXCEPT
                          ![kind][-conflLits[1]] = RemoveFirstMatch(@, LAMBDA u : u.cref = confl),
                          ![kind][-lits[1]] = Append(@, w)]

(* analyzeLevelZeroConflict and the answer: the hints are the clause and   *)
(* the unit clauses of its literals, the record is the empty clause.       *)
AnswerUnsat ==
    /\ LET a == AddUnitHints(AddHint(an, ca[confl].cid), UnitCidsOf(conflLits))
       IN  db' = Append(db, Resolvent(a, <<>>, GetOrigin(a)))
    /\ an' = NoHints
    /\ ok' = FALSE
    /\ pc' = "unsat"
    /\ UNCHANGED <<dirty, unitCids, seen, prop, confl, searching, learnt, ana>>

levelZeroConflict ==
    /\ pc = "conflict"
    /\ ~searching
    /\ AnswerUnsat
    /\ UNCHANGED <<ca, watches, trailVars, conflicts>>

searchLevelZeroConflict ==
    /\ pc = "conflict"
    /\ searching
    /\ nHighestLevel = 0
    /\ HighestFirst
    /\ AnswerUnsat
    /\ cancelUntil(0)
    /\ conflicts' = conflicts + 1
    /\ UNCHANGED vardata

(* Only one literal has the highest level: it is unassigned and the clause *)
(* will imply it; nothing is learnt.                                       *)
singleHighest ==
    /\ pc = "conflict"
    /\ searching
    /\ nHighestLevel > 0
    /\ bOnlyOneLitFromHighest
    /\ HighestFirst
    /\ cancelUntil(nHighestLevel - 1)
    /\ conflicts' = conflicts + 1
    /\ confl' = CRef_Undef
    /\ pc' = "clean"
    /\ UNCHANGED <<dirty, vardata, ok, tracerVars, seen, prop, searching, learnt, ana>>

analyzeBegin ==
    /\ pc = "conflict"
    /\ searching
    /\ nHighestLevel > 0
    /\ ~bOnlyOneLitFromHighest
    /\ HighestFirst
    /\ conflicts' = conflicts + 1
    /\ learnt' = <<0>>
    /\ ana' = [NoAnalysis EXCEPT !.index = Len(trail), !.nDecisionLevel = nHighestLevel]
    /\ pc' = "analyze"
    /\ UNCHANGED <<dirty, trailVars, ok, tracerVars, seen, prop, confl, searching>>

-----------------------------------------------------------------------------
(* analyze: one resolution on the trail, from its end backwards.           *)

(* In a binary clause the implied literal may be the second one.           *)
ImpliedFirst(lits) ==
    IF Len(lits) = 2 /\ IsFalse(lits[1]) THEN SwapAt(lits, 1, 2) ELSE lits

(* The literals of a clause from place k on whose variable is not marked.  *)
Unseen(lits, k) ==
    Selected(SubSeq(lits, k, Len(lits)), LAMBDA l : Var(l) \notin seen)

AtLevelZero(lits) == Selected(lits, LAMBDA l : level(l) = 0)
AboveLevelZero(lits) == Selected(lits, LAMBDA l : level(l) > 0)

(* Mutant: the unit clauses of level 0 are not among the hints.            *)
AddResolvedNoUnits(lits, fresh, cid) == AddHint(an, cid)

(* The clause is a hint, and so are the unit clauses of its literals of    *)
(* level 0.                                                                *)
AddResolved(lits, fresh, cid) ==
    AddUnitHints(AddHint(an, cid), UnitCidsOf(AtLevelZero(fresh)))

analyzeResolve ==
    /\ pc = "analyze"
    /\ LET c == IF ana.p = 0 THEN conflLits ELSE ImpliedFirst(conflLits)
           fresh == Unseen(c, IF ana.p = 0 THEN 1 ELSE 2)
           here == Selected(fresh, LAMBDA l : level(l) >= ana.nDecisionLevel)
           lower == Selected(AboveLevelZero(fresh),
                              LAMBDA l : level(l) < ana.nDecisionLevel)
           marked == seen \cup VarsOf(fresh)
           next == Max({k \in 1 .. ana.index :
                          /\ Var(trail[k]) \in marked
                          /\ level(trail[k]) >= ana.nDecisionLevel})
           pathC == ana.pathC + Len(here) - 1
           out == learnt \o lower
           cleared == ana.toclear \o AtLevelZero(fresh)
       IN  /\ ca' = [ca EXCEPT ![confl].lits = c]
           /\ an' = AddResolved(c, fresh, ca[confl].cid)
           /\ seen' = marked \ {Var(trail[next])}
           /\ IF pathC > 0
                THEN /\ confl' = reason(trail[next])
                     /\ learnt' = out
                     /\ ana' = [ana EXCEPT !.p = trail[next], !.index = next - 1,
                                           !.pathC = pathC, !.toclear = cleared]
                     /\ UNCHANGED pc
                ELSE /\ confl' = CRef_Undef
                     /\ learnt' = [out EXCEPT ![1] = -trail[next]]
                     /\ ana' = [NoAnalysis EXCEPT
                                  !.toclear = cleared \o learnt',
                                  !.nDecisionLevel = ana.nDecisionLevel,
                                  !.levels = {level(l) % 32 : l \in ToSet(lower) \cup
                                                ToSet(SubSeq(learnt, 2, Len(learnt)))},
                                  !.i = 2, !.kept = <<-trail[next]>>]
                     /\ pc' = "minimize"
    /\ UNCHANGED <<watches, dirty, trailVars, ok, db, unitCids, prop, searching,
                   conflicts>>

-----------------------------------------------------------------------------
(* Minimization.                                                           *)

minimizeFrame == <<watches, dirty, trailVars, ok, db, unitCids, prop, confl,
                   searching, conflicts>>

Minimizing == pc = "minimize" /\ ana.i <= Len(learnt)

(* ccmin-mode 2, a literal without reason: it stays.                       *)
minimizeKeep ==
    /\ Minimizing
    /\ CcMinMode = 2
    /\ reason(learnt[ana.i]) = CRef_Undef
    /\ ana' = [ana EXCEPT !.kept = Append(@, learnt[ana.i]), !.i = @ + 1]
    /\ UNCHANGED <<minimizeFrame, ca, an, seen, learnt, pc>>

litRedundantBegin ==
    /\ Minimizing
    /\ CcMinMode = 2
    /\ reason(learnt[ana.i]) # CRef_Undef
    /\ an' = MarkRevertableHints(an)
    /\ ana' = [ana EXCEPT !.stack = <<learnt[ana.i]>>, !.top = Len(ana.toclear)]
    /\ pc' = "litRedundant"
    /\ UNCHANGED <<minimizeFrame, ca, seen, learnt>>

redundantCRef == reason(Last(ana.stack))
redundantLits == ImpliedFirst(ca[redundantCRef].lits)

(* A literal litRedundant cannot resolve away.                             *)
Irreducible(l) ==
    /\ level(l) > 0
    /\ reason(l) = CRef_Undef \/ level(l) % 32 \notin ana.levels

Resolvable ==
    \A l \in ToSet(Unseen(redundantLits, 2)) : ~Irreducible(l)

StoreRedundant == ca' = [ca EXCEPT ![redundantCRef].lits = redundantLits]

litRedundantStep ==
    /\ pc = "litRedundant"
    /\ ana.stack # <<>>
    /\ Resolvable
    /\ StoreRedundant
    /\ LET fresh == Unseen(redundantLits, 2)
       IN  /\ an' = AddUnitHints(AddUnorderedHint(an, ca[redundantCRef].cid),
                                 UnitCidsOf(AtLevelZero(fresh)))
           /\ seen' = seen \cup VarsOf(fresh)
           /\ ana' = [ana EXCEPT !.stack = Front(@) \o AboveLevelZero(fresh),
                                 !.toclear = @ \o fresh]
    /\ UNCHANGED <<minimizeFrame, learnt, pc>>

litRedundantTrue ==
    /\ pc = "litRedundant"
    /\ ana.stack = <<>>
    /\ ana' = [ana EXCEPT !.i = @ + 1]
    /\ pc' = "minimize"
    /\ UNCHANGED <<minimizeFrame, ca, an, seen, learnt>>

(* Mutant: the marks of the failed attempt stay.                           *)
litRedundantFalseKeepsSeen ==
    /\ pc = "litRedundant"
    /\ ana.stack # <<>>
    /\ ~Resolvable
    /\ StoreRedundant
    /\ an' = RevertHints(an)
    /\ ana' = [ana EXCEPT !.toclear = SubSeq(@, 1, ana.top), !.stack = <<>>,
                          !.kept = Append(@, learnt[ana.i]), !.i = @ + 1]
    /\ pc' = "minimize"
    /\ UNCHANGED <<minimizeFrame, seen, learnt>>

(* Marks and hints of the attempt are taken back.                          *)
litRedundantFalse ==
    /\ pc = "litRedundant"
    /\ ana.stack # <<>>
    /\ ~Resolvable
    /\ StoreRedundant
    /\ an' = RevertHints(an)
    /\ seen' = seen \ VarsOf(SubSeq(ana.toclear, ana.top + 1, Len(ana.toclear)))
    /\ ana' = [ana EXCEPT !.toclear = SubSeq(@, 1, ana.top), !.stack = <<>>,
                          !.kept = Append(@, learnt[ana.i]), !.i = @ + 1]
    /\ pc' = "minimize"
    /\ UNCHANGED <<minimizeFrame, learnt>>

(* ccmin-mode 1: a literal goes if its reason has only marked literals and *)
(* literals of level 0.                                                    *)
minimizeBasic ==
    /\ Minimizing
    /\ CcMinMode = 1
    /\ LET from == reason(learnt[ana.i])
           c == ca[from].lits
           local == \A k \in (IF Len(c) = 2 THEN 1 ELSE 2) .. Len(c) :
                        Var(c[k]) \in seen \/ level(c[k]) = 0
       IN  ana' = [ana EXCEPT !.i = @ + 1,
                     !.kept = IF from # CRef_Undef /\ local THEN @
                              ELSE Append(@, learnt[ana.i])]
    /\ UNCHANGED <<minimizeFrame, ca, an, seen, learnt, pc>>

(* computeLBD: the number of levels above 0.                               *)
lbd(lits) == Cardinality({level(l) : l \in ToSet(lits)} \ {0})

(* The watchers that give binResMinimize a clause (out[1] \/ -l) for a     *)
(* literal l of out.                                                       *)
BinaryResolvents(out) ==
    Selected(watches["bin"][-out[1]],
              LAMBDA w : Var(w.blocker) \in VarsOf(Tail(out)) /\ IsTrue(w.blocker))

(* One watcher per removed literal: the mark in seen2 is taken off by the  *)
(* first one.                                                              *)
FirstPerLiteral(ws) ==
    LET IsFirst(k) == \A j \in 1 .. k - 1 : ws[j].blocker # ws[k].blocker
        firsts == Places(Len(ws), IsFirst)
    IN  [n \in DOMAIN firsts |-> ws[firsts[n]]]

(* The kept literals of the end of the clause fill, from the last one on,  *)
(* the places of the removed ones.                                         *)
Shrunk(out, removed) ==
    LET size == Len(out) - Cardinality(removed)
        Gone(k) == Var(out[k]) \in removed
        holes == Places(size, Gone)
        fill == Reverse(Places(Len(out), LAMBDA k : k > size /\ ~Gone(k)))
    IN  [k \in 1 .. size |->
           IF Gone(k)
             THEN out[fill[CHOOSE n \in DOMAIN holes : holes[n] = k]]
             ELSE out[k]]

(* Mutant: the second literal is any.                                      *)
SecondAsIs(lits) == lits

(* The first literal of the highest level but one is made the second.      *)
HighestSecond(lits) ==
    IF Len(lits) = 1 THEN lits
    ELSE SwapAt(lits, 2, Min({k \in 2 .. Len(lits) :
                                level(lits[k]) = MaxLevelOf(Tail(lits))}))

(* The rest of analyze: binResMinimize if the clause is short enough, the  *)
(* backtrack level, and the marks taken off.                               *)
analyzeEnd ==
    /\ pc = "minimize"
    /\ ana.i > Len(learnt) \/ CcMinMode = 0
    /\ LET out == IF CcMinMode = 0 THEN learnt ELSE ana.kept
           used == IF lbd(out) <= 6 /\ Len(out) <= 30
                     THEN FirstPerLiteral(BinaryResolvents(out)) ELSE <<>>
           short == Shrunk(out, {Var(used[k].blocker) : k \in DOMAIN used})
       IN  /\ an' = AddHints(an, [k \in DOMAIN used |-> ca[used[k].cref].cid])
           /\ learnt' = HighestSecond(short)
           /\ ana' = [NoAnalysis EXCEPT
                        !.nDecisionLevel = ana.nDecisionLevel,
                        !.btlevel = IF Len(short) = 1 THEN 0 ELSE level(learnt'[2])]
    /\ seen' = seen \ VarsOf(ana.toclear)
    /\ pc' = "backtrack"
    /\ UNCHANGED <<minimizeFrame, ca>>

-----------------------------------------------------------------------------
ChronoBacktrack ==
    /\ ConflToChrono < 0 \/ ConflToChrono <= conflicts
    /\ Chrono > -1
    /\ decisionLevel - ana.btlevel >= Chrono

backtrack ==
    /\ pc = "backtrack"
    /\ cancelUntil(IF ChronoBacktrack THEN ana.nDecisionLevel - 1 ELSE ana.btlevel)
    /\ pc' = "learn"
    /\ UNCHANGED <<clauseVars, vardata, ok, tracerVars, seen, prop, confl, analysisVars>>

learnFrame == <<dirty, trail_lim, qhead, ok, seen, prop, confl, searching, conflicts>>

learnUnit ==
    /\ pc = "learn"
    /\ Len(learnt) = 1
    /\ uncheckedEnqueue(learnt[1], 0, CRef_Undef, db, an)
    /\ learnt' = <<>> /\ ana' = NoAnalysis
    /\ pc' = "clean"
    /\ UNCHANGED <<learnFrame, ca, watches>>

learnClause ==
    /\ pc = "learn"
    /\ Len(learnt) > 1
    /\ LET cr == Len(ca) + 1
       IN  /\ ca' = Append(ca, NewClause(learnt, TRUE, Len(db) + 1))
           /\ watches' = Attached(watches, cr, learnt)
           /\ uncheckedEnqueue(learnt[1], ana.btlevel, cr,
                Append(db, Resolvent(an, learnt, GetOrigin(an))), NoHints)
    /\ learnt' = <<>> /\ ana' = NoAnalysis
    /\ pc' = "clean"
    /\ UNCHANGED learnFrame

conflictHandling ==
    \/ levelZeroConflict \/ searchLevelZeroConflict \/ singleHighest
    \/ analyzeBegin \/ analyzeResolve
    \/ minimizeKeep \/ litRedundantBegin \/ litRedundantStep
    \/ litRedundantTrue \/ litRedundantFalse \/ minimizeBasic \/ analyzeEnd
    \/ backtrack \/ learnUnit \/ learnClause
=============================================================================
