---------------------------- MODULE ChronoSearch ----------------------------
(***************************************************************************)
(* The solver as a whole: the clauses of the formula are added              *)
(* (addClause_), then solve_ calls search until it answers; search         *)
(* propagates, handles conflicts, restarts, simplifies, forgets learnt     *)
(* clauses and decides.  What the heuristics choose (the decision, when to *)
(* restart, which learnt clauses to forget) is left open.                  *)
(***************************************************************************)
EXTENDS LearntVivify

CONSTANT
    Problems        \* the formulas that may be given, each with its bounds

(* A problem bounds the restarts, the clauses reduceDB removes, and the    *)
(* literals decide chooses from.                                           *)
ASSUME ProblemsAssumption ==
    \A p \in Problems :
        /\ p.cnf \in Seq(Seq(Lits))
        /\ p.restarts \in Nat /\ p.reductions \in Nat
        /\ p.decisions \subseteq Lits /\ {Var(l) : l \in p.decisions} = Vars

VARIABLES
    problem,        \* what is to be solved
    next,           \* the clause to be added next
    restarts, reductions,
    simpDB_assigns, \* number of assignments at the last simplify
    model           \* the assignment reported

inputVars == <<problem, next>>
budgetVars == <<restarts, reductions>>
vars == <<ca, watches, dirty, assigns, vardata, trail, trail_lim, qhead, ok,
          db, an, unitCids, seen, pc, prop, confl, searching, conflicts, learnt,
          ana, viv, due, problem, next, restarts, reductions, simpDB_assigns, model>>

Init ==
    /\ StateInit /\ PropInit /\ ConflictInit /\ VivifyInit
    /\ problem \in Problems
    /\ next = 1
    /\ restarts = 0 /\ reductions = 0
    /\ simpDB_assigns = -1
    /\ model = [v \in Vars |-> 0]

-----------------------------------------------------------------------------
(* addClause_.                                                             *)

formula == problem.cnf      \* the clauses in the order of the input file

(* add_oc: the place of a literal is given by those that come before it.   *)
Earlier(ps, j, k) == LitBefore(ps[j], ps[k]) \/ (ps[j] = ps[k] /\ j < k)
sorted(ps) ==
    LET Before(k) == Cardinality({j \in DOMAIN ps : Earlier(ps, j, k)})
    IN  [n \in DOMAIN ps |-> ps[CHOOSE k \in DOMAIN ps : Before(k) = n - 1]]

alreadyTrue(ps) == \E l \in ToSet(ps) : IsTrue(l) \/ -l \in ToSet(ps)

(* Without the false literals and with one copy of the others.             *)
reduced(ps) ==
    LET Kept(k) == ~IsFalse(sorted(ps)[k]) /\ (k = 1 \/ sorted(ps)[k - 1] # sorted(ps)[k])
        places == Places(Len(ps), Kept)
    IN  [n \in DOMAIN places |-> sorted(ps)[places[n]]]

WasShortened(ps) == Len(ps) > Len(reduced(ps))

(* A clause that lost literals is recorded as it came, with the hints a,   *)
(* and the hints for the shorter one are that record and the units that    *)
(* falsify it.                                                             *)
loggedInput(ps, a) ==
    IF WasShortened(ps) THEN Append(db, Resolvent(a, sorted(ps), GetOrigin(a))) ELSE db
inputHints(ps, a) ==
    IF WasShortened(ps)
      THEN AddUnitHints(AddHint(NoHints, Len(db) + 1),
                        UnitCidsOf(Selected(sorted(ps), IsFalse)))
      ELSE a

(* Mutant: a clause that is true anyway is not recorded.                   *)
addSatisfiedUnrecorded(ps, a) ==
    /\ alreadyTrue(ps)
    /\ UNCHANGED <<db, an, ca, watches, assigns, vardata, trail, ok, unitCids, pc>>

addSatisfied(ps, a) ==
    /\ alreadyTrue(ps)
    /\ db' = db \o <<Resolvent(a, sorted(ps), GetOrigin(a)), DeleteRecord(Len(db) + 1)>>
    /\ an' = NoHints
    /\ UNCHANGED <<ca, watches, assigns, vardata, trail, ok, unitCids, pc>>

addEmpty(ps, a) ==
    /\ ~alreadyTrue(ps)
    /\ reduced(ps) = <<>>
    /\ LET b == inputHints(ps, a)
       IN  db' = Append(loggedInput(ps, a), Resolvent(b, <<>>, GetOrigin(b)))
    /\ an' = NoHints
    /\ ok' = FALSE
    /\ pc' = "unsat"
    /\ UNCHANGED <<ca, watches, assigns, vardata, trail, unitCids>>

addUnit(ps, a) ==
    /\ ~alreadyTrue(ps)
    /\ Len(reduced(ps)) = 1
    /\ uncheckedEnqueue(reduced(ps)[1], 0, CRef_Undef, loggedInput(ps, a), inputHints(ps, a))
    /\ pc' = "clean"
    /\ UNCHANGED <<ca, watches, ok>>

addLonger(ps, a) ==
    /\ ~alreadyTrue(ps)
    /\ LET b == inputHints(ps, a)
           lits == reduced(ps)
       IN  /\ Len(lits) > 1
           /\ db' = Append(loggedInput(ps, a), Resolvent(b, lits, GetOrigin(b)))
           /\ ca' = Append(ca, NewClause(lits, FALSE, Len(db')))
           /\ watches' = Attached(watches, Len(ca'), lits)
    /\ an' = NoHints
    /\ UNCHANGED <<assigns, vardata, trail, ok, unitCids, pc>>

(* addClause_ of the literals ps, with the hints a pending.                *)
addClause_(ps, a) ==
    \/ addSatisfied(ps, a) \/ addEmpty(ps, a) \/ addUnit(ps, a) \/ addLonger(ps, a)

addFrame == <<dirty, trail_lim, qhead, seen, prop, confl, analysisVars, vivifyVars,
              problem, budgetVars, simpDB_assigns, model>>

parseClause ==
    /\ pc = "parse"
    /\ next <= Len(formula)
    /\ addClause_(formula[next], an)
    /\ next' = next + 1
    /\ UNCHANGED addFrame

(* propagateLevelZeroCheck found no conflict.                              *)
addUnitDone ==
    /\ QueueEmpty
    /\ ~searching
    /\ ~viv.on
    /\ pc' = "parse"
    /\ UNCHANGED <<clauseVars, trailVars, ok, tracerVars, seen, prop, confl,
                   analysisVars, vivifyVars, inputVars, budgetVars, simpDB_assigns, model>>

solve_ ==
    /\ pc = "parse"
    /\ next > Len(formula)
    /\ enterSearch
    /\ UNCHANGED <<clauseVars, trailVars, ok, tracerVars, seen, prop, confl,
                   conflicts, learnt, ana, inputVars, budgetVars, simpDB_assigns, model>>

-----------------------------------------------------------------------------
(* The part of search that follows a propagation without conflict.         *)

Idle == QueueEmpty /\ searching

idleFrame == <<watches, ok, unitCids, seen, an, prop, confl, conflicts, learnt, ana,
               due, inputVars, model>>

(* search returns l_Undef and solve_ calls it again, after conflicts: the  *)
(* queue of their LBDs has to be full, or their budget used up.            *)
restart ==
    /\ Idle
    /\ restarts < problem.restarts
    /\ conflicts > restarts
    /\ decisionLevel > 0
    /\ cancelUntil(0)
    /\ restarts' = restarts + 1
    /\ enterSearch
    /\ UNCHANGED <<idleFrame, ca, dirty, vardata, db, reductions, simpDB_assigns>>

Present(isLearnt) ==
    {cr \in CRefs : ca[cr].learnt = isLearnt /\ ~ca[cr].freed}

(* simplify removes the clauses that are true at level 0, the learnt ones  *)
(* first.  (The propagation it starts with finds an empty queue here.)     *)
simplify ==
    /\ Idle
    /\ decisionLevel = 0
    /\ Len(trail) # simpDB_assigns
    /\ LET Satisfied(isLearnt) ==
              Places(Len(ca), LAMBDA cr : cr \in Present(isLearnt) /\ satisfied(cr))
       IN  removeClauses(Satisfied(TRUE) \o Satisfied(FALSE))
    /\ simpDB_assigns' = Len(trail)
    /\ UNCHANGED <<idleFrame, searching, viv, assigns, trail, trail_lim, qhead, pc, budgetVars>>

(* A learnt clause that is no reason; binary ones have too small an LBD to *)
(* be in learnts_local.                                                    *)
Forgettable(cr) == Len(ca[cr].lits) > 2 /\ ~locked(cr)

(* reduceDB removes one of its clauses.                                    *)
reduceDB ==
    /\ Idle
    /\ reductions < problem.reductions
    /\ \E cr \in Present(TRUE) : Forgettable(cr) /\ removeClauses(<<cr>>)
    /\ reductions' = reductions + 1
    /\ UNCHANGED <<idleFrame, searching, viv, assigns, trail, trail_lim, qhead, pc,
                   restarts, simpDB_assigns>>

(* newDecisionLevel and the assignment, once pickBranchLit has chosen.     *)
decideOn(l) ==
    /\ IsUndef(l)
    /\ trail_lim' = Append(trail_lim, Len(trail))
    /\ uncheckedEnqueue(l, decisionLevel + 1, CRef_Undef, db, an)
    /\ pc' = "clean"
    /\ UNCHANGED <<clauseVars, qhead, ok, seen, prop, confl, analysisVars, vivifyVars,
                   inputVars, budgetVars, simpDB_assigns, model>>

decide == Idle /\ \E l \in problem.decisions : decideOn(l)

(* No decision variable is left: the model m is copied and the trail       *)
(* undone.                                                                 *)
answerModel(m) ==
    /\ Idle
    /\ model' = m
    /\ cancelUntil(0)
    /\ pc' = "sat"
    /\ UNCHANGED <<clauseVars, vardata, ok, tracerVars, seen, prop, confl,
                   analysisVars, vivifyVars, inputVars, budgetVars, simpDB_assigns>>

answerSat == (\A v \in Vars : assigns[v] # 0) /\ answerModel(assigns)

search == restart \/ simplify \/ reduceDB \/ decide \/ answerSat

Answered == pc \in {"sat", "unsat"}

inputFrame == <<inputVars, budgetVars, simpDB_assigns, model>>

Step ==
    \/ parseClause \/ addUnitDone \/ solve_ \/ search
    \/ (propagate /\ UNCHANGED <<analysisVars, vivifyVars, inputFrame>>)
    \/ (conflictHandling /\ UNCHANGED <<vivifyVars, inputFrame>>)
    \/ (simplifyAll /\ UNCHANGED inputFrame)

Next == Step \/ (Answered /\ UNCHANGED vars)

Spec == Init /\ [][Next]_vars

(* The solver is one sequential program: it takes its next step.           *)
FairSpec == Spec /\ WF_vars(Step)
-----------------------------------------------------------------------------
LitSeq == Seq(Lits)
RecordType == [type : ClauseOrigin, lits : LitSeq, hints : Seq(Nat)]
Phases == {"parse", "clean", "propagate", "conflict", "analyze", "minimize",
           "litRedundant", "backtrack", "learn", "simplifyLearnt", "simplePropagate",
           "simpleAnalyze", "simplified", "sat", "unsat"}

(* The types of the state; clause references and cids in their ranges.     *)
TypeOK ==
    /\ ca \in Seq([lits : LitSeq, learnt : BOOLEAN, cid : DOMAIN db,
                   simplified : BOOLEAN, freed : BOOLEAN])
    /\ watches \in [{"bin", "long"} -> [Lits -> Seq([cref : CRefs, blocker : Lits])]]
    /\ dirty \in [{"bin", "long"} -> SUBSET Lits]
    /\ assigns \in [Vars -> Lits \cup {0}]
    /\ vardata \in [Vars -> [reason : CRefs \cup {CRef_Undef}, level : Nat]]
    /\ trail \in LitSeq
    /\ trail_lim \in Seq(0 .. Len(trail))
    /\ qhead \in 0 .. Len(trail)
    /\ ok \in BOOLEAN /\ searching \in BOOLEAN
    /\ db \in Seq(RecordType)
    /\ an \in [hints : Seq(DOMAIN db), units : Seq(DOMAIN db),
               reverts : Seq(RevertMarker), nUnordered : Nat]
    /\ unitCids \in [Vars -> DOMAIN db \cup {NoCid}]
    /\ seen \subseteq Vars
    /\ pc \in Phases
    /\ prop \in [lit : Lits \cup {0}, k : Nat, i : Nat]
    /\ confl \in CRefs \cup {CRef_Undef}
    /\ learnt \in Seq(Lits \cup {0})
    /\ viv \in [on : BOOLEAN, cr : CRefs \cup {CRef_Undef}, i : Nat, kept : LitSeq,
                falseLit : LitSeq, True_confl : BOOLEAN, trailRecord : 0 .. Len(trail)]
    /\ due \in [curSimplify : Nat, nbconf : Nat]
    /\ conflicts \in Nat /\ restarts \in Nat /\ reductions \in Nat
    /\ next \in 1 .. Len(formula) + 1

(* The trail lists the assigned variables once each; the decision of each  *)
(* level stands where trail_lim says, and what follows it up to the next   *)
(* decision may have any lower level too, but no higher one.               *)
TrailLevels ==
    /\ \A v \in Vars : assigns[v] # 0 => \E i \in DOMAIN trail : trail[i] = assigns[v]
    /\ \A i \in DOMAIN trail : assigns[Var(trail[i])] = trail[i]
    /\ Cardinality(VarsOf(trail)) = Len(trail)
    /\ \A k \in DOMAIN trail_lim :
         LET d == trail[trail_lim[k] + 1]
         IN  level(d) = k /\ reason(d) = CRef_Undef
    /\ \A i \in Settled :
         level(trail[i]) <= Cardinality({k \in DOMAIN trail_lim : trail_lim[k] < i})

(* The state is well-formed, also between the levels of the trail.         *)
TrailOK == TypeOK /\ TrailLevels

(* The reason of an assignment is a clause that is still there, has no     *)
(* other literal that is not false, has only literals that stand earlier   *)
(* on the trail, and reaches the level of the assignment: what analyze and *)
(* litRedundant rely on after chronological backtracking.                  *)
ReasonSound ==
    \A i \in Settled : reason(trail[i]) # CRef_Undef =>
        LET cr == reason(trail[i])
            others == ToSet(ca[cr].lits) \ {trail[i]}
        IN  /\ ~ca[cr].freed
            /\ trail[i] = ImpliedLit(ca[cr].lits)
            /\ \A l \in others : \E j \in 1 .. i - 1 : trail[j] = -l
            /\ level(trail[i]) = Max({level(l) : l \in others})

(* When search decides, no clause is falsified and none is unit: the       *)
(* watchers miss nothing, also among literals assigned out of order.       *)
NoMissedImplication ==
    Idle => \A cr \in CRefs : ~ca[cr].freed =>
        \/ satisfied(cr)
        \/ Cardinality({l \in ToSet(ca[cr].lits) : IsUndef(l)}) >= 2

(* The promise of the comment on analyze, at the time the clause is added  *)
(* to the solver: its first literal is unassigned, the others are false,   *)
(* and the second has the greatest level of them, the backtrack level.     *)
LearntAsserting ==
    pc = "learn" =>
        /\ IsUndef(learnt[1])
        /\ \A l \in ToSet(Tail(learnt)) : IsFalse(l) /\ level(l) \in 1 .. decisionLevel
        /\ ana.btlevel = Max({level(l) : l \in ToSet(Tail(learnt))} \cup {0})
        /\ Len(learnt) > 1 => level(learnt[2]) = ana.btlevel

(* The INITIAL records are the clauses of the formula added so far, in     *)
(* their order: the numbers GRIT and LRAT proofs give them.                *)
InputNumbering ==
    LET inputs == Selected(db, LAMBDA r : r.type = "INITIAL")
    IN  /\ Len(inputs) = next - 1
        /\ \A i \in DOMAIN inputs : ToSet(inputs[i].lits) = ToSet(formula[i])

(* A clause of the solver and the record its cid names have the same       *)
(* literals, and the record is deleted exactly when the clause is freed;   *)
(* only one that vivification has cut to a unit keeps its old record.      *)
CidCoherent ==
    \A cr \in CRefs : Len(ca[cr].lits) > 1 =>
        /\ ToSet(db[ca[cr].cid].lits) = ToSet(ca[cr].lits)
        /\ ~IsDelete(db[ca[cr].cid])
        /\ ca[cr].freed <=> ca[cr].cid \in DeletedCids(db)

(* A variable has a unit record exactly while it is assigned at level 0,   *)
(* and the record is for the value it has.                                 *)
UnitCidsLevelZero ==
    \A v \in Vars :
        IF assigns[v] # 0 /\ vardata[v].level = 0
          THEN unitCids[v] # NoCid /\ db[unitCids[v]].lits = <<assigns[v]>>
          ELSE unitCids[v] = NoCid

(* Nothing is left of a conflict once it has been handled: no mark in      *)
(* seen, no pending hint that would get into the next record.              *)
NoTraceOfAnalysis ==
    /\ pc \notin {"analyze", "minimize", "litRedundant"} => seen = {}
    /\ pc \notin {"analyze", "minimize", "litRedundant", "backtrack", "learn", "simplified"}
         => an = NoHints

WatchersOf(kind, l, cr) ==
    {i \in DOMAIN watches[kind][l] : watches[kind][l][i].cref = cr}

(* Each clause is watched through its first two literals, once each, and   *)
(* through no other; the blocker is another literal of it; the watchers of *)
(* a freed clause are only in lists that the next propagate cleans.  The   *)
(* clause vivification has in hand is in no list.                          *)
WatchesPaired ==
    \A cr \in CRefs : \A kind \in DOMAIN watches : \A l \in Lits :
        LET c == ca[cr].lits
            ws == WatchersOf(kind, l, cr)
        IN  IF InHand(cr) \/ Len(c) = 1 THEN ws = {}
            ELSE IF ca[cr].freed THEN ws # {} => l \in dirty[kind]
            ELSE /\ Cardinality(ws) =
                      (IF kind = Kind(c) /\ -l \in {c[1], c[2]} THEN 1 ELSE 0)
                 /\ \A i \in ws :
                      watches[kind][l][i].blocker \in ToSet(c) \ {-l}

(* The solver answers.                                                     *)
Termination == <>Answered
=============================================================================
