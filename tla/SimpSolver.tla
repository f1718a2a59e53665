----------------------------- MODULE SimpSolver -----------------------------
(***************************************************************************)
(* Preprocessing (simp/SimpSolver.h, simp/SimpSolver.cc) in front of the   *)
(* search: when the formula has been read, eliminate alternates backward   *)
(* subsumption and variable elimination on occurrence lists, with proof    *)
(* records for what it derives; then the search of ChronoSearch runs on    *)
(* the clauses that are left, and extendModel gives the eliminated         *)
(* variables their values.  No variable is frozen: nobody assumes any.     *)
(***************************************************************************)
EXTENDS CertifiedSearch

CONSTANTS
    Grow,           \* option -grow
    IterateFrom     \* the variables needed for more eliminations: 10000 in the code

(* The option -cl-lim comes with the problem.                              *)
ASSUME SimpAssumption ==
    /\ Grow \in Nat /\ IterateFrom \in Nat \ {0}
    /\ \A p \in Problems : p.clause_lim \in Nat

VARIABLES
    occ,            \* occurs and its smudged lists, n_occ, touched, elim_heap, queue
    bwdsub_assigns,
    eliminated,     \* the eliminated variables
    elimclauses,    \* what extendModel needs of them
    simp            \* where eliminate is, with its local variables

simpVars == <<occ, bwdsub_assigns, eliminated, elimclauses, simp>>
allVars == <<vars, simpVars>>

NoOccurrences ==
    [occurs |-> [v \in Vars |-> <<>>], smudged |-> {}, n_occ |-> [l \in Lits |-> 0],
     touched |-> {}, elim_heap |-> {}, queue |-> <<>>]

NotSimplifying ==
    [phase |-> "off", unit |-> 0, cr |-> CRef_Undef, best |-> 1, j |-> 1, v |-> 1,
     pos |-> <<>>, neg |-> <<>>, k |-> 1, grow |-> Grow, iter |-> 0, trail_last |-> 0,
     cls_init |-> 0, cls_last |-> 0, vars_last |-> 0]

SimpInit ==
    /\ Init
    /\ occ = [NoOccurrences EXCEPT !.elim_heap = Vars]
    /\ bwdsub_assigns = 0
    /\ eliminated = {} /\ elimclauses = <<>>
    /\ simp = [NotSimplifying EXCEPT !.phase = "parse"]

-----------------------------------------------------------------------------
(* The bookkeeping of clauses.                                             *)

Originals == {cr \in CRefs : ~ca[cr].learnt /\ ~ca[cr].freed}

(* addClause_ of SimpSolver for a clause that has been allocated.          *)
Registered(o, cr, lits) ==
    [o EXCEPT !.queue = Append(@, cr),
              !.occurs = [v \in Vars |-> IF v \in VarsOf(lits) THEN Append(@[v], cr) ELSE @[v]],
              !.n_occ = [l \in Lits |-> @[l] + IF l \in ToSet(lits) THEN 1 ELSE 0],
              !.touched = @ \cup VarsOf(lits)]

RegisterNewest ==
    occ' = IF Len(ca') = Len(ca) THEN occ ELSE Registered(occ, Len(ca'), Last(ca').lits)

(* updateElimHeap: a variable that can be eliminated enters the heap.      *)
Updated(o, vs) ==
    [o EXCEPT !.elim_heap = @ \cup {v \in vs \ eliminated : assigns[v] = 0}]

(* removeClause of SimpSolver; the occurrence lists keep the reference.    *)
Unregistered(o, cr) ==
    LET lits == ca[cr].lits
    IN  Updated([o EXCEPT !.n_occ = [l \in Lits |-> @[l] - IF l \in ToSet(lits) THEN 1 ELSE 0],
                          !.smudged = @ \cup VarsOf(lits)], VarsOf(lits))

Lookup(o, v) ==
    IF v \notin o.smudged THEN o
    ELSE [o EXCEPT !.occurs[v] = SelectSeq(@, LAMBDA cr : ~ca[cr].freed),
                   !.smudged = @ \ {v}]

(* gatherTouchedClauses: the clauses of the touched variables that are not *)
(* in the queue yet.                                                       *)
Gathered ==
    LET Gather(o, v) ==
            LET p == Lookup(o, v)
            IN  [p EXCEPT !.queue = @ \o SelectSeq(p.occurs[v],
                            LAMBDA cr : cr \notin ToSet(p.queue) /\ ~ca[cr].freed)]
        all == FoldLeft(Gather, occ, SetToSortSeq(occ.touched, <))
    IN  [all EXCEPT !.touched = {}]

-----------------------------------------------------------------------------
At(phase) == pc = "simp" /\ simp.phase = phase

simpFrame == <<seen, confl, conflicts, learnt, ana, due, inputVars, budgetVars, model>>
searchFrame == <<simpFrame, prop, searching, viv>>
clauseFrame == <<watches, assigns, trail, trail_lim, qhead, ok, an, unitCids>>

parse ==
    /\ simp.phase = "parse"
    /\ parseClause
    /\ RegisterNewest
    /\ UNCHANGED <<bwdsub_assigns, eliminated, elimclauses, simp>>

(* propagateLevelZeroCheck found no conflict.                              *)
levelZeroDone ==
    /\ QueueEmpty
    /\ ~searching
    /\ ~viv.on
    /\ pc' = IF simp.phase = "parse" THEN "parse" ELSE "simp"
    /\ UNCHANGED <<searchFrame, clauseFrame, ca, dirty, vardata, db, simpDB_assigns, simpVars>>

removeAll(crs) ==
    /\ removeClauses(crs)
    /\ occ' = FoldLeft(Unregistered, occ, crs)

removeSatisfied ==
    removeAll(Places(Len(ca), LAMBDA cr : cr \in Originals /\ satisfied(cr)))

(* The start of eliminate.                                                 *)
eliminate ==
    /\ pc = "parse"
    /\ next > Len(formula)
    /\ removeSatisfied
    /\ simp' = [simp EXCEPT !.phase = "round",
                            !.cls_init = Cardinality({cr \in CRefs : ~ca'[cr].freed})]
    /\ pc' = "simp"
    /\ UNCHANGED <<searchFrame, clauseFrame, simpDB_assigns, bwdsub_assigns, eliminated,
                   elimclauses>>

(* The start of eliminate_; simplify propagates and keeps the clauses,     *)
(* remove_satisfied is off.                                                *)
eliminate_ ==
    /\ At("round")
    /\ simpDB_assigns' = Len(trail)
    /\ simp' = [simp EXCEPT !.phase = "loop", !.trail_last = Len(trail)]
    /\ pc' = "clean"
    /\ UNCHANGED <<searchFrame, clauseFrame, ca, dirty, vardata, db, occ, bwdsub_assigns,
                   eliminated, elimclauses>>

MoreToDo == occ.touched # {} \/ bwdsub_assigns < Len(trail) \/ occ.elim_heap # {}

simpOnly == UNCHANGED <<searchFrame, clauseFrame, ca, dirty, vardata, db, simpDB_assigns, pc>>

gatherTouchedClauses ==
    /\ At("loop")
    /\ MoreToDo
    /\ occ' = Gathered
    /\ simp' = [simp EXCEPT !.phase = "subsume"]
    /\ simpOnly
    /\ UNCHANGED <<bwdsub_assigns, eliminated, elimclauses>>

-----------------------------------------------------------------------------
(* backwardSubsumptionCheck: a clause of the queue, or the unit clause of  *)
(* an assignment, against the clauses that share its rarest variable.      *)

subsumer == IF simp.cr = CRef_Undef THEN <<simp.unit>> ELSE ca[simp.cr].lits

(* The first variable with the shortest occurrence list.                   *)
RarestVar(lits) ==
    LET size(k) == Len(occ.occurs[Var(lits[k])])
    IN  Var(lits[Min({k \in DOMAIN lits : \A i \in DOMAIN lits : size(k) <= size(i)})])

startSubsumer(cr, unit, lits, queue) ==
    LET best == RarestVar(lits)
    IN  /\ occ' = Lookup([occ EXCEPT !.queue = queue], best)
        /\ simp' = [simp EXCEPT !.phase = "candidates", !.cr = cr, !.unit = unit,
                                !.best = best, !.j = 1]

popQueue ==
    /\ At("subsume")
    /\ occ.queue # <<>>
    /\ LET cr == Head(occ.queue)
       IN  IF ca[cr].freed
             THEN occ' = [occ EXCEPT !.queue = Tail(@)] /\ UNCHANGED simp
             ELSE startSubsumer(cr, 0, ca[cr].lits, Tail(occ.queue))
    /\ simpOnly
    /\ UNCHANGED <<bwdsub_assigns, eliminated, elimclauses>>

(* Mutant: the assignment is not counted as done.                          *)
popAssignmentAgain ==
    /\ At("subsume")
    /\ occ.queue = <<>>
    /\ bwdsub_assigns < Len(trail)
    /\ LET l == trail[bwdsub_assigns + 1] IN startSubsumer(CRef_Undef, l, <<l>>, <<>>)
    /\ simpOnly
    /\ UNCHANGED <<bwdsub_assigns, eliminated, elimclauses>>

popAssignment ==
    /\ At("subsume")
    /\ occ.queue = <<>>
    /\ bwdsub_assigns < Len(trail)
    /\ LET l == trail[bwdsub_assigns + 1] IN startSubsumer(CRef_Undef, l, <<l>>, <<>>)
    /\ bwdsub_assigns' = bwdsub_assigns + 1
    /\ simpOnly
    /\ UNCHANGED <<eliminated, elimclauses>>

subsumptionDone ==
    /\ At("subsume")
    /\ occ.queue = <<>>
    /\ bwdsub_assigns = Len(trail)
    /\ simp' = [simp EXCEPT !.phase = "elim"]
    /\ simpOnly
    /\ UNCHANGED <<occ, bwdsub_assigns, eliminated, elimclauses>>

(* Clause::subsumes, with the literals that occur negated.                 *)
Flipped(c, d) == {l \in ToSet(c) : -l \in ToSet(d)}
Subsumes(c, d) ==
    /\ \A l \in ToSet(c) : l \in ToSet(d) \/ -l \in ToSet(d)
    /\ Cardinality(Flipped(c, d)) <= 1

candidates == occ.occurs[simp.best]
Hits ==
    {j \in simp.j .. Len(candidates) :
        /\ ~ca[candidates[j]].freed
        /\ candidates[j] # simp.cr
        /\ Subsumes(subsumer, ca[candidates[j]].lits)}

hit == Min(Hits)
candidate == candidates[hit]
flipped == Flipped(subsumer, ca[candidate].lits)

removeSubsumed ==
    /\ At("candidates")
    /\ Hits # {}
    /\ flipped = {}
    /\ removeAll(<<candidate>>)
    /\ simp' = [simp EXCEPT !.j = hit + 1]
    /\ UNCHANGED <<searchFrame, clauseFrame, pc, simpDB_assigns, bwdsub_assigns, eliminated,
                   elimclauses>>

candidatesDone ==
    /\ At("candidates")
    /\ Hits = {}
    /\ simp' = [simp EXCEPT !.phase = "subsume", !.cr = CRef_Undef, !.unit = 0]
    /\ simpOnly
    /\ UNCHANGED <<occ, bwdsub_assigns, eliminated, elimclauses>>

(* Mutant: the unit clause a literal is removed by is no hint.             *)
strengthenHintsNoUnit(cr) ==
    AddHint(IF simp.cr = CRef_Undef THEN an ELSE AddHint(an, ca[simp.cr].cid), ca[cr].cid)

(* The hints for a clause without its literal l: the subsumer, or the unit *)
(* clause it stands for, and the clause.                                   *)
strengthenHints(cr) ==
    AddHint(IF simp.cr = CRef_Undef THEN AddUnitHint(an, unitCids[Var(simp.unit)])
            ELSE AddHint(an, ca[simp.cr].cid), ca[cr].cid)

WithoutLit(lits, l) == SelectSeq(lits, LAMBDA k : k # l)

(* strengthenClause of a binary clause: the other literal is recorded as a *)
(* unit, the clause removed and the literal enqueued.                      *)
strengthenToUnit(cr, l, a) ==
    LET unit == WithoutLit(ca[cr].lits, l)[1]
        freed == Unlocked(<<cr>>)
    IN  /\ db' = Append(db, Resolvent(a, <<unit>>, GetOrigin(a))) \o Deletions(<<cr>>)
        /\ unitCids' = [unitCids EXCEPT ![Var(unit)] = Len(db) + 1]
        /\ ca' = Freed(<<cr>>)
        /\ dirty' = Smudged(<<cr>>)
        /\ occ' = Unregistered([occ EXCEPT !.queue = Append(@, cr)], cr)
        /\ IF IsUndef(unit)
             THEN /\ assigns' = [assigns EXCEPT ![Var(unit)] = unit]
                  /\ vardata' = [freed EXCEPT ![Var(unit)] =
                                    [reason |-> CRef_Undef, level |-> 0]]
                  /\ trail' = Append(trail, unit)
             ELSE vardata' = freed /\ UNCHANGED <<assigns, trail>>
        /\ UNCHANGED watches

(* Mutant: the literal stays counted.                                      *)
WithoutOccurrenceUncounted(o, cr, l) ==
    Updated([o EXCEPT !.queue = Append(@, cr),
                      !.occurs[Var(l)] = SelectSeq(@, LAMBDA c : c # cr)], {Var(l)})

WithoutOccurrence(o, cr, l) ==
    Updated([o EXCEPT !.queue = Append(@, cr),
                      !.occurs[Var(l)] = SelectSeq(@, LAMBDA c : c # cr),
                      !.n_occ[l] = @ - 1], {Var(l)})

strengthenLonger(cr, l, a) ==
    LET lits == WithoutLit(ca[cr].lits, l)
    IN  /\ watches' = Attached(Detached(watches, cr, ca[cr].lits), cr, lits)
        /\ ca' = [ca EXCEPT ![cr].lits = lits, ![cr].cid = Len(db) + 1]
        /\ db' = Replaced(db, a, cr, lits)
        /\ occ' = WithoutOccurrence(occ, cr, l)
        /\ UNCHANGED <<unitCids, dirty, assigns, vardata, trail>>

(* strengthenClause, then propagateLevelZeroCheck.                         *)
strengthenClause(cr, l, a) ==
    /\ IF Len(ca[cr].lits) = 2 THEN strengthenToUnit(cr, l, a) ELSE strengthenLonger(cr, l, a)
    /\ an' = NoHints
    /\ pc' = "clean"

(* Mutant: the clause that takes the place of the hit is left out.         *)
nextCandidateSkips == hit + 1

(* The index of the candidate that is next when the hit was strengthened:  *)
(* the same if that clause has left the list.                              *)
nextCandidate == IF simp.best \in {Var(l) : l \in flipped} THEN hit ELSE hit + 1

strengthenSubsumed ==
    /\ At("candidates")
    /\ Hits # {}
    /\ \E l \in flipped : strengthenClause(candidate, -l, strengthenHints(candidate))
    /\ simp' = [simp EXCEPT !.j = nextCandidate]
    /\ UNCHANGED <<searchFrame, trail_lim, qhead, ok, simpDB_assigns, bwdsub_assigns,
                   eliminated, elimclauses>>

backwardSubsumptionCheck ==
    \/ popQueue \/ popAssignment \/ subsumptionDone
    \/ removeSubsumed \/ strengthenSubsumed \/ candidatesDone

-----------------------------------------------------------------------------
(* eliminateVar.                                                           *)

cost(v) == occ.n_occ[v] * occ.n_occ[-v]

(* removeMin; the order of variables of equal cost is left open.           *)
Cheapest == {v \in occ.elim_heap : \A w \in occ.elim_heap : cost(v) <= cost(w)}

(* merge: the clauses c and d resolved on v, none if that is always true.  *)
Clashing(c, d, v) == \E l \in ToSet(c) : -l \in ToSet(d) /\ Var(l) # v
Merged(c, d, v) ==
    SetToSeq({l \in ToSet(c) \cup ToSet(d) : Var(l) # v})

(* The pairs of clauses that have a resolvent, in the order of the loops.  *)
Pairs(pos, neg, v) ==
    SelectSeq(FlattenSeq([i \in DOMAIN pos |-> [j \in DOMAIN neg |-> <<pos[i], neg[j]>>]]),
              LAMBDA p : ~Clashing(ca[p[1]].lits, ca[p[2]].lits, v))

TooManyResolvents(pairs, v, cls) ==
    \/ Len(pairs) > Len(cls) + simp.grow
    \/ \E n \in DOMAIN pairs :
          Len(Merged(ca[pairs[n][1]].lits, ca[pairs[n][2]].lits, v)) > problem.clause_lim

(* mkElimClause: the literal of v first.                                   *)
ElimClause(v, cr) ==
    LET c == ca[cr].lits IN SwapAt(c, 1, Min({k \in DOMAIN c : Var(c[k]) = v}))

(* The clauses of the rarer polarity, and the other one as the default.    *)
ElimClauses(v, pos, neg) ==
    IF Len(pos) > Len(neg)
      THEN [i \in DOMAIN neg |-> ElimClause(v, neg[i])] \o << <<v>> >>
      ELSE [i \in DOMAIN pos |-> ElimClause(v, pos[i])] \o << <<-v>> >>

(* The next variable of the heap, unless eliminated or assigned.           *)
eliminateVar ==
    /\ At("elim")
    /\ \E v \in Cheapest :
         LET o == Lookup([occ EXCEPT !.elim_heap = @ \ {v}], v)
             cls == o.occurs[v]
             pos == SelectSeq(cls, LAMBDA cr : v \in ToSet(ca[cr].lits))
             neg == SelectSeq(cls, LAMBDA cr : v \notin ToSet(ca[cr].lits))
         IN  IF v \in eliminated \/ assigns[v] # 0
               THEN /\ occ' = [occ EXCEPT !.elim_heap = @ \ {v}]
                    /\ UNCHANGED <<simp, eliminated, elimclauses>>
             ELSE IF TooManyResolvents(Pairs(pos, neg, v), v, cls)
               THEN occ' = o /\ UNCHANGED <<simp, eliminated, elimclauses>>
             ELSE /\ occ' = o
                  /\ eliminated' = eliminated \cup {v}
                  /\ elimclauses' = elimclauses \o ElimClauses(v, pos, neg)
                  /\ simp' = [simp EXCEPT !.phase = "resolve", !.v = v, !.pos = pos,
                                          !.neg = neg, !.k = 1]
    /\ simpOnly
    /\ UNCHANGED bwdsub_assigns

pairs_ == Pairs(simp.pos, simp.neg, simp.v)

addResolvent ==
    /\ At("resolve")
    /\ simp.k <= Len(pairs_)
    /\ LET ps == ca[pairs_[simp.k][1]]
           qs == ca[pairs_[simp.k][2]]
       IN  \E resolvent \in {Merged(ps.lits, qs.lits, simp.v)} :
              addClause_(resolvent, AddHint(AddHint(an, ps.cid), qs.cid))
    /\ RegisterNewest
    /\ simp' = [simp EXCEPT !.k = @ + 1]
    /\ UNCHANGED <<searchFrame, dirty, trail_lim, qhead, simpDB_assigns, bwdsub_assigns,
                   eliminated, elimclauses>>

(* All resolvents are there: the clauses of the variable go, and its       *)
(* occurrence and watcher lists.                                           *)
removeResolved ==
    /\ At("resolve")
    /\ simp.k > Len(pairs_)
    /\ LET cls == occ.occurs[simp.v]
       IN  /\ removeClauses(cls)
           /\ occ' = [FoldLeft(Unregistered, occ, cls) EXCEPT !.occurs[simp.v] = <<>>]
    /\ watches' = [kind \in DOMAIN watches |-> [l \in Lits |->
                     IF Var(l) = simp.v THEN <<>> ELSE watches[kind][l]]]
    /\ simp' = [simp EXCEPT !.phase = "subsume", !.pos = <<>>, !.neg = <<>>]
    /\ UNCHANGED <<searchFrame, assigns, trail, trail_lim, qhead, ok, an, unitCids, pc,
                   simpDB_assigns, bwdsub_assigns, eliminated, elimclauses>>

heapEmpty ==
    /\ At("elim")
    /\ occ.elim_heap = {}
    /\ simp' = [simp EXCEPT !.phase = "loop"]
    /\ simpOnly
    /\ UNCHANGED <<occ, bwdsub_assigns, eliminated, elimclauses>>

-----------------------------------------------------------------------------
(* The end of eliminate_.                                                  *)
eliminate_Done ==
    /\ At("loop")
    /\ ~MoreToDo
    /\ IF Len(trail) # simp.trail_last THEN removeSatisfied
       ELSE UNCHANGED <<db, ca, dirty, vardata, occ>>
    /\ simp' = [simp EXCEPT !.phase = "iterate"]
    /\ UNCHANGED <<searchFrame, clauseFrame, pc, simpDB_assigns, bwdsub_assigns, eliminated,
                   elimclauses>>

nClauses == Cardinality(Originals)
nFreeVars == Cardinality(Vars \ eliminated) - Len(trail)

(* After the first eliminate_ there may be more, with ever more clauses    *)
(* allowed, ...                                                            *)
GoOn ==
    IF simp.iter = 0
      THEN nFreeVars >= IterateFrom /\ nClauses < 10 * nFreeVars
      ELSE /\ nFreeVars # simp.vars_last
           /\ nClauses <= simp.cls_init
           /\ nClauses * nFreeVars <= simp.vars_last * simp.cls_last

Grown == IF simp.grow > 0 THEN simp.grow * 2 ELSE 8

(* ... with all variables of the clauses in the heap.                      *)
iterate ==
    /\ At("iterate")
    /\ GoOn /\ Grown < 10000
    /\ occ' = [occ EXCEPT !.elim_heap = @ \cup UNION {VarsOf(ca[cr].lits) : cr \in Originals}]
    /\ simp' = [simp EXCEPT !.phase = "round", !.grow = Grown, !.iter = @ + 1,
                            !.cls_last = nClauses, !.vars_last = nFreeVars]
    /\ simpOnly
    /\ UNCHANGED <<bwdsub_assigns, eliminated, elimclauses>>

(* use_simplification is turned off, and solve_ called.                    *)
eliminateDone ==
    /\ At("iterate")
    /\ ~(GoOn /\ Grown < 10000)
    /\ occ' = NoOccurrences
    /\ simp' = NotSimplifying
    /\ enterSearch
    /\ UNCHANGED <<simpFrame, prop, clauseFrame, ca, dirty, vardata, db, simpDB_assigns,
                   bwdsub_assigns, eliminated, elimclauses>>

simplification ==
    \/ parse \/ levelZeroDone
    \/ eliminate \/ eliminate_ \/ gatherTouchedClauses \/ backwardSubsumptionCheck
    \/ eliminateVar \/ addResolvent \/ removeResolved \/ heapEmpty
    \/ eliminate_Done \/ iterate \/ eliminateDone

-----------------------------------------------------------------------------
(* The search on the variables that are left.                              *)

decideKept == Idle /\ \E l \in problem.decisions : Var(l) \notin eliminated /\ decideOn(l)

Extended(m, e) ==
    IF \A l \in ToSet(Tail(e)) : m[Var(l)] = -l
      THEN [m EXCEPT ![Var(Head(e))] = Head(e)] ELSE m

(* Mutant: the eliminated variables in the order of their elimination.     *)
extendModelForward(m) == FoldLeft(Extended, m, elimclauses)

(* extendModel: in the reverse order of the eliminations, a variable gets  *)
(* its default and another value if a clause needs it.                     *)
extendModel(m) == FoldLeft(Extended, m, Reverse(elimclauses))

answerExtended ==
    /\ \A v \in Vars \ eliminated : assigns[v] # 0
    /\ answerModel(extendModel(assigns))

SimpStep ==
    \/ simplification
    \/ ((restart \/ simplify \/ reduceDB \/ decideKept \/ answerExtended) /\ UNCHANGED simpVars)
    \/ (propagate /\ UNCHANGED <<analysisVars, vivifyVars, inputFrame, simpVars>>)
    \/ (conflictHandling /\ UNCHANGED <<vivifyVars, inputFrame, simpVars>>)
    \/ (simplifyAll /\ UNCHANGED <<inputFrame, simpVars>>)

SimpNext == SimpStep \/ (Answered /\ UNCHANGED allVars)

SimpSpec == SimpInit /\ [][SimpNext]_allVars /\ WF_allVars(SimpStep)

-----------------------------------------------------------------------------
(* What the solver promises, on the variables that are not eliminated.     *)
SimpCertified == INSTANCE CertifiedSolving WITH
    kept <- Vars \ eliminated,
    read <- next - 1,
    live <- {ToSet(db[i].lits) : i \in LiveCids(db)},
    verdict <- IF Answered THEN pc ELSE "none"

(* Every model of the clauses that preprocessing leaves can be extended to *)
(* the eliminated variables, no derivation or deletion loses or adds one,  *)
(* and what extendModel makes of the assignment found is a model of the    *)
(* formula as it was read.                                                 *)
ImplementsCertifiedSimp == SimpCertified!Spec

(* As long as the occurrence lists are used, they and the counters say     *)
(* what the clauses contain; a removed clause is only in lists that the    *)
(* next lookup cleans.                                                     *)
OccurrencesExact ==
    pc \in {"parse", "simp"} /\ simp.phase # "off" =>
        /\ \A v \in Vars \ eliminated :
             LET list == occ.occurs[v]
             IN  /\ {list[i] : i \in {j \in DOMAIN list : ~ca[list[j]].freed}}
                      = {cr \in Originals : v \in VarsOf(ca[cr].lits)}
                 /\ IsInjective(list)
                 /\ v \notin occ.smudged => \A i \in DOMAIN list : ~ca[list[i]].freed
        /\ \A l \in Lits :
             occ.n_occ[l] = Cardinality({cr \in Originals : l \in ToSet(ca[cr].lits)})

(* Once all queued clauses and assignments have been tried and no clause   *)
(* has been added since, and so when preprocessing is done, no clause is   *)
(* subsumed by another or can be strengthened with another, and none has   *)
(* an assigned or an eliminated variable: clauses shortened or added late  *)
(* have been compared as well.                                             *)
NothingSubsumed ==
    At("iterate") \/ (At("elim") /\ occ.touched = {}) => \A cr \in Originals :
        /\ \A v \in VarsOf(ca[cr].lits) : assigns[v] = 0 /\ v \notin eliminated
        /\ \A other \in Originals \ {cr} : ~Subsumes(ca[other].lits, ca[cr].lits)

(* The solver answers, with preprocessing as well.                         *)
SimpTermination == <>Answered
=============================================================================
