----------------------------- MODULE SolverState -----------------------------
(***************************************************************************)
(* The state of Minisat::Solver (core/Solver.h, core/Solver.cc) that the   *)
(* search and the proof tracing share, and the operations every part of    *)
(* the search uses: values, attaching and removing clauses, enqueueing an  *)
(* assignment (with the unit record the tracer wants for level 0) and      *)
(* cancelUntil.                                                            *)
(*                                                                         *)
(* A clause reference (CRef) is the position of the clause in ca; clauses  *)
(* keep their place when they are freed.                                   *)
(***************************************************************************)
EXTENDS Cnf, Tracer, FiniteSets

VARIABLES
    ca,             \* the clauses: lits, learnt, cid, simplified, and whether freed (mark 1)
    watches,        \* watches["bin"] is watches_bin, watches["long"] watches
    dirty,          \* the lists smudged by detachClause
    assigns,        \* the true literal of each variable, or 0
    vardata,        \* reason and level of each variable, stale when unassigned
    trail, trail_lim, qhead,
    ok,
    db, an,         \* the tracer: clause log and hint buffers
    unitCids,       \* the cid of the unit clause of a variable assigned at level 0
    seen            \* seen[], as the set of marked variables

clauseVars == <<ca, watches, dirty>>
trailVars == <<assigns, vardata, trail, trail_lim, qhead>>
tracerVars == <<db, an, unitCids>>

CRef_Undef == 0
IntMax == 2147483647    \* the level of a variable that never had a value
CRefs == DOMAIN ca

IsTrue(l) == assigns[Var(l)] = l
IsFalse(l) == assigns[Var(l)] = -l
IsUndef(l) == assigns[Var(l)] = 0

level(l) == vardata[Var(l)].level
reason(l) == vardata[Var(l)].reason
decisionLevel == Len(trail_lim)

StateInit ==
    /\ ca = <<>>
    /\ watches = [k \in {"bin", "long"} |-> [l \in Lits |-> <<>>]]
    /\ dirty = [k \in {"bin", "long"} |-> {}]
    /\ assigns = [v \in Vars |-> 0]
    /\ vardata = [v \in Vars |-> [reason |-> CRef_Undef, level |-> IntMax]]
    /\ trail = <<>> /\ trail_lim = <<>> /\ qhead = 0
    /\ ok = TRUE
    /\ db = <<>> /\ an = NoHints
    /\ unitCids = [v \in Vars |-> NoCid]
    /\ seen = {}

-----------------------------------------------------------------------------
(* Clauses and their watchers.                                             *)

Kind(lits) == IF Len(lits) = 2 THEN "bin" ELSE "long"
Watcher(cr, blocker) == [cref |-> cr, blocker |-> blocker]

NewClause(lits, isLearnt, cid) ==
    [lits |-> lits, learnt |-> isLearnt, cid |-> cid, simplified |-> FALSE,
     freed |-> FALSE]

Attached(ws, cr, lits) ==
    [ws EXCEPT ![Kind(lits)][-lits[1]] = Append(@, Watcher(cr, lits[2])),
               ![Kind(lits)][-lits[2]] = Append(@, Watcher(cr, lits[1]))]

(* detachClause in its strict form.                                        *)
Detached(ws, cr, lits) ==
    LET Others(list) == Selected(list, LAMBDA w : w.cref # cr)
    IN  [ws EXCEPT ![Kind(lits)][-lits[1]] = Others(@),
                   ![Kind(lits)][-lits[2]] = Others(@)]

(* OccLists::cleanAll: the smudged lists lose the watchers of freed        *)
(* clauses.                                                                *)
cleanAll ==
    /\ watches' = [k \in DOMAIN watches |-> [l \in Lits |->
            IF l \in dirty[k]
              THEN Selected(watches[k][l], LAMBDA w : ~ca[w.cref].freed)
              ELSE watches[k][l]]]
    /\ dirty' = [k \in DOMAIN dirty |-> {}]

(* The literal a clause would be the reason of.                            *)
ImpliedLit(lits) ==
    IF Len(lits) # 2 \/ IsTrue(lits[1]) THEN lits[1] ELSE lits[2]

locked(cr) ==
    LET l == ImpliedLit(ca[cr].lits) IN IsTrue(l) /\ reason(l) = cr

(* Mutant: unassigned literals count as true.                              *)
satisfiedOrOpen(cr) ==
    \E i \in DOMAIN ca[cr].lits : ~IsFalse(ca[cr].lits[i])

satisfied(cr) == \E i \in DOMAIN ca[cr].lits : IsTrue(ca[cr].lits[i])

(* Mutant: the DELETE record names the reference of the clause.            *)
DeletionsByRef(crs) == [i \in DOMAIN crs |-> DeleteRecord(crs[i])]

(* The DELETE records of the clauses of a sequence, in its order.          *)
Deletions(crs) == [i \in DOMAIN crs |-> DeleteRecord(ca[crs[i]].cid)]

Freed(crs) == [cr \in CRefs |-> [ca[cr] EXCEPT !.freed = @ \/ cr \in ToSet(crs)]]

(* detachClause only smudges the lists of the clause.                      *)
Smudged(crs) ==
    LET gone == [i \in DOMAIN crs |-> ca[crs[i]].lits]
    IN  [k \in DOMAIN dirty |-> dirty[k] \cup
            UNION {{-gone[i][1], -gone[i][2]} :
                   i \in {j \in DOMAIN gone : Kind(gone[j]) = k}}]

(* No variable keeps a removed clause as its reason.                       *)
Unlocked(crs) ==
    LET freed == {Var(ImpliedLit(ca[cr].lits)) : cr \in {c \in ToSet(crs) : locked(c)}}
    IN  [v \in Vars |-> IF v \in freed THEN [vardata[v] EXCEPT !.reason = CRef_Undef]
                        ELSE vardata[v]]

(* removeClause on the clauses of a sequence.                              *)
removeClauses(crs) ==
    /\ db' = db \o Deletions(crs)
    /\ ca' = Freed(crs)
    /\ dirty' = Smudged(crs)
    /\ vardata' = Unlocked(crs)

(* Mutant: the record of the longer clause is deleted before it is a hint. *)
ReplacedFirst(d, a, cr, lits) ==
    d \o <<DeleteRecord(ca[cr].cid), Resolvent(a, lits, GetOrigin(a))>>

(* replaceAnalyze: the shorter clause has a record of its own, and then    *)
(* the one of the longer clause is deleted.                                *)
Replaced(d, a, cr, lits) ==
    d \o <<Resolvent(a, lits, GetOrigin(a)), DeleteRecord(ca[cr].cid)>>

-----------------------------------------------------------------------------
(* Assignments.                                                            *)

UnitCidsOf(lits) == [i \in DOMAIN lits |-> unitCids[Var(lits[i])]]

(* Mutant: only a unit without a reason is recorded.                       *)
analyzeEnqueueUnreasoned(p, lvl, from, d, a) ==
    IF lvl = 0 /\ unitCids[Var(p)] = NoCid /\ from = CRef_Undef
      THEN /\ db' = Append(d, Resolvent(a, <<p>>, GetOrigin(a)))
           /\ an' = NoHints
           /\ unitCids' = [unitCids EXCEPT ![Var(p)] = Len(d) + 1]
      ELSE db' = d /\ an' = a /\ UNCHANGED unitCids

(* analyzeEnqueuePropagation on the log d with the hints a pending: the    *)
(* first time a variable is fixed at level 0, its unit clause is recorded. *)
analyzeEnqueuePropagation(p, lvl, from, d, a) ==
    IF lvl = 0 /\ unitCids[Var(p)] = NoCid
      THEN LET others == Selected(ca[from].lits, LAMBDA l : l # p /\ IsFalse(l))
               b == AddHint(AddUnitHints(a, UnitCidsOf(others)), ca[from].cid)
           IN  /\ db' = Append(d, IF from = CRef_Undef
                                    THEN Resolvent(a, <<p>>, GetOrigin(a))
                                    ELSE Resolvent(b, <<p>>, "REDUNDANT"))
               /\ an' = NoHints
               /\ unitCids' = [unitCids EXCEPT ![Var(p)] = Len(d) + 1]
      ELSE db' = d /\ an' = a /\ UNCHANGED unitCids

uncheckedEnqueue(p, lvl, from, d, a) ==
    /\ assigns' = [assigns EXCEPT ![Var(p)] = p]
    /\ vardata' = [vardata EXCEPT ![Var(p)] = [reason |-> from, level |-> lvl]]
    /\ trail' = Append(trail, p)
    /\ analyzeEnqueuePropagation(p, lvl, from, d, a)

(* Mutant of cancelUntil: the literals of lower levels leave the trail.    *)
cancelDropsLower(bLevel) ==
    IF decisionLevel > bLevel
      THEN LET base == trail_lim[bLevel + 1]
               upper == SubSeq(trail, base + 1, Len(trail))
               undone == {l \in ToSet(upper) : level(l) > bLevel}
           IN  /\ trail' = SubSeq(trail, 1, base)
               /\ assigns' = [v \in Vars |->
                                IF assigns[v] \in undone THEN 0 ELSE assigns[v]]
               /\ qhead' = base
               /\ trail_lim' = SubSeq(trail_lim, 1, bLevel)
      ELSE UNCHANGED <<trail, assigns, qhead, trail_lim>>

cancelWith(bLevel, Head_(_)) ==
    IF decisionLevel > bLevel
      THEN LET base == trail_lim[bLevel + 1]
               upper == SubSeq(trail, base + 1, Len(trail))
               undone == {l \in ToSet(upper) : level(l) > bLevel}
           IN  /\ trail' = SubSeq(trail, 1, base)
                             \o Selected(upper, LAMBDA l : l \notin undone)
               /\ assigns' = [v \in Vars |->
                                IF assigns[v] \in undone THEN 0 ELSE assigns[v]]
               /\ qhead' = Head_(base)
               /\ trail_lim' = SubSeq(trail_lim, 1, bLevel)
      ELSE UNCHANGED <<trail, assigns, qhead, trail_lim>>

cancelSkipsLower(bLevel) == cancelWith(bLevel, LAMBDA base : Len(trail'))

(* Literals of a lower level survive: they are put back in their order.    *)
cancelUntil(bLevel) ==
    IF decisionLevel > bLevel
      THEN LET base == trail_lim[bLevel + 1]
               upper == SubSeq(trail, base + 1, Len(trail))
               undone == {l \in ToSet(upper) : level(l) > bLevel}
           IN  /\ trail' = SubSeq(trail, 1, base)
                             \o Selected(upper, LAMBDA l : l \notin undone)
               /\ assigns' = [v \in Vars |->
                                IF assigns[v] \in undone THEN 0 ELSE assigns[v]]
               /\ qhead' = base
               /\ trail_lim' = SubSeq(trail_lim, 1, bLevel)
      ELSE UNCHANGED <<trail, assigns, qhead, trail_lim>>
=============================================================================
