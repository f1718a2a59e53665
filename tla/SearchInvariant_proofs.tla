----------------------- MODULE SearchInvariant_proofs -----------------------
(***************************************************************************)
(* The inductive invariant of ChronoSearch, second part: backtracking,     *)
(* removal, decisions, reading, and vivification keep the trail, the       *)
(* clauses and the watchers in order; the types, where the program is and  *)
(* the clause in hand; and the steps that resolve.                         *)
(***************************************************************************)
EXTENDS ChronoSearch_proofs

-----------------------------------------------------------------------------
(* cancelUntil.                                                            *)
LEMMA Lims ==
    ASSUME IInv
    PROVE  /\ trail_lim \in Seq(Nat) /\ DOMAIN trail_lim = 1 .. Len(trail_lim) /\ Len(trail_lim) \in Nat
           /\ decisionLevel = Len(trail_lim)
           /\ \A j, k \in 1 .. Len(trail_lim) : j <= k => trail_lim[j] <= trail_lim[k]
           /\ \A k \in 1 .. Len(trail_lim) : trail_lim[k] \in Nat /\ trail_lim[k] < settled
<1>1. trail_lim \in Seq(Nat) /\ Levels(vardata, trail, trail_lim, settled)
  BY TrailShape
<1>2. DOMAIN trail_lim = 1 .. Len(trail_lim) /\ Len(trail_lim) \in Nat
      /\ \A k \in 1 .. Len(trail_lim) : trail_lim[k] \in Nat
  BY <1>1
<1>3. /\ \A j, k \in 1 .. Len(trail_lim) : j < k => trail_lim[j] < trail_lim[k]
      /\ \A k \in 1 .. Len(trail_lim) : trail_lim[k] < settled
  BY <1>1, <1>2 DEF Levels
<1>4. ASSUME NEW j \in 1 .. Len(trail_lim), NEW k \in 1 .. Len(trail_lim), j <= k
      PROVE  trail_lim[j] <= trail_lim[k]
  <2>1. trail_lim[j] \in Nat /\ trail_lim[k] \in Nat /\ j \in Nat /\ k \in Nat
    BY <1>2
  <2>2. CASE j < k
    BY <1>3, <2>1, <2>2
  <2>3. CASE j = k
    BY <2>1, <2>3
  <2> QED
    BY <1>4, <2>1, <2>2, <2>3
<1> QED
  BY <1>1, <1>2, <1>3, <1>4 DEF decisionLevel

(* What it leaves of a trail with the clauses c, propagated up to P.       *)
CanCancel(c, b, P) ==
    /\ Trailing(c, viv.cr, assigns, vardata, trail, trail_lim, Len(trail), P, unitCids, db)
    /\ b \in Nat /\ b < decisionLevel /\ trail_lim[b + 1] <= P

LEMMA Cancel ==
    ASSUME IInv, NEW c, NEW b, NEW P, CanCancel(c, b, P), cancelUntil(b)
    PROVE  /\ Trailing(c, viv.cr, assigns', vardata, trail', trail_lim', Len(trail'), qhead', unitCids, db)
           /\ Len(trail_lim') = b /\ (trail_lim' # <<>> => trail_lim'[Len(trail_lim')] <= qhead')
           /\ qhead' \in Nat /\ qhead' = trail_lim[b + 1]
           /\ Lowered(assigns, vardata, b, assigns')
<1>1. /\ Trailing(c, viv.cr, assigns, vardata, trail, trail_lim, Len(trail), P, unitCids, db)
      /\ b \in Nat /\ b < Len(trail_lim) /\ trail_lim[b + 1] <= P
  BY DEF CanCancel, decisionLevel
<1>2. /\ trail' = LeftBy(vardata, trail, trail_lim, b) /\ trail_lim' = LimLeft(trail_lim, b)
      /\ assigns' = AsLeft(assigns, vardata, trail, trail_lim, b) /\ qhead' = trail_lim[b + 1]
  BY <1>1 DEF cancelUntil, LeftBy, LimLeft, AsLeft, Without, Undone, decisionLevel, Lv, level
<1>3. /\ Trailing(c, viv.cr, assigns', vardata, trail', trail_lim', Len(trail'), qhead', unitCids, db)
      /\ Lowered(assigns, vardata, b, assigns')
  BY <1>1, <1>2, TrailingUndo
<1>4. Len(trail_lim') = b /\ \A k \in 1 .. b : trail_lim'[k] = trail_lim[k]
  BY <1>1, <1>2, Lims DEF LimLeft
<1>5. qhead' \in Nat
  BY <1>3, TrailingParts
<1>6. ASSUME trail_lim' # <<>>
      PROVE  trail_lim'[Len(trail_lim')] <= qhead'
  <2>1. b \in 1 .. b
    BY <1>1, <1>2, <1>4, <1>6, Lims DEF LimLeft
  <2>2. trail_lim'[Len(trail_lim')] = trail_lim[b]
    BY <1>4, <2>1
  <2>3. b \in 1 .. Len(trail_lim) /\ b + 1 \in 1 .. Len(trail_lim) /\ b <= b + 1
    BY <1>1, <2>1, Lims
  <2> QED
    BY <1>2, <2>2, <2>3, Lims
<1> QED
  BY <1>2, <1>3, <1>4, <1>5, <1>6

(* The trail is cut back, with the clauses in place, and the watchers.     *)
Cancels(b) ==
    /\ cancelUntil(b) /\ viv'.cr = viv.cr
    /\ UNCHANGED <<vardata, unitCids, db>>
    /\ pc \notin Assuming /\ pc' \in {"clean", "learn"} /\ prop'.lit = 0
    /\ Watchful(ca', watches', dirty', viv.cr)

LEMMA CancelStep ==
    ASSUME IInv, NEW b, NEW P, Cancels(b), CanCancel(ca', b, P)
    PROVE  KernelInv' /\ ScanInv'
<1>1. /\ cancelUntil(b) /\ viv'.cr = viv.cr
      /\ UNCHANGED <<vardata, unitCids, db>>
      /\ pc \notin Assuming /\ pc' \in {"clean", "learn"} /\ prop'.lit = 0
      /\ Watchful(ca', watches', dirty', viv.cr)
  BY DEF Cancels
<1>2. /\ Trailing(ca', viv.cr, assigns', vardata, trail', trail_lim', Len(trail'), qhead', unitCids, db)
      /\ trail_lim' # <<>> => trail_lim'[Len(trail_lim')] <= qhead'
  BY <1>1, Cancel
<1>3. settled' = Len(trail') /\ done' = qhead'
  BY <1>1, WhereNext DEF Assuming
<1>4. KernelInv'
  BY <1>1, <1>2, <1>3 DEF KernelInv
<1>5. ScanInv'
  BY <1>1, <1>2, <1>3, ScanEnds
<1> QED
  BY <1>4, <1>5

(* The answer: nothing is propagated any more.                             *)
Answers ==
    /\ cancelUntil(0) /\ viv'.cr = viv.cr
    /\ UNCHANGED <<vardata, unitCids>> /\ SameUnits(unitCids, db, db')
    /\ pc' \in {"sat", "unsat"} /\ prop'.lit = 0
    /\ Watchful(ca', watches', dirty', viv.cr)
CanAnswer(P) ==
    /\ Trailing(ca, viv.cr, assigns, vardata, trail, trail_lim, Len(trail), P, unitCids, db)
    /\ decisionLevel > 0 => trail_lim[0 + 1] <= P

LEMMA AnswerTrail ==
    ASSUME IInv, NEW P, CanAnswer(P), cancelUntil(0)
    PROVE  /\ Trailing(ca, viv.cr, assigns', vardata, trail', trail_lim', Len(trail'), 0, unitCids, db)
           /\ \A v \in Vars : assigns'[v] \in {0, assigns[v]}
<1>1. \E Q : /\ Trailing(ca, viv.cr, assigns', vardata, trail', trail_lim', Len(trail'), Q, unitCids, db)
             /\ \A v \in Vars : assigns'[v] \in {0, assigns[v]}
  <2>1. CASE decisionLevel > 0
    <3>1. CanCancel(ca, 0, P)
      BY <2>1, Lims DEF CanAnswer, CanCancel
    <3>2. /\ Trailing(ca, viv.cr, assigns', vardata, trail', trail_lim', Len(trail'), qhead', unitCids, db)
          /\ Lowered(assigns, vardata, 0, assigns')
      BY <3>1, Cancel
    <3> QED
      BY <3>2 DEF Lowered
  <2>2. CASE ~(decisionLevel > 0)
    <3>1. UNCHANGED <<trail, assigns, trail_lim>>
      BY <2>2 DEF cancelUntil
    <3> QED
      BY <3>1 DEF CanAnswer
  <2> QED
    BY <2>1, <2>2
<1>2. PICK Q : /\ Trailing(ca, viv.cr, assigns', vardata, trail', trail_lim', Len(trail'), Q, unitCids, db)
               /\ \A v \in Vars : assigns'[v] \in {0, assigns[v]}
  BY <1>1
<1>3. Q \in Nat
  BY <1>2, TrailingParts
<1>4. Trailing(ca, viv.cr, assigns', vardata, trail', trail_lim', Len(trail'), 0, unitCids, db)
  BY <1>2, <1>3, TrailingLess
<1> QED
  BY <1>2, <1>4

LEMMA AnswerStep ==
    ASSUME IInv, NEW P, Answers, CanAnswer(P), KeepsReasons(ca, ca', vardata, trail', Len(trail'))
    PROVE  KernelInv' /\ ScanInv'
<1>1. /\ cancelUntil(0) /\ viv'.cr = viv.cr
      /\ UNCHANGED <<vardata, unitCids>> /\ SameUnits(unitCids, db, db')
      /\ pc' \in {"sat", "unsat"} /\ prop'.lit = 0
      /\ Watchful(ca', watches', dirty', viv.cr)
  BY DEF Answers
<1>2. settled' = Len(trail') /\ done' = 0
  BY <1>1, WhereNext DEF Assuming
<1>3. Trailing(ca, viv.cr, assigns', vardata, trail', trail_lim', Len(trail'), 0, unitCids, db)
  BY <1>1, AnswerTrail
<1>4. HasLits(ca')
  BY <1>1, WatchfulParts
<1>5. KeepsComplete(ca, ca', vardata, trail', trail_lim', viv.cr, viv.cr, Len(trail'), 0)
  BY DEF KeepsComplete, Guarded
<1>6. viv.cr # CRef_Undef => NoReason(vardata, trail', viv.cr)
  BY <1>3, TrailingParts
<1>7. Trailing(ca', viv.cr, assigns', vardata, trail', trail_lim', Len(trail'), 0, unitCids, db)
  BY <1>3, <1>4, <1>5, <1>6, TrailingMemory
<1>8. Trailing(ca', viv.cr, assigns', vardata, trail', trail_lim', Len(trail'), 0, unitCids, db')
  BY <1>1, <1>7, TrailingLog
<1>9. KernelInv'
  BY <1>1, <1>2, <1>8 DEF KernelInv
<1>10. ScanInv'
  BY <1>1, ScanEnds
<1> QED
  BY <1>9, <1>10

(* The record of vivification, its types.                                  *)
LEMMA VivShape ==
    ASSUME IInv
    PROVE  viv \in [on : BOOLEAN, cr : CRefs \cup {CRef_Undef}, i : Nat, kept : LitSeq,
                    falseLit : LitSeq, True_confl : BOOLEAN, trailRecord : 0 .. Len(trail)]
BY Shapes DEF TypeOK

(* Everything on the trail has been propagated.                            *)
LEMMA AllPropagated ==
    ASSUME IInv, QueueEmpty
    PROVE  /\ settled = Len(trail) /\ done = Len(trail) /\ prop.lit = 0 /\ pc = "propagate"
           /\ Trailing(ca, viv.cr, assigns, vardata, trail, trail_lim, Len(trail), Len(trail), unitCids, db)
           /\ decisionLevel > 0 => trail_lim[0 + 1] <= Len(trail)
<1>1. settled = Len(trail) /\ done = Len(trail) /\ prop.lit = 0 /\ pc = "propagate"
  BY WhereNow DEF QueueEmpty, Assuming
<1>2. Trailing(ca, viv.cr, assigns, vardata, trail, trail_lim, Len(trail), Len(trail), unitCids, db)
  BY <1>1, TrailShape
<1>3. ASSUME decisionLevel > 0
      PROVE  trail_lim[0 + 1] <= Len(trail)
  <2>1. 1 \in 1 .. Len(trail_lim) /\ Len(trail) \in Nat
    BY <1>3, Lims, TrailShape
  <2>2. trail_lim[1] \in Nat /\ trail_lim[1] < Len(trail)
    BY <1>1, <2>1, Lims
  <2> QED
    BY <2>1, <2>2
<1> QED
  BY <1>1, <1>2, <1>3

LEMMA RestartKernel ==
    ASSUME IInv, restart \/ answerSat
    PROVE  KernelInv' /\ ScanInv'
<1>1. CASE restart
  <2>1. QueueEmpty /\ decisionLevel > 0 /\ cancelUntil(0) /\ pc' = "clean"
        /\ UNCHANGED <<ca, watches, dirty, vardata, unitCids, db, prop>>
    BY <1>1 DEF restart, Idle, enterSearch, idleFrame
  <2>2. viv'.cr = viv.cr
    BY <1>1, VivShape DEF restart, enterSearch
  <2>3. Cancels(0)
    BY <2>1, <2>2, AllPropagated, MemoryShape DEF Cancels, Assuming
  <2>4. CanCancel(ca', 0, Len(trail))
    BY <2>1, AllPropagated, Lims DEF CanCancel
  <2> QED
    BY <2>3, <2>4, CancelStep
<1>2. CASE answerSat
  <2>1. QueueEmpty /\ cancelUntil(0) /\ pc' = "sat"
        /\ UNCHANGED <<ca, watches, dirty, vardata, unitCids, db, prop, viv>>
    BY <1>2 DEF answerSat, answerModel, Idle, clauseVars, tracerVars, vivifyVars
  <2>2. SameUnits(unitCids, db, db')
    BY <2>1, SameLog
  <2>3. Answers
    BY <2>1, <2>2, AllPropagated, MemoryShape DEF Answers
  <2>4. CanAnswer(Len(trail))
    BY <2>1, AllPropagated DEF CanAnswer
  <2>5. KeepsReasons(ca, ca', vardata, trail', Len(trail'))
    BY <2>1 DEF KeepsReasons, SameReason
  <2> QED
    BY <2>3, <2>4, <2>5, AnswerStep
<1> QED
  BY <1>1, <1>2

(* The level analyze goes back to is below the one of the conflict.        *)
LEMMA BackLevel ==
    ASSUME IInv, pc = "backtrack"
    PROVE  /\ ana.btlevel \in Nat /\ ana.nDecisionLevel \in 1 .. decisionLevel
           /\ ana.btlevel < ana.nDecisionLevel
<1>1. ana.nDecisionLevel \in 1 .. decisionLevel /\ LearntInv /\ BacktrackInv /\ AnaTypes
  BY Shapes DEF AnalysisInv, Analyzing, N
<1>2. learnt \in Seq(Lits) /\ Len(learnt) >= 1
  BY <1>1, Shapes DEF LearntInv, LitSeq, AnalysisInv, Analyzing
<1>3. ana.btlevel \in Nat /\ ana.nDecisionLevel \in Nat
  BY <1>1, Lims DEF AnaTypes
<1>4. CASE Len(learnt) = 1
  BY <1>1, <1>3, <1>4, Lims DEF BacktrackInv
<1>5. CASE Len(learnt) # 1
  <2>0. Len(learnt) \in Nat
    BY <1>2
  <2>3. \A n \in Nat : n >= 1 /\ n # 1 => 2 \in 2 .. n
    OBVIOUS
  <2>1. 2 \in 2 .. Len(learnt)
    BY <1>2, <1>5, <2>0, <2>3
  <2>2. level(learnt[2]) \in 1 .. ana.nDecisionLevel - 1
    BY <1>1, <2>1 DEF LearntInv, LowerLearnt, N
  <2> QED
    BY <1>1, <1>3, <1>5, <2>2 DEF BacktrackInv
<1> QED
  BY <1>1, <1>3, <1>4, <1>5

LEMMA BacktrackKernel ==
    ASSUME IInv, backtrack, UNCHANGED vivifyVars
    PROVE  KernelInv' /\ ScanInv'
<1> DEFINE b == IF ChronoBacktrack THEN ana.nDecisionLevel - 1 ELSE ana.btlevel
<1>1. pc = "backtrack" /\ cancelUntil(b) /\ pc' = "learn"
      /\ UNCHANGED <<ca, watches, dirty, vardata, unitCids, db, prop, viv>>
  BY DEF backtrack, clauseVars, tracerVars, vivifyVars
<1>2. /\ b \in Nat /\ b < decisionLevel /\ b + 1 <= ana.nDecisionLevel
      /\ ana.nDecisionLevel \in 1 .. Len(trail_lim)
  BY <1>1, BackLevel, Lims
<1> HIDE DEF b
<1>3. settled = Len(trail) /\ done = trail_lim[ana.nDecisionLevel]
  BY <1>1, WhereNow DEF Assuming, Analyzing
<1>4. trail_lim[b + 1] <= done
  BY <1>2, <1>3, Lims
<1>5. CanCancel(ca', b, done)
  BY <1>1, <1>2, <1>3, <1>4, TrailShape DEF CanCancel
<1>6. Cancels(b)
  BY <1>1, MemoryShape, NotScanning DEF Cancels, Assuming
<1> QED
  BY <1>5, <1>6, CancelStep

-----------------------------------------------------------------------------
(* Removed clauses.                                                        *)

(* A reason is locked: its literal is the one it would be the reason of.   *)
LEMMA ReasonImplied ==
    ASSUME IInv, NEW i, i \in 1 .. settled, NEW cr, cr = Rs(vardata, trail[i]), cr # CRef_Undef
    PROVE  /\ cr \in DOMAIN ca /\ ~ca[cr].freed
           /\ trail[i] = ImpliedLit(ca[cr].lits) /\ locked(cr)
<1> DEFINE q == ca[cr].lits
<1>1. /\ trail \in Seq(Lits) /\ settled \in Nat /\ settled <= Len(trail) /\ Len(trail) \in Nat
      /\ Assigned(assigns, trail) /\ Reasons(ca, vardata, trail, settled) /\ HasLits(ca)
  BY TrailShape, MemoryShape
<1>2. cr \in DOMAIN ca /\ ~ca[cr].freed /\ Forces(q, vardata, trail, i)
  BY <1>1 DEF Reasons
<1>3. /\ Len(q) >= 2 /\ trail[i] \in ToSet(q) /\ (Len(q) # 2 => q[1] = trail[i])
      /\ \A l \in ToSet(q) \ {trail[i]} : OnTrail(trail, -l, i - 1)
  BY <1>2 DEF Forces
<1>4. q \in Seq(Lits)
  BY <1>1, <1>2 DEF HasLits
<1> HIDE DEF q
<1>5. i \in DOMAIN trail /\ trail[i] \in Lits /\ assigns[Var(trail[i])] = trail[i]
  <2>1. i \in 1 .. Len(trail) /\ DOMAIN trail = 1 .. Len(trail)
    BY <1>1
  <2> QED
    BY <1>1, <2>1, Element DEF Assigned
<1>6. IsTrue(trail[i])
  BY <1>5 DEF IsTrue
<1>7. trail[i] = ImpliedLit(q)
  <2>1. CASE Len(q) # 2
    BY <1>3, <2>1 DEF ImpliedLit
  <2>2. CASE Len(q) = 2
    <3>1. q[1] \in ToSet(q) /\ q[2] \in ToSet(q) /\ q[1] \in Lits /\ q[2] \in Lits
          /\ \A x \in ToSet(q) : x = q[1] \/ x = q[2]
      BY <1>4, <2>2, Element, 1 \in 1 .. 2, 2 \in 1 .. 2, \A k \in 1 .. 2 : k = 1 \/ k = 2
    <3>2. ASSUME q[1] # trail[i]
          PROVE  ~IsTrue(q[1])
      <4>1. PICK j \in 1 .. i - 1 : trail[j] = -q[1]
        BY <1>3, <3>1, <3>2 DEF OnTrail
      <4>2. j \in DOMAIN trail
        BY <1>1, <4>1
      <4>3. assigns[Var(-q[1])] = -q[1]
        BY <1>1, <4>1, <4>2 DEF Assigned
      <4> QED
        BY <3>1, <4>3, LitFacts DEF IsTrue
    <3> QED
      BY <1>3, <1>6, <2>2, <3>1, <3>2 DEF ImpliedLit
  <2> QED
    BY <2>1, <2>2
<1>8. reason(trail[i]) = cr
  BY DEF Rs, reason
<1> QED
  BY <1>2, <1>6, <1>7, <1>8 DEF locked, q

(* Clauses that are there, and reasons only if everything is of level 0.   *)
CanRemove(crs) ==
    /\ crs \in Seq(CRefs) /\ \A cr \in ToSet(crs) : Usable(cr)
    /\ decisionLevel = 0 \/ \A cr \in ToSet(crs) : ~locked(cr)

LEMMA RemovedReasons ==
    ASSUME IInv, NEW crs, CanRemove(crs), removeClauses(crs)
    PROVE  Unreasoned(ca, ca', vardata, vardata', ToSet(crs), trail, settled)
<1> DEFINE gone == {Var(ImpliedLit(ca[cr].lits)) : cr \in {c \in ToSet(crs) : locked(c)}}
<1>1. /\ crs \in Seq(CRefs) /\ \A cr \in ToSet(crs) : Usable(cr)
      /\ decisionLevel = 0 \/ \A cr \in ToSet(crs) : ~locked(cr)
  BY DEF CanRemove
<1>2. ca' = [cr \in CRefs |-> [ca[cr] EXCEPT !.freed = @ \/ cr \in ToSet(crs)]]
  BY DEF removeClauses, Freed
<1>3. vardata' = [v \in Vars |-> IF v \in gone THEN [vardata[v] EXCEPT !.reason = CRef_Undef]
                                 ELSE vardata[v]]
  BY DEF removeClauses, Unlocked
<1>4. CRefs = DOMAIN ca /\ ca \in Clauses(db) /\ db \in Log
  BY Shapes
<1>5. FreedAll(ca, ca', ToSet(crs))
  <2>1. DOMAIN ca' = DOMAIN ca
    BY <1>2, <1>4
  <2>2. ASSUME NEW cr \in DOMAIN ca
        PROVE  /\ ca'[cr].lits = ca[cr].lits
               /\ ca'[cr].freed <=> ca[cr].freed \/ cr \in ToSet(crs)
    <3>1. ca[cr] \in ClauseRecord(db)
      BY <1>4, ClauseTypes
    <3>2. ca'[cr] = [ca[cr] EXCEPT !.freed = @ \/ cr \in ToSet(crs)]
      BY <1>2, <1>4
    <3> QED
      BY <3>1, <3>2 DEF ClauseRecord
  <2> QED
    BY <2>1, <2>2 DEF FreedAll
<1>6. OnVars(vardata) /\ Levels(vardata, trail, trail_lim, settled) /\ HasLevels(vardata)
      /\ trail \in Seq(Lits) /\ settled \in Nat /\ settled <= Len(trail) /\ Len(trail) \in Nat
  BY TrailShape
<1> HIDE DEF gone
<1>7. ASSUME NEW v \in Vars
      PROVE  /\ vardata'[v] = [reason |-> vardata'[v].reason, level |-> vardata'[v].level]
             /\ vardata'[v].level = vardata[v].level
             /\ vardata'[v].reason = IF v \in gone THEN CRef_Undef ELSE vardata[v].reason
  <2>1. vardata[v] = [reason |-> vardata[v].reason, level |-> vardata[v].level]
    BY <1>6 DEF OnVars
  <2>2. vardata'[v] = IF v \in gone THEN [vardata[v] EXCEPT !.reason = CRef_Undef] ELSE vardata[v]
    BY <1>3
  <2> QED
    BY <2>1, <2>2
<1>8. OnVars(vardata')
  <2>1. \A v \in Vars : vardata'[v] = [reason |-> vardata'[v].reason, level |-> vardata'[v].level]
    BY <1>7
  <2>2. DOMAIN vardata' = Vars /\ vardata' = [v \in Vars |-> vardata'[v]]
    BY <1>3
  <2> QED
    BY <2>1, <2>2 DEF OnVars
<1>9. ASSUME NEW i \in 1 .. settled
      PROVE  \/ Rs(vardata', trail[i]) = CRef_Undef /\ Lv(vardata, trail[i]) = 0
             \/ Rs(vardata', trail[i]) = Rs(vardata, trail[i]) /\ Rs(vardata, trail[i]) \notin ToSet(crs)
  <2>1. trail[i] \in Lits /\ Var(trail[i]) \in Vars
    <3>1. i \in 1 .. Len(trail)
      BY <1>6
    <3> QED
      BY <1>6, <3>1, Element, LitFacts
  <2>2. CASE Var(trail[i]) \in gone
    <3>1. decisionLevel = 0
      BY <1>1, <2>2 DEF gone
    <3>2. Lv(vardata, trail[i]) <= 0
      BY <1>6, <3>1 DEF Levels, Within, decisionLevel
    <3>3. Lv(vardata, trail[i]) \in Nat
      BY <1>6, <2>1 DEF HasLevels, Lv
    <3>4. Lv(vardata, trail[i]) = 0
      BY <3>2, <3>3
    <3>5. Rs(vardata', trail[i]) = CRef_Undef
      BY <1>7, <2>1, <2>2 DEF Rs
    <3> QED
      BY <3>4, <3>5
  <2>3. CASE Var(trail[i]) \notin gone
    <3>1. Rs(vardata', trail[i]) = Rs(vardata, trail[i])
      BY <1>7, <2>1, <2>3 DEF Rs
    <3>2. ASSUME Rs(vardata, trail[i]) \in ToSet(crs)
          PROVE  FALSE
      <4> DEFINE cr == Rs(vardata, trail[i])
      <4>1. cr # CRef_Undef
        BY <1>1, <3>2, Shapes DEF Usable
      <4> HIDE DEF cr
      <4>2. trail[i] = ImpliedLit(ca[cr].lits) /\ locked(cr)
        BY <4>1, ReasonImplied DEF cr
      <4> QED
        BY <2>3, <3>2, <4>2 DEF gone, cr
    <3> QED
      BY <3>1, <3>2
  <2> QED
    BY <2>2, <2>3
<1>10. \A v \in Vars : vardata'[v].reason \in {CRef_Undef, vardata[v].reason}
  BY <1>7
<1> QED
  BY <1>5, <1>7, <1>8, <1>9, <1>10 DEF Unreasoned

LEMMA RemovedWatchers ==
    ASSUME IInv, NEW crs, CanRemove(crs), removeClauses(crs)
    PROVE  Watchful(ca', watches, dirty', viv.cr) /\ SameUnits(unitCids, db, db')
<1> DEFINE gone == [i \in DOMAIN crs |-> ca[crs[i]].lits]
<1>1. /\ crs \in Seq(CRefs) /\ \A cr \in ToSet(crs) : Usable(cr)
  BY DEF CanRemove
<1>2. FreedAll(ca, ca', ToSet(crs))
  BY RemovedReasons DEF Unreasoned
<1>3. dirty' = [k \in DOMAIN dirty |-> dirty[k] \cup
                  UNION {{-gone[i][1], -gone[i][2]} : i \in {j \in DOMAIN gone : Kind(gone[j]) = k}}]
  BY DEF removeClauses, Smudged
<1>4. /\ HasLits(ca) /\ dirty \in [{"bin", "long"} -> SUBSET Lits] /\ Memory(ca, viv.cr)
      /\ CRefs = DOMAIN ca /\ ca \in Clauses(db) /\ db \in Log
  BY MemoryShape, Shapes
<1>5. DOMAIN gone = DOMAIN crs /\ DOMAIN crs = 1 .. Len(crs) /\ Len(crs) \in Nat
      /\ \A i \in DOMAIN crs : gone[i] = ca[crs[i]].lits /\ crs[i] \in ToSet(crs)
  BY <1>1, Element
<1>6. ASSUME NEW i \in DOMAIN crs
      PROVE  gone[i] \in Seq(Lits) /\ gone[i][1] \in Lits /\ gone[i][2] \in Lits
  <2>1. crs[i] \in DOMAIN ca /\ ~ca[crs[i]].freed /\ crs[i] # viv.cr
    BY <1>1, <1>5 DEF Usable
  <2>2. ca[crs[i]].lits \in Seq(Lits) /\ ~(Len(ca[crs[i]].lits) < 2)
    BY <1>4, <2>1 DEF HasLits, Memory
  <2>3. gone[i] \in Seq(Lits) /\ ~(Len(gone[i]) < 2)
    BY <1>5, <2>2
  <2>4. \A q \in Seq(Lits) : ~(Len(q) < 2) => q[1] \in Lits /\ q[2] \in Lits
    OBVIOUS
  <2> QED
    BY <2>3, <2>4
<1> HIDE DEF gone
<1>7. dirty' \in [{"bin", "long"} -> SUBSET Lits]
  <2>1. ASSUME NEW k \in {"bin", "long"}
        PROVE  UNION {{-gone[i][1], -gone[i][2]} : i \in {j \in DOMAIN gone : Kind(gone[j]) = k}} \subseteq Lits
    BY <1>5, <1>6, LitFacts
  <2> QED
    BY <1>3, <1>4, <2>1
<1>8. SmudgedAll(ca, dirty, dirty', ToSet(crs))
  <2> SUFFICES ASSUME NEW kind \in {"bin", "long"}, NEW l \in Lits
               PROVE  /\ l \in dirty[kind] => l \in dirty'[kind]
                      /\ \A cr \in ToSet(crs) : Watches(ca[cr].lits, kind, l) => l \in dirty'[kind]
    BY DEF SmudgedAll
  <2>1. dirty'[kind] = dirty[kind] \cup
          UNION {{-gone[i][1], -gone[i][2]} : i \in {j \in DOMAIN gone : Kind(gone[j]) = kind}}
    BY <1>3, <1>4
  <2>2. ASSUME NEW cr \in ToSet(crs), Watches(ca[cr].lits, kind, l)
        PROVE  l \in dirty'[kind]
    <3>1. PICK i \in DOMAIN crs : crs[i] = cr
      BY <1>1, <1>5, Element
    <3>2. Kind(gone[i]) = kind /\ -l \in {gone[i][1], gone[i][2]}
      BY <1>5, <2>2, <3>1 DEF Watches
    <3>3. l = -gone[i][1] \/ l = -gone[i][2]
      BY <3>2, LitFacts
    <3>4. l \in {-gone[i][1], -gone[i][2]} /\ i \in {j \in DOMAIN gone : Kind(gone[j]) = kind}
      BY <1>5, <3>2, <3>3
    <3> QED
      BY <2>1, <3>4
  <2> QED
    BY <2>1, <2>2
<1>9. Watchful(ca', watches, dirty', viv.cr)
  BY <1>2, <1>7, <1>8, MemoryShape, WatchfulFreed
<1>10. SameUnits(unitCids, db, db')
  <2> DEFINE e == Deletions(crs)
  <2>1. e \in Log
    <3>1. \A x \in Nat : DeleteRecord(x) \in RecordType
      BY DEF DeleteRecord, RecordType, ClauseOrigin, LitSeq
    <3>2. \A i \in DOMAIN crs : ca[crs[i]].cid \in Nat
      BY <1>1, <1>4, <1>5, ClauseTypes, LogTypes
    <3>3. e \in [1 .. Len(crs) -> RecordType]
      BY <1>5, <3>1, <3>2 DEF Deletions
    <3> QED
      BY <1>5, <3>3, SeqDef DEF Log
  <2>2. db' = db \o e
    BY DEF removeClauses
  <2> HIDE DEF e
  <2>3. \A i \in 1 .. Len(db) : db'[i] = db[i]
    BY <1>4, <2>1, <2>2, ConcatDeleted
  <2> QED
    BY <2>3, LogGrows
<1> QED
  BY <1>9, <1>10

(* What is left is as it was for the trail and the watchers.               *)
Removal(crs) ==
    /\ CanRemove(crs) /\ removeClauses(crs)
    /\ pc = "propagate" /\ pc' = "propagate" /\ prop.lit = 0
    /\ UNCHANGED <<watches, viv, assigns, trail, trail_lim, qhead, unitCids, prop>>

LEMMA RemovalKernel ==
    ASSUME IInv, NEW crs, Removal(crs)
    PROVE  KernelInv' /\ ScanInv'
<1>1. /\ CanRemove(crs) /\ removeClauses(crs)
      /\ pc = "propagate" /\ pc' = "propagate" /\ prop.lit = 0
      /\ UNCHANGED <<watches, viv, assigns, trail, trail_lim, qhead, unitCids, prop>>
  BY DEF Removal
<1>2. settled = Len(trail) /\ done = qhead /\ settled' = Len(trail) /\ done' = qhead
  BY <1>1, WhereNow, WhereNext DEF Assuming
<1>3. Watchful(ca', watches, dirty', viv.cr) /\ SameUnits(unitCids, db, db')
  BY <1>1, RemovedWatchers
<1>4. Trailing(ca', viv.cr, assigns, vardata', trail, trail_lim, settled, done, unitCids, db)
  BY <1>1, RemovedReasons, TrailShape, TrailingFreed
<1>5. Trailing(ca', viv.cr, assigns, vardata', trail, trail_lim, settled, done, unitCids, db')
  BY <1>3, <1>4, TrailingLog
<1>6. KernelInv'
  BY <1>1, <1>2, <1>3, <1>5 DEF KernelInv
<1>7. trail_lim # <<>> => trail_lim[Len(trail_lim)] <= done
  BY <1>1, Shapes DEF ScanInv, Analyzing
<1>8. ScanInv'
  BY <1>1, <1>2, <1>7, ScanEnds
<1> QED
  BY <1>6, <1>8

(* No clause is in hand while search runs.                                 *)
LEMMA NoHand ==
    ASSUME IInv, searching \/ pc = "parse"
    PROVE  viv.cr = CRef_Undef /\ ~viv.on
BY Shapes DEF HandInv, ControlInv

(* A sequence of clauses of the memory that are not in hand nor freed.     *)
LEMMA SatisfiedUsable ==
    ASSUME IInv, searching, NEW isLearnt \in BOOLEAN
    PROVE  LET s == Places(Len(ca), LAMBDA cr : cr \in Present(isLearnt) /\ satisfied(cr))
           IN  s \in Seq(CRefs) /\ \A cr \in ToSet(s) : Usable(cr)
<1> DEFINE S == {k \in 1 .. Len(ca) : k \in Present(isLearnt) /\ satisfied(k)}
<1>1. Len(ca) \in Nat /\ CRefs = 1 .. Len(ca) /\ CRefs = DOMAIN ca
  BY Shapes
<1>2. S \in SUBSET Nat /\ S \subseteq CRefs /\ \A k \in S : Usable(k)
  BY <1>1, NoHand, Shapes DEF Present, Usable
<1>3. IsFiniteSet(S)
  <2>1. IsFiniteSet(1 .. Len(ca)) /\ S \in SUBSET (1 .. Len(ca))
    BY <1>1, FS_Interval
  <2> QED
    BY <2>1, FS_Subset
<1>4. Places(Len(ca), LAMBDA cr : cr \in Present(isLearnt) /\ satisfied(cr)) = Ascending[S]
  BY DEF Places
<1> HIDE DEF S
<1>5. Ascending[S] \in Seq(S)
  BY <1>2, <1>3, AscendingOf
<1>6. \A x \in ToSet(Ascending[S]) : x \in S
  BY <1>5, Element
<1>7. Ascending[S] \in Seq(CRefs)
  BY <1>2, <1>5
<1> QED
  BY <1>2, <1>4, <1>6, <1>7

LEMMA RemovalOf ==
    ASSUME IInv, simplify \/ reduceDB \/ simplifySatisfied
    PROVE  \E crs : Removal(crs)
<1>1. CASE simplify
  <2> DEFINE Sat(isLearnt) ==
               Places(Len(ca), LAMBDA cr : cr \in Present(isLearnt) /\ satisfied(cr))
             crs == Sat(TRUE) \o Sat(FALSE)
  <2>1. removeClauses(crs) /\ decisionLevel = 0 /\ searching
    BY <1>1 DEF simplify, Idle
  <2>2. /\ Sat(TRUE) \in Seq(CRefs) /\ Sat(FALSE) \in Seq(CRefs)
        /\ \A cr \in ToSet(Sat(TRUE)) : Usable(cr)
        /\ \A cr \in ToSet(Sat(FALSE)) : Usable(cr)
    BY <2>1, SatisfiedUsable
  <2> HIDE DEF Sat
  <2>3. crs \in Seq(CRefs) /\ \A x : x \in ToSet(crs) <=> x \in ToSet(Sat(TRUE)) \/ x \in ToSet(Sat(FALSE))
    BY <2>2, Joined
  <2> HIDE DEF crs
  <2>4. CanRemove(crs)
    BY <2>1, <2>2, <2>3 DEF CanRemove
  <2>5. Removal(crs)
    BY <1>1, <2>1, <2>4 DEF simplify, Removal, Idle, QueueEmpty, idleFrame
  <2> QED
    BY <2>5
<1>2. CASE reduceDB
  <2>1. PICK cr \in Present(TRUE) : Forgettable(cr) /\ removeClauses(<<cr>>)
    BY <1>2 DEF reduceDB
  <2>2. cr \in CRefs /\ Usable(cr) /\ ~locked(cr)
    BY <1>2, <2>1, NoHand, Shapes DEF Present, Usable, Forgettable, reduceDB, Idle
  <2>3. <<cr>> \in Seq(CRefs) /\ ToSet(<<cr>>) = {cr}
    BY <2>2 DEF ToSet
  <2>4. CanRemove(<<cr>>)
    BY <2>2, <2>3 DEF CanRemove
  <2>5. Removal(<<cr>>)
    BY <1>2, <2>1, <2>4 DEF reduceDB, Removal, Idle, QueueEmpty, idleFrame
  <2> QED
    BY <2>5
<1>3. CASE simplifySatisfied
  <2>1. PICK cr \in Unsimplified : removeClauses(<<cr>>)
    BY <1>3 DEF simplifySatisfied
  <2>2. cr \in CRefs /\ Usable(cr)
    BY <1>3, <2>1, Shapes DEF Unsimplified, Usable, simplifySatisfied, BetweenClauses
  <2>3. decisionLevel = 0
    BY <1>3, Shapes, Lims DEF simplifySatisfied, BetweenClauses, QueueEmpty, ControlInv
  <2>4. <<cr>> \in Seq(CRefs) /\ ToSet(<<cr>>) = {cr}
    BY <2>2 DEF ToSet
  <2>5. CanRemove(<<cr>>)
    BY <2>2, <2>3, <2>4 DEF CanRemove
  <2>6. Removal(<<cr>>)
    BY <1>3, <2>1, <2>5 DEF simplifySatisfied, Removal, BetweenClauses, QueueEmpty, vivifyVars
  <2> QED
    BY <2>6
<1> QED
  BY <1>1, <1>2, <1>3

LEMMA RemoveKernel ==
    ASSUME IInv, simplify \/ reduceDB \/ simplifySatisfied
    PROVE  KernelInv' /\ ScanInv'
<1>1. PICK crs : Removal(crs)
  BY RemovalOf
<1> QED
  BY <1>1, RemovalKernel

-----------------------------------------------------------------------------
(* A decision.                                                             *)
LEMMA DecideKernel ==
    ASSUME IInv, decide
    PROVE  KernelInv' /\ ScanInv'
<1> DEFINE n == Len(trail)
<1>1. PICK l \in problem.decisions : decideOn(l)
  BY DEF decide
<1>2. /\ QueueEmpty /\ searching /\ IsUndef(l) /\ trail_lim' = Append(trail_lim, n)
      /\ uncheckedEnqueue(l, decisionLevel + 1, CRef_Undef, db, an)
      /\ pc' = "clean" /\ UNCHANGED <<ca, watches, dirty, qhead, prop, viv>>
  BY <1>1 DEF decide, decideOn, Idle, clauseVars, vivifyVars
<1>3. l \in Lits
  BY <1>1, Shapes, ProblemsAssumption DEF ControlInv
<1>4. viv.cr = CRef_Undef
  BY <1>2, NoHand
<1>5. /\ settled = n /\ done = n /\ n \in Nat /\ qhead = n /\ prop.lit = 0
      /\ Trailing(ca, viv.cr, assigns, vardata, trail, trail_lim, n, n, unitCids, db)
  BY <1>2, AllPropagated, TrailShape DEF QueueEmpty
<1>6. decisionLevel + 1 = Len(trail_lim) + 1 /\ decisionLevel + 1 # 0 /\ decisionLevel + 1 \in Nat
  BY Lims
<1> HIDE DEF n
<1>7. Enqueued(assigns, vardata, trail, l, CRef_Undef, Len(trail_lim) + 1, assigns', vardata', trail')
  BY <1>2, <1>3, <1>6 DEF uncheckedEnqueue, Enqueued, IsUndef
<1>8. db' = db /\ unitCids' = unitCids
  BY <1>2, <1>6 DEF uncheckedEnqueue, analyzeEnqueuePropagation
<1>9. Trailing(ca, viv.cr, assigns', vardata', trail', trail_lim', n + 1, n, unitCids, db)
  <2>1. Trailing(ca, viv.cr, assigns', vardata', trail', Append(trail_lim, n), n + 1, n, unitCids, db)
    BY <1>4, <1>5, <1>7, TrailingDecide DEF n
  <2> QED
    BY <1>2, <2>1
<1>10. Len(trail') = n + 1
  BY <1>7, TrailShape DEF Enqueued, n
<1>11. settled' = n + 1 /\ done' = n
  BY <1>2, <1>5, <1>10, WhereNext DEF Assuming
<1>12. KernelInv'
  BY <1>2, <1>8, <1>9, <1>11, MemoryShape DEF KernelInv
<1>13. trail_lim'[Len(trail_lim')] = n
  BY <1>2, <1>5, Lims
<1>14. ScanInv'
  BY <1>2, <1>5, <1>11, <1>13, ScanEnds
<1> QED
  BY <1>12, <1>14

-----------------------------------------------------------------------------
(* The conflict clause.                                                    *)
LEMMA ConflictShape ==
    ASSUME IInv, pc = "conflict"
    PROVE  /\ confl \in DOMAIN ca /\ ~ca[confl].freed /\ confl # viv.cr /\ confl # CRef_Undef
           /\ conflLits \in Seq(Lits) /\ Len(conflLits) >= 2 /\ Len(conflLits) \in Nat
           /\ DOMAIN conflLits = 1 .. Len(conflLits)
           /\ AllDistinct(conflLits) /\ AllFalse(conflLits)
           /\ \A k \in 1 .. Len(conflLits) :
                conflLits[k] \in Lits /\ level(conflLits[k]) \in Nat
                /\ level(conflLits[k]) <= decisionLevel
<1>1. Usable(confl) /\ AllFalse(conflLits)
  BY Shapes DEF ControlInv, conflLits
<1>2. confl \in DOMAIN ca /\ ~ca[confl].freed /\ confl # viv.cr /\ confl # CRef_Undef
  BY <1>1, Shapes DEF Usable
<1>3. HasLits(ca) /\ Memory(ca, viv.cr)
  BY MemoryShape
<1>4. conflLits \in Seq(Lits) /\ AllDistinct(conflLits) /\ ~(Len(conflLits) < 2)
  BY <1>2, <1>3 DEF HasLits, Memory, conflLits
<1>5. Len(conflLits) \in Nat /\ DOMAIN conflLits = 1 .. Len(conflLits)
  BY <1>4
<1>6. ASSUME NEW k \in 1 .. Len(conflLits)
      PROVE  /\ conflLits[k] \in Lits /\ level(conflLits[k]) \in Nat
             /\ level(conflLits[k]) <= decisionLevel
  <2>1. conflLits[k] \in Lits /\ conflLits[k] \in ToSet(conflLits)
    BY <1>4, Element
  <2>2. IsFalse(conflLits[k])
    BY <1>1, <2>1 DEF AllFalse
  <2>3. Lv(vardata, conflLits[k]) <= decisionLevel /\ Lv(vardata, conflLits[k]) \in Nat
    BY <2>1, <2>2, AssignedLevel DEF Assuming
  <2> QED
    BY <2>1, <2>3 DEF Lv, level
<1> QED
  BY <1>1, <1>2, <1>4, <1>5, <1>6

(* The place of the literal that becomes the first.                        *)
LEMMA HighestShape ==
    ASSUME IInv, pc = "conflict"
    PROVE  /\ highestId \in 1 .. Len(conflLits) /\ level(conflLits[highestId]) = nHighestLevel
           /\ \A k \in 1 .. Len(conflLits) : level(conflLits[k]) <= nHighestLevel
           /\ nHighestLevel \in Nat /\ nHighestLevel <= decisionLevel
           /\ BothAtDecisionLevel => highestId = 1
<1> DEFINE q == conflLits
           m == Len(q)
           I == 1 .. m
<1>1. /\ q \in Seq(Lits) /\ m >= 2 /\ m \in Nat /\ DOMAIN q = I
      /\ \A k \in I : q[k] \in Lits /\ level(q[k]) \in Nat /\ level(q[k]) <= decisionLevel
  BY ConflictShape
<1>2. highestId = Min({k \in I : level(q[k]) = nHighestLevel})
  BY <1>1 DEF highestId
<1>3. {level(l) : l \in ToSet(q)} = {level(q[j]) : j \in I}
  BY <1>1 DEF ToSet
<1>4. decisionLevel \in Nat
  BY Lims
<1>5. nHighestLevel = IF BothAtDecisionLevel THEN decisionLevel ELSE Max({level(q[j]) : j \in I})
  BY <1>3 DEF nHighestLevel, MaxLevelOf, q
<1>6. 1 \in I /\ 2 \in I
  BY <1>1
<1>7. CASE BothAtDecisionLevel
  <2>1. nHighestLevel = decisionLevel /\ level(q[1]) = decisionLevel
    BY <1>5, <1>7 DEF BothAtDecisionLevel
  <2> HIDE DEF q, m
  <2> DEFINE S == {k \in I : level(q[k]) = nHighestLevel}
  <2>2. 1 \in S /\ S \in SUBSET Nat /\ \A k \in S : 1 <= k
    BY <1>6, <2>1
  <2> HIDE DEF S, I
  <2>3. Min(S) \in S /\ \A k \in S : Min(S) <= k
    BY <2>2, LeastOf
  <2>4. Min(S) <= 1 /\ 1 <= Min(S) /\ Min(S) \in Nat
    BY <2>2, <2>3
  <2>5. highestId = 1
    BY <1>2, <2>4 DEF S
  <2> QED
    BY <1>1, <1>4, <1>6, <2>1, <2>5 DEF q, m, I
<1>8. CASE ~BothAtDecisionLevel
  <2>1. IsSeq(q) /\ ToSet(q) \subseteq Lits /\ TypeOK
    BY <1>1, Element, Shapes DEF IsSeq
  <2>2. I \in SUBSET (1 .. Len(q)) /\ I # {}
    BY <1>6
  <2>3. nHighestLevel = Max({level(q[j]) : j \in I})
    BY <1>5, <1>8
  <2>4. highestId = Min({k \in I : level(q[k]) = Max({level(q[j]) : j \in I})})
    BY <1>2, <2>3
  <2> HIDE DEF I, q
  <2>5. /\ highestId \in I /\ level(q[highestId]) = nHighestLevel
        /\ \A j \in I : level(q[j]) <= nHighestLevel
    BY <2>1, <2>2, <2>3, <2>4, TopLevelPlace
  <2>6. nHighestLevel \in Nat /\ nHighestLevel <= decisionLevel
    BY <1>1, <2>5
  <2> QED
    BY <1>8, <2>5, <2>6 DEF q, m, I
<1> QED
  BY <1>7, <1>8

(* The places of the trail that stay propagated when the level of the      *)
(* conflict begins.                                                        *)
beforeLevel == IF nHighestLevel = 0 THEN 0 ELSE trail_lim[nHighestLevel]

LEMMA BeforeLevel ==
    ASSUME IInv, pc = "conflict"
    PROVE  /\ beforeLevel \in Nat /\ beforeLevel <= done /\ settled = Len(trail)
           /\ \A i \in 1 .. beforeLevel : ~Within(trail_lim, nHighestLevel, i)
<1>1. nHighestLevel \in Nat /\ nHighestLevel <= decisionLevel
  BY HighestShape
<1>2. /\ decisionLevel = Len(trail_lim) /\ Len(trail_lim) \in Nat /\ trail_lim \in Seq(Nat)
      /\ \A j, k \in 1 .. Len(trail_lim) : j <= k => trail_lim[j] <= trail_lim[k]
      /\ \A k \in 1 .. Len(trail_lim) : trail_lim[k] \in Nat
  BY Lims
<1>3. /\ done = IF trail_lim = <<>> THEN 0 ELSE trail_lim[Len(trail_lim)]
      /\ settled = Len(trail) /\ done \in Nat
  BY WhereNow, TrailShape DEF Assuming
<1>4. CASE nHighestLevel = 0
  BY <1>3, <1>4 DEF beforeLevel
<1>5. CASE nHighestLevel # 0
  <2>1. nHighestLevel \in 1 .. Len(trail_lim) /\ Len(trail_lim) \in 1 .. Len(trail_lim)
    BY <1>1, <1>2, <1>5
  <2>2. trail_lim # <<>>
    BY <2>1
  <2>3. done = trail_lim[Len(trail_lim)]
    BY <1>3, <2>2
  <2>4. beforeLevel = trail_lim[nHighestLevel] /\ beforeLevel \in Nat
    BY <1>2, <1>5, <2>1 DEF beforeLevel
  <2>5. beforeLevel <= done
    BY <1>1, <1>2, <2>1, <2>3, <2>4
  <2>6. ASSUME NEW i \in 1 .. beforeLevel, Within(trail_lim, nHighestLevel, i)
        PROVE  FALSE
    <3>1. beforeLevel < i
      BY <1>5, <2>4, <2>6 DEF Within
    <3> QED
      BY <2>4, <3>1
  <2> QED
    BY <1>3, <2>4, <2>5, <2>6
<1> QED
  BY <1>4, <1>5

(* The literal of the highest level is put first.                          *)
HighestPut(c2) ==
    \/ c2 = ca
    \/ c2 = [ca EXCEPT ![confl].lits = SwapAt(conflLits, 1, highestId)]

LEMMA HighestSwap ==
    ASSUME IInv, pc = "conflict", NEW c2, NEW s,
           s = SwapAt(conflLits, 1, highestId),
           c2 = [ca EXCEPT ![confl].lits = s]
    PROVE  /\ Swapped(Lits, conflLits, 1, highestId, s)
           /\ DOMAIN c2 = DOMAIN ca /\ \A k \in DOMAIN ca : k # confl => c2[k] = ca[k]
           /\ c2[confl].lits = s /\ c2[confl].freed = ca[confl].freed /\ HasLits(c2)
           /\ s[1] = conflLits[highestId]
           /\ highestId = 2 => s[2] = conflLits[1]
           /\ highestId # 2 => s[2] = conflLits[2]
<1>1. /\ confl \in DOMAIN ca /\ conflLits \in Seq(Lits) /\ Len(conflLits) >= 2 /\ Len(conflLits) \in Nat
  BY ConflictShape
<1>2. highestId \in 1 .. Len(conflLits)
  BY HighestShape
<1>3. 1 \in 1 .. Len(conflLits) /\ 2 \in 1 .. Len(conflLits)
  BY <1>1
<1>4. CanSwap(Lits, conflLits, 1, highestId)
  BY <1>1, <1>2, <1>3 DEF CanSwap
<1>5. Swapped(Lits, conflLits, 1, highestId, s)
  BY <1>4, SwapFacts
<1>6. /\ s \in Seq(Lits)
      /\ \A k \in 1 .. Len(conflLits) :
           s[k] = IF k = highestId THEN conflLits[1] ELSE IF k = 1 THEN conflLits[highestId] ELSE conflLits[k]
  BY <1>5 DEF Swapped
<1>7. /\ s[1] = conflLits[highestId]
      /\ highestId = 2 => s[2] = conflLits[1]
      /\ highestId # 2 => s[2] = conflLits[2]
  BY <1>3, <1>6
<1>8. /\ DOMAIN c2 = DOMAIN ca /\ \A k \in DOMAIN ca : k # confl => c2[k] = ca[k]
      /\ c2[confl].lits = s /\ c2[confl].freed = ca[confl].freed
  <2>1. ca \in Clauses(db) /\ db \in Log
    BY Shapes
  <2>2. Changed(ca, c2, confl, s, ca[confl].cid)
    BY <1>1, <2>1, ExceptLits
  <2> QED
    BY <2>2 DEF Changed
<1>9. HasLits(c2)
  BY <1>6, <1>8, MemoryShape DEF HasLits
<1> QED
  BY <1>5, <1>7, <1>8, <1>9

(* Its clause is no reason, and a literal of the highest level is false    *)
(* nowhere before that level.                                              *)
LEMMA HighestTrail ==
    ASSUME IInv, pc = "conflict", HighestFirst
    PROVE  Trailing(ca', viv.cr, assigns, vardata, trail, trail_lim, Len(trail), beforeLevel, unitCids, db)
<1> DEFINE s == SwapAt(conflLits, 1, highestId)
<1>1. /\ Trailing(ca, viv.cr, assigns, vardata, trail, trail_lim, settled, done, unitCids, db)
      /\ Assigned(assigns, trail) /\ Levels(vardata, trail, trail_lim, settled)
      /\ trail \in Seq(Lits) /\ Len(trail) \in Nat
  BY TrailShape
<1>2. /\ beforeLevel \in Nat /\ beforeLevel <= done /\ settled = Len(trail)
      /\ \A i \in 1 .. beforeLevel : ~Within(trail_lim, nHighestLevel, i)
  BY BeforeLevel
<1>3. Trailing(ca, viv.cr, assigns, vardata, trail, trail_lim, Len(trail), beforeLevel, unitCids, db)
  BY <1>1, <1>2, TrailingLess
<1>4. CASE BothAtDecisionLevel
  <2>1. ca' = ca
    BY <1>4 DEF HighestFirst
  <2> QED
    BY <1>3, <2>1
<1>5. CASE ~BothAtDecisionLevel
  <2>1. ca' = [ca EXCEPT ![confl].lits = s]
    BY <1>5 DEF HighestFirst
  <2>2. /\ Swapped(Lits, conflLits, 1, highestId, s)
        /\ DOMAIN ca' = DOMAIN ca /\ \A k \in DOMAIN ca : k # confl => ca'[k] = ca[k]
        /\ ca'[confl].lits = s /\ ca'[confl].freed = ca[confl].freed /\ HasLits(ca')
        /\ s[1] = conflLits[highestId]
        /\ highestId = 2 => s[2] = conflLits[1]
        /\ highestId # 2 => s[2] = conflLits[2]
    BY <2>1, HighestSwap
  <2>3. /\ confl \in DOMAIN ca /\ ~ca[confl].freed /\ confl # viv.cr /\ confl # CRef_Undef
        /\ conflLits \in Seq(Lits) /\ AllFalse(conflLits)
        /\ \A k \in 1 .. Len(conflLits) : conflLits[k] \in Lits
    BY ConflictShape
  <2>4. highestId \in 1 .. Len(conflLits) /\ level(conflLits[highestId]) = nHighestLevel
    BY HighestShape
  <2>5. \A i \in 1 .. Len(trail) : Rs(vardata, trail[i]) # confl
    <3>1. \A l \in ToSet(ca[confl].lits) : assigns[Var(l)] # l
      <4>1. SUFFICES ASSUME NEW l \in ToSet(conflLits) PROVE assigns[Var(l)] # l
        BY DEF conflLits
      <4>2. l \in Lits /\ assigns[Var(l)] = -l
        BY <2>3, Element DEF AllFalse, IsFalse
      <4> QED
        BY <4>2, LitFacts
    <3> QED
      BY <1>3, <2>3, <3>1, NotReason
  <2>6. KeepsReasons(ca, ca', vardata, trail, Len(trail))
    BY <2>2, <2>5 DEF KeepsReasons, SameReason
  <2>7. Guarded(s, 1, vardata, trail, trail_lim, Len(trail), beforeLevel)
    <3>1. SUFFICES ASSUME NEW i \in 1 .. beforeLevel, trail[i] = -s[1] PROVE FALSE
      BY DEF Guarded
    <3>2. s[1] \in Lits /\ i \in 1 .. settled /\ Var(trail[i]) = Var(s[1])
      <4>1. s[1] \in Lits
        BY <2>2, <2>3, <2>4
      <4>2. done <= Len(trail) /\ done \in Nat
        BY <1>2, TrailShape
      <4> QED
        BY <1>1, <1>2, <3>1, <4>1, <4>2, LitFacts
    <3>3. Lv(vardata, trail[i]) = nHighestLevel
      BY <2>2, <2>4, <3>2 DEF Lv, level
    <3>4. Within(trail_lim, Lv(vardata, trail[i]), i)
      BY <1>1, <3>2 DEF Levels
    <3> QED
      BY <1>2, <3>3, <3>4
  <2>8. \E m \in {1, 2} : s[2] = conflLits[m]
    BY <2>2
  <2>9. KeepsComplete(ca, ca', vardata, trail, trail_lim, viv.cr, viv.cr, Len(trail), beforeLevel)
    <3> SUFFICES ASSUME NEW cr \in DOMAIN ca', ~ca'[cr].freed /\ cr # viv.cr, NEW j \in {1, 2}
                 PROVE  \/ Guarded(ca'[cr].lits, j, vardata, trail, trail_lim, Len(trail), beforeLevel)
                        \/ /\ cr \in DOMAIN ca /\ ~ca[cr].freed /\ cr # viv.cr
                           /\ ToSet(ca'[cr].lits) = ToSet(ca[cr].lits)
                           /\ \E m \in {1, 2} : ca'[cr].lits[j] = ca[cr].lits[m]
      BY DEF KeepsComplete
    <3>1. CASE cr # confl
      BY <2>2, <3>1
    <3>2. CASE cr = confl /\ j = 1
      BY <2>2, <2>7, <3>2
    <3>3. CASE cr = confl /\ j = 2
      BY <2>2, <2>3, <2>8, <3>3 DEF Swapped, conflLits
    <3> QED
      BY <3>1, <3>2, <3>3
  <2>10. viv.cr # CRef_Undef => NoReason(vardata, trail, viv.cr)
    BY TrailShape
  <2> QED
    BY <1>3, <2>2, <2>6, <2>9, <2>10, TrailingMemory
<1> QED
  BY <1>4, <1>5

(* The clause watched through a literal of the highest level.              *)
LEMMA HighestMoved ==
    ASSUME IInv, pc = "conflict", HighestFirst, ~BothAtDecisionLevel, highestId > 2
    PROVE  Watchful(ca', watches', dirty, viv.cr)
<1> DEFINE q == conflLits
           s == SwapAt(q, 1, highestId)
           l == -q[1]
           l2 == -s[1]
           X == [cref : DOMAIN ca, blocker : Lits]
           t == WithoutFirst(watches["long"][l], confl)
<1>1. /\ ca' = [ca EXCEPT ![confl].lits = s]
      /\ watches' = [watches EXCEPT
                       ![Kind(s)][l] = RemoveFirstMatch(@, LAMBDA u : u.cref = confl),
                       ![Kind(s)][l2] = Append(@, Watcher(confl, q[2]))]
  <2>1. highestId \in Nat
    BY HighestShape, ConflictShape
  <2>2. ~(highestId <= 2)
    BY <2>1
  <2> QED
    BY <2>2 DEF HighestFirst
<1>2. /\ Swapped(Lits, q, 1, highestId, s)
      /\ DOMAIN ca' = DOMAIN ca /\ \A k \in DOMAIN ca : k # confl => ca'[k] = ca[k]
      /\ ca'[confl].lits = s /\ ca'[confl].freed = ca[confl].freed /\ HasLits(ca')
      /\ s[1] = q[highestId] /\ s[2] = q[2]
  <2>1. highestId # 2
    OBVIOUS
  <2> HIDE DEF q, s
  <2> QED
    BY <1>1, <2>1, HighestSwap DEF q, s
<1>3. /\ confl \in DOMAIN ca /\ ~ca[confl].freed /\ confl # viv.cr
      /\ q \in Seq(Lits) /\ AllDistinct(q) /\ Len(q) \in Nat /\ DOMAIN q = 1 .. Len(q)
      /\ highestId \in 1 .. Len(q) /\ ca[confl].lits = q
  BY ConflictShape, HighestShape DEF conflLits
<1>4. Len(q) >= 3 /\ 1 \in 1 .. Len(q) /\ 2 \in 1 .. Len(q)
  BY <1>3
<1>5. /\ q[1] \in Lits /\ q[2] \in Lits /\ s[1] \in Lits /\ q[2] \in ToSet(q)
      /\ Len(s) = Len(q) /\ ToSet(s) = ToSet(q) /\ AllDistinct(s)
  BY <1>2, <1>3, <1>4, Element DEF Swapped
<1>6. q[1] # q[2] /\ s[1] # q[1] /\ s[1] # q[2]
  BY <1>2, <1>3, <1>4 DEF AllDistinct
<1>7. /\ l \in Lits /\ l2 \in Lits /\ -l = q[1] /\ -l2 = s[1] /\ l # l2
  BY <1>5, <1>6, LitFacts
<1>8. Kind(q) = "long" /\ Kind(s) = "long"
  <2> HIDE DEF q, s
  <2>1. ~(Len(q) = 2)
    BY <1>3, <1>4
  <2> QED
    BY <1>5, <2>1 DEF Kind
<1>9. Rewatch(ca, ca', "long", confl, l, l2, q[2], viv.cr)
  <2> HIDE DEF l, l2, s, q
  <2>1. \A m \in Lits : Watches(s, "long", m) <=> -m = s[1] \/ -m = q[2]
    BY <1>2, <1>8 DEF Watches
  <2>2. \A m \in Lits : Watches(q, "long", m) <=> -m = q[1] \/ -m = q[2]
    BY <1>8 DEF Watches
  <2>3. \A m \in Lits : (-m = q[1] <=> m = l) /\ (-m = s[1] <=> m = l2)
    BY <1>7, LitFacts
  <2>4. \A m \in Lits : Watches(s, "long", m) <=> (Watches(q, "long", m) /\ m # l) \/ m = l2
    BY <1>6, <1>7, <2>1, <2>2, <2>3
  <2>5. Watches(q, "long", l) /\ ~Watches(q, "long", l2)
    BY <1>6, <1>7, <2>2
  <2>6. q[2] \in ToSet(s) \ {-l2}
    BY <1>5, <1>6, <1>7
  <2>7. Len(q) >= 2
    BY <1>3, <1>4
  <2> QED
    BY <1>2, <1>3, <1>5, <1>7, <1>8, <2>4, <2>5, <2>6, <2>7 DEF Rewatch
<1>10. /\ Watchful(ca, watches, dirty, viv.cr) /\ watches \in WatcherLists(ca)
  BY MemoryShape
<1>11. watches["long"][l] \in Seq(X)
  BY <1>7, <1>10, ListTypes
<1>12. Single(watches["long"][l], confl)
  <2> HIDE DEF l, q
  <2>1. Watches(ca[confl].lits, "long", l)
    BY <1>3, <1>7, <1>8 DEF Watches
  <2> QED
    BY <1>3, <1>7, <1>10, <2>1, OneWatcher
<1>13. /\ t \in Seq(X) /\ OthersSame(watches["long"][l], t, confl)
       /\ Absent(t, confl) /\ ToSet(t) \subseteq ToSet(watches["long"][l])
  <2> HIDE DEF l, q
  <2> QED
    BY <1>11, <1>12, FirstMatchDrop
<1>14. watches' = PutTwo(watches, "long", l, l2, t, Append(watches["long"][l2], Watcher(confl, q[2])))
  <2> HIDE DEF l, l2, s, q
  <2> QED
    BY <1>1, <1>7, <1>8, <1>10 DEF PutTwo, WatcherLists, WithoutFirst, t
<1>15. Moved(ca, ca', watches, watches', "long", confl, l, l2, q[2], t, viv.cr)
  <2> HIDE DEF l, l2, s, q, t
  <2> QED
    BY <1>2, <1>5, <1>9, <1>13, <1>14 DEF Moved
<1> QED
  <2> HIDE DEF l, l2, s, q, t
  <2> QED
    BY <1>10, <1>15, WatchfulMoved

LEMMA HighestWatched ==
    ASSUME IInv, pc = "conflict", HighestFirst
    PROVE  Watchful(ca', watches', dirty, viv.cr)
<1> DEFINE s == SwapAt(conflLits, 1, highestId)
<1>1. Watchful(ca, watches, dirty, viv.cr) /\ HasLits(ca)
  BY MemoryShape
<1>2. CASE BothAtDecisionLevel
  BY <1>1, <1>2 DEF HighestFirst
<1>3. CASE ~BothAtDecisionLevel /\ highestId <= 2
  <2>1. ca' = [ca EXCEPT ![confl].lits = s] /\ watches' = watches
    BY <1>3 DEF HighestFirst
  <2>2. /\ Swapped(Lits, conflLits, 1, highestId, s)
        /\ DOMAIN ca' = DOMAIN ca /\ \A k \in DOMAIN ca : k # confl => ca'[k] = ca[k]
        /\ ca'[confl].lits = s /\ ca'[confl].freed = ca[confl].freed /\ HasLits(ca')
        /\ s[1] = conflLits[highestId]
        /\ highestId = 2 => s[2] = conflLits[1]
        /\ highestId # 2 => s[2] = conflLits[2]
    BY <2>1, HighestSwap
  <2>3. highestId = 1 \/ highestId = 2
    BY <1>3, HighestShape, ConflictShape
  <2>4. {s[1], s[2]} = {conflLits[1], conflLits[2]}
    BY <2>2, <2>3
  <2>5. SamePair(ca[confl], ca'[confl])
    BY <2>2, <2>4 DEF SamePair, Swapped, conflLits
  <2>6. SamePairs(ca, ca')
    BY <2>2, <2>5 DEF SamePairs
  <2>7. \A cr \in DOMAIN ca : AllDistinct(ca[cr].lits) => AllDistinct(ca'[cr].lits)
    BY <2>2 DEF Swapped, conflLits
  <2> QED
    BY <1>1, <2>1, <2>2, <2>6, <2>7, WatchfulReordered DEF Reordered
<1>4. CASE ~BothAtDecisionLevel /\ ~(highestId <= 2)
  BY <1>4, HighestMoved, HighestShape, ConflictShape
<1> QED
  BY <1>2, <1>3, <1>4

(* The three ways search goes on after a conflict.                         *)
LEMMA ConflictPropagated ==
    ASSUME IInv, pc = "conflict"
    PROVE  /\ Trailing(ca, viv.cr, assigns, vardata, trail, trail_lim, Len(trail), done, unitCids, db)
           /\ decisionLevel > 0 => trail_lim[0 + 1] <= done
           /\ prop.lit = 0 /\ prop = NoProp
<1>1. Trailing(ca, viv.cr, assigns, vardata, trail, trail_lim, Len(trail), done, unitCids, db)
  BY TrailShape, BeforeLevel
<1>2. decisionLevel > 0 => trail_lim[0 + 1] <= done
  <2>1. /\ decisionLevel = Len(trail_lim) /\ Len(trail_lim) \in Nat
        /\ \A j, k \in 1 .. Len(trail_lim) : j <= k => trail_lim[j] <= trail_lim[k]
    BY Lims
  <2>2. CASE decisionLevel > 0
    <3>1. 1 \in 1 .. Len(trail_lim) /\ Len(trail_lim) \in 1 .. Len(trail_lim) /\ trail_lim # <<>>
      BY <2>1, <2>2
    <3>2. done = trail_lim[Len(trail_lim)]
      BY <3>1, WhereNow
    <3>3. 0 + 1 = 1 /\ 1 <= Len(trail_lim)
      BY <3>1
    <3> QED
      BY <2>1, <3>1, <3>2, <3>3
  <2> QED
    BY <2>2
<1>3. prop.lit = 0 /\ prop = NoProp
  BY NotScanning
<1> QED
  BY <1>1, <1>2, <1>3

LEMMA SearchLevelZeroKernel ==
    ASSUME IInv, searchLevelZeroConflict, UNCHANGED vivifyVars
    PROVE  KernelInv' /\ ScanInv'
<1>1. /\ pc = "conflict" /\ HighestFirst /\ AnswerUnsat /\ cancelUntil(0)
      /\ UNCHANGED <<vardata, viv, dirty, unitCids, prop>> /\ pc' = "unsat"
  BY DEF searchLevelZeroConflict, vivifyVars, AnswerUnsat
<1>2. CanAnswer(done)
  BY <1>1, ConflictPropagated DEF CanAnswer
<1>3. Answers
  BY <1>1, AnswerLog, HighestWatched, ConflictPropagated DEF Answers
<1>4. KeepsReasons(ca, ca', vardata, trail', Len(trail'))
  <2>1. /\ confl \in DOMAIN ca /\ confl # CRef_Undef /\ conflLits \in Seq(Lits) /\ AllFalse(conflLits)
    BY <1>1, ConflictShape
  <2>2. DOMAIN ca' = DOMAIN ca /\ \A k \in DOMAIN ca : k # confl => ca'[k] = ca[k]
    BY <1>1, HighestSwap DEF HighestFirst
  <2>3. /\ Trailing(ca, viv.cr, assigns', vardata, trail', trail_lim', Len(trail'), 0, unitCids, db)
        /\ \A v \in Vars : assigns'[v] \in {0, assigns[v]}
    BY <1>1, <1>2, AnswerTrail
  <2>4. \A l \in ToSet(ca[confl].lits) : assigns'[Var(l)] # l
    <3>1. SUFFICES ASSUME NEW l \in ToSet(conflLits) PROVE assigns'[Var(l)] # l
      BY DEF conflLits
    <3>2. l \in Lits /\ assigns[Var(l)] = -l
      BY <2>1, Element DEF AllFalse, IsFalse
    <3>3. Var(l) \in Vars /\ -l # l /\ l # 0
      BY <3>2, LitFacts
    <3> QED
      BY <2>3, <3>2, <3>3
  <2>5. \A i \in 1 .. Len(trail') : Rs(vardata, trail'[i]) # confl
    BY <2>1, <2>3, <2>4, NotReason
  <2> QED
    BY <2>2, <2>5 DEF KeepsReasons, SameReason
<1> QED
  BY <1>2, <1>3, <1>4, AnswerStep

LEMMA SingleHighestKernel ==
    ASSUME IInv, singleHighest, UNCHANGED vivifyVars
    PROVE  KernelInv' /\ ScanInv'
<1>1. /\ pc = "conflict" /\ HighestFirst /\ cancelUntil(nHighestLevel - 1) /\ nHighestLevel > 0
      /\ UNCHANGED <<vardata, viv, dirty, unitCids, db, prop>> /\ pc' = "clean"
  BY DEF singleHighest, vivifyVars, tracerVars
<1>2. nHighestLevel \in Nat /\ nHighestLevel <= decisionLevel /\ decisionLevel \in Nat
  BY <1>1, HighestShape, Lims
<1>3. beforeLevel = trail_lim[(nHighestLevel - 1) + 1]
  BY <1>1, <1>2 DEF beforeLevel
<1>4. beforeLevel \in Nat
  BY <1>1, BeforeLevel
<1>5. CanCancel(ca', nHighestLevel - 1, beforeLevel)
  BY <1>1, <1>2, <1>3, <1>4, HighestTrail DEF CanCancel
<1>6. Cancels(nHighestLevel - 1)
  BY <1>1, HighestWatched, ConflictPropagated DEF Cancels, Assuming
<1> QED
  BY <1>5, <1>6, CancelStep

LEMMA AnalyzeBeginKernel ==
    ASSUME IInv, analyzeBegin, UNCHANGED vivifyVars
    PROVE  KernelInv' /\ ScanInv'
<1>1. /\ pc = "conflict" /\ HighestFirst /\ nHighestLevel > 0
      /\ ana' = [NoAnalysis EXCEPT !.index = Len(trail), !.nDecisionLevel = nHighestLevel]
      /\ UNCHANGED <<assigns, vardata, trail, trail_lim, viv, dirty, unitCids, db, prop>> /\ pc' = "analyze"
  BY DEF analyzeBegin, vivifyVars, tracerVars, trailVars
<1>2. ana'.nDecisionLevel = nHighestLevel
  BY <1>1 DEF NoAnalysis
<1>3. beforeLevel = trail_lim[nHighestLevel]
  BY <1>1 DEF beforeLevel
<1>4. settled' = Len(trail) /\ done' = beforeLevel
  BY <1>1, <1>2, <1>3, WhereNext DEF Assuming, Analyzing
<1>5. Trailing(ca', viv.cr, assigns, vardata, trail, trail_lim, Len(trail), beforeLevel, unitCids, db)
  BY <1>1, HighestTrail
<1>6. Watchful(ca', watches', dirty, viv.cr)
  BY <1>1, HighestWatched
<1>7. KernelInv'
  BY <1>1, <1>4, <1>5, <1>6 DEF KernelInv
<1>8. ScanInv'
  BY <1>1, ConflictPropagated, ScanEnds DEF Analyzing
<1> QED
  BY <1>7, <1>8

-----------------------------------------------------------------------------
(* addClause_: the order of the literals of a clause.                      *)
LEMMA LitOrder ==
    /\ \A l \in Lits : LitIndex(l) \in Nat
    /\ \A l, m \in Lits : LitIndex(l) = LitIndex(m) => l = m
    /\ \A l \in Lits : LitIndex(l) = 2 * Var(l) \/ LitIndex(l) = 2 * Var(l) + 1
<1>1. \A l \in Lits : l \in Int /\ (l < 0 => Var(l) = -l) /\ (~(l < 0) => Var(l) = l)
  BY DEF Lits, Var
<1>2. \A l \in Lits : (l < 0 => LitIndex(l) = 2 * (-l) + 1) /\ (~(l < 0) => LitIndex(l) = 2 * l)
  BY <1>1 DEF LitIndex
<1>3. ASSUME NEW l \in Lits, NEW m \in Lits, LitIndex(l) = LitIndex(m)
      PROVE  l = m
  <2>1. l \in Int /\ m \in Int
    BY <1>1
  <2>2. (l < 0 => LitIndex(l) = 2 * (-l) + 1) /\ (~(l < 0) => LitIndex(l) = 2 * l)
    BY <1>2
  <2>3. (m < 0 => LitIndex(m) = 2 * (-m) + 1) /\ (~(m < 0) => LitIndex(m) = 2 * m)
    BY <1>2
  <2> QED
    BY <1>3, <2>1, <2>2, <2>3
<1>4. \A l \in Lits : LitIndex(l) = 2 * Var(l) \/ LitIndex(l) = 2 * Var(l) + 1
  BY <1>1, <1>2
<1>5. \A l \in Lits : LitIndex(l) \in Nat
  BY <1>1, <1>2
<1> QED
  BY <1>3, <1>4, <1>5

(* The places before place k in that order.                                *)
Before(ps, k) == {j \in DOMAIN ps : Earlier(ps, j, k)}

LEMMA EarlierOrder ==
    ASSUME NEW ps \in Seq(Lits)
    PROVE  /\ \A j, k \in DOMAIN ps : Earlier(ps, j, k) \/ Earlier(ps, k, j) \/ j = k
           /\ \A k \in DOMAIN ps : ~Earlier(ps, k, k)
           /\ \A i, j, k \in DOMAIN ps : Earlier(ps, i, j) /\ Earlier(ps, j, k) => Earlier(ps, i, k)
           /\ \A j, k \in DOMAIN ps : Earlier(ps, j, k) =>
                LitBefore(ps[j], ps[k]) \/ (ps[j] = ps[k] /\ j < k)
<1>1. \A j \in DOMAIN ps : j \in Nat /\ ps[j] \in Lits
  BY Element
<1>2. \A l \in Lits : LitIndex(l) \in Int
  BY LitOrder
<1>3. ASSUME NEW j \in DOMAIN ps, NEW k \in DOMAIN ps
      PROVE  Earlier(ps, j, k) \/ Earlier(ps, k, j) \/ j = k
  <2>1. LitIndex(ps[j]) \in Int /\ LitIndex(ps[k]) \in Int /\ j \in Int /\ k \in Int
    BY <1>1, <1>2
  <2>2. LitIndex(ps[j]) = LitIndex(ps[k]) => ps[j] = ps[k]
    BY <1>1, LitOrder
  <2> QED
    BY <2>1, <2>2 DEF Earlier, LitBefore
<1>4. ASSUME NEW k \in DOMAIN ps PROVE ~Earlier(ps, k, k)
  <2>1. LitIndex(ps[k]) \in Int /\ k \in Int
    BY <1>1, <1>2
  <2> QED
    BY <2>1 DEF Earlier, LitBefore
<1>5. ASSUME NEW i \in DOMAIN ps, NEW j \in DOMAIN ps, NEW k \in DOMAIN ps,
             Earlier(ps, i, j), Earlier(ps, j, k)
      PROVE  Earlier(ps, i, k)
  <2>1. /\ LitIndex(ps[i]) \in Int /\ LitIndex(ps[j]) \in Int /\ LitIndex(ps[k]) \in Int
        /\ i \in Int /\ j \in Int /\ k \in Int
    BY <1>1, <1>2
  <2> QED
    BY <1>5, <2>1 DEF Earlier, LitBefore
<1> QED
  BY <1>3, <1>4, <1>5 DEF Earlier

LEMMA BeforeCount ==
    ASSUME NEW ps \in Seq(Lits), NEW k \in DOMAIN ps
    PROVE  /\ IsFiniteSet(Before(ps, k))
           /\ Cardinality(Before(ps, k)) \in 0 .. Len(ps) - 1
           /\ \A j \in DOMAIN ps : Earlier(ps, j, k) =>
                Cardinality(Before(ps, j)) < Cardinality(Before(ps, k))
<1> DEFINE S == DOMAIN ps
<1>0. S = 1 .. Len(ps) /\ Len(ps) \in Nat
  BY Element
<1>1. IsFiniteSet(S) /\ Cardinality(S) = Len(ps)
  <2>1. Cardinality(1 .. Len(ps)) = (IF 1 > Len(ps) THEN 0 ELSE Len(ps) - 1 + 1) /\ IsFiniteSet(1 .. Len(ps))
    BY <1>0, FS_Interval
  <2>2. (IF 1 > Len(ps) THEN 0 ELSE Len(ps) - 1 + 1) = Len(ps)
    BY <1>0
  <2> QED
    BY <1>0, <2>1, <2>2
<1>2. IsFiniteSet(S \ {k}) /\ Cardinality(S \ {k}) = Len(ps) - 1
  BY <1>1, FS_RemoveElement
<1>3. Before(ps, k) \in SUBSET (S \ {k})
  BY EarlierOrder DEF Before
<1>4. /\ IsFiniteSet(Before(ps, k)) /\ Cardinality(Before(ps, k)) <= Cardinality(S \ {k})
      /\ Cardinality(Before(ps, k)) \in Nat
  BY <1>2, <1>3, FS_Subset, FS_CardinalityType
<1>5. ASSUME NEW j \in S, Earlier(ps, j, k)
      PROVE  Cardinality(Before(ps, j)) < Cardinality(Before(ps, k))
  <2>1. Before(ps, j) \in SUBSET Before(ps, k) /\ j \in Before(ps, k) /\ j \notin Before(ps, j)
    BY <1>5, EarlierOrder DEF Before
  <2>2. Before(ps, j) \in SUBSET (Before(ps, k) \ {j})
    BY <2>1
  <2>3. /\ IsFiniteSet(Before(ps, k) \ {j})
        /\ Cardinality(Before(ps, k) \ {j}) = Cardinality(Before(ps, k)) - 1
    BY <1>4, <2>1, FS_RemoveElement
  <2>4. /\ Cardinality(Before(ps, j)) <= Cardinality(Before(ps, k) \ {j})
        /\ IsFiniteSet(Before(ps, j))
    BY <2>2, <2>3, FS_Subset
  <2>5. Cardinality(Before(ps, j)) \in Nat
    BY <2>4, FS_CardinalityType
  <2> QED
    BY <1>4, <2>3, <2>4, <2>5
<1>6. Cardinality(Before(ps, k)) \in 0 .. Len(ps) - 1
  BY <1>0, <1>2, <1>4
<1> QED
  BY <1>4, <1>5, <1>6

(* The order is the one the clause is stored in: g gives the places.       *)
SortedBy(ps, g) ==
    /\ g \in [1 .. Len(ps) -> 1 .. Len(ps)]
    /\ \A i \in 1 .. Len(ps) : sorted(ps)[i] = ps[g[i]]
    /\ \A k \in 1 .. Len(ps) : \E i \in 1 .. Len(ps) : g[i] = k
    /\ \A i, j \in 1 .. Len(ps) : i < j => Earlier(ps, g[i], g[j])

LEMMA SortedOrder ==
    ASSUME NEW ps \in Seq(Lits)
    PROVE  /\ sorted(ps) \in Seq(Lits) /\ Len(sorted(ps)) = Len(ps)
           /\ \E g : SortedBy(ps, g)
<1> DEFINE n == Len(ps)
           S == 1 .. n
           Rank(k) == Cardinality(Before(ps, k))
           f == [k \in S |-> Rank(k)]
           g == [i \in S |-> CHOOSE k \in S : Rank(k) = i - 1]
<1>1. n \in Nat /\ DOMAIN ps = S /\ \A k \in S : ps[k] \in Lits
  BY Element
<1>2. \A k \in S : Rank(k) \in 0 .. n - 1
  BY <1>1, BeforeCount
<1>3. \A j, k \in S : Earlier(ps, j, k) => Rank(j) < Rank(k)
  BY <1>1, BeforeCount
<1>4. IsFiniteSet(S) /\ Cardinality(S) = n /\ IsFiniteSet(0 .. n - 1) /\ Cardinality(0 .. n - 1) = n
  <2> HIDE DEF n
  <2>1. /\ Cardinality(0 .. n - 1) = IF 0 > n - 1 THEN 0 ELSE (n - 1) - 0 + 1
        /\ Cardinality(1 .. n) = IF 1 > n THEN 0 ELSE n - 1 + 1
    BY <1>1, FS_Interval
  <2>2. IsFiniteSet(0 .. n - 1) /\ IsFiniteSet(1 .. n)
    BY <1>1, FS_Interval
  <2>3. Cardinality(0 .. n - 1) = n /\ Cardinality(1 .. n) = n
    BY <1>1, <2>1
  <2> QED
    BY <2>2, <2>3
<1> HIDE DEF Rank, n, S
<1>5. \A j, k \in S : Rank(j) = Rank(k) => j = k
  <2> SUFFICES ASSUME NEW j \in S, NEW k \in S, Rank(j) = Rank(k) PROVE j = k
    OBVIOUS
  <2>1. Earlier(ps, j, k) \/ Earlier(ps, k, j) \/ j = k
    BY <1>1, EarlierOrder
  <2>2. Rank(j) \in Int /\ Rank(k) \in Int
    BY <1>2
  <2>3. ~(Rank(j) < Rank(k)) /\ ~(Rank(k) < Rank(j))
    BY <2>2
  <2> QED
    BY <1>3, <2>1, <2>3
<1>6. f \in Injection(S, 0 .. n - 1)
  <2>1. f \in [S -> 0 .. n - 1]
    BY <1>2
  <2> QED
    BY <1>5, <2>1 DEF Injection, IsInjective
<1>7. f \in Surjection(S, 0 .. n - 1)
  BY <1>4, <1>6, FS_Injection
<1>8. \A r \in 0 .. n - 1 : \E k \in S : Rank(k) = r
  BY <1>7 DEF Surjection
<1> HIDE DEF f
<1>9. \A i \in S : g[i] \in S /\ Rank(g[i]) = i - 1
  <2> SUFFICES ASSUME NEW i \in S
               PROVE  g[i] \in S /\ Rank(g[i]) = i - 1
    OBVIOUS
  <2>1. i - 1 \in 0 .. n - 1
    BY <1>1 DEF S
  <2>2. \E k \in S : Rank(k) = i - 1
    BY <1>8, <2>1
  <2>3. g[i] = CHOOSE k \in S : Rank(k) = i - 1
    OBVIOUS
  <2> HIDE DEF g
  <2> QED
    BY <2>2, <2>3
<1>10. g \in [S -> S]
  BY <1>9
<1>11. sorted(ps) = [i \in S |-> ps[CHOOSE k \in S : Rank(k) = i - 1]]
  BY <1>1 DEF sorted, Rank, Before
<1>12. \A i \in S : sorted(ps)[i] = ps[g[i]]
  BY <1>11
<1>13. DOMAIN sorted(ps) = S
  BY <1>11
<1> HIDE DEF g
<1>14. sorted(ps) \in Seq(Lits) /\ Len(sorted(ps)) = n
  <2>1. sorted(ps) \in [S -> Lits]
    <3>1. sorted(ps) = [i \in S |-> sorted(ps)[i]]
      BY <1>11, <1>13
    <3>2. \A i \in S : sorted(ps)[i] \in Lits
      BY <1>1, <1>9, <1>12
    <3> QED
      BY <3>1, <3>2
  <2> QED
    BY <1>1, <2>1, SeqDef DEF S
<1>15. ASSUME NEW k \in S
       PROVE  \E i \in S : g[i] = k
  <2> DEFINE i == Rank(k) + 1
  <2>1. i \in S /\ i - 1 = Rank(k)
    BY <1>1, <1>2 DEF S
  <2> HIDE DEF i
  <2>2. g[i] \in S /\ Rank(g[i]) = Rank(k)
    BY <1>9, <2>1
  <2> QED
    BY <1>5, <2>1, <2>2
<1>16. ASSUME NEW i \in S, NEW j \in S, i < j
       PROVE  Earlier(ps, g[i], g[j])
  <2>1. g[i] \in S /\ g[j] \in S /\ Rank(g[i]) = i - 1 /\ Rank(g[j]) = j - 1
    BY <1>9
  <2>2. Earlier(ps, g[j], g[i]) => Rank(g[j]) < Rank(g[i])
    BY <1>3, <2>1
  <2>3. i \in Int /\ j \in Int
    BY <1>1 DEF S
  <2>4. ~(j - 1 < i - 1) /\ i - 1 # j - 1
    BY <1>16, <2>3
  <2>5. Earlier(ps, g[i], g[j]) \/ Earlier(ps, g[j], g[i]) \/ g[i] = g[j]
    BY <1>1, <2>1, EarlierOrder
  <2> QED
    BY <2>1, <2>2, <2>4, <2>5
<1>17. SortedBy(ps, g)
  BY <1>10, <1>12, <1>15, <1>16 DEF SortedBy, S, n
<1> QED
  BY <1>14, <1>17 DEF n

(* What is left of a clause that is not true: its literals are unassigned, *)
(* of different variables.                                                 *)
KeptPlaces(ps) ==
    {k \in 1 .. Len(ps) :
        ~IsFalse(sorted(ps)[k]) /\ (k = 1 \/ sorted(ps)[k - 1] # sorted(ps)[k])}

LEMMA ReducedShape ==
    ASSUME IInv, NEW ps \in Seq(Lits), ~alreadyTrue(ps)
    PROVE  /\ reduced(ps) \in Seq(Lits) /\ AllDistinct(reduced(ps))
           /\ \A k \in 1 .. Len(reduced(ps)) : reduced(ps)[k] \in Lits /\ IsUndef(reduced(ps)[k])
<1> DEFINE s == sorted(ps)
           D == KeptPlaces(ps)
           A == Ascending[D]
<1>1. s \in Seq(Lits) /\ Len(s) = Len(ps) /\ Len(ps) \in Nat
  BY SortedOrder, Element
<1>2. PICK g : SortedBy(ps, g)
  BY SortedOrder
<1>3. D \in SUBSET DOMAIN s
  BY <1>1, Element DEF KeptPlaces
<1>4. reduced(ps) = PickAt(s, D)
  BY DEF reduced, Places, PickAt, KeptPlaces
<1>5. \A i \in 1 .. Len(ps) : /\ s[i] \in Lits /\ s[i] \in ToSet(ps) /\ g[i] \in DOMAIN ps /\ s[i] = ps[g[i]]
  BY <1>2, Element DEF SortedBy
<1>6. \A l \in ToSet(ps) : l \in Lits /\ ~IsTrue(l) /\ -l \notin ToSet(ps)
  BY Element DEF alreadyTrue
<1>7. \A i, j \in 1 .. Len(ps) : i < j => LitIndex(s[i]) <= LitIndex(s[j])
  <2> SUFFICES ASSUME NEW i \in 1 .. Len(ps), NEW j \in 1 .. Len(ps), i < j
               PROVE  LitIndex(s[i]) <= LitIndex(s[j])
    OBVIOUS
  <2>1. Earlier(ps, g[i], g[j])
    BY <1>2 DEF SortedBy
  <2>2. LitIndex(s[i]) \in Int /\ LitIndex(s[j]) \in Int
    BY <1>5, LitOrder
  <2>3. LitBefore(s[i], s[j]) \/ s[i] = s[j]
    BY <1>5, <2>1 DEF Earlier
  <2> QED
    BY <2>2, <2>3 DEF LitBefore
<1> HIDE DEF s, D
<1>8. \A k \in D : k \in 1 .. Len(ps) /\ ~IsFalse(s[k]) /\ (k = 1 \/ s[k - 1] # s[k])
  BY DEF KeptPlaces, s, D
<1>9. \A k \in D : s[k] \in Lits /\ IsUndef(s[k])
  <2> SUFFICES ASSUME NEW k \in D PROVE s[k] \in Lits /\ IsUndef(s[k])
    OBVIOUS
  <2>1. s[k] \in Lits /\ ~IsTrue(s[k]) /\ ~IsFalse(s[k])
    BY <1>5, <1>6, <1>8
  <2>2. Var(s[k]) \in Vars
    BY <2>1, LitFacts
  <2>3. assigns[Var(s[k])] \in Lits \cup {0}
    BY <2>2, TrailShape
  <2>4. assigns[Var(s[k])] # 0 => Var(assigns[Var(s[k])]) = Var(s[k])
    BY <2>2, TrailShape DEF Assigned
  <2> QED
    BY <2>1, <2>3, <2>4, LitFacts DEF IsTrue, IsFalse, IsUndef
<1>10. ASSUME NEW a \in D, NEW b \in D, a < b
       PROVE  Var(s[a]) # Var(s[b])
  <2>1. a \in 1 .. Len(ps) /\ b \in 1 .. Len(ps)
    BY <1>8
  <2>2. b - 1 \in 1 .. Len(ps) /\ a <= b - 1 /\ b # 1 /\ b - 1 < b
    BY <1>10, <1>1, <2>1
  <2>3. s[b - 1] # s[b]
    BY <1>8, <2>2
  <2>4. /\ LitIndex(s[a]) \in Int /\ LitIndex(s[b]) \in Int /\ LitIndex(s[b - 1]) \in Int
    <3>1. s[a] \in Lits /\ s[b] \in Lits /\ s[b - 1] \in Lits
      BY <1>5, <2>1, <2>2
    <3>2. \A l \in Lits : LitIndex(l) \in Int
      BY LitOrder
    <3> QED
      BY <3>1, <3>2
  <2>5. LitIndex(s[b - 1]) <= LitIndex(s[b]) /\ (a # b - 1 => LitIndex(s[a]) <= LitIndex(s[b - 1]))
    BY <1>7, <2>1, <2>2
  <2>6. s[a] # s[b]
    <3> SUFFICES ASSUME s[a] = s[b] PROVE FALSE
      OBVIOUS
    <3>1. LitIndex(s[a]) = LitIndex(s[b])
      OBVIOUS
    <3>2. LitIndex(s[b - 1]) = LitIndex(s[b])
      BY <3>1, <2>4, <2>5
    <3> QED
      BY <1>5, <2>1, <2>2, <2>3, <3>2, LitOrder
  <2>7. s[a] # -s[b]
    BY <1>5, <1>6, <2>1
  <2> QED
    BY <1>5, <2>1, <2>6, <2>7, LitFacts
<1> DEFINE q == PickAt(s, D)
<1>11. /\ q \in Seq(Lits) /\ DOMAIN q = 1 .. Len(q)
       /\ \A n \in 1 .. Len(q) : A[n] \in D /\ q[n] = s[A[n]]
       /\ \A m, n \in 1 .. Len(q) : m < n => A[m] < A[n]
  BY <1>1, <1>3, Picked, Element
<1> HIDE DEF q, A
<1>12. AllDistinct(q)
  <2> SUFFICES ASSUME NEW m \in 1 .. Len(q), NEW n \in 1 .. Len(q), m # n
               PROVE  Var(q[m]) # Var(q[n])
    BY <1>11 DEF AllDistinct
  <2>1. m < n \/ n < m
    BY DEF q
  <2>2. A[m] < A[n] \/ A[n] < A[m]
    BY <2>1, <1>11
  <2>3. A[m] \in D /\ A[n] \in D /\ q[m] = s[A[m]] /\ q[n] = s[A[n]]
    BY <1>11
  <2> QED
    BY <1>10, <2>2, <2>3
<1>13. \A k \in 1 .. Len(q) : q[k] \in Lits /\ IsUndef(q[k])
  BY <1>9, <1>11
<1>14. reduced(ps) = q
  BY <1>4 DEF q
<1> QED
  BY <1>11, <1>12, <1>13, <1>14

(* The log with the record of a clause that lost literals.                 *)
LEMMA LoggedLonger ==
    ASSUME IInv, NEW ps, NEW a
    PROVE  Longest(loggedInput(ps, a))
<1>1. Longest(db)
  BY LogItself
<1>2. ASSUME NEW r PROVE Longest(Append(db, r))
  <2>1. PICK T : db \in Seq(T)
    BY <1>1 DEF Longest, IsSeq
  <2> DEFINE U == T \cup {r}
  <2>2. db \in Seq(U) /\ r \in U
    BY <2>1
  <2> HIDE DEF U
  <2>3. Append(db, r) \in Seq(U) /\ Len(Append(db, r)) = Len(db) + 1 /\ Len(db) \in Nat
    BY <2>2, Element
  <2>4. \A i \in 1 .. Len(db) : Append(db, r)[i] = db[i]
    BY <2>2
  <2> QED
    BY <2>3, <2>4 DEF Longest, IsSeq
<1> QED
  BY <1>1, <1>2 DEF loggedInput

(* A clause of the formula is added: the place of the program, and what    *)
(* stays as it is.                                                         *)
Adds(ps, a) == pc = "parse" /\ UNCHANGED addFrame /\ ps \in Seq(Lits) /\ addClause_(ps, a)

LEMMA ParseAdds ==
    ASSUME IInv, parseClause
    PROVE  Adds(formula[next], an)
<1>1. problem.cnf \in Seq(Seq(Lits)) /\ next \in 1 .. Len(problem.cnf)
  <2>1. next \in 1 .. Len(formula) + 1 /\ next <= Len(formula) /\ problem \in Problems
    BY Shapes DEF TypeOK, ControlInv, parseClause
  <2>2. problem.cnf \in Seq(Seq(Lits))
    BY <2>1, ProblemsAssumption
  <2>3. Len(problem.cnf) \in Nat
    BY <2>2, Element
  <2> QED
    BY <2>1, <2>2, <2>3 DEF formula
<1>2. formula[next] \in Seq(Lits)
  BY <1>1, Element DEF formula
<1> QED
  BY <1>2 DEF parseClause, Adds

LEMMA AddsShape ==
    ASSUME IInv, NEW ps, NEW a, Adds(ps, a)
    PROVE  /\ viv.cr = CRef_Undef /\ prop.lit = 0 /\ settled = Len(trail) /\ done = qhead /\ qhead = Len(trail)
           /\ ~searching /\ trail_lim = <<>>
           /\ UNCHANGED <<dirty, trail_lim, qhead, prop, viv>> /\ pc = "parse"
<1>1. pc = "parse" /\ UNCHANGED <<dirty, trail_lim, qhead, prop, viv>>
  BY DEF Adds, addFrame, vivifyVars
<1>2. viv.cr = CRef_Undef
  BY <1>1, NoHand
<1>3. prop.lit = 0
  BY <1>1, NotScanning
<1>4. settled = Len(trail) /\ done = qhead
  BY <1>1, WhereNow DEF Assuming
<1>5. ~searching /\ trail_lim = <<>> /\ qhead = Len(trail)
  BY <1>1, Shapes DEF ControlInv
<1> QED
  BY <1>1, <1>2, <1>3, <1>4, <1>5

LEMMA AddQuietKernel ==
    ASSUME IInv, NEW ps, NEW a, Adds(ps, a), addSatisfied(ps, a) \/ addEmpty(ps, a)
    PROVE  KernelInv' /\ ScanInv'
<1>1. /\ viv.cr = CRef_Undef /\ prop.lit = 0 /\ pc = "parse"
      /\ UNCHANGED <<dirty, trail_lim, qhead, prop, viv>>
  BY AddsShape
<1>2. Longest(loggedInput(ps, a)) /\ Longest(db)
  BY LoggedLonger, LogItself
<1>3. \A i \in 1 .. Len(db) : db'[i] = db[i]
  <2>1. CASE addSatisfied(ps, a)
    <3>1. PICK e : db' = db \o e /\ \E T : e \in Seq(T)
      <4>1. db' = db \o <<Resolvent(a, sorted(ps), GetOrigin(a)), DeleteRecord(Len(db) + 1)>>
        BY <2>1 DEF addSatisfied
      <4>2. \A x, y : \E T : <<x, y>> \in Seq(T)
        <5> SUFFICES ASSUME NEW x, NEW y PROVE <<x, y>> \in Seq({x, y})
          OBVIOUS
        <5> QED
          OBVIOUS
      <4> QED
        BY <4>1, <4>2
    <3>2. PICK T : e \in Seq(T)
      BY <3>1
    <3>3. PICK U : db \in Seq(U)
      BY <1>2 DEF Longest, IsSeq
    <3> DEFINE V == T \cup U
    <3>4. db \in Seq(V) /\ e \in Seq(V)
      BY <3>2, <3>3
    <3> HIDE DEF V
    <3> QED
      BY <3>1, <3>4, Joined
  <2>2. CASE addEmpty(ps, a)
    <3>1. PICK r : db' = Append(loggedInput(ps, a), r)
      BY <2>2 DEF addEmpty
    <3>2. PICK T : loggedInput(ps, a) \in Seq(T)
      BY <1>2 DEF Longest, IsSeq
    <3> DEFINE d == loggedInput(ps, a)
    <3>3. Len(d) \in Nat /\ Len(d) >= Len(db) /\ \A i \in 1 .. Len(db) : d[i] = db[i]
      BY <1>2, <3>2, Element DEF Longest
    <3>4. \A i \in 1 .. Len(d) : Append(d, r)[i] = d[i]
      BY <3>2
    <3>5. Len(db) \in Nat
      BY Shapes, Element DEF Log
    <3>6. \A i \in 1 .. Len(db) : i \in 1 .. Len(d)
      BY <3>3, <3>5
    <3> QED
      BY <3>1, <3>3, <3>4, <3>6
  <2> QED
    BY <2>1, <2>2
<1>4. SameUnits(unitCids, db, db')
  BY <1>3, LogGrows
<1>5. UNCHANGED <<ca, watches, assigns, vardata, trail, unitCids>> /\ pc' \in {"parse", "unsat"}
  BY <1>1 DEF addSatisfied, addEmpty
<1>6. Quiet
  BY <1>1, <1>5 DEF Quiet, SamePlace, Resting
<1> QED
  BY <1>4, <1>6, SameStateStep

LEMMA AddUnitKernel ==
    ASSUME IInv, NEW ps, NEW a, Adds(ps, a), addUnit(ps, a)
    PROVE  KernelInv' /\ ScanInv'
<1>1. pc = "parse" /\ UNCHANGED <<dirty, trail_lim, qhead, prop, viv>>
  BY AddsShape
<1>2. ps \in Seq(Lits)
  BY DEF Adds
<1>3. ~alreadyTrue(ps) /\ Len(reduced(ps)) = 1
  BY DEF addUnit
<1>4. reduced(ps)[1] \in Lits /\ IsUndef(reduced(ps)[1])
  <2>1. 1 \in 1 .. Len(reduced(ps))
    BY <1>3
  <2> QED
    BY <1>2, <1>3, <2>1, ReducedShape
<1>5. CanEnter(reduced(ps)[1], 0, loggedInput(ps, a))
  BY <1>4, LoggedLonger DEF CanEnter
<1>6. /\ uncheckedEnqueue(reduced(ps)[1], 0, CRef_Undef, loggedInput(ps, a), inputHints(ps, a))
      /\ pc' = "clean" /\ UNCHANGED <<ca, watches>>
  BY DEF addUnit
<1>7. UnitEntered(reduced(ps)[1], loggedInput(ps, a), inputHints(ps, a))
  BY <1>1, <1>5, <1>6 DEF UnitEntered
<1> QED
  BY <1>7, UnitEnteredStep

(* A clause q joins the memory c as clause cr.                             *)
Joins(c, c2, cr, q) ==
    /\ IsSeq(c) /\ cr = Len(c2)
    /\ \E isLearnt, cid : c2 = Append(c, NewClause(q, isLearnt, cid))
    /\ q \in Seq(Lits) /\ Len(q) >= 2 /\ AllDistinct(q)

LEMMA JoinsAttach ==
    ASSUME NEW c, NEW c2, NEW cr, NEW q, Joins(c, c2, cr, q)
    PROVE  /\ Attach(c, c2, cr, CRef_Undef, CRef_Undef) /\ c2[cr].lits = q
           /\ cr = Len(c) + 1 /\ cr \notin DOMAIN c /\ \A k \in DOMAIN c : c2[k] = c[k]
           /\ DOMAIN c2 = DOMAIN c \cup {cr} /\ ~c2[cr].freed
<1>0. PICK isLearnt, cid : c2 = Append(c, NewClause(q, isLearnt, cid))
  BY DEF Joins
<1> DEFINE e == NewClause(q, isLearnt, cid)
<1>1. e.lits = q /\ e.freed = FALSE
  BY DEF NewClause
<1> HIDE DEF e
<1>2. PICK T : c \in Seq(T)
  BY DEF Joins, IsSeq
<1>3. c2 = Append(c, e) /\ cr = Len(c2)
  BY <1>0 DEF Joins, e
<1>4. /\ DOMAIN c = 1 .. Len(c) /\ Len(c) \in Nat /\ Len(c2) = Len(c) + 1 /\ DOMAIN c2 = 1 .. Len(c) + 1
      /\ c2[Len(c) + 1] = e /\ \A k \in 1 .. Len(c) : c2[k] = c[k]
  BY <1>2, <1>3
<1>5. cr = Len(c) + 1 /\ cr \notin DOMAIN c /\ DOMAIN c2 = DOMAIN c \cup {cr} /\ cr # 0
  BY <1>3, <1>4
<1>6. \A k \in DOMAIN c : c2[k] = c[k]
  BY <1>4
<1>7. c2[cr] = e
  BY <1>4, <1>5
<1>8. q \in Seq(Lits) /\ Len(q) >= 2 /\ AllDistinct(q)
  BY DEF Joins
<1>9. Attach(c, c2, cr, CRef_Undef, CRef_Undef)
  BY <1>1, <1>5, <1>6, <1>7, <1>8 DEF Attach, CRef_Undef
<1> QED
  BY <1>1, <1>5, <1>6, <1>7, <1>9

LEMMA AddLongerKernel ==
    ASSUME IInv, NEW ps, NEW a, Adds(ps, a), addLonger(ps, a)
    PROVE  KernelInv' /\ ScanInv'
<1> DEFINE q == reduced(ps)
           d == loggedInput(ps, a)
           cr == Len(ca')
<1>1. /\ pc = "parse" /\ UNCHANGED <<dirty, trail_lim, qhead, prop, viv>> /\ viv.cr = CRef_Undef
      /\ prop.lit = 0 /\ settled = Len(trail) /\ done = qhead /\ trail_lim = <<>>
  BY AddsShape
<1>2. ps \in Seq(Lits)
  BY DEF Adds
<1>3. ~alreadyTrue(ps) /\ Len(q) > 1
  BY DEF addLonger
<1>4. q \in Seq(Lits) /\ AllDistinct(q) /\ \A k \in 1 .. Len(q) : q[k] \in Lits /\ IsUndef(q[k])
  BY <1>2, <1>3, ReducedShape
<1>5. PICK r : db' = Append(d, r)
  BY DEF addLonger
<1>6. ca' = Append(ca, NewClause(q, FALSE, Len(db'))) /\ watches' = Attached(watches, cr, q)
  BY DEF addLonger
<1>7. UNCHANGED <<assigns, vardata, trail, unitCids, pc>>
  BY DEF addLonger
<1>8. Longest(d)
  BY LoggedLonger
<1> HIDE DEF q, d
<1>9. SameUnits(unitCids, db, db')
  <2>1. PICK T : d \in Seq(T)
    BY <1>8 DEF Longest, IsSeq
  <2>2. Len(d) \in Nat /\ Len(d) >= Len(db) /\ \A i \in 1 .. Len(db) : d[i] = db[i]
    BY <1>8, <2>1, Element DEF Longest
  <2>3. \A i \in 1 .. Len(d) : Append(d, r)[i] = d[i]
    BY <2>1
  <2>4. Len(db) \in Nat
    BY Shapes, Element DEF Log
  <2>5. \A i \in 1 .. Len(db) : i \in 1 .. Len(d)
    BY <2>2, <2>4
  <2>6. \A i \in 1 .. Len(db) : db'[i] = db[i]
    BY <1>5, <2>2, <2>3, <2>5
  <2> QED
    BY <2>6, LogGrows
<1>10. IsSeq(ca)
  BY Shapes DEF Clauses, IsSeq
<1>11. Len(q) \in Nat /\ Len(q) >= 2
  BY <1>3, <1>4, Element
<1> HIDE DEF cr
<1>12. Joins(ca, ca', cr, q)
  BY <1>4, <1>6, <1>10, <1>11 DEF Joins, cr
<1>13. Attach(ca, ca', cr, CRef_Undef, CRef_Undef) /\ ca'[cr].lits = q
  BY <1>12, JoinsAttach
<1>14. Watchful(ca, watches, dirty, CRef_Undef)
  BY <1>1, MemoryShape
<1>15. watches' = Attached(watches, cr, ca'[cr].lits)
  BY <1>6, <1>13
<1>16. Watchful(ca', watches', dirty, CRef_Undef)
  BY <1>13, <1>14, <1>15, WatchfulAttached
<1>17. Trailing(ca, CRef_Undef, assigns, vardata, trail, trail_lim, Len(trail), qhead, unitCids, db)
  BY <1>1, TrailShape
<1>18. ASSUME NEW j \in {1, 2}
       PROVE  Guarded(q, j, vardata, trail, trail_lim, Len(trail), qhead)
  <2>1. j \in 1 .. Len(q)
    BY <1>11
  <2>2. q[j] \in Lits /\ IsUndef(q[j])
    BY <1>4, <2>1
  <2>3. assigns[Var(q[j])] # -q[j]
    BY <2>2, LitFacts DEF IsUndef
  <2>4. Assigned(assigns, trail) /\ trail \in Seq(Lits) /\ qhead \in Nat /\ qhead <= Len(trail)
    BY TrailShape, Shapes
  <2> QED
    BY <2>2, <2>3, <2>4, NotFalseGuards
<1>19. TwoGuards(ca'[cr].lits, vardata, trail, trail_lim, Len(trail), qhead)
  BY <1>13, <1>18 DEF TwoGuards
<1>20. Trailing(ca', CRef_Undef, assigns, vardata, trail, trail_lim, Len(trail), qhead, unitCids, db)
  BY <1>13, <1>17, <1>19, TrailingAttached
<1>21. Trailing(ca', CRef_Undef, assigns, vardata, trail, trail_lim, Len(trail), qhead, unitCids, db')
  BY <1>9, <1>20, TrailingLog
<1>22. settled' = Len(trail') /\ done' = qhead'
  BY <1>1, <1>7, WhereNext DEF Assuming
<1>23. KernelInv'
  BY <1>1, <1>7, <1>16, <1>21, <1>22 DEF KernelInv
<1>24. ScanInv'
  BY <1>1, ScanEnds
<1> QED
  BY <1>23, <1>24

LEMMA ParseKernel ==
    ASSUME IInv, parseClause
    PROVE  KernelInv' /\ ScanInv'
<1>1. Adds(formula[next], an)
  BY ParseAdds
<1> HIDE DEF parseClause
<1>2. addClause_(formula[next], an)
  BY <1>1 DEF Adds
<1> QED
  BY <1>1, <1>2, AddQuietKernel, AddUnitKernel, AddLongerKernel DEF addClause_

-----------------------------------------------------------------------------
(* analyze and litRedundant put the implied literal of a binary clause     *)
(* first.                                                                  *)
FirstPut(cr, c2, q) ==
    /\ cr \in DOMAIN ca /\ c2 = [ca EXCEPT ![cr].lits = q]
    /\ q = ca[cr].lits \/ (Len(ca[cr].lits) = 2 /\ q = SwapAt(ca[cr].lits, 1, 2))

LEMMA FirstPutExchanged ==
    ASSUME IInv, NEW cr, NEW c2, NEW q, FirstPut(cr, c2, q)
    PROVE  Exchanged(ca, c2, cr, q, assigns)
<1>1. cr \in DOMAIN ca /\ c2 = [ca EXCEPT ![cr].lits = q]
  BY DEF FirstPut
<1>2. ca \in Clauses(db) /\ ca[cr].lits \in Seq(Lits)
  BY <1>1, Shapes, MemoryShape DEF HasLits
<1>3. db \in Log
  BY Shapes
<1>4. Changed(ca, c2, cr, q, ca[cr].cid)
  BY <1>1, <1>2, <1>3, ExceptLits
<1>5. DOMAIN c2 = DOMAIN ca /\ \A k \in DOMAIN ca : k # cr => c2[k] = ca[k]
  BY <1>4 DEF Changed
<1>6. c2[cr].lits = q /\ c2[cr].freed = ca[cr].freed
  BY <1>4 DEF Changed
<1> DEFINE old == ca[cr].lits
<1>7. q = old \/ (Len(old) = 2 /\ q = SwapAt(old, 1, 2))
  BY DEF FirstPut
<1>8. old \in Seq(Lits)
  BY <1>2
<1> HIDE DEF old
<1>9. CASE q = old
  <2>1. Exchanged(ca, c2, cr, q, assigns)
    BY <1>1, <1>5, <1>6, <1>8, <1>9 DEF Exchanged, old
  <2> QED
    BY <2>1
<1>10. CASE Len(old) = 2 /\ q = SwapAt(old, 1, 2)
  <2>1. CanSwap(Lits, old, 1, 2)
    BY <1>8, <1>10 DEF CanSwap
  <2>2. Swapped(Lits, old, 1, 2, q)
    BY <1>10, <2>1, SwapFacts
  <2>3. /\ q \in Seq(Lits) /\ Len(q) = Len(old) /\ ToSet(q) = ToSet(old)
        /\ AllDistinct(old) => AllDistinct(q)
        /\ \A k \in 1 .. Len(old) : q[k] = IF k = 2 THEN old[1] ELSE IF k = 1 THEN old[2] ELSE old[k]
    BY <2>2 DEF Swapped
  <2>4. q[1] = old[2] /\ q[2] = old[1]
    <3>1. 1 \in 1 .. Len(old) /\ 2 \in 1 .. Len(old)
      BY <1>10
    <3> QED
      BY <2>3, <3>1
  <2> QED
    BY <1>1, <1>5, <1>6, <1>10, <2>3, <2>4 DEF Exchanged, old
<1> QED
  BY <1>7, <1>9, <1>10

FirstPutStep(cr, q) ==
    /\ FirstPut(cr, ca', q)
    /\ UNCHANGED <<watches, dirty, assigns, vardata, trail, trail_lim, unitCids, db>>
    /\ viv'.cr = viv.cr /\ pc \in Analyzing /\ pc' \in Analyzing
    /\ prop'.lit = 0 /\ ana'.nDecisionLevel = ana.nDecisionLevel

LEMMA FirstPutKernel ==
    ASSUME IInv, NEW cr, NEW q, FirstPutStep(cr, q)
    PROVE  KernelInv' /\ ScanInv'
<1>1. Exchanged(ca, ca', cr, q, assigns)
  BY FirstPutExchanged DEF FirstPutStep
<1>2. Reordered(ca, ca')
  BY <1>1, MemoryShape, ExchangedReordered
<1>3. Watchful(ca', watches, dirty, viv.cr)
  BY <1>2, MemoryShape, WatchfulReordered
<1>4. Trailing(ca', viv.cr, assigns, vardata, trail, trail_lim, settled, done, unitCids, db)
  BY <1>1, TrailShape, TrailingExchanged
<1>5. settled' = settled /\ done' = done
  BY WhereNow, WhereNext DEF FirstPutStep, Analyzing, Assuming
<1>6. KernelInv'
  BY <1>3, <1>4, <1>5 DEF KernelInv, FirstPutStep
<1>7. ScanInv'
  BY ScanEnds DEF FirstPutStep, Analyzing
<1> QED
  BY <1>6, <1>7

(* ImpliedFirst does just that.                                            *)
LEMMA ImpliedFirstPut ==
    ASSUME NEW q
    PROVE  ImpliedFirst(q) = q \/ (Len(q) = 2 /\ ImpliedFirst(q) = SwapAt(q, 1, 2))
BY DEF ImpliedFirst

(* One resolution of analyze, its parts named: the clause c, its literals  *)
(* not marked before, those of the level of the conflict, those of lower   *)
(* levels, what is marked then, and the place of the next literal.         *)
ResClause == IF ana.p = 0 THEN conflLits ELSE ImpliedFirst(conflLits)
ResFresh == Unseen(ResClause, IF ana.p = 0 THEN 1 ELSE 2)
ResHere == Selected(ResFresh, LAMBDA l : level(l) >= ana.nDecisionLevel)
ResLower == Selected(AboveLevelZero(ResFresh), LAMBDA l : level(l) < ana.nDecisionLevel)
ResMarked == seen \cup VarsOf(ResFresh)
ResPlaces == {k \in 1 .. ana.index :
                /\ Var(trail[k]) \in ResMarked
                /\ level(trail[k]) >= ana.nDecisionLevel}
ResNext == Max(ResPlaces)
ResPathC == ana.pathC + Len(ResHere) - 1
ResOut == learnt \o ResLower
ResCleared == ana.toclear \o AtLevelZero(ResFresh)
ResGoesOn ==
    /\ confl' = reason(trail[ResNext]) /\ learnt' = ResOut /\ pc' = pc
    /\ ana' = [ana EXCEPT !.p = trail[ResNext], !.index = ResNext - 1,
                          !.pathC = ResPathC, !.toclear = ResCleared]
ResStops ==
    /\ confl' = CRef_Undef /\ learnt' = [ResOut EXCEPT ![1] = -trail[ResNext]] /\ pc' = "minimize"
    /\ ana' = [NoAnalysis EXCEPT
                 !.toclear = ResCleared \o learnt',
                 !.nDecisionLevel = ana.nDecisionLevel,
                 !.levels = {level(l) % 32 : l \in ToSet(ResLower) \cup
                               ToSet(SubSeq(learnt, 2, Len(learnt)))},
                 !.i = 2, !.kept = <<-trail[ResNext]>>]

LEMMA ResolveParts ==
    ASSUME analyzeResolve
    PROVE  /\ pc = "analyze" /\ ca' = [ca EXCEPT ![confl].lits = ResClause]
           /\ an' = AddResolved(ResClause, ResFresh, ca[confl].cid)
           /\ seen' = ResMarked \ {Var(trail[ResNext])}
           /\ IF ResPathC > 0 THEN ResGoesOn ELSE ResStops
           /\ UNCHANGED <<watches, dirty, trailVars, ok, db, unitCids, prop, searching, conflicts>>
<1>1. /\ pc = "analyze" /\ ca' = [ca EXCEPT ![confl].lits = ResClause]
      /\ UNCHANGED <<watches, dirty, trailVars, ok, db, unitCids, prop, searching, conflicts>>
  BY DEF analyzeResolve, ResClause
<1>2. an' = AddResolved(ResClause, ResFresh, ca[confl].cid)
  BY DEF analyzeResolve, ResClause, ResFresh
<1>3. seen' = ResMarked \ {Var(trail[ResNext])}
  BY DEF analyzeResolve, ResClause, ResFresh, ResMarked, ResNext, ResPlaces
<1>4. IF ResPathC > 0 THEN ResGoesOn ELSE ResStops
  BY DEF analyzeResolve, ResClause, ResFresh, ResMarked, ResNext, ResPlaces, ResPathC, ResHere, ResOut,
         ResLower, ResCleared, ResGoesOn, ResStops
<1> QED
  BY <1>1, <1>2, <1>3, <1>4

LEMMA AnalyzeResolveKernel ==
    ASSUME IInv, analyzeResolve, UNCHANGED vivifyVars
    PROVE  KernelInv' /\ ScanInv'
<1>1. PICK q : /\ ca' = [ca EXCEPT ![confl].lits = q]
               /\ q = ca[confl].lits \/ (Len(ca[confl].lits) = 2 /\ q = SwapAt(ca[confl].lits, 1, 2))
  <2>1. ca' = [ca EXCEPT ![confl].lits = ResClause]
    BY ResolveParts
  <2> QED
    BY <2>1, ImpliedFirstPut DEF conflLits, ResClause
<1>2. pc = "analyze" /\ confl \in DOMAIN ca
  BY Shapes, ResolveParts DEF AnalysisInv, ResolveInv, Usable
<1>3. FirstPut(confl, ca', q)
  BY <1>1, <1>2 DEF FirstPut
<1>4. prop.lit = 0
  BY <1>2, NotScanning
<1>5. UNCHANGED <<watches, dirty, assigns, vardata, trail, trail_lim, unitCids, db, prop>> /\ viv' = viv
  BY ResolveParts DEF trailVars, vivifyVars
<1>6. pc' \in {"analyze", "minimize"}
  BY <1>2, ResolveParts DEF ResGoesOn, ResStops
<1>7. ana'.nDecisionLevel = ana.nDecisionLevel
  <2>1. ana \in [p : Lits \cup {0}, index : Nat, pathC : Nat, nDecisionLevel : Nat, toclear : LitSeq,
                 levels : SUBSET Nat, i : Nat, kept : LitSeq, stack : LitSeq, top : Nat, btlevel : Nat]
    BY Shapes DEF AnalysisInv, AnaTypes
  <2>2. CASE ResGoesOn
    BY <2>1, <2>2 DEF ResGoesOn
  <2>3. CASE ResStops
    BY <2>1, <2>3 DEF ResStops, NoAnalysis
  <2> QED
    BY <2>2, <2>3, ResolveParts
<1>8. FirstPutStep(confl, q)
  BY <1>2, <1>3, <1>4, <1>5, <1>6, <1>7 DEF FirstPutStep, Analyzing
<1> QED
  BY <1>8, FirstPutKernel

(* The reason of the literal on top of the stack.                          *)
LEMMA RedundantShape ==
    ASSUME IInv, pc = "litRedundant", ana.stack # <<>>
    PROVE  /\ redundantCRef \in DOMAIN ca /\ redundantCRef # CRef_Undef
           /\ Last(ana.stack) \in Lits /\ IsFalse(Last(ana.stack))
           /\ Len(ana.stack) \in Nat /\ Len(ana.stack) >= 1 /\ ana.stack \in Seq(Lits)
<1>1. ana.stack \in Seq(Lits)
  BY Shapes DEF AnalysisInv, AnaTypes, LitSeq
<1>2. Len(ana.stack) \in Nat /\ Len(ana.stack) >= 1
  BY <1>1
<1>3. Last(ana.stack) \in ToSet(ana.stack) /\ Last(ana.stack) \in Lits
  <2>1. Len(ana.stack) \in 1 .. Len(ana.stack)
    BY <1>2
  <2> QED
    BY <1>1, <2>1, Element DEF Last
<1>4. reason(Last(ana.stack)) # CRef_Undef /\ IsFalse(Last(ana.stack))
  BY <1>3, Shapes DEF AnalysisInv, RedundantInv
<1>5. Var(Last(ana.stack)) \in Vars
  BY <1>3, LitFacts
<1>6. redundantCRef \in DOMAIN ca
  BY <1>4, <1>5, Shapes DEF redundantCRef, reason
<1> QED
  BY <1>1, <1>2, <1>3, <1>4, <1>6 DEF redundantCRef

LEMMA LitRedundantKernel ==
    ASSUME IInv, litRedundantStep \/ litRedundantFalse, UNCHANGED vivifyVars
    PROVE  KernelInv' /\ ScanInv'
<1>1. pc = "litRedundant" /\ ana.stack # <<>> /\ StoreRedundant
  BY DEF litRedundantStep, litRedundantFalse
<1>2. ca' = [ca EXCEPT ![redundantCRef].lits = redundantLits]
  BY <1>1 DEF StoreRedundant
<1>3. FirstPut(redundantCRef, ca', redundantLits)
  BY <1>1, <1>2, RedundantShape, ImpliedFirstPut DEF FirstPut, redundantLits
<1>4. prop.lit = 0
  BY <1>1, NotScanning
<1>5. UNCHANGED <<watches, dirty, assigns, vardata, trail, trail_lim, unitCids, db, prop>> /\ viv' = viv
  BY DEF litRedundantStep, litRedundantFalse, minimizeFrame, trailVars, vivifyVars
<1>6. pc' \in {"litRedundant", "minimize"}
  BY <1>1 DEF litRedundantStep, litRedundantFalse
<1>7. ana'.nDecisionLevel = ana.nDecisionLevel
  <2>1. ana \in [p : Lits \cup {0}, index : Nat, pathC : Nat, nDecisionLevel : Nat, toclear : LitSeq,
                 levels : SUBSET Nat, i : Nat, kept : LitSeq, stack : LitSeq, top : Nat, btlevel : Nat]
    BY Shapes DEF AnalysisInv, AnaTypes
  <2>2. CASE litRedundantStep
    BY <2>1, <2>2 DEF litRedundantStep
  <2>3. CASE litRedundantFalse
    BY <2>1, <2>3 DEF litRedundantFalse
  <2> QED
    BY <2>2, <2>3
<1>8. FirstPutStep(redundantCRef, redundantLits)
  BY <1>1, <1>3, <1>4, <1>5, <1>6, <1>7 DEF FirstPutStep, Analyzing
<1> QED
  BY <1>8, FirstPutKernel

-----------------------------------------------------------------------------
(* The learnt clause: its second literal is watched at the places of the   *)
(* level at which the first one is implied, and becomes true.              *)
LearnsClause == learnClause /\ UNCHANGED vivifyVars

LEMMA LearnShape ==
    ASSUME IInv, pc = "learn", Len(learnt) > 1
    PROVE  /\ learnt \in Seq(Lits) /\ AllDistinct(learnt) /\ Len(learnt) \in Nat /\ Len(learnt) >= 2
           /\ learnt[1] \in Lits /\ learnt[2] \in Lits /\ IsUndef(learnt[1]) /\ IsFalse(learnt[2])
           /\ AllButFirst(learnt) /\ \A k \in 2 .. Len(learnt) : Lv(vardata, learnt[k]) <= ana.btlevel
           /\ ana.btlevel \in Nat /\ ana.btlevel >= 1 /\ Lv(vardata, learnt[2]) = ana.btlevel
           /\ Implies(learnt, assigns, vardata, learnt[1], ana.btlevel)
           /\ Within(trail_lim, ana.btlevel, Len(trail) + 1)
           /\ viv.cr = CRef_Undef /\ settled = Len(trail) /\ done = qhead
<1>1. LearnInv /\ AnaTypes /\ searching
  BY Shapes DEF AnalysisInv, ControlInv
<1>2. learnt \in Seq(Lits) /\ AllDistinct(learnt) /\ IsUndef(learnt[1])
  BY <1>1 DEF LearnInv, LitSeq
<1>3. Len(learnt) \in Nat /\ Len(learnt) >= 2 /\ 2 \in 2 .. Len(learnt) /\ 1 \in 1 .. Len(learnt) /\ 2 \in 1 .. Len(learnt)
  BY <1>2, Element
<1>4. learnt[1] \in Lits /\ learnt[2] \in Lits
  BY <1>2, <1>3, Element
<1>5. /\ \A k \in 2 .. Len(learnt) : IsFalse(learnt[k]) /\ level(learnt[k]) \in 1 .. ana.btlevel
      /\ ana.btlevel = IF Len(learnt) = 1 THEN 0 ELSE level(learnt[2])
  BY <1>1 DEF LearnInv
<1>6. ana.btlevel \in Nat
  BY <1>1 DEF AnaTypes
<1>7. ana.btlevel = Lv(vardata, learnt[2])
  <2>1. \A n \in Nat : n >= 2 => n # 1
    OBVIOUS
  <2>2. Len(learnt) # 1
    BY <1>3, <2>1
  <2> QED
    BY <1>5, <2>2 DEF level, Lv
<1>8. IsFalse(learnt[2]) /\ level(learnt[2]) \in 1 .. ana.btlevel
  BY <1>3, <1>5
<1>9. \A k \in 2 .. Len(learnt) : Lv(vardata, learnt[k]) <= ana.btlevel
  <2> SUFFICES ASSUME NEW k \in 2 .. Len(learnt) PROVE Lv(vardata, learnt[k]) <= ana.btlevel
    OBVIOUS
  <2>1. level(learnt[k]) \in 1 .. ana.btlevel
    BY <1>5
  <2> QED
    BY <1>6, <2>1 DEF level, Lv
<1>10. AllButFirst(learnt)
  BY <1>5 DEF AllButFirst
<1>11. Implies(learnt, assigns, vardata, learnt[1], ana.btlevel)
  <2>1. \E k \in 2 .. Len(learnt) : Lv(vardata, learnt[k]) = ana.btlevel
    BY <1>3, <1>7
  <2> QED
    BY <1>2, <1>3, <1>6, <1>9, <1>10, <2>1, FirstImplied
<1>12. Within(trail_lim, ana.btlevel, Len(trail) + 1)
  BY <1>4, <1>7, <1>8, AssignedLevel DEF Assuming
<1>13. viv.cr = CRef_Undef
  BY <1>1, NoHand
<1>14. settled = Len(trail) /\ done = qhead
  BY WhereNow DEF Assuming
<1>15. ana.btlevel >= 1
  BY <1>6, <1>8
<1> QED
  BY <1>2, <1>3, <1>4, <1>6, <1>7, <1>8, <1>9, <1>10, <1>11, <1>12, <1>13, <1>14, <1>15

(* What learnClause does, its parts named.                                 *)
LEMMA LearnParts ==
    ASSUME IInv, LearnsClause, NEW cr, cr = Len(ca')
    PROVE  /\ pc = "learn" /\ Len(learnt) > 1 /\ Joins(ca, ca', cr, learnt) /\ cr # CRef_Undef
           /\ watches' = Attached(watches, cr, learnt)
           /\ \E d : /\ Longest(d)
                     /\ uncheckedEnqueue(learnt[1], ana.btlevel, cr, d, NoHints)
           /\ UNCHANGED <<dirty, trail_lim, qhead, prop, viv>> /\ pc' = "clean"
<1>1. pc = "learn" /\ Len(learnt) > 1 /\ pc' = "clean" /\ UNCHANGED <<dirty, trail_lim, qhead, prop, viv>>
  BY DEF LearnsClause, learnClause, learnFrame, vivifyVars
<1>2. IsSeq(ca) /\ Len(ca) \in Nat
  BY Shapes DEF Clauses, IsSeq
<1>3. ca' = Append(ca, NewClause(learnt, TRUE, Len(db) + 1))
  BY DEF LearnsClause, learnClause
<1>4. cr = Len(ca) + 1
  BY <1>2, <1>3 DEF IsSeq
<1>5. watches' = Attached(watches, cr, learnt)
  BY <1>4 DEF LearnsClause, learnClause
<1>6. PICK r : uncheckedEnqueue(learnt[1], ana.btlevel, cr, Append(db, r), NoHints)
  BY <1>4 DEF LearnsClause, learnClause
<1>7. Longest(Append(db, r))
  <2>1. PICK T : db \in Seq(T)
    BY LogItself DEF Longest, IsSeq
  <2> DEFINE U == T \cup {r}
  <2>2. db \in Seq(U) /\ r \in U
    BY <2>1
  <2> HIDE DEF U
  <2>3. Append(db, r) \in Seq(U) /\ Len(Append(db, r)) = Len(db) + 1 /\ Len(db) \in Nat
    BY <2>2, Element
  <2>4. \A i \in 1 .. Len(db) : Append(db, r)[i] = db[i]
    BY <2>2
  <2> QED
    BY <2>3, <2>4 DEF Longest, IsSeq
<1>8. Joins(ca, ca', cr, learnt)
  BY <1>1, <1>2, <1>3, LearnShape DEF Joins
<1>9. cr # CRef_Undef
  BY <1>2, <1>4 DEF CRef_Undef
<1> QED
  BY <1>1, <1>5, <1>6, <1>7, <1>8, <1>9

LEMMA LearnClauseKernel ==
    ASSUME IInv, LearnsClause
    PROVE  KernelInv' /\ ScanInv'
<1> DEFINE cr == Len(ca')
           p == learnt[1]
           lv == ana.btlevel
<1>1. /\ pc = "learn" /\ Len(learnt) > 1 /\ Joins(ca, ca', cr, learnt) /\ cr # CRef_Undef
      /\ watches' = Attached(watches, cr, learnt)
      /\ UNCHANGED <<dirty, trail_lim, qhead, prop, viv>> /\ pc' = "clean"
  BY LearnParts
<1>2. PICK d : Longest(d) /\ uncheckedEnqueue(p, lv, cr, d, NoHints)
  BY LearnParts
<1>3. /\ learnt \in Seq(Lits) /\ AllDistinct(learnt) /\ Len(learnt) \in Nat /\ Len(learnt) >= 2
      /\ p \in Lits /\ learnt[2] \in Lits /\ IsUndef(p) /\ IsFalse(learnt[2])
      /\ lv \in Nat /\ lv >= 1 /\ Lv(vardata, learnt[2]) = lv
      /\ Implies(learnt, assigns, vardata, p, lv) /\ Within(trail_lim, lv, Len(trail) + 1)
      /\ viv.cr = CRef_Undef /\ settled = Len(trail) /\ done = qhead
  BY <1>1, LearnShape
<1>4. prop.lit = 0 /\ viv'.cr = CRef_Undef
  BY <1>1, <1>3, NotScanning
<1> HIDE DEF cr, p, lv
<1>5. /\ Attach(ca, ca', cr, CRef_Undef, CRef_Undef) /\ ca'[cr].lits = learnt /\ ~ca'[cr].freed
      /\ cr \notin DOMAIN ca /\ \A k \in DOMAIN ca : ca'[k] = ca[k]
      /\ DOMAIN ca' = DOMAIN ca \cup {cr}
  BY <1>1, JoinsAttach
<1>6. Watchful(ca', watches', dirty, CRef_Undef)
  <2>1. Watchful(ca, watches, dirty, CRef_Undef)
    BY <1>3, MemoryShape
  <2>2. watches' = Attached(watches, cr, ca'[cr].lits)
    BY <1>1, <1>5
  <2> QED
    BY <1>5, <2>1, <2>2, WatchfulAttached
<1>7. /\ Trailing(ca, CRef_Undef, assigns, vardata, trail, trail_lim, Len(trail), qhead, unitCids, db)
      /\ Complete(ca, vardata, trail, trail_lim, CRef_Undef, Len(trail), qhead)
      /\ Levels(vardata, trail, trail_lim, Len(trail)) /\ Assigned(assigns, trail)
      /\ trail \in Seq(Lits) /\ trail_lim \in Seq(Nat) /\ Len(trail) \in Nat
  BY <1>3, TrailShape
<1>8. qhead \in Nat /\ qhead <= Len(trail)
  BY Shapes
<1>9. Trailing(ca', CRef_Undef, assigns, vardata, trail, trail_lim, Len(trail), 0, unitCids, db)
  <2>1. Trailing(ca, CRef_Undef, assigns, vardata, trail, trail_lim, Len(trail), 0, unitCids, db)
    <3>1. 0 <= qhead /\ 0 \in Nat
      BY <1>8
    <3> QED
      BY <1>7, <3>1, TrailingLess
  <2>2. TwoGuards(ca'[cr].lits, vardata, trail, trail_lim, Len(trail), 0)
    BY DEF TwoGuards, Guarded
  <2> QED
    BY <1>5, <2>1, <2>2, TrailingAttached
<1>10. CanEnter(p, lv, d)
  BY <1>2, <1>3 DEF CanEnter
<1>11. CanEnqueue(ca', CRef_Undef, assigns, vardata, trail, trail_lim, p, cr, lv)
  BY <1>1, <1>3, <1>5 DEF CanEnqueue
<1>12. /\ Trailing(ca', CRef_Undef, assigns', vardata', trail', trail_lim, Len(trail'), 0, unitCids', db')
       /\ Extension(vardata, trail, p, cr, lv, assigns', vardata', trail')
  <2>1. /\ Trailing(ca', viv.cr, assigns, vardata, trail, trail_lim, Len(trail), 0, unitCids, db)
        /\ CanEnqueue(ca', viv.cr, assigns, vardata, trail, trail_lim, p, cr, lv)
    BY <1>3, <1>9, <1>11
  <2> QED
    BY <1>2, <1>3, <1>10, <2>1, EnqueueOn
<1>13. /\ Agree(vardata, vardata', trail, trail', Len(trail)) /\ Len(trail') = Len(trail) + 1
       /\ \A i \in 1 .. Len(trail) : trail'[i] = trail[i] /\ Var(trail[i]) # Var(p)
       /\ trail'[Len(trail) + 1] = p /\ Lv(vardata', p) = lv
  BY <1>12 DEF Extension
<1>14. Complete(ca, vardata', trail', trail_lim, CRef_Undef, Len(trail'), qhead)
  <2>1. Len(trail') \in Nat /\ Len(trail) <= Len(trail')
    BY <1>7, <1>13
  <2> QED
    BY <1>7, <1>8, <1>13, <2>1, CompleteFrame
<1>15. Guarded(learnt, 1, vardata', trail', trail_lim, Len(trail'), qhead)
  <2> SUFFICES ASSUME NEW i \in 1 .. qhead, trail'[i] = -learnt[1] PROVE FALSE
    BY DEF Guarded
  <2>1. i \in 1 .. Len(trail)
    BY <1>7, <1>8
  <2>2. trail[i] = -p /\ Var(trail[i]) # Var(p)
    BY <1>13, <2>1 DEF p
  <2> QED
    BY <1>3, <2>2, LitFacts
<1>16. Guarded(learnt, 2, vardata', trail', trail_lim, Len(trail'), qhead)
  <2> SUFFICES ASSUME NEW i \in 1 .. qhead, trail'[i] = -learnt[2]
               PROVE  Covered(learnt, vardata', trail', trail_lim, Len(trail'), i)
    BY DEF Guarded
  <2>1. i \in 1 .. Len(trail)
    BY <1>7, <1>8
  <2>2. trail[i] = -learnt[2]
    BY <1>13, <2>1
  <2>3. Var(-learnt[2]) = Var(learnt[2])
    BY <1>3, LitFacts
  <2>4. Lv(vardata, trail[i]) = lv
    BY <1>3, <2>2, <2>3 DEF Lv
  <2>5. Within(trail_lim, lv, i)
    BY <1>7, <2>1, <2>4 DEF Levels
  <2>6. p \in ToSet(learnt)
    <3>1. 1 \in 1 .. Len(learnt)
      BY <1>3
    <3> QED
      BY <1>3, <3>1, Element DEF p
  <2>7. OnTrail(trail', p, Len(trail'))
    <3>1. Len(trail) + 1 \in 1 .. Len(trail')
      BY <1>7, <1>13
    <3> QED
      BY <1>13, <3>1 DEF OnTrail
  <2> QED
    BY <1>13, <2>5, <2>6, <2>7 DEF Covered
<1>17. KeepsComplete(ca, ca', vardata', trail', trail_lim, CRef_Undef, CRef_Undef, Len(trail'), qhead)
  <2> SUFFICES ASSUME NEW k \in DOMAIN ca', ~ca'[k].freed, k # CRef_Undef, NEW j \in {1, 2}
               PROVE  \/ Guarded(ca'[k].lits, j, vardata', trail', trail_lim, Len(trail'), qhead)
                      \/ /\ k \in DOMAIN ca /\ ~ca[k].freed /\ k # CRef_Undef
                         /\ ToSet(ca'[k].lits) = ToSet(ca[k].lits)
                         /\ \E m \in {1, 2} : ca'[k].lits[j] = ca[k].lits[m]
    BY DEF KeepsComplete
  <2>1. CASE k = cr
    BY <1>5, <1>15, <1>16, <2>1
  <2>2. CASE k # cr
    <3>1. k \in DOMAIN ca /\ ca'[k] = ca[k]
      BY <1>5, <2>2
    <3> QED
      BY <3>1
  <2> QED
    BY <2>1, <2>2
<1>18. Complete(ca', vardata', trail', trail_lim, CRef_Undef, Len(trail'), qhead)
  BY <1>14, <1>17, CompleteKept
<1>19. Trailing(ca', CRef_Undef, assigns', vardata', trail', trail_lim, Len(trail'), qhead, unitCids', db')
  <2>1. qhead <= Len(trail')
    BY <1>7, <1>8, <1>13
  <2> QED
    BY <1>8, <1>12, <1>18, <2>1, TrailingRaise
<1>20. settled' = Len(trail') /\ done' = qhead'
  BY <1>1, WhereNext DEF Assuming
<1>21. KernelInv'
  BY <1>1, <1>4, <1>6, <1>19, <1>20 DEF KernelInv
<1>22. ScanInv'
  <2>1. prop'.lit = 0
    BY <1>1, <1>4
  <2>2. trail_lim # <<>> => trail_lim[Len(trail_lim)] <= done
    BY <1>1, Shapes DEF ScanInv, Analyzing
  <2>3. trail_lim' # <<>> => trail_lim'[Len(trail_lim')] <= done'
    BY <1>1, <1>3, <1>20, <2>2
  <2> QED
    BY <2>1, <2>3, ScanEnds
<1> QED
  BY <1>21, <1>22

-----------------------------------------------------------------------------
(* Vivification.                                                           *)
LEMMA TwoRecords ==
    ASSUME IInv, NEW x, NEW y, db' = db \o <<x, y>>
    PROVE  SameUnits(unitCids, db, db')
<1>1. PICK T : db \in Seq(T)
  BY LogItself DEF Longest, IsSeq
<1> DEFINE U == T \cup {x, y}
<1>2. db \in Seq(U) /\ <<x, y>> \in Seq(U)
  BY <1>1
<1> HIDE DEF U
<1>3. \A i \in 1 .. Len(db) : db'[i] = db[i]
  BY <1>2, Joined
<1> QED
  BY <1>3, LogGrows

(* The clause in hand.                                                     *)
LEMMA HandShape ==
    ASSUME IInv, viv.cr # CRef_Undef
    PROVE  /\ viv.cr \in DOMAIN ca /\ vivLits \in Seq(Lits) /\ AllDistinct(vivLits) /\ ~ca[viv.cr].freed
           /\ Len(vivLits) \in Nat /\ DOMAIN vivLits = 1 .. Len(vivLits) /\ ~searching /\ viv.on
           /\ NoReason(vardata, trail, viv.cr)
<1>1. viv.cr \in DOMAIN ca
  BY Shapes
<1>2. vivLits \in Seq(Lits) /\ AllDistinct(vivLits)
  BY <1>1, MemoryShape DEF HasLits, Memory, vivLits
<1>3. viv.on /\ ~ca[viv.cr].freed
  BY Shapes DEF HandInv
<1>4. ~searching
  BY <1>3, Shapes DEF ControlInv
<1>5. NoReason(vardata, trail, viv.cr)
  BY TrailShape
<1> QED
  BY <1>1, <1>2, <1>3, <1>4, <1>5, Element

(* The literal of it that is looked at.                                    *)
LEMMA LiteralShape ==
    ASSUME IInv, NextLiteral
    PROVE  /\ pc = "simplifyLearnt" /\ viv.cr # CRef_Undef /\ vivLit \in Lits /\ vivLit \in ToSet(vivLits)
           /\ viv.i \in 1 .. Len(vivLits) /\ prop.lit = 0
           /\ settled = viv.trailRecord /\ done = viv.trailRecord
<1>1. pc = "simplifyLearnt" /\ viv.i <= Len(vivLits)
  BY DEF NextLiteral
<1>2. viv.cr # CRef_Undef
  BY <1>1, Shapes DEF HandInv, Vivifying, Assuming
<1>3. viv.i \in 1 .. Len(vivLits) + 1
  BY <1>1, Shapes DEF VivInv, Assuming
<1>4. vivLits \in Seq(Lits) /\ Len(vivLits) \in Nat
  BY <1>2, HandShape
<1>5. viv.i \in 1 .. Len(vivLits)
  BY <1>1, <1>3, <1>4
<1>6. vivLit \in Lits /\ vivLit \in ToSet(vivLits)
  BY <1>4, <1>5, Element DEF vivLit
<1> QED
  BY <1>1, <1>2, <1>5, <1>6, NotScanning, WhereNow DEF Assuming

LEMMA AssumeFalseKernel ==
    ASSUME IInv, assumeFalse
    PROVE  KernelInv' /\ ScanInv'
<1>1. NextLiteral /\ IsUndef(vivLit) /\ simpleUncheckEnqueue(-vivLit, CRef_Undef) /\ cleanAll
  BY DEF assumeFalse
<1>2. UNCHANGED <<ca, trail_lim, qhead, prop>> /\ pc' = "simplePropagate"
  BY DEF assumeFalse
<1>3. viv'.cr = viv.cr /\ viv'.trailRecord = viv.trailRecord
  <2>1. viv' = [viv EXCEPT !.kept = Append(@, vivLit), !.i = @ + 1]
    BY DEF assumeFalse
  <2> QED
    BY <2>1, VivShape
<1>4. /\ pc = "simplifyLearnt" /\ viv.cr # CRef_Undef /\ vivLit \in Lits /\ prop.lit = 0
      /\ settled = viv.trailRecord /\ done = viv.trailRecord
  BY <1>1, LiteralShape
<1>5. -vivLit \in Lits /\ IsUndef(-vivLit)
  <2>1. Var(-vivLit) = Var(vivLit)
    BY <1>4, LitFacts
  <2> QED
    BY <1>1, <1>4, <2>1, LitFacts DEF IsUndef
<1>6. Trailing(ca, viv.cr, assigns', vardata', trail', trail_lim, settled, done, unitCids', db')
  <2>1. Trailing(ca, viv.cr, assigns, vardata, trail, trail_lim, settled, done, unitCids, db)
    BY TrailShape
  <2>2. pc \in Assuming
    BY <1>4 DEF Assuming
  <2>3. CRef_Undef # viv.cr
    BY <1>4
  <2> QED
    BY <1>1, <1>5, <2>1, <2>2, <2>3, AssumeOn
<1>7. Watchful(ca, watches', dirty', viv.cr)
  BY <1>1, CleanFacts
<1>8. settled' = settled /\ done' = done
  BY <1>2, <1>3, <1>4, WhereNext DEF Assuming
<1>9. KernelInv'
  BY <1>2, <1>3, <1>6, <1>7, <1>8 DEF KernelInv
<1>10. ScanInv'
  <2>1. trail_lim # <<>> => trail_lim[Len(trail_lim)] <= done
    BY <1>4, Shapes DEF ScanInv, Analyzing
  <2> QED
    BY <1>2, <1>4, <1>8, <2>1, ScanEnds
<1> QED
  BY <1>9, <1>10

(* A clause that is attached again.                                        *)
LEMMA SimplifiedAttachKernel ==
    ASSUME IInv, simplifiedAttach
    PROVE  KernelInv' /\ ScanInv'
<1> DEFINE cr == viv.cr
<1>1. /\ pc = "simplified" /\ Len(vivLits) > 1 /\ watches' = Attached(watches, viv.cr, vivLits)
      /\ ca' = [ca EXCEPT ![viv.cr].simplified = TRUE] /\ viv' = [NotVivifying EXCEPT !.on = TRUE]
      /\ pc' = "propagate" /\ UNCHANGED <<dirty, assigns, vardata, trail, trail_lim, qhead, unitCids, db, prop>>
  BY DEF simplifiedAttach, trailVars, tracerVars
<1>2. viv.cr # CRef_Undef
  BY <1>1, Shapes DEF HandInv, Vivifying
<1>3. viv'.cr = CRef_Undef
  BY <1>1 DEF NotVivifying
<1>4. /\ cr \in DOMAIN ca /\ vivLits \in Seq(Lits) /\ AllDistinct(vivLits) /\ ~ca[cr].freed
      /\ Len(vivLits) \in Nat
  BY <1>2, HandShape
<1>5. ca \in Clauses(db) /\ db \in Log /\ CRef_Undef \notin DOMAIN ca
  BY Shapes
<1>6. /\ DOMAIN ca' = DOMAIN ca /\ \A k \in DOMAIN ca : k # cr => ca'[k] = ca[k]
      /\ ca'[cr].lits = vivLits /\ ca'[cr].freed = ca[cr].freed
  <2>1. ca[cr] \in ClauseRecord(db)
    BY <1>4, <1>5, ClauseTypes
  <2>2. ca'[cr] = [ca[cr] EXCEPT !.simplified = TRUE]
    BY <1>1, <1>4
  <2>3. ca'[cr].lits = ca[cr].lits /\ ca'[cr].freed = ca[cr].freed
    BY <2>1, <2>2 DEF ClauseRecord
  <2> QED
    BY <1>1, <1>4, <2>3 DEF vivLits
<1> HIDE DEF cr
<1>7. Len(vivLits) >= 2
  BY <1>1, <1>4
<1>8. Attach(ca, ca', cr, cr, CRef_Undef)
  BY <1>2, <1>4, <1>5, <1>6, <1>7 DEF Attach, cr
<1>9. Watchful(ca', watches', dirty, CRef_Undef)
  <2>1. Watchful(ca, watches, dirty, cr)
    BY MemoryShape DEF cr
  <2>2. watches' = Attached(watches, cr, ca'[cr].lits)
    BY <1>1, <1>6 DEF cr
  <2> QED
    BY <1>8, <2>1, <2>2, WatchfulAttached
<1>10. settled = Len(trail) /\ done = qhead /\ prop.lit = 0
  BY <1>1, WhereNow, NotScanning DEF Assuming
<1>11. ASSUME NEW j \in {1, 2}
       PROVE  Guarded(vivLits, j, vardata, trail, trail_lim, Len(trail), qhead)
  <2>1. j \in 1 .. Len(vivLits)
    BY <1>4, <1>7
  <2>2. vivLits[j] \in Lits /\ vivLits[j] \in ToSet(vivLits)
    BY <1>4, <2>1, Element
  <2>3. IsUndef(vivLits[j])
    BY <1>1, <2>2, Shapes DEF VivInv
  <2>4. assigns[Var(vivLits[j])] # -vivLits[j]
    BY <2>2, <2>3, LitFacts DEF IsUndef
  <2>5. Assigned(assigns, trail) /\ trail \in Seq(Lits) /\ qhead \in Nat /\ qhead <= Len(trail)
    BY TrailShape, Shapes
  <2> QED
    BY <2>2, <2>4, <2>5, NotFalseGuards
<1>12. TwoGuards(ca'[cr].lits, vardata, trail, trail_lim, Len(trail), qhead)
  BY <1>6, <1>11 DEF TwoGuards
<1>13. Trailing(ca', CRef_Undef, assigns, vardata, trail, trail_lim, Len(trail), qhead, unitCids, db)
  <2>1. Trailing(ca, cr, assigns, vardata, trail, trail_lim, Len(trail), qhead, unitCids, db)
    BY <1>10, TrailShape DEF cr
  <2> QED
    BY <1>8, <1>12, <2>1, TrailingAttached
<1>14. settled' = Len(trail') /\ done' = qhead'
  BY <1>1, <1>10, WhereNext DEF Assuming
<1>15. KernelInv'
  BY <1>1, <1>3, <1>9, <1>13, <1>14 DEF KernelInv
<1>16. ScanInv'
  <2>1. trail_lim = <<>>
    BY <1>1, <1>2, HandShape, Shapes DEF ControlInv
  <2> QED
    BY <1>1, <1>10, <2>1, ScanEnds
<1> QED
  BY <1>15, <1>16

(* A unit clause is freed after its literal has been propagated.           *)
LEMMA SimplifiedUnitDoneKernel ==
    ASSUME IInv, simplifiedUnitDone
    PROVE  KernelInv' /\ ScanInv'
<1> DEFINE cr == viv.cr
<1>1. /\ QueueEmpty /\ viv.cr # CRef_Undef
      /\ ca' = [ca EXCEPT ![viv.cr].freed = TRUE] /\ viv' = [NotVivifying EXCEPT !.on = TRUE]
      /\ UNCHANGED <<watches, dirty, assigns, vardata, trail, trail_lim, qhead, unitCids, db, prop, pc>>
  BY DEF simplifiedUnitDone, trailVars, tracerVars
<1>2. /\ settled = Len(trail) /\ done = Len(trail) /\ prop.lit = 0 /\ pc = "propagate"
  BY <1>1, AllPropagated
<1>3. Len(vivLits) = 1
  BY <1>1, <1>2, Shapes DEF HandInv, Vivifying, Assuming
<1>4. viv'.cr = CRef_Undef
  BY <1>1 DEF NotVivifying
<1>5. cr \in DOMAIN ca /\ CRef_Undef \notin DOMAIN ca /\ ca \in Clauses(db) /\ db \in Log
  BY <1>1, Shapes
<1>6. /\ DOMAIN ca' = DOMAIN ca /\ \A k \in DOMAIN ca : k # cr => ca'[k] = ca[k]
      /\ ca'[cr].lits = vivLits /\ ca'[cr].freed
  <2>1. ca[cr] \in ClauseRecord(db)
    BY <1>5, ClauseTypes
  <2>2. ca'[cr] = [ca[cr] EXCEPT !.freed = TRUE]
    BY <1>1, <1>5
  <2>3. ca'[cr].lits = ca[cr].lits /\ ca'[cr].freed = TRUE
    BY <2>1, <2>2 DEF ClauseRecord
  <2> QED
    BY <1>1, <1>5, <2>3 DEF vivLits
<1>7. \A k \in DOMAIN ca : ca'[k].lits = ca[k].lits
  BY <1>6 DEF vivLits
<1>8. Dropped(ca, ca', cr)
  BY <1>3, <1>5, <1>6, <1>7 DEF Dropped
<1> HIDE DEF cr
<1>9. Watchful(ca', watches, dirty, CRef_Undef)
  <2>1. Watchful(ca, watches, dirty, cr)
    BY MemoryShape DEF cr
  <2> QED
    BY <1>8, <2>1, WatchfulDropped
<1>10. Trailing(ca', CRef_Undef, assigns, vardata, trail, trail_lim, Len(trail), Len(trail), unitCids, db)
  <2>1. Trailing(ca, cr, assigns, vardata, trail, trail_lim, Len(trail), Len(trail), unitCids, db)
    BY <1>1, AllPropagated DEF cr
  <2>2. cr # CRef_Undef
    BY <1>1 DEF cr
  <2> QED
    BY <1>8, <2>1, <2>2, TrailingDropped
<1>11. settled' = Len(trail') /\ done' = qhead'
  BY <1>1, <1>2, WhereNext DEF Assuming
<1>12. qhead = Len(trail)
  BY <1>1 DEF QueueEmpty
<1>13. KernelInv'
  BY <1>1, <1>4, <1>9, <1>10, <1>11, <1>12 DEF KernelInv
<1>14. ScanInv'
  <2>1. trail_lim = <<>>
    BY <1>1, <1>2, HandShape, Shapes DEF ControlInv
  <2> QED
    BY <1>1, <1>2, <2>1, ScanEnds
<1> QED
  BY <1>13, <1>14

(* A clause is taken in hand without its false literals.                   *)
OpenPlaces(q) == {k \in DOMAIN q : ~IsFalse(q[k])}
StillOpen(q) == Selected(q, LAMBDA l : ~IsFalse(l))

LEMMA OpenShape ==
    ASSUME NEW q, q \in Seq(Lits), AllDistinct(q)
    PROVE  /\ StillOpen(q) \in Seq(Lits) /\ AllDistinct(StillOpen(q)) /\ Len(StillOpen(q)) \in Nat
           /\ \A l : l \in ToSet(StillOpen(q)) <=> l \in ToSet(q) /\ ~IsFalse(l)
           /\ Len(StillOpen(q)) <= Len(q)
<1>1. StillOpen(q) = PickAt(q, OpenPlaces(q))
  BY DEF StillOpen, Selected, PickAt, OpenPlaces
<1>2. OpenPlaces(q) \in SUBSET DOMAIN q
  BY DEF OpenPlaces
<1>3. PickAt(q, OpenPlaces(q)) \in Seq(Lits)
  BY <1>2, Picked
<1>4. /\ AllDistinct(PickAt(q, OpenPlaces(q)))
      /\ Len(PickAt(q, OpenPlaces(q))) <= Len(q)
      /\ \A l : l \in ToSet(PickAt(q, OpenPlaces(q))) <=> \E k \in OpenPlaces(q) : l = q[k]
  BY <1>2, PickedSet
<1>5. \A l : (\E k \in OpenPlaces(q) : l = q[k]) <=> l \in ToSet(q) /\ ~IsFalse(l)
  BY Element DEF OpenPlaces
<1> QED
  BY <1>1, <1>3, <1>4, <1>5, Element

BeginHints(cr) ==
    AddUnitHints(AddHint(an, ca[cr].cid), UnitCidsOf(Selected(ca[cr].lits, IsFalse)))

TakesUp(cr) ==
    /\ cr \in Unsimplified /\ ~satisfied(cr)
    /\ watches' = Detached(watches, cr, ca[cr].lits)
    /\ \/ StillOpen(ca[cr].lits) = ca[cr].lits /\ UNCHANGED <<ca, tracerVars>>
       \/ /\ db' = Replaced(db, BeginHints(cr), cr, StillOpen(ca[cr].lits))
          /\ an' = NoHints /\ unitCids' = unitCids
          /\ ca' = [ca EXCEPT ![cr].lits = StillOpen(ca[cr].lits), ![cr].cid = Len(db) + 1]
    /\ viv' = [viv EXCEPT !.cr = cr, !.trailRecord = Len(trail)]

LEMMA BeginParts ==
    ASSUME simplifyBegin
    PROVE  /\ \E cr : TakesUp(cr)
           /\ BetweenClauses /\ pc' = "simplifyLearnt"
           /\ UNCHANGED <<vivifyFrame, due, dirty, trailVars, prop, confl, searching>>
<1>1. BetweenClauses /\ pc' = "simplifyLearnt" /\ UNCHANGED <<vivifyFrame, due, dirty, trailVars, prop, confl, searching>>
  BY DEF simplifyBegin
<1>2. \E cr : TakesUp(cr)
  BY DEF simplifyBegin, TakesUp, StillOpen, BeginHints
<1> QED
  BY <1>1, <1>2

LEMMA TakesUpShape ==
    ASSUME IInv, BetweenClauses, NEW cr, TakesUp(cr)
    PROVE  /\ cr \in DOMAIN ca /\ cr # CRef_Undef /\ ~ca[cr].freed /\ CRef_Undef \notin DOMAIN ca
           /\ ca[cr].lits \in Seq(Lits) /\ AllDistinct(ca[cr].lits) /\ Len(ca[cr].lits) >= 2
           /\ viv.cr = CRef_Undef /\ viv.on
           /\ DOMAIN ca' = DOMAIN ca /\ \A k \in DOMAIN ca : k # cr => ca'[k] = ca[k]
           /\ ca'[cr].lits = StillOpen(ca[cr].lits) /\ ca'[cr].freed = ca[cr].freed
           /\ StillOpen(ca[cr].lits) \in Seq(Lits) /\ AllDistinct(StillOpen(ca[cr].lits))
           /\ \A l \in ToSet(ca[cr].lits) : ~IsTrue(l)
           /\ SameUnits(unitCids, db, db') /\ unitCids' = unitCids
           /\ viv'.cr = cr /\ viv'.trailRecord = Len(trail)
<1>1. cr \in CRefs /\ ~ca[cr].freed /\ ~satisfied(cr) /\ viv.cr = CRef_Undef /\ viv.on
  BY DEF TakesUp, Unsimplified, BetweenClauses
<1>2. /\ cr \in DOMAIN ca /\ cr # CRef_Undef /\ CRef_Undef \notin DOMAIN ca /\ ca \in Clauses(db) /\ db \in Log
  BY <1>1, Shapes
<1>3. ca[cr].lits \in Seq(Lits) /\ AllDistinct(ca[cr].lits) /\ Len(ca[cr].lits) \in Nat
  BY <1>2, MemoryShape, Element DEF HasLits, Memory
<1>4. Len(ca[cr].lits) >= 2
  <2>1. ~(Len(ca[cr].lits) < 2)
    BY <1>1, <1>2, MemoryShape DEF Memory
  <2>2. \A n \in Nat : ~(n < 2) => n >= 2
    OBVIOUS
  <2> QED
    BY <1>3, <2>1, <2>2
<1>5. StillOpen(ca[cr].lits) \in Seq(Lits) /\ AllDistinct(StillOpen(ca[cr].lits))
  BY <1>3, OpenShape
<1> DEFINE q == StillOpen(ca[cr].lits)
<1>6. /\ DOMAIN ca' = DOMAIN ca /\ \A k \in DOMAIN ca : k # cr => ca'[k] = ca[k]
      /\ ca'[cr].lits = q /\ ca'[cr].freed = ca[cr].freed
  <2>1. CASE q = ca[cr].lits /\ UNCHANGED <<ca, tracerVars>>
    BY <2>1
  <2>2. CASE ca' = [ca EXCEPT ![cr].lits = q, ![cr].cid = Len(db) + 1]
    <3>1. Changed(ca, ca', cr, q, Len(db) + 1)
      <4> HIDE DEF q
      <4> QED
        BY <1>2, <2>2, ExceptLitsCid
    <3> QED
      BY <3>1 DEF Changed
  <2> QED
    BY <2>1, <2>2 DEF TakesUp
<1>7. SameUnits(unitCids, db, db') /\ unitCids' = unitCids
  <2>1. CASE UNCHANGED <<ca, tracerVars>>
    BY <2>1, SameLog DEF tracerVars
  <2>2. CASE db' = Replaced(db, BeginHints(cr), cr, StillOpen(ca[cr].lits)) /\ unitCids' = unitCids
    BY <2>2, TwoRecords DEF Replaced
  <2> QED
    BY <2>1, <2>2 DEF TakesUp
<1>8. viv'.cr = cr /\ viv'.trailRecord = Len(trail)
  <2>1. viv' = [viv EXCEPT !.cr = cr, !.trailRecord = Len(trail)]
    BY DEF TakesUp
  <2> QED
    BY <2>1, VivShape
<1>9. \A l \in ToSet(ca[cr].lits) : ~IsTrue(l)
  BY <1>1, <1>3, Element DEF satisfied
<1> QED
  BY <1>1, <1>2, <1>3, <1>4, <1>5, <1>6, <1>7, <1>8, <1>9

LEMMA SimplifyBeginKernel ==
    ASSUME IInv, simplifyBegin
    PROVE  KernelInv' /\ ScanInv'
<1>1. /\ BetweenClauses /\ pc' = "simplifyLearnt" /\ UNCHANGED <<dirty, assigns, vardata, trail, trail_lim, qhead, prop>>
  BY BeginParts DEF trailVars
<1>2. PICK cr : TakesUp(cr)
  BY BeginParts
<1> HIDE DEF simplifyBegin
<1>3. /\ cr \in DOMAIN ca /\ cr # CRef_Undef /\ ~ca[cr].freed /\ CRef_Undef \notin DOMAIN ca
      /\ ca[cr].lits \in Seq(Lits) /\ AllDistinct(ca[cr].lits) /\ Len(ca[cr].lits) >= 2
      /\ viv.cr = CRef_Undef /\ viv.on
      /\ DOMAIN ca' = DOMAIN ca /\ \A k \in DOMAIN ca : k # cr => ca'[k] = ca[k]
      /\ ca'[cr].lits \in Seq(Lits) /\ AllDistinct(ca'[cr].lits)
      /\ \A l \in ToSet(ca[cr].lits) : ~IsTrue(l)
      /\ SameUnits(unitCids, db, db') /\ unitCids' = unitCids
      /\ viv'.cr = cr /\ viv'.trailRecord = Len(trail)
  BY <1>1, <1>2, TakesUpShape
<1>4. watches' = Detached(watches, cr, ca[cr].lits)
  BY <1>2 DEF TakesUp
<1>5. QueueEmpty
  BY <1>1 DEF BetweenClauses
<1>6. /\ settled = Len(trail) /\ done = Len(trail) /\ prop.lit = 0
      /\ Trailing(ca, viv.cr, assigns, vardata, trail, trail_lim, Len(trail), Len(trail), unitCids, db)
  BY <1>5, AllPropagated
<1>7. Watchful(ca', watches', dirty, cr)
  <2>1. Watchful(ca, watches, dirty, CRef_Undef)
    BY <1>3, MemoryShape
  <2>2. Detach(ca, ca', cr)
    BY <1>3 DEF Detach
  <2> QED
    BY <1>3, <1>4, <2>1, <2>2, WatchfulDetached
<1>8. Trailing(ca', cr, assigns, vardata, trail, trail_lim, Len(trail), Len(trail), unitCids, db)
  <2>1. Trailing(ca, CRef_Undef, assigns, vardata, trail, trail_lim, Len(trail), Len(trail), unitCids, db)
    BY <1>3, <1>6
  <2>2. OnlyHand(ca, ca', cr)
    BY <1>3 DEF OnlyHand
  <2>3. \A l \in ToSet(ca[cr].lits) : assigns[Var(l)] # l
    BY <1>3 DEF IsTrue
  <2>4. \A i \in 1 .. Len(trail) : Rs(vardata, trail[i]) # cr
    BY <1>3, <2>1, <2>3, NotReason
  <2>5. NoReason(vardata, trail, cr)
    BY <2>4, TrailShape, Element DEF NoReason
  <2> QED
    BY <1>3, <2>1, <2>2, <2>5, TrailingTaken
<1>9. Trailing(ca', cr, assigns, vardata, trail, trail_lim, Len(trail), Len(trail), unitCids, db')
  BY <1>3, <1>8, TrailingLog
<1>10. settled' = Len(trail) /\ done' = Len(trail)
  BY <1>1, <1>3, WhereNext DEF Assuming
<1>11. KernelInv'
  BY <1>1, <1>3, <1>7, <1>9, <1>10 DEF KernelInv
<1>12. ScanInv'
  <2>1. ~searching /\ pc = "propagate"
    BY <1>3, <1>5, Shapes DEF ControlInv, QueueEmpty
  <2>2. trail_lim = <<>>
    BY <2>1, Shapes DEF ControlInv
  <2> QED
    BY <1>1, <1>6, <2>2, ScanEnds
<1> QED
  BY <1>11, <1>12
-----------------------------------------------------------------------------
(* Hints.  The tracer is given the numbers of records of the log d.        *)
HintType(d) == [hints : Seq(DOMAIN d), units : Seq(DOMAIN d), reverts : Seq(RevertMarker),
                nUnordered : Nat]
SameMarks(a, b) == b.reverts = a.reverts /\ b.nUnordered = a.nUnordered

LEMMA HintAdded ==
    ASSUME NEW d, NEW a \in HintType(d), NEW cid \in DOMAIN d, NEW b, b = AddHint(a, cid)
    PROVE  /\ b \in HintType(d) /\ b.hints = Append(a.hints, cid) /\ b.units = a.units
           /\ SameMarks(a, b) /\ b.hints # <<>>
<1>1. a.hints \in Seq(DOMAIN d)
  BY DEF HintType
<1>2. \A X : \A s \in Seq(X) : \A x \in X : Append(s, x) \in Seq(X) /\ Append(s, x) # <<>>
  OBVIOUS
<1>3. Append(a.hints, cid) \in Seq(DOMAIN d) /\ Append(a.hints, cid) # <<>>
  BY <1>1, <1>2
<1>4. b = [a EXCEPT !.hints = Append(a.hints, cid)]
  BY DEF AddHint
<1> DEFINE more == Append(a.hints, cid)
<1> HIDE DEF more
<1>5. b = [a EXCEPT !.hints = more] /\ more \in Seq(DOMAIN d) /\ more # <<>>
  BY <1>3, <1>4 DEF more
<1>6. /\ b \in HintType(d) /\ b.hints = more /\ b.units = a.units
      /\ b.reverts = a.reverts /\ b.nUnordered = a.nUnordered
  BY <1>5 DEF HintType
<1> QED
  BY <1>5, <1>6 DEF more, SameMarks

(* The same for the unit hints.                                            *)
LEMMA UnitHintsAdded ==
    ASSUME NEW d, NEW a \in HintType(d), NEW cids \in Seq(DOMAIN d), NEW b, b = AddUnitHints(a, cids)
    PROVE  b \in HintType(d) /\ b.hints = a.hints /\ b.units = a.units \o cids /\ SameMarks(a, b)
<1>1. a.units \in Seq(DOMAIN d)
  BY DEF HintType
<1>2. \A X : \A s, t \in Seq(X) : s \o t \in Seq(X)
  OBVIOUS
<1>3. b = [a EXCEPT !.units = a.units \o cids] /\ a.units \o cids \in Seq(DOMAIN d)
  BY <1>1, <1>2 DEF AddUnitHints
<1> DEFINE more == a.units \o cids
<1> HIDE DEF more
<1>4. b = [a EXCEPT !.units = more] /\ more \in Seq(DOMAIN d)
  BY <1>3 DEF more
<1>5. /\ b \in HintType(d) /\ b.hints = a.hints /\ b.units = more
      /\ b.reverts = a.reverts /\ b.nUnordered = a.nUnordered
  BY <1>4 DEF HintType
<1> QED
  BY <1>5 DEF more, SameMarks

LEMMA HintsNow == ASSUME IInv PROVE an \in HintType(db) /\ NoHints \in HintType(db)
BY Shapes DEF TypeOK, HintType, NoHints

(* The literals of level 0 have unit records.                              *)
LEMMA ZeroUnits ==
    ASSUME IInv, NEW q \in Seq(Lits)
    PROVE  /\ AtLevelZero(q) \in Seq(Lits)
           /\ \A l : l \in ToSet(AtLevelZero(q)) <=> l \in ToSet(q) /\ level(l) = 0
           /\ UnitCidsOf(AtLevelZero(q)) \in Seq(DOMAIN db)
<1> DEFINE at == {k \in DOMAIN q : level(q[k]) = 0}
           z == PickAt(q, at)
<1>1. AtLevelZero(q) = z
  BY DEF AtLevelZero, Selected, PickAt
<1>2. at \in SUBSET DOMAIN q
  OBVIOUS
<1>3. z \in Seq(Lits)
  <2> HIDE DEF at
  <2> QED
    BY <1>2, Picked
<1>4. \A l : l \in ToSet(z) <=> \E k \in at : l = q[k]
  <2> HIDE DEF at
  <2> QED
    BY <1>2, PickedSet
<1>5. \A l : l \in ToSet(z) <=> l \in ToSet(q) /\ level(l) = 0
  <2> HIDE DEF z
  <2> QED
    BY <1>4, Element
<1> HIDE DEF z
<1>6. unitCids \in [Vars -> DOMAIN db \cup {NoCid}] /\ UnitsOK(vardata, unitCids, db, trail, settled)
  BY Shapes, TrailShape
<1>7. ASSUME NEW i \in 1 .. Len(z)
      PROVE  unitCids[Var(z[i])] \in DOMAIN db
  <2>1. z[i] \in Lits /\ z[i] \in ToSet(z)
    BY <1>3, Element
  <2>2. level(z[i]) = 0 /\ Var(z[i]) \in Vars
    BY <1>5, <2>1, LitFacts
  <2>3. unitCids[Var(z[i])] # NoCid
    BY <1>6, <2>2 DEF UnitsOK, level
  <2> QED
    BY <1>6, <2>2, <2>3
<1>8. Len(z) \in Nat /\ DOMAIN z = 1 .. Len(z)
  BY <1>3, Element
<1>9. UnitCidsOf(z) = [i \in 1 .. Len(z) |-> unitCids[Var(z[i])]]
  BY <1>8 DEF UnitCidsOf
<1>10. UnitCidsOf(z) \in Seq(DOMAIN db)
  BY <1>7, <1>8, <1>9
<1> QED
  BY <1>1, <1>3, <1>5, <1>10
-----------------------------------------------------------------------------
(* simpleAnalyze and analyzeFalseLits: the hints, the marked variables and *)
(* the assumptions met, on the way back through what was assumed.          *)
Walk == [hints : HintType(db), seen : SUBSET Vars, assumed : Seq(Lits)]
Marks(w, w2) ==
    /\ w2 \in Walk /\ w2.assumed = w.assumed /\ w2.hints.hints # <<>>
    /\ SameMarks(w.hints, w2.hints)

LEMMA MarkShape ==
    ASSUME IInv, NEW w \in Walk, NEW cr \in DOMAIN ca, NEW q \in Seq(Lits), NEW w2, w2 = Mark(w, cr, q)
    PROVE  Marks(w, w2)
<1> DEFINE at == {k \in DOMAIN q : Var(q[k]) \notin w.seen}
           fresh == PickAt(q, at)
           h1 == AddHint(w.hints, ca[cr].cid)
           h2 == AddUnitHints(h1, UnitCidsOf(AtLevelZero(fresh)))
           vs == w.seen \cup VarsOf(fresh)
<1>1. Selected(q, LAMBDA l : Var(l) \notin w.seen) = fresh
  BY DEF Selected, PickAt
<1>2. w2 = [w EXCEPT !.hints = h2, !.seen = vs]
  BY <1>1 DEF Mark
<1>3. fresh \in Seq(Lits)
  <2>1. at \in SUBSET DOMAIN q
    OBVIOUS
  <2> HIDE DEF at
  <2> QED
    BY <2>1, Picked
<1> HIDE DEF fresh
<1>4. w.hints \in HintType(db) /\ w.seen \subseteq Vars /\ w.assumed \in Seq(Lits)
  BY DEF Walk
<1>5. h1 \in HintType(db) /\ h1.hints # <<>> /\ SameMarks(w.hints, h1)
  <2>1. ca[cr].cid \in DOMAIN db
    BY Shapes, ClauseTypes, LogTypes
  <2> QED
    BY <1>4, <2>1, HintAdded
<1> HIDE DEF h1
<1>6. h2 \in HintType(db) /\ h2.hints # <<>> /\ SameMarks(h1, h2)
  BY <1>3, <1>5, ZeroUnits, UnitHintsAdded
<1> HIDE DEF h2
<1>7. vs \subseteq Vars
  <2>1. \A i \in DOMAIN fresh : Var(fresh[i]) \in Vars
    BY <1>3, Element, LitFacts
  <2> QED
    BY <1>4, <2>1 DEF VarsOf
<1> HIDE DEF vs
<1>8. w2 \in Walk /\ w2.hints = h2 /\ w2.assumed = w.assumed
  BY <1>2, <1>4, <1>6, <1>7 DEF Walk
<1> QED
  BY <1>5, <1>6, <1>8 DEF SameMarks, Marks

(* One literal of the trail.                                               *)
Visits(w, w2, l) ==
    /\ w2 \in Walk /\ SameMarks(w.hints, w2.hints)
    /\ w.hints.hints # <<>> => w2.hints.hints # <<>>
    /\ w2.assumed = w.assumed \/ (reason(l) = CRef_Undef /\ w2.assumed = Append(w.assumed, l))

LEMMA TailOfReason ==
    ASSUME IInv, NEW cr, Usable(cr)
    PROVE  Tail(ImpliedFirst(ca[cr].lits)) \in Seq(Lits)
<1> DEFINE q == ca[cr].lits
<1>1. q \in Seq(Lits) /\ Len(q) >= 2 /\ cr \in DOMAIN ca
  <2>1. HasLits(ca) /\ Memory(ca, viv.cr) /\ cr \in DOMAIN ca /\ ~ca[cr].freed /\ cr # viv.cr
    BY MemoryShape DEF Usable
  <2>2. q \in Seq(Lits) /\ ~(Len(q) < 2)
    BY <2>1 DEF HasLits, Memory
  <2> QED
    BY <2>1, <2>2
<1> HIDE DEF q
<1>2. ImpliedFirst(q) \in Seq(Lits) /\ Len(ImpliedFirst(q)) = Len(q)
  <2>1. CASE ImpliedFirst(q) = q
    BY <1>1, <2>1
  <2>2. CASE Len(q) = 2 /\ ImpliedFirst(q) = SwapAt(q, 1, 2)
    <3>1. CanSwap(Lits, q, 1, 2)
      BY <1>1, <2>2 DEF CanSwap
    <3>2. Swapped(Lits, q, 1, 2, SwapAt(q, 1, 2))
      BY <3>1, SwapFacts
    <3> QED
      BY <2>2, <3>2 DEF Swapped
  <2> QED
    BY <2>1, <2>2, ImpliedFirstPut
<1>3. \A s \in Seq(Lits) : Len(s) >= 2 => Tail(s) \in Seq(Lits)
  OBVIOUS
<1> QED
  BY <1>1, <1>2, <1>3 DEF q

LEMMA VisitShape ==
    ASSUME IInv, NEW w \in Walk, NEW l \in Lits, reason(l) = CRef_Undef \/ Usable(reason(l)),
           NEW w2, w2 = Visit(w, l)
    PROVE  Visits(w, w2, l)
<1>0. w.assumed \in Seq(Lits) /\ w.hints \in HintType(db) /\ w.seen \subseteq Vars
  BY DEF Walk
<1>1. CASE Var(l) \notin w.seen
  BY <1>1 DEF Visit, Visits, SameMarks
<1>2. CASE Var(l) \in w.seen /\ reason(l) = CRef_Undef
  <2> DEFINE more == Append(w.assumed, l)
  <2>1. more \in Seq(Lits)
    BY <1>0
  <2> HIDE DEF more
  <2>2. w2 = [w EXCEPT !.assumed = more]
    BY <1>2 DEF Visit, more
  <2>3. w2 \in Walk /\ w2.hints = w.hints /\ w2.assumed = more
    BY <1>0, <2>1, <2>2 DEF Walk
  <2> QED
    BY <1>2, <2>3 DEF Visits, SameMarks, more
<1>3. CASE Var(l) \in w.seen /\ reason(l) # CRef_Undef
  <2>1. w2 = Mark(w, reason(l), Tail(ImpliedFirst(ca[reason(l)].lits)))
    BY <1>3 DEF Visit
  <2>2. reason(l) \in DOMAIN ca /\ Usable(reason(l))
    BY <1>3 DEF Usable
  <2>3. Tail(ImpliedFirst(ca[reason(l)].lits)) \in Seq(Lits)
    BY <2>2, TailOfReason
  <2>4. Marks(w, w2)
    BY <2>1, <2>2, <2>3, MarkShape
  <2> QED
    BY <2>4 DEF Marks, Visits
<1> QED
  BY <1>1, <1>2, <1>3
(* The states the walk goes through, from the last assumption to the       *)
(* first.                                                                  *)
Walking == pc \in {"simplifyLearnt", "simpleAnalyze"}
assumedCount == Len(trail) - viv.trailRecord
Tracing(r, w, w2) ==
    /\ r \in [0 .. assumedCount -> Walk] /\ r[0] = w /\ r[assumedCount] = w2
    /\ \A k \in 1 .. assumedCount :
         Visits(r[k - 1], r[k], trail[Len(trail) + 1 - k])

LEMMA AssumptionPlaces ==
    ASSUME IInv, Walking
    PROVE  /\ assumedCount \in Nat /\ viv.trailRecord \in 0 .. Len(trail) /\ Len(trail) \in Nat
           /\ Len(Reverse(Assumptions)) = assumedCount
           /\ DOMAIN Reverse(Assumptions) = 1 .. assumedCount
           /\ \A k \in 1 .. assumedCount :
                /\ Reverse(Assumptions)[k] = trail[Len(trail) + 1 - k]
                /\ Len(trail) + 1 - k \in viv.trailRecord + 1 .. Len(trail)
           /\ \A i \in viv.trailRecord + 1 .. Len(trail) :
                trail[i] \in Lits /\ (reason(trail[i]) = CRef_Undef \/ Usable(reason(trail[i])))
<1>1. viv.trailRecord \in 0 .. Len(trail) /\ trail \in Seq(Lits) /\ Len(trail) \in Nat
  BY VivShape, TrailShape
<1> DEFINE t == viv.trailRecord
<1>2. t \in Nat /\ t <= Len(trail)
  BY <1>1
<1> HIDE DEF t
<1> DEFINE q == SubSeq(trail, t + 1, Len(trail))
<1>3. /\ Len(q) = Len(trail) - t /\ Len(trail) - t \in Nat
      /\ \A k \in 1 .. Len(trail) - t : q[k] = trail[t + k]
  BY <1>1, <1>2
<1> HIDE DEF q
<1>4. Assumptions = q /\ assumedCount = Len(trail) - t
  BY DEF Assumptions, q, t, assumedCount
<1>5. Reverse(q) = [i \in 1 .. Len(q) |-> q[(Len(q) - i) + 1]]
  BY DEF Reverse
<1> DEFINE n == Len(trail) - t
<1>6. n \in Nat /\ Len(q) = n
  BY <1>3
<1>7. DOMAIN Reverse(q) = 1 .. n /\ Len(Reverse(q)) = n
  <2> HIDE DEF n
  <2> QED
    BY <1>5, <1>6
<1>8. ASSUME NEW k \in 1 .. n
      PROVE  /\ Reverse(q)[k] = trail[Len(trail) + 1 - k]
             /\ Len(trail) + 1 - k \in t + 1 .. Len(trail)
  <2>1. Reverse(q)[k] = q[(n - k) + 1]
    BY <1>5, <1>6
  <2>2. (n - k) + 1 \in 1 .. n /\ t + ((n - k) + 1) = Len(trail) + 1 - k
    BY <1>1, <1>2
  <2>3. q[(n - k) + 1] = trail[t + ((n - k) + 1)]
    BY <1>3, <2>2
  <2> QED
    BY <2>1, <2>2, <2>3, <1>1, <1>2
<1>9. ASSUME NEW i \in t + 1 .. Len(trail)
      PROVE  trail[i] \in Lits /\ (reason(trail[i]) = CRef_Undef \/ Usable(reason(trail[i])))
  <2>1. i \in 1 .. Len(trail)
    BY <1>1, <1>2
  <2>2. IF reason(trail[i]) = CRef_Undef
          THEN -trail[i] \in ToSet(viv.kept) ELSE Usable(reason(trail[i]))
    <3>1. pc \in Assuming /\ VivInv
      BY Shapes DEF Walking, Assuming
    <3> QED
      BY <3>1 DEF VivInv, t
  <2> QED
    BY <1>1, <2>1, <2>2, Element
<1> QED
  BY <1>1, <1>4, <1>6, <1>7, <1>8, <1>9 DEF t

LEMMA TracedRun ==
    ASSUME IInv, Walking, NEW w \in Walk
    PROVE  \E r : Tracing(r, w, Traced(w))
<1> DEFINE n == assumedCount
           U == 1 .. n
           T == Walk
           q == Reverse(Assumptions)
           g == [p \in T \X U |-> Visit(p[1], q[p[2]])]
           Is(h) == h = [x \in SUBSET U |-> IF x = {} THEN w
                                            ELSE Visit(h[x \ {Max(x)}], q[Max(x)])]
<1>1. /\ n \in Nat /\ DOMAIN q = U
      /\ \A k \in U : /\ q[k] = trail[Len(trail) + 1 - k] /\ q[k] \in Lits
                      /\ reason(q[k]) = CRef_Undef \/ Usable(reason(q[k]))
  BY AssumptionPlaces
<1>2. (\E f : Is(f)) => \E f : Is(f) /\ f[U] = Traced(w)
  <2> HIDE DEF q
  <2> QED
    BY <1>1 DEF Traced, FoldLeft, MapThenFoldSet, q
<1> HIDE DEF q, n
<1>3. \A s \in T : \A k \in U : Visits(s, Visit(s, q[k]), q[k]) /\ Visit(s, q[k]) \in T
  <2> SUFFICES ASSUME NEW s \in T, NEW k \in U
               PROVE  Visits(s, Visit(s, q[k]), q[k]) /\ Visit(s, q[k]) \in T
    OBVIOUS
  <2>1. q[k] \in Lits /\ (reason(q[k]) = CRef_Undef \/ Usable(reason(q[k])))
    BY <1>1
  <2> DEFINE l == q[k]
  <2>2. l \in Lits /\ (reason(l) = CRef_Undef \/ Usable(reason(l)))
    BY <2>1
  <2> HIDE DEF l
  <2>3. Visits(s, Visit(s, l), l)
    BY <2>2, VisitShape
  <2> QED
    BY <2>3 DEF Visits, l
<1>4. g \in [T \X U -> T]
  BY <1>3
<1>5. \A s \in T : \A k \in U : g[<<s, k>>] = Visit(s, q[k])
  OBVIOUS
<1> HIDE DEF g
<1>7. PICK it \in [SUBSET U -> T] : LoopOf(it, n, w, g)
  BY <1>1, <1>4, LoopExists
<1>8. \A x \in SUBSET U : x # {} => Max(x) \in x /\ x \ {Max(x)} \in SUBSET U
  BY <1>1, Greatest
<1>9. Is(it)
  BY <1>5, <1>7, <1>8 DEF LoopOf
<1>10. PICK f : Is(f) /\ f[U] = Traced(w)
  <2> HIDE DEF Is
  <2> QED
    BY <1>2, <1>9
<1>11. Follows(f, n, w, g, T)
  <2>1. f[{}] = w
    BY <1>10
  <2>2. ASSUME NEW x \in SUBSET U, x # {}, f[x \ {Max(x)}] \in T
        PROVE  f[x] = g[<<f[x \ {Max(x)}], Max(x)>>]
    <3>1. Max(x) \in U
      BY <1>8, <2>2
    <3>2. f[x] = Visit(f[x \ {Max(x)}], q[Max(x)])
      BY <1>10, <2>2
    <3> QED
      BY <1>5, <2>2, <3>1, <3>2
  <2> QED
    BY <2>1, <2>2 DEF Follows
<1> HIDE DEF Is
<1>12. PICK r \in [0 .. n -> T] : RunOf(r, n, w, g, f[U])
  BY <1>1, <1>4, <1>11, LoopRun
<1>13. \A k \in U : k - 1 \in 0 .. n
  BY <1>1
<1>14. \A k \in U : r[k] = Visit(r[k - 1], q[k]) /\ r[k - 1] \in T
  BY <1>5, <1>12, <1>13 DEF RunOf
<1>15. \A k \in U : Visits(r[k - 1], r[k], q[k])
  BY <1>3, <1>14
<1> QED
  BY <1>1, <1>10, <1>12, <1>15 DEF RunOf, Tracing, n
(* One more element that was not there.                                    *)
LEMMA AppendDistinct ==
    ASSUME NEW X, NEW s \in Seq(X), AllDistinct(s), NEW x \in X, \A y \in ToSet(s) : Var(y) # Var(x)
    PROVE  ToSet(Append(s, x)) = ToSet(s) \cup {x} /\ AllDistinct(Append(s, x))
<1> DEFINE t == Append(s, x)
<1>1. /\ Len(s) \in Nat /\ DOMAIN s = 1 .. Len(s) /\ t \in Seq(X) /\ Len(t) = Len(s) + 1
      /\ DOMAIN t = 1 .. Len(s) + 1
      /\ \A i \in 1 .. Len(s) : t[i] = s[i] /\ s[i] \in ToSet(s)
      /\ t[Len(s) + 1] = x
  BY Element
<1> HIDE DEF t
<1>2. \A i \in 1 .. Len(s) + 1 : i \in 1 .. Len(s) \/ i = Len(s) + 1
  BY <1>1
<1>3. Len(s) + 1 \in 1 .. Len(s) + 1 /\ \A i \in 1 .. Len(s) : i \in 1 .. Len(s) + 1
  BY <1>1
<1>4. ToSet(t) = ToSet(s) \cup {x}
  BY <1>1, <1>2, <1>3 DEF ToSet
<1>5. AllDistinct(t)
  BY <1>1, <1>2 DEF AllDistinct
<1> QED
  BY <1>4, <1>5 DEF t

(* The assumptions met: each once, and none with a reason.                 *)
Met(s, k) ==
    /\ AllDistinct(s)
    /\ \A l \in ToSet(s) : reason(l) = CRef_Undef
         /\ \E i \in 1 .. k : l = trail[Len(trail) + 1 - i]
Traces(w, w2) ==
    /\ w2 \in Walk /\ SameMarks(w.hints, w2.hints) /\ w2.hints.hints # <<>>
    /\ Met(w2.assumed, assumedCount)

LEMMA MetMore ==
    ASSUME IInv, Walking, NEW w \in Walk, NEW w2, NEW k \in 1 .. assumedCount,
           Met(w.assumed, k - 1), Visits(w, w2, trail[Len(trail) + 1 - k])
    PROVE  Met(w2.assumed, k)
<1> DEFINE l == trail[Len(trail) + 1 - k]
           s == w.assumed
<1>1. assumedCount \in Nat /\ k \in Nat /\ k >= 1 /\ k - 1 \in Nat
  BY AssumptionPlaces
<1>2. ASSUME NEW x \in ToSet(s)
      PROVE  /\ reason(x) = CRef_Undef /\ Var(x) # Var(l)
             /\ \E i \in 1 .. k : x = trail[Len(trail) + 1 - i]
  <2>1. PICK i \in 1 .. k - 1 : x = trail[Len(trail) + 1 - i]
    BY DEF Met
  <2>2. i \in 1 .. k /\ i # k /\ i \in 1 .. assumedCount
    BY <1>1
  <2>3. Len(trail) + 1 - i # Len(trail) + 1 - k
        /\ Len(trail) + 1 - i \in 1 .. Len(trail) /\ Len(trail) + 1 - k \in 1 .. Len(trail)
    BY <2>2, AssumptionPlaces
  <2>4. AllDistinct(trail) /\ trail \in Seq(Lits)
    BY TrailShape DEF Assigned
  <2>5. Var(x) # Var(l)
    <3> DEFINE a == Len(trail) + 1 - i
               b == Len(trail) + 1 - k
    <3>1. a # b /\ a \in 1 .. Len(trail) /\ b \in 1 .. Len(trail)
      BY <2>3
    <3> HIDE DEF a, b
    <3>2. Var(trail[a]) # Var(trail[b])
      BY <2>4, <3>1, Element DEF AllDistinct
    <3> QED
      BY <2>1, <3>2 DEF a, b
  <2>6. reason(x) = CRef_Undef
    BY DEF Met
  <2> QED
    BY <2>1, <2>2, <2>5, <2>6
<1>3. s \in Seq(Lits) /\ AllDistinct(s)
  BY DEF Walk, Met
<1>4. l \in Lits
  BY AssumptionPlaces
<1>5. k \in 1 .. k
  BY <1>1
<1> HIDE DEF l, s
<1>6. CASE w2.assumed = s
  BY <1>2, <1>3, <1>6 DEF Met
<1>7. CASE reason(l) = CRef_Undef /\ w2.assumed = Append(s, l)
  <2>1. ToSet(Append(s, l)) = ToSet(s) \cup {l} /\ AllDistinct(Append(s, l))
    <3>1. \A y \in ToSet(s) : Var(y) # Var(l)
      BY <1>2
    <3> QED
      BY <1>3, <1>4, <3>1, AppendDistinct
  <2>2. \A x \in ToSet(s) \cup {l} : reason(x) = CRef_Undef
          /\ \E i \in 1 .. k : x = trail[Len(trail) + 1 - i]
    BY <1>2, <1>5, <1>7 DEF l
  <2> QED
    BY <1>7, <2>1, <2>2 DEF Met
<1> QED
  BY <1>6, <1>7 DEF Visits, l, s

LEMMA TracedShape ==
    ASSUME IInv, Walking, NEW w \in Walk, w.assumed = <<>>, w.hints.hints # <<>>
    PROVE  Traces(w, Traced(w))
<1> DEFINE n == assumedCount
           w2 == Traced(w)
<1>1. PICK r : Tracing(r, w, w2)
  BY TracedRun
<1> HIDE DEF w2
<1>2. n \in Nat
  BY AssumptionPlaces
<1> DEFINE S == {k \in 0 .. n : /\ SameMarks(w.hints, r[k].hints) /\ r[k].hints.hints # <<>>
                                /\ Met(r[k].assumed, k)}
<1>3. 0 \in S
  <2>1. r[0] = w
    BY <1>1 DEF Tracing
  <2>2. Met(<<>>, 0)
    BY DEF Met, AllDistinct, ToSet
  <2>3. SameMarks(w.hints, w.hints)
    BY DEF SameMarks
  <2> QED
    BY <1>2, <2>1, <2>2, <2>3
<1>4. ASSUME NEW k \in 1 .. n, k - 1 \in S
      PROVE  k \in S
  <2>1. /\ r[k - 1] \in Walk /\ Visits(r[k - 1], r[k], trail[Len(trail) + 1 - k])
    BY <1>1, <1>2 DEF Tracing
  <2>2. /\ SameMarks(w.hints, r[k - 1].hints) /\ r[k - 1].hints.hints # <<>>
        /\ Met(r[k - 1].assumed, k - 1)
    BY <1>4
  <2> DEFINE x == r[k - 1]
             y == r[k]
  <2>3. x \in Walk /\ Visits(x, y, trail[Len(trail) + 1 - k]) /\ Met(x.assumed, k - 1)
    BY <2>1, <2>2
  <2>4. SameMarks(w.hints, x.hints) /\ x.hints.hints # <<>>
    BY <2>2
  <2> HIDE DEF x, y
  <2>5. Met(y.assumed, k)
    BY <2>3, MetMore
  <2>6. SameMarks(w.hints, y.hints) /\ y.hints.hints # <<>>
    BY <2>3, <2>4 DEF Visits, SameMarks
  <2>7. k \in 0 .. n
    BY <1>2
  <2> QED
    BY <2>5, <2>6, <2>7 DEF x, y
<1>5. n \in S
  <2> HIDE DEF S
  <2> QED
    BY <1>2, <1>3, <1>4, Counting
<1>6. r[n] = w2 /\ w2 \in Walk
  BY <1>1, <1>2 DEF Tracing
<1> QED
  BY <1>5, <1>6 DEF Traces, w2
-----------------------------------------------------------------------------
(* The clause in hand gets the literals q, in the memory c.                *)
CanReplace(c, q) == c \in Clauses(db) /\ DOMAIN c = DOMAIN ca /\ q \in Seq(Lits) /\ AllDistinct(q)

LEMMA ReplaceShape ==
    ASSUME IInv, viv.cr # CRef_Undef, NEW c, NEW q, NEW a, CanReplace(c, q), ReplaceBy(q, a, c)
    PROVE  /\ OnlyHand(c, ca', viv.cr) /\ SameUnits(unitCids, db, db')
           /\ ca'[viv.cr].lits = q /\ ca'[viv.cr].freed = c[viv.cr].freed
<1> DEFINE cr == viv.cr
<1>1. cr \in DOMAIN c /\ db \in Log /\ c \in Clauses(db) /\ q \in Seq(Lits) /\ AllDistinct(q)
  BY Shapes DEF CanReplace
<1>2. Changed(c, ca', cr, q, ca'[cr].cid) /\ SameUnits(unitCids, db, db')
  <2> HIDE DEF cr
  <2>1. CASE Len(q) > 1
    <3>1. db' = Replaced(db, a, cr, q) /\ ca' = [c EXCEPT ![cr].lits = q, ![cr].cid = Len(db) + 1]
      BY <2>1 DEF ReplaceBy, cr
    <3>2. SameUnits(unitCids, db, db')
      BY <3>1, TwoRecords DEF Replaced
    <3>3. Changed(c, ca', cr, q, Len(db) + 1)
      BY <1>1, <3>1, ExceptLitsCid
    <3> QED
      BY <3>2, <3>3 DEF Changed
  <2>2. CASE ~(Len(q) > 1)
    <3>1. ca' = [c EXCEPT ![cr].lits = q] /\ db' = db
      BY <2>2 DEF ReplaceBy, cr
    <3>2. Changed(c, ca', cr, q, c[cr].cid)
      BY <1>1, <3>1, ExceptLits
    <3> QED
      BY <3>1, <3>2, SameLog DEF Changed
  <2> QED
    BY <2>1, <2>2
<1> QED
  BY <1>1, <1>2 DEF Changed, OnlyHand

(* The clause gets other literals, and the assumptions are taken back.     *)
Shrinks(c) ==
    /\ Walking /\ HasLits(c) /\ Reordered(ca, c)
    /\ KeepsReasons(ca, c, vardata, trail, settled)
    /\ KeepsComplete(ca, c, vardata, trail, trail_lim, viv.cr, viv.cr, settled, done)
    /\ OnlyHand(c, ca', viv.cr) /\ SameUnits(unitCids, db, db')
    /\ cancelUntilTrailRecord /\ pc' = "simplified"
    /\ UNCHANGED <<watches, dirty, unitCids, prop, viv>>

LEMMA TakeBack ==
    ASSUME IInv, Walking, cancelUntilTrailRecord
    PROVE  /\ CanTakeBack(assigns, trail, viv.trailRecord, assigns', trail')
           /\ TakenBack(assigns, trail, viv.trailRecord, assigns', trail')
           /\ settled = viv.trailRecord /\ done = viv.trailRecord /\ trail_lim = <<>>
           /\ viv.cr # CRef_Undef
<1>1. pc \in Assuming /\ pc \in Vivifying
  BY DEF Walking, Assuming, Vivifying
<1>2. viv.cr # CRef_Undef /\ viv.on
  BY <1>1, Shapes DEF HandInv
<1>3. trail_lim = <<>>
  BY <1>1, <1>2, Shapes DEF ControlInv, Assuming
<1>4. viv.trailRecord \in Nat /\ viv.trailRecord <= Len(trail)
  BY AssumptionPlaces
<1>5. CanTakeBack(assigns, trail, viv.trailRecord, assigns', trail')
  BY <1>4, TrailShape DEF cancelUntilTrailRecord, Assumptions, CanTakeBack
<1>6. TakenBack(assigns, trail, viv.trailRecord, assigns', trail')
  BY <1>5, FirstTrail
<1> QED
  BY <1>1, <1>2, <1>3, <1>5, <1>6, WhereNow

LEMMA ShrinkKernel ==
    ASSUME IInv, NEW c, Shrinks(c)
    PROVE  KernelInv' /\ ScanInv'
<1> DEFINE n == viv.trailRecord
           hand == viv.cr
<1>1. /\ CanTakeBack(assigns, trail, n, assigns', trail') /\ TakenBack(assigns, trail, n, assigns', trail')
      /\ settled = n /\ done = n /\ trail_lim = <<>> /\ hand # CRef_Undef
  BY TakeBack DEF Shrinks
<1>2. trail_lim' = trail_lim /\ vardata' = vardata /\ qhead' = n
  BY DEF Shrinks, cancelUntilTrailRecord
<1>3. /\ UNCHANGED <<watches, dirty, unitCids, prop, viv>> /\ pc' = "simplified" /\ Walking
      /\ OnlyHand(c, ca', hand) /\ SameUnits(unitCids, db, db') /\ HasLits(c) /\ Reordered(ca, c)
      /\ KeepsReasons(ca, c, vardata, trail, n)
      /\ KeepsComplete(ca, c, vardata, trail, trail_lim, hand, hand, n, n)
  BY <1>1 DEF Shrinks
<1>4. Trailing(ca, hand, assigns, vardata, trail, trail_lim, n, n, unitCids, db)
      /\ NoReason(vardata, trail, hand) /\ Watchful(ca, watches, dirty, hand)
  BY <1>1, TrailShape, MemoryShape
<1>5. Len(trail') = n
  BY <1>1 DEF TakenBack
<1> HIDE DEF n, hand
<1>6. Trailing(c, hand, assigns, vardata, trail, trail_lim, n, n, unitCids, db)
  BY <1>3, <1>4, TrailingMemory
<1>7. Trailing(ca', hand, assigns, vardata, trail, trail_lim, n, n, unitCids, db)
  BY <1>1, <1>3, <1>6, TrailingHand
<1>8. Trailing(ca', hand, assigns', vardata, trail', trail_lim, n, n, unitCids, db)
  BY <1>1, <1>7, TrailingFirst
<1>9. Trailing(ca', hand, assigns', vardata, trail', trail_lim, n, n, unitCids, db')
  BY <1>3, <1>8, TrailingLog
<1>10. Watchful(c, watches, dirty, hand)
  BY <1>3, <1>4, WatchfulReordered
<1>11. Watchful(ca', watches, dirty, hand)
  BY <1>3, <1>10, WatchfulHand
<1>12. settled' = n /\ done' = n
  <2>1. settled' = Len(trail') /\ done' = qhead'
    BY <1>3, WhereNext DEF Assuming
  <2> QED
    BY <1>2, <1>5, <2>1
<1>13. KernelInv'
  BY <1>2, <1>3, <1>9, <1>11, <1>12 DEF KernelInv, hand
<1>14. prop'.lit = 0
  BY <1>3, NotScanning DEF Walking
<1>15. ScanInv'
  BY <1>1, <1>2, <1>3, <1>14 DEF ScanInv
<1> QED
  BY <1>13, <1>15
(* Binary clauses whose two literals change places are as good.            *)
Flipped(c) ==
    /\ DOMAIN c = DOMAIN ca
    /\ \A cr \in DOMAIN ca :
         \/ c[cr] = ca[cr]
         \/ /\ c[cr].freed = ca[cr].freed /\ Len(ca[cr].lits) = 2
            /\ c[cr].lits = SwapAt(ca[cr].lits, 1, 2)

LEMMA FlippedKeeps ==
    ASSUME IInv, NEW c, Flipped(c)
    PROVE  /\ HasLits(c) /\ Reordered(ca, c)
           /\ KeepsReasons(ca, c, vardata, trail, settled)
           /\ KeepsComplete(ca, c, vardata, trail, trail_lim, viv.cr, viv.cr, settled, done)
<1>1. HasLits(ca) /\ DOMAIN c = DOMAIN ca
  BY MemoryShape DEF Flipped
<1>2. ASSUME NEW cr \in DOMAIN ca
      PROVE  \/ c[cr] = ca[cr]
             \/ /\ c[cr].freed = ca[cr].freed /\ Len(ca[cr].lits) = 2 /\ Len(c[cr].lits) = 2
                /\ ToSet(c[cr].lits) = ToSet(ca[cr].lits) /\ c[cr].lits \in Seq(Lits)
                /\ AllDistinct(ca[cr].lits) => AllDistinct(c[cr].lits)
                /\ c[cr].lits[1] = ca[cr].lits[2] /\ c[cr].lits[2] = ca[cr].lits[1]
  <2> DEFINE q == ca[cr].lits
             s == c[cr].lits
  <2>1. CASE c[cr] = ca[cr]
    BY <2>1
  <2>2. CASE c[cr].freed = ca[cr].freed /\ Len(q) = 2 /\ s = SwapAt(q, 1, 2)
    <3>1. q \in Seq(Lits)
      BY <1>1 DEF HasLits
    <3> HIDE DEF q, s
    <3>2. CanSwap(Lits, q, 1, 2)
      BY <2>2, <3>1 DEF CanSwap
    <3>3. Swapped(Lits, q, 1, 2, s)
      BY <2>2, <3>2, SwapFacts
    <3>4. 1 \in 1 .. Len(q) /\ 2 \in 1 .. Len(q)
      BY <2>2
    <3>5. s[1] = q[2] /\ s[2] = q[1]
      BY <3>3, <3>4 DEF Swapped
    <3>6. s \in Seq(Lits) /\ Len(s) = Len(q) /\ ToSet(s) = ToSet(q)
          /\ (AllDistinct(q) => AllDistinct(s))
      BY <3>3 DEF Swapped
    <3>7. /\ c[cr].freed = ca[cr].freed /\ Len(q) = 2 /\ Len(s) = 2
          /\ ToSet(s) = ToSet(q) /\ s \in Seq(Lits)
          /\ AllDistinct(q) => AllDistinct(s)
          /\ s[1] = q[2] /\ s[2] = q[1]
      BY <2>2, <3>5, <3>6
    <3> QED
      BY <3>7 DEF q, s
  <2> QED
    BY <2>1, <2>2 DEF Flipped
<1>3. HasLits(c)
  BY <1>1, <1>2 DEF HasLits
<1>4. Reordered(ca, c)
  <2>1. \A cr \in DOMAIN ca : c[cr] = ca[cr] \/ SamePair(ca[cr], c[cr])
    BY <1>2 DEF SamePair
  <2>2. \A cr \in DOMAIN ca : AllDistinct(ca[cr].lits) => AllDistinct(c[cr].lits)
    BY <1>2
  <2> QED
    BY <1>1, <1>3, <2>1, <2>2 DEF Reordered, SamePairs
<1>5. KeepsReasons(ca, c, vardata, trail, settled)
  <2>1. \A cr \in DOMAIN ca : SameReason(ca[cr], c[cr])
    BY <1>2 DEF SameReason
  <2> QED
    BY <1>1, <2>1 DEF KeepsReasons
<1>6. KeepsComplete(ca, c, vardata, trail, trail_lim, viv.cr, viv.cr, settled, done)
  <2> SUFFICES ASSUME NEW cr \in DOMAIN ca, ~c[cr].freed, cr # viv.cr, NEW j \in {1, 2}
               PROVE  /\ ~ca[cr].freed /\ ToSet(c[cr].lits) = ToSet(ca[cr].lits)
                      /\ \E m \in {1, 2} : c[cr].lits[j] = ca[cr].lits[m]
    BY <1>1 DEF KeepsComplete
  <2> QED
    BY <1>2
<1> QED
  BY <1>3, <1>4, <1>5, <1>6

LEMMA NormalizedFlips ==
    ASSUME IInv, NEW w
    PROVE  Flipped(Normalized(w)) /\ Flipped(ca) /\ DOMAIN Normalized(w) = DOMAIN ca
           /\ Normalized(w) \in Clauses(db)
<1> DEFINE c == Normalized(w)
<1>1. CRefs = DOMAIN ca /\ ca \in Clauses(db) /\ db \in Log /\ TypeOK
  BY Shapes
<1>2. DOMAIN c = DOMAIN ca
  BY <1>1 DEF Normalized
<1>3. ASSUME NEW cr \in DOMAIN ca
      PROVE  c[cr] = ca[cr] \/ c[cr] = [ca[cr] EXCEPT !.lits = ImpliedFirst(ca[cr].lits)]
  BY <1>1 DEF Normalized
<1> HIDE DEF c
<1>4. ASSUME NEW cr \in DOMAIN ca
      PROVE  \/ c[cr] = ca[cr]
             \/ /\ c[cr].freed = ca[cr].freed /\ Len(ca[cr].lits) = 2
                /\ c[cr].lits = SwapAt(ca[cr].lits, 1, 2)
  <2> DEFINE q == ImpliedFirst(ca[cr].lits)
  <2>1. CASE c[cr] = ca[cr]
    BY <2>1
  <2>2. CASE c[cr] = [ca[cr] EXCEPT !.lits = q]
    <3>1. ca[cr] \in ClauseRecord(db)
      BY <1>1, ClauseTypes
    <3>2. q = ca[cr].lits \/ (Len(ca[cr].lits) = 2 /\ q = SwapAt(ca[cr].lits, 1, 2))
      BY ImpliedFirstPut
    <3> HIDE DEF q
    <3>3. c[cr].lits = q /\ c[cr].freed = ca[cr].freed
      BY <2>2, <3>1 DEF ClauseRecord
    <3>4. CASE q = ca[cr].lits
      BY <2>2, <3>1, <3>4 DEF ClauseRecord
    <3>5. CASE Len(ca[cr].lits) = 2 /\ q = SwapAt(ca[cr].lits, 1, 2)
      BY <3>3, <3>5
    <3> QED
      BY <3>2, <3>4, <3>5
  <2> QED
    BY <1>3, <2>1, <2>2
<1>5. Flipped(c) /\ Flipped(ca)
  BY <1>2, <1>4 DEF Flipped
<1>6. c \in Clauses(db)
  BY <1>1, NormalizedClauses DEF c
<1> QED
  BY <1>2, <1>5, <1>6 DEF c
-----------------------------------------------------------------------------
(* What a conflict among the assumptions leaves of the clause.             *)
ConflictWalk(w) == pc = "simpleAnalyze" /\ w = simpleAnalyze
Negated(w) == [k \in DOMAIN w.assumed |-> -w.assumed[k]]
Shortened(w) == (IF viv.True_confl THEN <<Last(viv.kept)>> ELSE <<>>) \o Negated(w)

LEMMA ConflictWalkShape ==
    ASSUME IInv, NEW w, ConflictWalk(w)
    PROVE  /\ w \in Walk /\ w.hints.hints # <<>> /\ Met(w.assumed, assumedCount)
           /\ SameMarks(an, w.hints)
<1> DEFINE q == IF viv.True_confl THEN Tail(conflLits) ELSE conflLits
           w0 == Mark(NoWalk, confl, q)
<1>1. Usable(confl) /\ confl \in DOMAIN ca
  BY Shapes DEF ControlInv, ConflictWalk, Usable
<1>2. q \in Seq(Lits)
  <2> DEFINE s == ca[confl].lits
  <2>1. HasLits(ca) /\ Memory(ca, viv.cr) /\ ~ca[confl].freed /\ confl # viv.cr
    BY <1>1, MemoryShape DEF Usable
  <2>2. s \in Seq(Lits) /\ ~(Len(s) < 2)
    BY <1>1, <2>1 DEF HasLits, Memory
  <2>3. conflLits = s
    BY DEF conflLits
  <2> HIDE DEF s
  <2>4. \A t \in Seq(Lits) : ~(Len(t) < 2) => Tail(t) \in Seq(Lits)
    OBVIOUS
  <2> QED
    BY <2>2, <2>3, <2>4
<1>3. NoWalk \in Walk /\ NoWalk.assumed = <<>> /\ NoWalk.hints = an
  BY HintsNow DEF NoWalk, Walk
<1> HIDE DEF q
<1>4. Marks(NoWalk, w0)
  BY <1>1, <1>2, <1>3, MarkShape
<1>5. w = Traced(w0)
  BY DEF ConflictWalk, simpleAnalyze, q
<1>6. Walking
  BY DEF ConflictWalk, Walking
<1> HIDE DEF w0
<1>7. w0 \in Walk /\ w0.assumed = <<>> /\ w0.hints.hints # <<>> /\ SameMarks(an, w0.hints)
  BY <1>3, <1>4 DEF Marks
<1>8. Traces(w0, w)
  BY <1>5, <1>6, <1>7, TracedShape
<1> QED
  BY <1>7, <1>8 DEF Traces, SameMarks

(* The negation of an assumption is a literal of the clause.               *)
LEMMA MetKept ==
    ASSUME IInv, Walking, NEW s, Met(s, assumedCount), NEW l \in ToSet(s)
    PROVE  /\ l \in Lits /\ IsTrue(l) /\ -l \in ToSet(viv.kept) /\ reason(l) = CRef_Undef
           /\ \E i \in viv.trailRecord + 1 .. Len(trail) : trail[i] = l
<1>1. PICK k \in 1 .. assumedCount : l = trail[Len(trail) + 1 - k]
  BY DEF Met
<1>2. reason(l) = CRef_Undef
  BY DEF Met
<1> DEFINE i == Len(trail) + 1 - k
<1>3. i \in viv.trailRecord + 1 .. Len(trail) /\ l = trail[i] /\ l \in Lits
      /\ viv.trailRecord \in 0 .. Len(trail) /\ Len(trail) \in Nat
  BY <1>1, AssumptionPlaces
<1> HIDE DEF i
<1>4. i \in 1 .. Len(trail)
  BY <1>3
<1>5. IsTrue(l)
  BY <1>3, <1>4, TrailShape, Element DEF Assigned, IsTrue
<1>6. pc \in Assuming /\ VivInv
  BY Shapes DEF Walking, Assuming
<1>7. -l \in ToSet(viv.kept)
  BY <1>2, <1>3, <1>6 DEF VivInv
<1> QED
  BY <1>2, <1>3, <1>5, <1>7

(* A literal of the clause that is kept stands among the assumptions or    *)
(* what they imply, when it has a value.                                   *)
LEMMA KeptShape ==
    ASSUME IInv, Walking, NEW l \in ToSet(viv.kept)
    PROVE  /\ l \in Lits /\ l \in ToSet(vivLits)
           /\ \A i \in 1 .. viv.trailRecord : Var(trail[i]) # Var(l)
<1>1. pc \in Assuming /\ VivInv
  BY Shapes DEF Walking, Assuming
<1>2. PICK k \in 1 .. Len(vivLits) : vivLits[k] = l
  BY <1>1 DEF VivInv
<1>3. viv.cr # CRef_Undef
  BY <1>1, Shapes DEF HandInv, Vivifying
<1>4. vivLits \in Seq(Lits)
  BY <1>3, HandShape
<1>5. l \in Lits /\ l \in ToSet(vivLits)
  BY <1>2, <1>4, Element
<1>6. \A i \in 1 .. viv.trailRecord : Var(trail[i]) # Var(l)
  BY <1>1, <1>5 DEF VivInv
<1> QED
  BY <1>5, <1>6

LEMMA NegatedShape ==
    ASSUME NEW s, s \in Seq(Lits), AllDistinct(s), NEW t, t = [k \in DOMAIN s |-> -s[k]]
    PROVE  /\ t \in Seq(Lits) /\ AllDistinct(t) /\ Len(t) = Len(s)
           /\ \A l : l \in ToSet(t) => l \in Lits /\ -l \in ToSet(s)
<1>1. /\ Len(s) \in Nat /\ DOMAIN s = 1 .. Len(s)
      /\ \A k \in 1 .. Len(s) : s[k] \in Lits /\ s[k] \in ToSet(s)
  BY Element
<1>2. \A k \in 1 .. Len(s) : /\ -s[k] \in Lits /\ -(-s[k]) = s[k] /\ Var(-s[k]) = Var(s[k])
  BY <1>1, LitFacts
<1>3. \A k \in 1 .. Len(s) : t[k] = -s[k] /\ t[k] \in Lits
  BY <1>1, <1>2
<1>4. t \in Seq(Lits) /\ DOMAIN t = 1 .. Len(s) /\ Len(t) = Len(s)
  <2>1. t \in [1 .. Len(s) -> Lits]
    BY <1>1, <1>2
  <2> QED
    BY <1>1, <2>1
<1>5. AllDistinct(t)
  BY <1>1, <1>2, <1>3, <1>4 DEF AllDistinct
<1>6. \A l : l \in ToSet(t) => l \in Lits /\ -l \in ToSet(s)
  BY <1>1, <1>2, <1>3, <1>4 DEF ToSet
<1> QED
  BY <1>4, <1>5, <1>6
(* A literal put before others of other variables.                         *)
LEMMA PrependDistinct ==
    ASSUME NEW X, NEW s \in Seq(X), AllDistinct(s), NEW x \in X, \A y \in ToSet(s) : Var(y) # Var(x)
    PROVE  /\ <<x>> \o s \in Seq(X) /\ ToSet(<<x>> \o s) = ToSet(s) \cup {x}
           /\ AllDistinct(<<x>> \o s) /\ Len(<<x>> \o s) = Len(s) + 1
<1> DEFINE t == <<x>> \o s
<1>1. /\ Len(s) \in Nat /\ DOMAIN s = 1 .. Len(s) /\ t \in Seq(X) /\ Len(t) = Len(s) + 1
      /\ DOMAIN t = 1 .. Len(s) + 1
      /\ \A i \in 1 .. Len(s) : s[i] \in ToSet(s)
      /\ t[1] = x /\ \A i \in 2 .. Len(s) + 1 : t[i] = s[i - 1]
  BY Element
<1> HIDE DEF t
<1>2. \A i \in 1 .. Len(s) + 1 : i = 1 \/ (i \in 2 .. Len(s) + 1 /\ i - 1 \in 1 .. Len(s))
  BY <1>1
<1>3. 1 \in 1 .. Len(s) + 1 /\ \A i \in 1 .. Len(s) : i + 1 \in 2 .. Len(s) + 1 /\ (i + 1) - 1 = i
  BY <1>1
<1>4. ToSet(t) = ToSet(s) \cup {x}
  <2>1. ASSUME NEW y \in ToSet(t)
        PROVE  y \in ToSet(s) \cup {x}
    <3>1. PICK i \in 1 .. Len(s) + 1 : t[i] = y
      BY <1>1, <2>1 DEF ToSet
    <3>2. CASE i = 1
      BY <1>1, <3>1, <3>2
    <3>3. CASE i \in 2 .. Len(s) + 1 /\ i - 1 \in 1 .. Len(s)
      <4>1. t[i] = s[i - 1] /\ s[i - 1] \in ToSet(s)
        BY <1>1, <3>3
      <4> QED
        BY <3>1, <4>1
    <3> QED
      BY <1>2, <3>2, <3>3
  <2>2. x \in ToSet(t)
    BY <1>1, <1>3 DEF ToSet
  <2>3. ASSUME NEW y \in ToSet(s)
        PROVE  y \in ToSet(t)
    <3>1. PICK i \in 1 .. Len(s) : s[i] = y
      BY Element
    <3>2. t[i + 1] = y /\ i + 1 \in 1 .. Len(s) + 1
      BY <1>1, <1>3, <3>1
    <3> QED
      BY <1>1, <3>2 DEF ToSet
  <2> QED
    BY <2>1, <2>2, <2>3
<1>5. AllDistinct(t)
  <2> SUFFICES ASSUME NEW i \in 1 .. Len(s) + 1, NEW j \in 1 .. Len(s) + 1, Var(t[i]) = Var(t[j])
               PROVE  i = j
    BY <1>1 DEF AllDistinct
  <2>1. CASE i = 1 /\ j = 1
    BY <2>1
  <2>2. CASE i = 1 /\ j \in 2 .. Len(s) + 1
    BY <1>1, <1>2, <2>2
  <2>3. CASE j = 1 /\ i \in 2 .. Len(s) + 1
    BY <1>1, <1>2, <2>3
  <2>4. CASE i \in 2 .. Len(s) + 1 /\ j \in 2 .. Len(s) + 1
    <3>1. i - 1 \in 1 .. Len(s) /\ j - 1 \in 1 .. Len(s) /\ t[i] = s[i - 1] /\ t[j] = s[j - 1]
      BY <1>1, <2>4
    <3>2. i - 1 = j - 1
      BY <1>1, <3>1 DEF AllDistinct
    <3> QED
      BY <1>1, <3>2
  <2> QED
    BY <1>2, <2>1, <2>2, <2>3, <2>4
<1> QED
  BY <1>1, <1>4, <1>5 DEF t

(* The literals of the shorter clause.                                     *)
Shorter(q) ==
    /\ q \in Seq(Lits) /\ AllDistinct(q)
    /\ \A l \in ToSet(q) :
         /\ l \in ToSet(vivLits) /\ \A i \in 1 .. viv.trailRecord : Var(trail[i]) # Var(l)
         /\ IsUndef(l) \/ \E i \in viv.trailRecord + 1 .. Len(trail) : Var(trail[i]) = Var(l)

LEMMA ShortenedShape ==
    ASSUME IInv, NEW w, ConflictWalk(w)
    PROVE  Shorter(Shortened(w))
<1> DEFINE s == w.assumed
           t == Negated(w)
<1>1. Walking /\ s \in Seq(Lits) /\ AllDistinct(s) /\ Met(s, assumedCount)
  BY ConflictWalkShape DEF ConflictWalk, Walking, Walk, Met
<1>2. t = [k \in DOMAIN s |-> -s[k]]
  BY DEF Negated
<1> HIDE DEF t
<1>3. /\ t \in Seq(Lits) /\ AllDistinct(t)
      /\ \A l : l \in ToSet(t) => l \in Lits /\ -l \in ToSet(s)
  BY <1>1, <1>2, NegatedShape
<1> HIDE DEF s
<1>4. ASSUME NEW l, l \in ToSet(t)
      PROVE  /\ l \in ToSet(vivLits) /\ \A i \in 1 .. viv.trailRecord : Var(trail[i]) # Var(l)
             /\ \E i \in viv.trailRecord + 1 .. Len(trail) : Var(trail[i]) = Var(l)
             /\ IsFalse(l) /\ l \in ToSet(viv.kept) /\ l \in Lits
  <2> DEFINE m == -l
  <2>1. l \in Lits /\ m \in ToSet(s) /\ -m = l /\ Var(m) = Var(l) /\ m \in Lits
    BY <1>3, <1>4, LitFacts
  <2> HIDE DEF m
  <2>2. /\ IsTrue(m) /\ -m \in ToSet(viv.kept)
        /\ \E i \in viv.trailRecord + 1 .. Len(trail) : trail[i] = m
    BY <1>1, <2>1, MetKept
  <2>3. l \in ToSet(viv.kept)
    BY <2>1, <2>2
  <2>4. l \in ToSet(vivLits) /\ \A i \in 1 .. viv.trailRecord : Var(trail[i]) # Var(l)
    BY <1>1, <2>3, KeptShape
  <2>5. IsFalse(l)
    BY <2>1, <2>2 DEF IsTrue, IsFalse, m
  <2>6. \E i \in viv.trailRecord + 1 .. Len(trail) : Var(trail[i]) = Var(l)
    BY <2>1, <2>2
  <2> QED
    BY <2>1, <2>3, <2>4, <2>5, <2>6
<1>5. CASE ~viv.True_confl
  <2>1. Shortened(w) = t
    <3>1. Shortened(w) = <<>> \o t
      BY <1>5 DEF Shortened, t
    <3>2. \A x \in Seq(Lits) : <<>> \o x = x
      OBVIOUS
    <3> QED
      BY <1>3, <3>1, <3>2
  <2> QED
    BY <1>3, <1>4, <2>1 DEF Shorter
<1>6. CASE viv.True_confl
  <2> DEFINE x == Last(viv.kept)
  <2>1. /\ viv.kept # <<>> /\ IsTrue(x) /\ viv.kept \in Seq(Lits) /\ AllDistinct(viv.kept)
    <3>1. pc \in Assuming /\ VivInv /\ pc = "simpleAnalyze"
      BY Shapes DEF ConflictWalk, Assuming
    <3>2. viv.kept \in Seq(Lits)
      BY VivShape DEF LitSeq
    <3> QED
      BY <1>6, <3>1, <3>2 DEF VivInv
  <2>2. x \in ToSet(viv.kept) /\ x \in Lits
    <3>1. Len(viv.kept) \in 1 .. Len(viv.kept) /\ x = viv.kept[Len(viv.kept)]
      BY <2>1 DEF Last
    <3> HIDE DEF x
    <3> QED
      BY <2>1, <3>1, Element
  <2> HIDE DEF x
  <2>3. x \in ToSet(vivLits) /\ \A i \in 1 .. viv.trailRecord : Var(trail[i]) # Var(x)
    BY <1>1, <2>2, KeptShape
  <2>4. \E i \in viv.trailRecord + 1 .. Len(trail) : Var(trail[i]) = Var(x)
    <3>1. assigns[Var(x)] = x /\ Var(x) \in Vars /\ x # 0
      BY <2>1, <2>2, LitFacts DEF IsTrue
    <3>0. Assigned(assigns, trail) /\ DOMAIN trail = 1 .. Len(trail)
      BY TrailShape, Element
    <3>2. PICK i \in 1 .. Len(trail) : trail[i] = x
      BY <3>0, <3>1 DEF Assigned
    <3>3. ~(i \in 1 .. viv.trailRecord)
      BY <2>3, <3>2
    <3>4. i \in viv.trailRecord + 1 .. Len(trail)
      BY <1>1, <3>2, <3>3, AssumptionPlaces
    <3> QED
      BY <3>2, <3>4
  <2>5. ASSUME NEW l, l \in ToSet(t), Var(l) = Var(x)
        PROVE  FALSE
    <3>1. IsFalse(l) /\ l \in Lits /\ l \in ToSet(viv.kept)
      BY <1>4, <2>5
    <3>2. l = x \/ l = -x
      BY <2>2, <2>5, <3>1, LitFacts
    <3>3. assigns[Var(x)] = x /\ assigns[Var(x)] = -l /\ -x # x
      BY <2>1, <2>2, <2>5, <3>1, LitFacts DEF IsTrue, IsFalse
    <3>4. l = -x
      BY <3>2, <3>3
    <3>5. PICK i \in 1 .. Len(viv.kept) : viv.kept[i] = l
      BY <2>1, <3>1, Element
    <3>6. PICK j \in 1 .. Len(viv.kept) : viv.kept[j] = x
      BY <2>1, <2>2, Element
    <3>7. i = j
      BY <2>1, <2>5, <3>5, <3>6, Element DEF AllDistinct
    <3>8. l = x
      BY <3>5, <3>6, <3>7
    <3> QED
      BY <3>3, <3>4, <3>8
  <2>6. /\ <<x>> \o t \in Seq(Lits) /\ AllDistinct(<<x>> \o t) /\ ToSet(<<x>> \o t) = ToSet(t) \cup {x}
    <3>1. \A y \in ToSet(t) : Var(y) # Var(x)
      BY <2>5
    <3> QED
      BY <1>3, <2>2, <3>1, PrependDistinct
  <2>7. Shortened(w) = <<x>> \o t
    BY <1>6 DEF Shortened, t, x
  <2> DEFINE u == <<x>> \o t
  <2>8. Shortened(w) = u /\ u \in Seq(Lits) /\ AllDistinct(u) /\ ToSet(u) = ToSet(t) \cup {x}
    BY <2>6, <2>7
  <2> HIDE DEF u
  <2> QED
    BY <1>4, <2>3, <2>4, <2>8 DEF Shorter
<1> QED
  BY <1>5, <1>6

LEMMA SimplifyConflictKernel ==
    ASSUME IInv, simplifyConflict
    PROVE  KernelInv' /\ ScanInv'
<1> DEFINE w == simpleAnalyze
           q == Shortened(w)
           c == Normalized(w)
           a == w.hints
<1>1. pc = "simpleAnalyze" /\ cancelUntilTrailRecord /\ pc' = "simplified" /\ UNCHANGED shrinkFrame
  BY DEF simplifyConflict
<1>2. ReplaceBy(q, a, c)
  BY DEF simplifyConflict, Shortened, Negated
<1>3. ConflictWalk(w)
  BY <1>1 DEF ConflictWalk
<1>4. Walking /\ viv.cr # CRef_Undef
  <2>1. Walking
    BY <1>1 DEF Walking
  <2> QED
    BY <1>1, <2>1, TakeBack
<1> HIDE DEF w
<1>5. Shorter(q)
  BY <1>3, ShortenedShape
<1>6. Flipped(c) /\ DOMAIN c = DOMAIN ca /\ c \in Clauses(db)
  BY NormalizedFlips
<1> HIDE DEF q, c, a
<1>7. CanReplace(c, q)
  BY <1>5, <1>6 DEF CanReplace, Shorter
<1>8. OnlyHand(c, ca', viv.cr) /\ SameUnits(unitCids, db, db')
  BY <1>2, <1>4, <1>7, ReplaceShape
<1>9. /\ HasLits(c) /\ Reordered(ca, c)
      /\ KeepsReasons(ca, c, vardata, trail, settled)
      /\ KeepsComplete(ca, c, vardata, trail, trail_lim, viv.cr, viv.cr, settled, done)
  BY <1>6, FlippedKeeps
<1>10. UNCHANGED <<watches, dirty, unitCids, prop, viv>>
  BY <1>1 DEF shrinkFrame, vivifyVars
<1>11. Shrinks(c)
  BY <1>1, <1>4, <1>8, <1>9, <1>10 DEF Shrinks
<1> QED
  BY <1>11, ShrinkKernel

LEMMA SimplifyNoConflictKernel ==
    ASSUME IInv, simplifyNoConflict
    PROVE  KernelInv' /\ ScanInv'
<1> DEFINE a == analyzeFalseLits.hints
<1>1. pc = "simplifyLearnt" /\ cancelUntilTrailRecord /\ pc' = "simplified" /\ UNCHANGED shrinkFrame
  BY DEF simplifyNoConflict
<1>2. UNCHANGED <<ca, db>> \/ ReplaceBy(viv.kept, a, ca)
  BY DEF simplifyNoConflict
<1> HIDE DEF a
<1>3. Walking /\ viv.cr # CRef_Undef
  <2>1. Walking
    BY <1>1 DEF Walking
  <2> QED
    BY <1>1, <2>1, TakeBack
<1>4. Flipped(ca)
  BY NormalizedFlips
<1>5. CanReplace(ca, viv.kept)
  <2>1. pc \in Assuming /\ VivInv
    BY <1>1, Shapes DEF Assuming
  <2>2. viv.kept \in Seq(Lits) /\ ca \in Clauses(db)
    BY Shapes, VivShape DEF LitSeq, TypeOK
  <2> QED
    BY <2>1, <2>2 DEF CanReplace, VivInv
<1>6. OnlyHand(ca, ca', viv.cr) /\ SameUnits(unitCids, db, db')
  <2>1. CASE ReplaceBy(viv.kept, a, ca)
    BY <1>3, <1>5, <2>1, ReplaceShape
  <2>2. CASE UNCHANGED <<ca, db>>
    <3>1. viv.cr \in DOMAIN ca => ca[viv.cr].lits \in Seq(Lits) /\ AllDistinct(ca[viv.cr].lits)
      BY MemoryShape DEF HasLits, Memory
    <3>2. OnlyHand(ca, ca', viv.cr)
      BY <2>2, <3>1 DEF OnlyHand
    <3>3. SameUnits(unitCids, db, db')
      BY <2>2, SameLog
    <3> QED
      BY <3>2, <3>3
  <2> QED
    BY <1>2, <2>1, <2>2
<1>7. /\ HasLits(ca) /\ Reordered(ca, ca)
      /\ KeepsReasons(ca, ca, vardata, trail, settled)
      /\ KeepsComplete(ca, ca, vardata, trail, trail_lim, viv.cr, viv.cr, settled, done)
  BY <1>4, FlippedKeeps
<1>8. UNCHANGED <<watches, dirty, unitCids, prop, viv>>
  BY <1>1 DEF shrinkFrame, vivifyVars
<1>9. Shrinks(ca)
  BY <1>1, <1>3, <1>6, <1>7, <1>8 DEF Shrinks
<1> QED
  BY <1>9, ShrinkKernel

-----------------------------------------------------------------------------
(* Every step keeps the trail, the clauses and the watchers in order.      *)
LEMMA IdleStep ==
    ASSUME IInv, UNCHANGED vars
    PROVE  IInv'
<1> USE DEF vars
<1>1. /\ CRefs' = CRefs /\ formula' = formula /\ settled' = settled /\ done' = done /\ N' = N
      /\ binWatchers' = binWatchers /\ longWatchers' = longWatchers
      /\ decisionLevel' = decisionLevel /\ vivLits' = vivLits /\ conflLits' = conflLits
      /\ Propagating' = Propagating /\ Clean' = Clean
      /\ \A l : /\ IsTrue(l)' = IsTrue(l) /\ IsFalse(l)' = IsFalse(l) /\ IsUndef(l)' = IsUndef(l)
                /\ level(l)' = level(l) /\ reason(l)' = reason(l) /\ Usable(l)' = Usable(l)
  BY DEF CRefs, formula, settled, done, N, binWatchers, longWatchers, decisionLevel, vivLits,
         conflLits, Propagating, Simple, Clean, IsTrue, IsFalse, IsUndef, level, reason, Usable
<1>2. \A s : AllFalse(s)' = AllFalse(s) /\ HereVars(s)' = HereVars(s)
  BY <1>1 DEF AllFalse, HereVars
<1>3. TypeOK'
  BY <1>1, Shapes DEF TypeOK
<1>4. KernelInv' /\ ScanInv'
  BY <1>1, Shapes DEF KernelInv, ScanInv
<1>5. ControlInv' /\ HandInv' /\ NoTraceOfAnalysis'
  BY <1>1, <1>2, Shapes DEF ControlInv, HandInv, NoTraceOfAnalysis
<1>6. VivInv'
  BY <1>1, Shapes DEF VivInv
<1>7. AnalysisInv'
  <2>1. AnaTypes' = AnaTypes /\ LowerLearnt' = LowerLearnt
    BY <1>1 DEF AnaTypes, LowerLearnt
  <2>2. ResolveInv' = ResolveInv
    BY <1>1, <1>2, <2>1 DEF ResolveInv
  <2>3. MinimizeInv' = MinimizeInv /\ RedundantInv' = RedundantInv
    BY <1>1, <1>2, <2>1 DEF MinimizeInv, RedundantInv
  <2>4. LearntInv' = LearntInv /\ BacktrackInv' = BacktrackInv /\ LearnInv' = LearnInv
    BY <1>1, <1>2, <2>1 DEF LearntInv, BacktrackInv, LearnInv
  <2> QED
    BY <1>1, <2>1, <2>2, <2>3, <2>4, Shapes DEF AnalysisInv
<1> QED
  BY <1>3, <1>4, <1>5, <1>6, <1>7 DEF IInv

LEMMA ConflictHandlingKernel ==
    ASSUME IInv, conflictHandling, UNCHANGED vivifyVars
    PROVE  KernelInv' /\ ScanInv'
<1> USE DEF conflictHandling
<1>1. CASE levelZeroConflict \/ searchLevelZeroConflict \/ singleHighest \/ analyzeBegin
  BY <1>1, LevelZeroConflictKernel, SearchLevelZeroKernel, SingleHighestKernel, AnalyzeBeginKernel
<1>2. CASE analyzeResolve \/ backtrack
  BY <1>2, AnalyzeResolveKernel, BacktrackKernel
<1>3. CASE minimizeKeep \/ litRedundantBegin \/ litRedundantTrue \/ minimizeBasic \/ analyzeEnd
  BY <1>3, QuietAnalysis
<1>4. CASE litRedundantStep \/ litRedundantFalse
  BY <1>4, LitRedundantKernel
<1>5. CASE learnUnit
  BY <1>5, UnitKernel
<1>6. CASE learnClause
  <2>1. LearnsClause
    BY <1>6 DEF LearnsClause
  <2> QED
    BY <2>1, LearnClauseKernel
<1> QED
  BY <1>1, <1>2, <1>3, <1>4, <1>5, <1>6

LEMMA SimplifyAllKernel ==
    ASSUME IInv, simplifyAll
    PROVE  KernelInv' /\ ScanInv'
<1> USE DEF simplifyAll
<1>1. CASE simplifySatisfied
  BY <1>1, RemoveKernel
<1>2. CASE simplifyAllDone \/ simplePropagateDone \/ literalFalse \/ literalTrue
  BY <1>2, NoConflictKernel
<1>3. CASE simplifyBegin \/ assumeFalse \/ simplifiedAttach \/ simplifiedUnitDone
  BY <1>3, SimplifyBeginKernel, AssumeFalseKernel, SimplifiedAttachKernel, SimplifiedUnitDoneKernel
<1>4. CASE simplifyConflict \/ simplifyNoConflict
  BY <1>4, SimplifyConflictKernel, SimplifyNoConflictKernel
<1>5. CASE simplifiedUnit
  BY <1>5, UnitKernel
<1> QED
  BY <1>1, <1>2, <1>3, <1>4, <1>5

LEMMA KernelStep ==
    ASSUME IInv, [Next]_vars
    PROVE  KernelInv' /\ ScanInv'
<1>1. CASE UNCHANGED vars
  BY <1>1, IdleStep DEF IInv
<1>2. CASE parseClause
  BY <1>2, ParseKernel
<1>3. CASE addUnitDone \/ solve_
  BY <1>3, NoConflictKernel
<1>4. CASE search
  BY <1>4, RestartKernel, RemoveKernel, DecideKernel DEF search
<1>5. CASE propagate /\ UNCHANGED <<analysisVars, vivifyVars, inputFrame>>
  BY <1>5, PropagateScan
<1>6. CASE conflictHandling /\ UNCHANGED <<vivifyVars, inputFrame>>
  BY <1>6, ConflictHandlingKernel
<1>7. CASE simplifyAll /\ UNCHANGED inputFrame
  BY <1>7, SimplifyAllKernel
<1> QED
  BY <1>1, <1>2, <1>3, <1>4, <1>5, <1>6, <1>7 DEF Next, Step

-----------------------------------------------------------------------------
(* Types of the log and of what refers to it.                              *)
LogInv ==
    /\ db \in Log /\ ca \in Clauses(db) /\ an \in HintType(db)
    /\ unitCids \in [Vars -> DOMAIN db \cup {NoCid}]

(* Types of what refers to a clause or to a place of the trail.            *)
PlaceInv ==
    /\ \A v \in Vars : vardata[v].reason \in CRefs \cup {CRef_Undef}
    /\ qhead \in 0 .. Len(trail)
    /\ confl \in CRefs \cup {CRef_Undef}
    /\ prop \in [lit : Lits \cup {0}, k : Nat, i : Nat]
    /\ viv \in [on : BOOLEAN, cr : CRefs \cup {CRef_Undef}, i : Nat, kept : LitSeq,
                falseLit : LitSeq, True_confl : BOOLEAN, trailRecord : 0 .. Len(trail)]

PlainInv ==
    /\ ok \in BOOLEAN /\ searching \in BOOLEAN /\ seen \subseteq Vars /\ pc \in Phases
    /\ learnt \in Seq(Lits \cup {0})
    /\ due \in [curSimplify : Nat, nbconf : Nat]
    /\ conflicts \in Nat /\ restarts \in Nat /\ reductions \in Nat
    /\ next \in 1 .. Len(formula) + 1

LEMMA TypeParts == ASSUME IInv PROVE LogInv /\ PlaceInv /\ PlainInv
<1>1. TypeOK
  BY Shapes
<1>2. LogInv
  BY <1>1, Types DEF TypeOK, LogInv, HintType
<1>3. PlaceInv /\ PlainInv
  BY <1>1 DEF TypeOK, PlaceInv, PlainInv
<1> QED
  BY <1>2, <1>3

(* The other types follow from the state of the trail and the clauses.     *)
LEMMA TypesFromParts == KernelInv /\ LogInv /\ PlaceInv /\ PlainInv => TypeOK
<1> SUFFICES ASSUME KernelInv, LogInv, PlaceInv, PlainInv
             PROVE  TypeOK
  OBVIOUS
<1>1. /\ Trailing(ca, viv.cr, assigns, vardata, trail, trail_lim, settled, done, unitCids, db)
      /\ Watchful(ca, watches, dirty, viv.cr)
  BY DEF KernelInv
<1>2. /\ assigns \in [Vars -> Lits \cup {0}] /\ trail \in Seq(Lits) /\ trail_lim \in Seq(Nat)
      /\ OnVars(vardata) /\ HasLevels(vardata) /\ settled \in Nat /\ settled <= Len(trail)
      /\ Levels(vardata, trail, trail_lim, settled)
  BY <1>1, TrailingParts
<1>3. /\ watches \in WatcherLists(ca) /\ dirty \in [{"bin", "long"} -> SUBSET Lits]
  BY <1>1, WatchfulParts
<1>4. trail_lim \in Seq(0 .. Len(trail))
  <2>1. \A k \in DOMAIN trail_lim : trail_lim[k] \in Nat /\ trail_lim[k] < settled
    BY <1>2, Element DEF Levels
  <2>2. Len(trail) \in Nat
    BY <1>2
  <2>3. \A k \in DOMAIN trail_lim : trail_lim[k] \in 0 .. Len(trail)
    BY <1>2, <2>1, <2>2
  <2>4. trail_lim = [k \in 1 .. Len(trail_lim) |-> trail_lim[k]] /\ Len(trail_lim) \in Nat
        /\ DOMAIN trail_lim = 1 .. Len(trail_lim)
    BY <1>2
  <2>5. trail_lim \in [1 .. Len(trail_lim) -> 0 .. Len(trail)]
    BY <2>3, <2>4
  <2> QED
    BY <2>4, <2>5
<1>5. vardata \in [Vars -> [reason : CRefs \cup {CRef_Undef}, level : Nat]]
  <2>1. \A v \in Vars : [reason |-> vardata[v].reason, level |-> vardata[v].level]
                          \in [reason : CRefs \cup {CRef_Undef}, level : Nat]
    BY <1>2 DEF PlaceInv, HasLevels
  <2> QED
    BY <1>2, <2>1 DEF OnVars
<1>6. watches \in [{"bin", "long"} -> [Lits -> Seq([cref : CRefs, blocker : Lits])]]
  BY <1>3 DEF WatcherLists, CRefs
<1>7. trail \in LitSeq
  BY <1>2 DEF LitSeq
<1>8. /\ ca \in Seq([lits : LitSeq, learnt : BOOLEAN, cid : DOMAIN db,
                     simplified : BOOLEAN, freed : BOOLEAN])
      /\ db \in Seq(RecordType)
      /\ an \in [hints : Seq(DOMAIN db), units : Seq(DOMAIN db),
                 reverts : Seq(RevertMarker), nUnordered : Nat]
  BY DEF LogInv, Clauses, ClauseRecord, Log, HintType
<1>9. unitCids \in [Vars -> DOMAIN db \cup {NoCid}]
  BY DEF LogInv
<1> QED
  BY <1>2, <1>3, <1>4, <1>5, <1>6, <1>7, <1>8, <1>9 DEF TypeOK, PlaceInv, PlainInv

LEMMA TypesNext ==
    ASSUME KernelInv', LogInv', PlaceInv', PlainInv'
    PROVE  TypeOK'
BY TypesFromParts, PTL

-----------------------------------------------------------------------------
(* Records.                                                                *)
LEMMA RecordOf ==
    ASSUME NEW d, DOMAIN d \subseteq Nat, NEW a \in HintType(d), NEW q \in Seq(Lits)
    PROVE  Resolvent(a, q, GetOrigin(a)) \in RecordType /\ Resolvent(a, q, "REDUNDANT") \in RecordType
<1>1. a.hints \in Seq(DOMAIN d) /\ a.units \in Seq(DOMAIN d)
  BY DEF HintType
<1>2. a.hints \o a.units \in Seq(Nat)
  <2>1. \A S, T : S \subseteq T => Seq(S) \subseteq Seq(T)
    OBVIOUS
  <2>2. \A x, y \in Seq(Nat) : x \o y \in Seq(Nat)
    OBVIOUS
  <2>3. a.hints \in Seq(Nat) /\ a.units \in Seq(Nat)
    BY <1>1, <2>1
  <2> QED
    BY <2>2, <2>3
<1>3. GetOrigin(a) \in ClauseOrigin /\ "REDUNDANT" \in ClauseOrigin
  BY DEF GetOrigin, ClauseOrigin
<1> QED
  BY <1>2, <1>3 DEF Resolvent, RecordType, LitSeq

LEMMA DeletionOf == ASSUME NEW n \in Nat PROVE DeleteRecord(n) \in RecordType
<1>1. <<n>> \in Seq(Nat) /\ <<>> \in Seq(Lits)
  OBVIOUS
<1> QED
  BY <1>1 DEF DeleteRecord, RecordType, ClauseOrigin, LitSeq

(* What refers to a log refers to a longer one.                            *)
Continues(d, d2) == d \in Log /\ d2 \in Log /\ Len(d) <= Len(d2)

LEMMA ContinuesParts ==
    ASSUME NEW d, NEW d2, Continues(d, d2)
    PROVE  /\ DOMAIN d = 1 .. Len(d) /\ DOMAIN d2 = 1 .. Len(d2) /\ Len(d) \in Nat /\ Len(d2) \in Nat
           /\ DOMAIN d \subseteq DOMAIN d2 /\ DOMAIN d2 \subseteq Nat
<1>1. Len(d) \in Nat /\ DOMAIN d = 1 .. Len(d) /\ Len(d2) \in Nat /\ DOMAIN d2 = 1 .. Len(d2)
  BY LogTypes DEF Continues
<1>2. Len(d) <= Len(d2)
  BY DEF Continues
<1>3. \A m, n \in Nat : m <= n => 1 .. m \subseteq 1 .. n /\ 1 .. n \subseteq Nat
  OBVIOUS
<1> QED
  BY <1>1, <1>2, <1>3

LEMMA ContinuesTypes ==
    ASSUME NEW d, NEW d2, Continues(d, d2)
    PROVE  /\ \A c \in Clauses(d) : c \in Clauses(d2)
           /\ \A a \in HintType(d) : a \in HintType(d2)
           /\ \A u \in [Vars -> DOMAIN d \cup {NoCid}] : u \in [Vars -> DOMAIN d2 \cup {NoCid}]
<1>1. DOMAIN d \subseteq DOMAIN d2
  BY ContinuesParts
<1>2. \A S, T : S \subseteq T => Seq(S) \subseteq Seq(T)
  OBVIOUS
<1>3. ClauseRecord(d) \subseteq ClauseRecord(d2)
  BY <1>1 DEF ClauseRecord
<1>4. HintType(d) \subseteq HintType(d2)
  <2>1. Seq(DOMAIN d) \subseteq Seq(DOMAIN d2)
    BY <1>1, <1>2
  <2> QED
    BY <2>1 DEF HintType
<1>5. Clauses(d) \subseteq Clauses(d2)
  BY <1>2, <1>3 DEF Clauses
<1>6. ASSUME NEW u \in [Vars -> DOMAIN d \cup {NoCid}]
      PROVE  u \in [Vars -> DOMAIN d2 \cup {NoCid}]
  BY <1>1
<1> QED
  BY <1>4, <1>5, <1>6

LEMMA ContinuesOne ==
    ASSUME NEW d \in Log, NEW r \in RecordType
    PROVE  Continues(d, Append(d, r)) /\ Len(Append(d, r)) = Len(d) + 1
<1>1. Append(d, r) \in Log /\ Len(Append(d, r)) = Len(d) + 1 /\ Len(d) \in Nat
  BY DEF Log
<1> QED
  BY <1>1 DEF Continues

LEMMA ContinuesTwo ==
    ASSUME NEW d \in Log, NEW r \in RecordType, NEW s \in RecordType
    PROVE  Continues(d, d \o <<r, s>>) /\ Len(d \o <<r, s>>) = Len(d) + 2
<1>1. <<r, s>> \in Seq(RecordType) /\ Len(<<r, s>>) = 2
  OBVIOUS
<1>2. \A x, y \in Seq(RecordType) : x \o y \in Seq(RecordType) /\ Len(x \o y) = Len(x) + Len(y)
                                    /\ Len(x) \in Nat
  OBVIOUS
<1>3. d \o <<r, s>> \in Log /\ Len(d \o <<r, s>>) = Len(d) + 2 /\ Len(d) \in Nat
  BY <1>1, <1>2 DEF Log
<1> QED
  BY <1>3 DEF Continues

(* The log and what refers to it stay as they are.                         *)
LEMMA SameLogTypes ==
    ASSUME IInv, UNCHANGED <<db, an, unitCids>>, ca' \in Clauses(db)
    PROVE  LogInv'
BY TypeParts DEF LogInv

(* The unit cids of some literals.                                         *)
LEMMA UnitCidsNat ==
    ASSUME IInv, NEW q \in Seq(Lits)
    PROVE  UnitCidsOf(q) \in Seq(Nat)
<1>1. \A l \in Lits : unitCids[Var(l)] \in Nat
  BY TrailShape, LitFacts
<1>2. Len(q) \in Nat /\ DOMAIN q = 1 .. Len(q) /\ \A i \in 1 .. Len(q) : q[i] \in Lits
  BY Element
<1> DEFINE t == [i \in 1 .. Len(q) |-> unitCids[Var(q[i])]]
<1>3. t \in [1 .. Len(q) -> Nat]
  BY <1>1, <1>2
<1>4. UnitCidsOf(q) = t
  BY <1>2 DEF UnitCidsOf
<1> HIDE DEF t
<1>5. t \in Seq(Nat)
  BY <1>2, <1>3
<1> QED
  BY <1>4, <1>5

(* An assignment adds at most one record, and takes the hints pending then. *)
CanRecord(p, from, d, a) ==
    /\ Continues(db, d) /\ a \in HintType(d) /\ p \in Lits
    /\ from = CRef_Undef \/ from \in DOMAIN ca

LEMMA EnqueueLog ==
    ASSUME IInv, NEW p, NEW lvl, NEW from, NEW d, NEW a, CanRecord(p, from, d, a),
           analyzeEnqueuePropagation(p, lvl, from, d, a)
    PROVE  /\ Continues(d, db') /\ an' \in HintType(db')
           /\ unitCids' \in [Vars -> DOMAIN db' \cup {NoCid}]
<1>1. /\ Continues(db, d) /\ a \in HintType(d) /\ p \in Lits /\ d \in Log
      /\ from = CRef_Undef \/ from \in DOMAIN ca
  BY DEF CanRecord, Continues
<1>2. Len(d) \in Nat /\ DOMAIN d = 1 .. Len(d) /\ DOMAIN d \subseteq Nat
  BY <1>1, ContinuesParts
<1>3. unitCids \in [Vars -> DOMAIN d \cup {NoCid}] /\ ca \in Clauses(db) /\ Var(p) \in Vars
  BY <1>1, TypeParts, ContinuesTypes, LitFacts DEF LogInv
<1>4. <<p>> \in Seq(Lits)
  BY <1>1
<1>5. CASE ~(lvl = 0 /\ unitCids[Var(p)] = NoCid)
  <2>1. db' = d /\ an' = a /\ unitCids' = unitCids
    BY <1>5 DEF analyzeEnqueuePropagation
  <2>2. Continues(d, d)
    BY <1>1, <1>2 DEF Continues
  <2> QED
    BY <1>1, <1>3, <2>1, <2>2
<1>6. CASE lvl = 0 /\ unitCids[Var(p)] = NoCid
  <2> DEFINE others == Selected(ca[from].lits, LAMBDA l : l # p /\ IsFalse(l))
             b == AddHint(AddUnitHints(a, UnitCidsOf(others)), ca[from].cid)
             r == IF from = CRef_Undef THEN Resolvent(a, <<p>>, GetOrigin(a))
                                       ELSE Resolvent(b, <<p>>, "REDUNDANT")
  <2>1. db' = Append(d, r) /\ an' = NoHints /\ unitCids' = [unitCids EXCEPT ![Var(p)] = Len(d) + 1]
    BY <1>6 DEF analyzeEnqueuePropagation
  <2>2. r \in RecordType
    <3>1. CASE from = CRef_Undef
      <4>1. r = Resolvent(a, <<p>>, GetOrigin(a))
        BY <3>1
      <4> HIDE DEF r
      <4> QED
        BY <1>1, <1>2, <1>4, <4>1, RecordOf
    <3>2. CASE from # CRef_Undef
      <4> DEFINE D == [n \in Nat |-> n]
      <4>1. DOMAIN D = Nat
        OBVIOUS
      <4>2. r = Resolvent(b, <<p>>, "REDUNDANT")
        BY <3>2
      <4>3. from \in DOMAIN ca /\ ca[from].lits \in Seq(Lits) /\ ca[from].cid \in Nat
        BY <1>1, <3>2, TypeParts, ClauseTypes DEF LogInv, LitSeq
      <4> DEFINE e == AddUnitHints(a, UnitCidsOf(others))
      <4>4. others \in Seq(Lits)
        <5>1. others = PickAt(ca[from].lits, {k \in DOMAIN ca[from].lits :
                                 ca[from].lits[k] # p /\ IsFalse(ca[from].lits[k])})
          BY DEF Selected, PickAt
        <5> HIDE DEF others
        <5> QED
          BY <4>3, <5>1, Picked
      <4> HIDE DEF r, others, D
      <4>5. UnitCidsOf(others) \in Seq(Nat)
        BY <4>4, UnitCidsNat
      <4>6. a \in HintType(D)
        <5>1. Seq(DOMAIN d) \subseteq Seq(Nat)
          <6>1. \A S, T : S \subseteq T => Seq(S) \subseteq Seq(T)
            OBVIOUS
          <6> QED
            BY <1>2, <6>1
        <5> QED
          BY <1>1, <4>1, <5>1 DEF HintType
      <4>7. e \in HintType(D)
        BY <4>1, <4>5, <4>6, UnitHintsAdded
      <4>8. b = AddHint(e, ca[from].cid)
        OBVIOUS
      <4> HIDE DEF e, b
      <4>9. b \in HintType(D)
        BY <4>1, <4>3, <4>7, <4>8, HintAdded
      <4> QED
        BY <1>4, <4>1, <4>2, <4>9, RecordOf
    <3> QED
      BY <3>1, <3>2
  <2> HIDE DEF r
  <2>3. Continues(d, db') /\ Len(db') = Len(d) + 1
    BY <1>1, <2>1, <2>2, ContinuesOne
  <2>4. an' \in HintType(db')
    BY <2>1 DEF NoHints, HintType
  <2>5. unitCids' \in [Vars -> DOMAIN db' \cup {NoCid}]
    <3>1. DOMAIN d \subseteq DOMAIN db' /\ DOMAIN db' = 1 .. Len(db')
      BY <2>3, ContinuesParts
    <3>2. Len(d) + 1 \in DOMAIN db'
      BY <1>2, <2>3, <3>1
    <3> QED
      BY <1>3, <2>1, <3>1, <3>2
  <2> QED
    BY <2>3, <2>4, <2>5
<1> QED
  BY <1>5, <1>6

-----------------------------------------------------------------------------
(* The memory after a step that only puts literals of other clauses than   *)
(* the one in hand in another order.                                       *)
MemoryKept ==
    /\ ca' \in Clauses(db) /\ DOMAIN ca' = DOMAIN ca
    /\ \A cr \in DOMAIN ca : /\ ca'[cr].freed = ca[cr].freed
                             /\ ToSet(ca'[cr].lits) = ToSet(ca[cr].lits)
    /\ viv.cr # CRef_Undef => ca'[viv.cr] = ca[viv.cr]

LEMMA SameMemory == ASSUME IInv, ca' = ca PROVE MemoryKept
BY TypeParts DEF MemoryKept, LogInv

LEMMA ExceptClauses ==
    ASSUME NEW d, NEW c \in Clauses(d), NEW cr, NEW q \in Seq(Lits), NEW c2, c2 = [c EXCEPT ![cr].lits = q]
    PROVE  c2 \in Clauses(d) /\ DOMAIN c2 = DOMAIN c /\ \A k \in DOMAIN c : k # cr => c2[k] = c[k]
<1>1. Len(c) \in Nat /\ DOMAIN c = 1 .. Len(c) /\ DOMAIN c2 = DOMAIN c
  BY DEF Clauses
<1>2. \A k \in DOMAIN c : k # cr => c2[k] = c[k]
  OBVIOUS
<1>3. cr \in DOMAIN c => c2[cr] \in ClauseRecord(d)
  <2>1. cr \in DOMAIN c => c[cr] \in ClauseRecord(d) /\ c2[cr] = [c[cr] EXCEPT !.lits = q]
    BY <1>1 DEF Clauses
  <2> QED
    BY <2>1 DEF ClauseRecord, LitSeq
<1>4. \A k \in DOMAIN c : c2[k] \in ClauseRecord(d)
  <2>1. \A k \in DOMAIN c : c[k] \in ClauseRecord(d)
    BY <1>1 DEF Clauses
  <2> QED
    BY ONLY <1>2, <1>3, <2>1
<1>5. c2 = [k \in 1 .. Len(c) |-> c2[k]]
  BY <1>1
<1>6. c2 \in [1 .. Len(c) -> ClauseRecord(d)]
  BY <1>1, <1>4, <1>5
<1>7. c2 \in Seq(ClauseRecord(d))
  <2>1. \A n \in Nat : \A X : \A f \in [1 .. n -> X] : f \in Seq(X)
    OBVIOUS
  <2> QED
    BY <1>1, <1>6, <2>1
<1> QED
  BY <1>1, <1>2, <1>7 DEF Clauses

LEMMA MemoryPut ==
    ASSUME IInv, NEW cr \in DOMAIN ca, cr # viv.cr, NEW q \in Seq(Lits), ToSet(q) = ToSet(ca[cr].lits),
           ca' = [ca EXCEPT ![cr].lits = q]
    PROVE  MemoryKept
<1>1. ca \in Clauses(db) /\ db \in Log /\ viv.cr \in DOMAIN ca \cup {CRef_Undef}
  BY Shapes
<1>2. ca' \in Clauses(db) /\ DOMAIN ca' = DOMAIN ca /\ \A k \in DOMAIN ca : k # cr => ca'[k] = ca[k]
  BY <1>1, ExceptClauses
<1>3. Changed(ca, ca', cr, q, ca[cr].cid)
  BY <1>1, ExceptLits
<1>4. ca'[cr].lits = q /\ ca'[cr].freed = ca[cr].freed
  BY <1>3 DEF Changed
<1> QED
  BY <1>1, <1>2, <1>4 DEF MemoryKept

LEMMA PropagateMemory ==
    ASSUME IInv, propagate
    PROVE  MemoryKept
<1> DEFINE cr == longWatcher.cref
<1>1. CASE ca' = ca
  BY <1>1, SameMemory
<1>2. CASE ScanningLong /\ StoreLits(normalized)
  <2>1. /\ cr \in DOMAIN ca /\ cr # viv.cr /\ normalized \in Seq(Lits)
        /\ ToSet(normalized) = ToSet(ca[cr].lits)
    BY <1>2, LongFacts
  <2>2. ca' = [ca EXCEPT ![cr].lits = normalized]
    BY <1>2 DEF StoreLits
  <2> HIDE DEF cr
  <2> QED
    BY <2>1, <2>2, MemoryPut
<1>3. ASSUME ScanningLong, NEW m, NEW q, Second(q, m), StoreLits(q)
      PROVE  MemoryKept
  <2>1. /\ cr \in DOMAIN ca /\ cr # viv.cr /\ ToSet(normalized) = ToSet(ca[cr].lits)
    BY <1>3, LongFacts
  <2>2. q \in Seq(Lits) /\ ToSet(q) = ToSet(normalized)
    BY <1>3, SecondFacts
  <2>3. ca' = [ca EXCEPT ![cr].lits = q]
    BY <1>3 DEF StoreLits
  <2> HIDE DEF cr
  <2> QED
    BY <2>1, <2>2, <2>3, MemoryPut
<1>4. CASE newWatch
  <2>1. ScanningLong /\ NewWatches # {} /\ StoreLits(SwapAt(normalized, 2, Min(NewWatches)))
    BY <1>4 DEF newWatch, Unresolved
  <2>2. Min(NewWatches) \in 3 .. Len(normalized)
    BY <2>1, LeastOf DEF NewWatches
  <2>3. Second(SwapAt(normalized, 2, Min(NewWatches)), Min(NewWatches))
    BY <2>2 DEF Second
  <2> QED
    BY <1>3, <2>1, <2>3
<1>5. CASE unitBelowDecisionLevel
  <2> DEFINE others == 2 .. Len(normalized)
             maxLevel == Max({level(normalized[k]) : k \in others})
             maxInd == Min({k \in others : level(normalized[k]) = maxLevel})
             lits == SwapAt(normalized, 2, maxInd)
  <2>1. ScanningLong /\ StoreLits(lits)
    BY <1>5 DEF unitBelowDecisionLevel, Unit, Unresolved
  <2>2. normalized \in Seq(Lits) /\ Len(normalized) >= 3 /\ Len(normalized) \in Nat
    BY <2>1, LongFacts
  <2>3. TopOfRest(normalized, maxLevel, maxInd)
    BY DEF TopOfRest
  <2> HIDE DEF maxLevel, maxInd
  <2>4. maxInd \in 2 .. Len(normalized)
    BY <2>2, <2>3, TopFacts, IInv
  <2>5. CASE maxInd = 2
    <3>1. lits = normalized
      BY <2>2, <2>5 DEF SwapAt
    <3> QED
      BY <1>2, <2>1, <3>1
  <2>6. CASE maxInd # 2
    <3>1. maxInd \in 3 .. Len(normalized)
      BY <2>2, <2>4, <2>6
    <3>2. Second(lits, maxInd)
      BY <3>1 DEF Second
    <3> QED
      BY <1>3, <2>1, <3>2
  <2> QED
    BY <2>5, <2>6
<1> QED
  <2>1. propagate => ca' = ca \/ (ScanningLong /\ StoreLits(normalized)) \/ newWatch \/ unitBelowDecisionLevel
    BY DEF propagate, propagateBegin, propagateDequeue, propagateNext, binarySatisfied, binaryConflict,
           binaryImplies, blockerTrue, firstTrue, longConflict, unitAtDecisionLevel, Unit, Unresolved,
           clauseVars
  <2> QED
    BY <1>1, <1>2, <1>4, <1>5, <2>1

(* The trail after a step that assigns no more than a literal, which has a *)
(* reason.                                                                 *)
Spread ==
    /\ trail' \in Seq(Lits) /\ Len(trail) <= Len(trail') /\ Len(trail') \in Nat
    /\ \A i \in 1 .. Len(trail) : trail'[i] = trail[i]
    /\ \A v \in Vars : assigns[v] # 0 => assigns'[v] = assigns[v] /\ vardata'[v] = vardata[v]
    /\ \A i \in Len(trail) + 1 .. Len(trail') : Usable(vardata'[Var(trail'[i])].reason)
    /\ \A v \in Vars : vardata'[v].reason \in DOMAIN ca \cup {CRef_Undef}
    /\ an' \in {an, NoHints} /\ Continues(db, db') /\ an' \in HintType(db')
    /\ unitCids' \in [Vars -> DOMAIN db' \cup {NoCid}]

LEMMA LogContinues == ASSUME IInv PROVE Continues(db, db) /\ db \in Log
<1>1. db \in Log
  BY Shapes
<1>2. Len(db) \in Nat
  BY <1>1, LogTypes
<1> QED
  BY <1>1, <1>2 DEF Continues

LEMMA SameSpread ==
    ASSUME IInv, UNCHANGED <<assigns, vardata, trail, db, an, unitCids>>
    PROVE  Spread
<1>1. trail \in Seq(Lits) /\ Len(trail) \in Nat /\ \A i \in Len(trail) + 1 .. Len(trail) : FALSE
  BY TrailShape
<1>2. LogInv /\ \A v \in Vars : vardata[v].reason \in DOMAIN ca \cup {CRef_Undef}
  BY TypeParts, Shapes
<1>3. Len(trail) <= Len(trail)
  BY <1>1
<1> QED
  BY <1>1, <1>2, <1>3, LogContinues DEF Spread, LogInv

(* What Imply does to the variables and the trail.                         *)
Entered(p, from) ==
    /\ trail' = Append(trail, p)
    /\ assigns' = [assigns EXCEPT ![Var(p)] = p]
    /\ vardata'[Var(p)].reason = from
    /\ \A v \in Vars : v # Var(p) => vardata'[v] = vardata[v]

(* The record of a variable.                                               *)
LEMMA VarRecord ==
    ASSUME IInv, NEW p \in Lits
    PROVE  Var(p) \in Vars /\ DOMAIN vardata = Vars /\ DOMAIN vardata[Var(p)] = {"reason", "level"}
<1>1. Var(p) \in Vars /\ OnVars(vardata)
  BY LitFacts, TrailShape
<1>2. vardata = [v \in Vars |-> [reason |-> vardata[v].reason, level |-> vardata[v].level]]
  BY <1>1 DEF OnVars
<1> DEFINE f == [v \in Vars |-> [reason |-> vardata[v].reason, level |-> vardata[v].level]]
<1>3. DOMAIN f = Vars /\ DOMAIN f[Var(p)] = {"reason", "level"}
  BY <1>1
<1>4. vardata = f
  BY <1>2
<1> HIDE DEF f
<1> QED
  BY <1>1, <1>3, <1>4

(* A literal assigned for the time being.                                  *)
LEMMA SimplyEntered ==
    ASSUME IInv, NEW p \in Lits, NEW from, simpleUncheckEnqueue(p, from)
    PROVE  Entered(p, from)
<1>1. Var(p) \in Vars /\ DOMAIN vardata = Vars /\ DOMAIN vardata[Var(p)] = {"reason", "level"}
  BY VarRecord
<1>2. /\ trail' = Append(trail, p) /\ assigns' = [assigns EXCEPT ![Var(p)] = p]
      /\ vardata' = [vardata EXCEPT ![Var(p)].reason = from]
  BY DEF simpleUncheckEnqueue
<1>3. vardata'[Var(p)].reason = from /\ \A v \in Vars : v # Var(p) => vardata'[v] = vardata[v]
  BY <1>1, <1>2
<1> QED
  BY <1>2, <1>3 DEF Entered

LEMMA EnteredFacts ==
    ASSUME IInv, NEW p \in Lits, NEW from, NEW lvl, IsUndef(p), Imply(p, lvl, from)
    PROVE  Entered(p, from)
<1>1. Var(p) \in Vars /\ DOMAIN vardata = Vars /\ DOMAIN vardata[Var(p)] = {"reason", "level"}
  BY VarRecord
<1>2. CASE Simple
  BY <1>2, SimplyEntered DEF Imply
<1>3. CASE ~Simple
  <2>1. /\ trail' = Append(trail, p) /\ assigns' = [assigns EXCEPT ![Var(p)] = p]
        /\ vardata' = [vardata EXCEPT ![Var(p)] = [reason |-> from, level |-> lvl]]
    BY <1>3 DEF Imply, uncheckedEnqueue
  <2>2. vardata'[Var(p)].reason = from /\ \A v \in Vars : v # Var(p) => vardata'[v] = vardata[v]
    BY <1>1, <2>1
  <2> QED
    BY <2>1, <2>2 DEF Entered
<1> QED
  BY <1>2, <1>3

LEMMA ImplySpread ==
    ASSUME IInv, NEW p \in Lits, NEW from, NEW lvl, IsUndef(p), Usable(from), Imply(p, lvl, from)
    PROVE  Spread
<1>1. Entered(p, from)
  BY EnteredFacts
<1>2. trail \in Seq(Lits) /\ Len(trail) \in Nat /\ Var(p) \in Vars /\ assigns \in [Vars -> Lits \cup {0}]
  BY TrailShape, LitFacts
<1>3. /\ trail' \in Seq(Lits) /\ Len(trail') = Len(trail) + 1 /\ trail'[Len(trail) + 1] = p
      /\ \A i \in 1 .. Len(trail) : trail'[i] = trail[i]
  BY <1>1, <1>2 DEF Entered
<1>4. \A v \in Vars : assigns[v] # 0 => assigns'[v] = assigns[v] /\ vardata'[v] = vardata[v]
  BY <1>1, <1>2 DEF Entered, IsUndef
<1>5. from \in DOMAIN ca /\ \A v \in Vars : vardata'[v].reason \in DOMAIN ca \cup {CRef_Undef}
  <2>1. from \in DOMAIN ca
    BY DEF Usable
  <2> QED
    BY <1>1, <2>1, Shapes DEF Entered
<1>6. \A i \in Len(trail) + 1 .. Len(trail') : Usable(vardata'[Var(trail'[i])].reason)
  <2>1. \A i \in Len(trail) + 1 .. Len(trail') : i = Len(trail) + 1
    BY <1>2, <1>3
  <2> QED
    BY <1>1, <1>3, <2>1 DEF Entered
<1>7. /\ an' \in {an, NoHints} /\ Continues(db, db') /\ an' \in HintType(db')
      /\ unitCids' \in [Vars -> DOMAIN db' \cup {NoCid}]
  <2>1. CASE Simple
    <3>1. db' = db /\ an' = an /\ unitCids' = unitCids
      BY <2>1 DEF Imply, simpleUncheckEnqueue, tracerVars
    <3> QED
      BY <3>1, LogContinues, TypeParts DEF LogInv
  <2>2. CASE ~Simple
    <3>1. analyzeEnqueuePropagation(p, lvl, from, db, an)
      BY <2>2 DEF Imply, uncheckedEnqueue
    <3>2. CanRecord(p, from, db, an)
      BY <1>5, LogContinues, TypeParts DEF CanRecord, LogInv
    <3>3. an' = an \/ an' = NoHints
      BY <3>1 DEF analyzeEnqueuePropagation
    <3> HIDE DEF analyzeEnqueuePropagation
    <3>4. Continues(db, db') /\ an' \in HintType(db') /\ unitCids' \in [Vars -> DOMAIN db' \cup {NoCid}]
      BY <3>1, <3>2, EnqueueLog
    <3> QED
      BY <3>3, <3>4
  <2> QED
    BY <2>1, <2>2
<1>8. Len(trail) <= Len(trail') /\ Len(trail') \in Nat
  BY <1>2, <1>3
<1> QED
  BY <1>3, <1>4, <1>5, <1>6, <1>7, <1>8 DEF Spread

LEMMA PropagateSpread ==
    ASSUME IInv, propagate
    PROVE  Spread
<1>1. CASE UNCHANGED <<assigns, vardata, trail, db, an, unitCids>>
  BY <1>1, SameSpread
<1>2. CASE binaryImplies
  <2> DEFINE b == binWatchers[prop.k].blocker
             cr == binWatchers[prop.k].cref
  <2>1. ScanningBinary /\ IsUndef(b) /\ Imply(b, currLevel, cr)
    BY <1>2 DEF binaryImplies
  <2>2. b \in Lits /\ Usable(cr)
    BY <2>1, BinaryFacts DEF Usable
  <2> HIDE DEF b, cr
  <2> QED
    BY <2>1, <2>2, ImplySpread
<1>3. ASSUME ScanningLong, IsUndef(first), NEW lvl, Imply(first, lvl, longWatcher.cref)
      PROVE  Spread
  <2> DEFINE cr == longWatcher.cref
  <2>1. first \in Lits /\ Usable(cr)
    BY <1>3, LongFacts DEF Usable, first
  <2> HIDE DEF cr
  <2>2. Imply(first, lvl, cr)
    BY <1>3 DEF cr
  <2> QED
    BY <1>3, <2>1, <2>2, ImplySpread
<1>4. CASE unitAtDecisionLevel
  BY <1>3, <1>4 DEF unitAtDecisionLevel, Unit, Unresolved
<1>5. CASE unitBelowDecisionLevel
  <2>1. PICK lvl : uncheckedEnqueue(first, lvl, longWatcher.cref, db, an)
    BY <1>5 DEF unitBelowDecisionLevel
  <2>2. ScanningLong /\ IsUndef(first) /\ ~Simple
    BY <1>5 DEF unitBelowDecisionLevel, Unit, Unresolved
  <2>3. Imply(first, lvl, longWatcher.cref)
    BY <2>1, <2>2 DEF Imply
  <2> QED
    BY <1>3, <2>2, <2>3
<1> QED
  BY <1>1, <1>2, <1>4, <1>5
     DEF propagate, propagateBegin, propagateDequeue, propagateNext, binarySatisfied, binaryConflict,
         blockerTrue, firstTrue, newWatch, longConflict, trailVars, tracerVars

-----------------------------------------------------------------------------
(* propagate.                                                              *)
PropagateStep == propagate /\ UNCHANGED <<analysisVars, vivifyVars, inputFrame>>

LEMMA PropagateFrame ==
    ASSUME IInv, PropagateStep
    PROVE  /\ propagate /\ MemoryKept /\ Spread
           /\ UNCHANGED <<ok, seen, searching, conflicts, learnt, ana, viv, due, problem, next,
                          restarts, reductions, simpDB_assigns, model, trail_lim>>
<1>1. /\ propagate
      /\ UNCHANGED <<searching, conflicts, learnt, ana, viv, due, problem, next,
                     restarts, reductions, simpDB_assigns, model>>
  BY DEF PropagateStep, analysisVars, vivifyVars, inputFrame, inputVars, budgetVars
<1>2. UNCHANGED <<ok, seen, trail_lim>>
  BY <1>1
     DEF propagate, propagateBegin, propagateDequeue, propagateNext, binarySatisfied, binaryConflict,
         binaryImplies, blockerTrue, firstTrue, newWatch, longConflict, unitAtDecisionLevel,
         unitBelowDecisionLevel, trailVars, tracerVars
<1>3. MemoryKept /\ Spread
  BY <1>1, PropagateMemory, PropagateSpread
<1> QED
  BY <1>1, <1>2, <1>3

(* Where the loops of propagate go.                                        *)
Nowhere == prop' = NoProp
Onward == prop' = [prop EXCEPT !.k = @ + 1] \/ prop' = [prop EXCEPT !.i = @ + 1] \/ prop' = prop
LEMMA PropagateCases ==
    ASSUME IInv, propagate
    PROVE  \/ /\ pc = "clean" /\ pc' = "propagate" /\ prop' = prop /\ UNCHANGED <<qhead, confl, assigns, trail, ca>>
              /\ cleanAll
           \/ /\ Propagating /\ pc' = pc /\ UNCHANGED <<confl, dirty>>
              /\ \/ /\ prop.lit = 0 /\ qhead < Len(trail) /\ qhead' = qhead + 1
                    /\ prop' = [NoProp EXCEPT !.lit = trail[qhead + 1]]
                    /\ UNCHANGED <<assigns, trail, ca>>
                 \/ Scanning /\ Nowhere /\ UNCHANGED <<qhead, assigns, trail, ca>>
                 \/ Scanning /\ Onward /\ qhead' = qhead
           \/ /\ Scanning /\ Nowhere /\ qhead' \in {qhead, Len(trail)}
              /\ pc' = IF Simple THEN "simpleAnalyze" ELSE "conflict"
              /\ UNCHANGED <<assigns, trail, dirty>>
              /\ Usable(confl') /\ AllFalse(ca[confl'].lits)
<1>1. CASE propagateBegin
  BY <1>1 DEF propagateBegin, trailVars
<1>2. CASE propagateDequeue
  BY <1>2 DEF propagateDequeue, clauseVars
<1>3. CASE propagateNext
  BY <1>3 DEF propagateNext, clauseVars, trailVars, Nowhere, Scanning
<1>4. CASE binarySatisfied \/ blockerTrue \/ firstTrue
  BY <1>4 DEF binarySatisfied, blockerTrue, firstTrue, clauseVars, trailVars, Onward, Scanning,
              ScanningBinary, ScanningLong, KeepRefreshed
<1>5. CASE binaryImplies
  BY <1>5 DEF binaryImplies, clauseVars, Onward, Scanning, ScanningBinary
<1>6. CASE newWatch
  BY <1>6 DEF newWatch, Unresolved, MoveTo, trailVars, Onward, Scanning, ScanningLong
<1>7. CASE unitAtDecisionLevel \/ unitBelowDecisionLevel
  BY <1>7 DEF unitAtDecisionLevel, unitBelowDecisionLevel, Unit, Unresolved, MoveTo, KeepRefreshed,
              Onward, Scanning, ScanningLong
<1>8. CASE binaryConflict
  <2> DEFINE cr == binWatchers[prop.k].cref
             b == binWatchers[prop.k].blocker
  <2>1. /\ ScanningBinary /\ IsFalse(b) /\ confl' = cr /\ Nowhere /\ qhead' = qhead
        /\ pc' = IF Simple THEN "simpleAnalyze" ELSE "conflict"
        /\ UNCHANGED <<assigns, trail, dirty>>
    BY <1>8 DEF binaryConflict, ReturnConflict, trailVars, clauseVars, Nowhere
  <2>2. Usable(cr) /\ ToSet(ca[cr].lits) = {b, -prop.lit}
    BY <2>1, BinaryFacts DEF Usable
  <2>3. Scanning /\ prop.lit \in Lits /\ IsTrue(prop.lit)
    BY <2>1, ScanFacts DEF ScanningBinary
  <2>4. IsFalse(-prop.lit)
    BY <2>3, LitFacts DEF IsTrue, IsFalse
  <2> HIDE DEF cr, b
  <2>5. AllFalse(ca[cr].lits)
    BY <2>1, <2>2, <2>4 DEF AllFalse
  <2> QED
    BY <2>1, <2>2, <2>3, <2>5
<1>9. CASE longConflict
  <2> DEFINE cr == longWatcher.cref
  <2>1. /\ ScanningLong /\ IsFalse(first) /\ confl' = cr /\ Nowhere /\ qhead' = Len(trail)
        /\ NewWatches = {}
        /\ pc' = IF Simple THEN "simpleAnalyze" ELSE "conflict"
        /\ UNCHANGED <<assigns, trail, dirty>>
    BY <1>9 DEF longConflict, Unresolved, ReturnConflict, Nowhere
  <2>2. /\ Usable(cr) /\ ToSet(normalized) = ToSet(ca[cr].lits) /\ normalized \in Seq(Lits)
        /\ normalized[2] = -prop.lit
    BY <2>1, LongFacts DEF Usable
  <2>3. Scanning /\ prop.lit \in Lits /\ IsTrue(prop.lit)
    BY <2>1, ScanFacts DEF ScanningLong
  <2>4. IsFalse(-prop.lit)
    BY <2>3, LitFacts DEF IsTrue, IsFalse
  <2> HIDE DEF cr
  <2>5. \A k \in 1 .. Len(normalized) : IsFalse(normalized[k])
    <3> SUFFICES ASSUME NEW k \in 1 .. Len(normalized)
                 PROVE  IsFalse(normalized[k])
      OBVIOUS
    <3>1. k = 1 \/ k = 2 \/ k \in 3 .. Len(normalized)
      BY <2>2
    <3> QED
      BY <2>1, <2>2, <2>4, <3>1 DEF first, NewWatches
  <2>6. AllFalse(ca[cr].lits)
    BY <2>2, <2>5, Element DEF AllFalse
  <2> QED
    BY <2>1, <2>2, <2>3, <2>6
<1> QED
  BY <1>1, <1>2, <1>3, <1>4, <1>5, <1>6, <1>7, <1>8, <1>9 DEF propagate

LEMMA PropagateTypes ==
    ASSUME IInv, PropagateStep
    PROVE  LogInv' /\ PlaceInv' /\ PlainInv'
<1>1. /\ propagate /\ MemoryKept /\ Spread
      /\ UNCHANGED <<ok, seen, searching, conflicts, learnt, ana, viv, due, problem, next,
                     restarts, reductions, simpDB_assigns, model, trail_lim>>
  BY PropagateFrame
<1>2. LogInv'
  <2>1. ca' \in Clauses(db')
    <3>1. ca' \in Clauses(db) /\ Continues(db, db')
      BY <1>1 DEF MemoryKept, Spread
    <3> QED
      BY <3>1, ContinuesTypes
  <2>2. db' \in Log
    BY <1>1 DEF Spread, Continues
  <2> QED
    BY <1>1, <2>1, <2>2 DEF LogInv, Spread
<1>3. /\ CRefs' = CRefs /\ Len(trail) \in Nat /\ Len(trail') \in Nat /\ Len(trail) <= Len(trail')
      /\ CRefs = DOMAIN ca
  BY <1>1, TrailShape DEF MemoryKept, Spread, CRefs
<1>4. /\ qhead \in 0 .. Len(trail) /\ confl \in CRefs \cup {CRef_Undef}
      /\ prop \in [lit : Lits \cup {0}, k : Nat, i : Nat]
      /\ viv \in [on : BOOLEAN, cr : CRefs \cup {CRef_Undef}, i : Nat, kept : LitSeq,
                  falseLit : LitSeq, True_confl : BOOLEAN, trailRecord : 0 .. Len(trail)]
      /\ trail \in Seq(Lits)
  BY TypeParts, TrailShape DEF PlaceInv
<1>5. /\ qhead' \in 0 .. Len(trail') /\ confl' \in CRefs \cup {CRef_Undef}
      /\ prop' \in [lit : Lits \cup {0}, k : Nat, i : Nat]
      /\ pc' \in Phases
  <2>1. NoProp \in [lit : Lits \cup {0}, k : Nat, i : Nat]
    BY DEF NoProp
  <2>2. pc \in Phases
    BY TypeParts DEF PlainInv
  <2>3. Onward => prop' \in [lit : Lits \cup {0}, k : Nat, i : Nat]
    BY <1>4 DEF Onward
  <2>4. qhead < Len(trail) => [NoProp EXCEPT !.lit = trail[qhead + 1]] \in [lit : Lits \cup {0}, k : Nat, i : Nat]
    <3>1. qhead < Len(trail) => qhead + 1 \in 1 .. Len(trail)
      BY <1>3, <1>4
    <3>2. qhead < Len(trail) => trail[qhead + 1] \in Lits
      BY <1>4, <3>1, Element
    <3> QED
      BY <3>2 DEF NoProp
  <2>5. qhead \in 0 .. Len(trail') /\ Len(trail) \in 0 .. Len(trail')
        /\ (qhead < Len(trail) => qhead + 1 \in 0 .. Len(trail'))
    BY <1>3, <1>4
  <2>6. Usable(confl') => confl' \in CRefs
    BY <1>3 DEF Usable
  <2> QED
    BY <1>1, <1>4, <2>1, <2>2, <2>3, <2>4, <2>5, <2>6, PropagateCases DEF Nowhere, Phases
<1>6. PlaceInv'
  <2>1. 0 .. Len(trail) \subseteq 0 .. Len(trail')
    BY <1>3
  <2>2. viv' \in [on : BOOLEAN, cr : CRefs' \cup {CRef_Undef}, i : Nat, kept : LitSeq,
                  falseLit : LitSeq, True_confl : BOOLEAN, trailRecord : 0 .. Len(trail')]
    BY <1>1, <1>3, <1>4, <2>1
  <2>3. \A v \in Vars : vardata'[v].reason \in CRefs' \cup {CRef_Undef}
    BY <1>1, <1>3 DEF Spread
  <2> QED
    BY <1>3, <1>5, <2>2, <2>3 DEF PlaceInv
<1>7. PlainInv'
  BY <1>1, <1>5, TypeParts DEF PlainInv, formula
<1> QED
  BY <1>2, <1>6, <1>7

(* What stays so after such a step: the clauses that can be used, and the  *)
(* values.                                                                 *)
LEMMA SpreadKeeps ==
    ASSUME IInv, MemoryKept, Spread, viv' = viv
    PROVE  /\ \A cr : Usable(cr)' <=> Usable(cr)
           /\ \A l \in Lits : IsTrue(l) => IsTrue(l)'
           /\ \A i \in 1 .. Len(trail) : /\ trail'[i] = trail[i] /\ trail[i] \in Lits
                                         /\ reason(trail[i])' = reason(trail[i])
           /\ viv.cr # CRef_Undef => vivLits' = vivLits /\ ca'[viv.cr].freed = ca[viv.cr].freed
<1>1. \A cr : Usable(cr)' <=> Usable(cr)
  BY DEF Usable, MemoryKept
<1>2. \A l \in Lits : IsTrue(l) => IsTrue(l)'
  BY LitFacts DEF Spread, IsTrue
<1>3. \A i \in 1 .. Len(trail) : /\ trail'[i] = trail[i] /\ trail[i] \in Lits
                                 /\ reason(trail[i])' = reason(trail[i])
  <2> SUFFICES ASSUME NEW i \in 1 .. Len(trail)
               PROVE  trail'[i] = trail[i] /\ trail[i] \in Lits /\ reason(trail[i])' = reason(trail[i])
    OBVIOUS
  <2>1. trail \in Seq(Lits) /\ Assigned(assigns, trail)
    BY TrailShape
  <2>2. trail[i] \in Lits /\ i \in DOMAIN trail
    BY <2>1, Element
  <2>3. Var(trail[i]) \in Vars /\ trail[i] # 0
    BY <2>2, LitFacts
  <2>4. assigns[Var(trail[i])] = trail[i]
    BY <2>1, <2>2 DEF Assigned
  <2>5. vardata'[Var(trail[i])] = vardata[Var(trail[i])]
    BY <2>3, <2>4 DEF Spread
  <2>6. trail'[i] = trail[i]
    BY DEF Spread
  <2> QED
    BY <2>2, <2>5, <2>6 DEF reason
<1>4. viv.cr # CRef_Undef => vivLits' = vivLits /\ ca'[viv.cr].freed = ca[viv.cr].freed
  BY DEF vivLits, MemoryKept
<1> QED
  BY <1>1, <1>2, <1>3, <1>4

LEMMA PropagateControl ==
    ASSUME IInv, PropagateStep
    PROVE  ControlInv'
<1>1. /\ propagate /\ MemoryKept /\ Spread
      /\ UNCHANGED <<ok, seen, searching, conflicts, learnt, ana, viv, due, problem, next,
                     restarts, reductions, simpDB_assigns, model, trail_lim>>
  BY PropagateFrame
<1>2. ControlInv
  BY Shapes
<1>3. /\ \A cr : Usable(cr)' <=> Usable(cr)
      /\ \A l \in Lits : IsTrue(l) => IsTrue(l)'
  BY <1>1, SpreadKeeps
<1>4. /\ pc \in {"clean", "propagate", "simplePropagate"}
      /\ pc' \in {"propagate", "simplePropagate", "conflict", "simpleAnalyze"}
      /\ pc = "clean" => pc' = "propagate" /\ prop.lit = 0
  <2>1. pc = "clean" => prop.lit = 0
    BY <1>2 DEF ControlInv, Propagating, Simple
  <2> QED
    BY <1>1, <2>1, PropagateCases DEF Propagating, Simple, Scanning
<1>5. trail \in Seq(Lits) /\ Len(trail) \in Nat /\ qhead \in Nat /\ Assigned(assigns, trail)
  BY TrailShape, Shapes
<1>6. Clean'
  <2>1. CASE cleanAll
    BY <2>1, CleanFacts
  <2>2. CASE dirty' = dirty /\ Propagating /\ (prop.lit # 0 \/ qhead < Len(trail))
    BY <1>2, <2>2 DEF ControlInv, Clean
  <2> QED
    BY <1>1, <2>1, <2>2, PropagateCases DEF Scanning
<1>7. (prop.lit # 0 => Propagating /\ IsTrue(prop.lit))'
  <2>1. CASE prop' = prop /\ pc = "clean"
    BY <1>4, <2>1
  <2>2. CASE qhead < Len(trail) /\ prop' = [NoProp EXCEPT !.lit = trail[qhead + 1]]
             /\ Propagating /\ pc' = pc /\ UNCHANGED <<assigns, trail>>
    <3>1. qhead + 1 \in 1 .. Len(trail) /\ prop'.lit = trail[qhead + 1]
      BY <1>5, <2>2 DEF NoProp
    <3>2. qhead + 1 \in DOMAIN trail
      BY <1>5, <3>1
    <3>3. IsTrue(prop'.lit)
      BY <1>5, <3>1, <3>2 DEF Assigned, IsTrue
    <3> QED
      BY <2>2, <3>1, <3>3 DEF IsTrue, Propagating, Simple
  <2>3. CASE Nowhere
    BY <2>3 DEF Nowhere, NoProp
  <2>4. CASE Scanning /\ Onward /\ pc' = pc
    <3>1. prop.lit \in Lits /\ IsTrue(prop.lit) /\ Propagating
      BY <2>4, ScanFacts
    <3>2. prop'.lit = prop.lit
      BY <2>4, ScanFacts DEF Onward
    <3>3. assigns'[Var(prop'.lit)] = prop'.lit
      BY <1>3, <3>1, <3>2 DEF IsTrue
    <3> QED
      BY <2>4, <3>1, <3>3 DEF Propagating, Simple, IsTrue
  <2> QED
    BY <1>1, <2>1, <2>2, <2>3, <2>4, PropagateCases
<1>8. (prop'.lit = 0 => prop' = NoProp) /\ prop'.k >= 1 /\ prop'.i >= 1
  <2>1. NoProp.k = 1 /\ NoProp.i = 1 /\ NoProp.lit = 0 /\ prop.k \in Nat /\ prop.i \in Nat
        /\ prop.k >= 1 /\ prop.i >= 1
    BY <1>2, TypeParts DEF NoProp, ControlInv, PlaceInv
  <2>2. CASE prop' = prop
    BY <1>2, <2>1, <2>2 DEF ControlInv
  <2>3. CASE Nowhere
    BY <2>1, <2>3 DEF Nowhere
  <2>4. CASE Scanning /\ Onward
    <3>1. prop.lit # 0 /\ prop = [lit |-> prop.lit, k |-> prop.k, i |-> prop.i]
      BY <2>4, ScanFacts
    <3> QED
      BY <2>1, <2>4, <3>1 DEF Onward
  <2>5. CASE qhead < Len(trail) /\ prop' = [NoProp EXCEPT !.lit = trail[qhead + 1]]
    <3>1. qhead + 1 \in 1 .. Len(trail) /\ prop'.lit = trail[qhead + 1] /\ prop'.k = 1 /\ prop'.i = 1
      BY <1>5, <2>5 DEF NoProp
    <3>2. trail[qhead + 1] \in Lits
      BY <1>5, <3>1, Element
    <3> QED
      BY <3>1, <3>2, LitFacts
  <2> QED
    BY <1>1, <2>2, <2>3, <2>4, <2>5, PropagateCases
<1>9. /\ (pc = "conflict" => Usable(confl) /\ AllFalse(ca[confl].lits))'
      /\ (pc = "simpleAnalyze" => Usable(confl))'
  <2>1. pc' \in {"conflict", "simpleAnalyze"} =>
          Usable(confl') /\ AllFalse(ca[confl'].lits) /\ assigns' = assigns
    BY <1>1, <1>4, PropagateCases DEF Propagating, Simple
  <2>2. Usable(confl') => ToSet(ca'[confl'].lits) = ToSet(ca[confl'].lits)
    BY <1>1 DEF Usable, MemoryKept
  <2>3. Usable(confl') => confl' \in DOMAIN ca' /\ ~ca'[confl'].freed /\ confl' # viv'.cr
    BY <1>1 DEF Usable, MemoryKept
  <2>4. AllFalse(ca[confl'].lits) /\ assigns' = assigns =>
          \A l \in ToSet(ca[confl'].lits) : assigns'[Var(l)] = -l
    BY DEF AllFalse, IsFalse
  <2> QED
    BY <2>1, <2>2, <2>3, <2>4 DEF AllFalse, IsFalse, Usable
<1> QED
  BY <1>1, <1>2, <1>4, <1>6, <1>7, <1>8, <1>9 DEF ControlInv, Analyzing

-----------------------------------------------------------------------------
(* Without a conflict under analysis, and without a clause being shortened. *)
Calm == pc \notin {"analyze", "minimize", "litRedundant", "backtrack", "learn"}

LEMMA CalmParts == AnaTypes /\ Calm => AnalysisInv
<1> SUFFICES ASSUME AnaTypes, Calm PROVE AnalysisInv
  OBVIOUS
<1>1. pc \notin Analyzing
  BY DEF Analyzing, Calm
<1>2. AnalysisInv
  BY <1>1 DEF AnalysisInv, Calm
<1> QED
  BY <1>2

LEMMA NoAnalysisNext == ASSUME AnaTypes', Calm' PROVE AnalysisInv'
BY CalmParts, PTL

LEMMA SameAna ==
    ASSUME IInv, ana' = ana
    PROVE  AnaTypes'
BY Shapes DEF AnalysisInv, AnaTypes, LitSeq

LEMMA QuietViv ==
    ASSUME pc' \notin Vivifying
    PROVE  VivInv'
BY DEF VivInv, Vivifying, Assuming

(* The literals of the clause in hand.                                     *)
LEMMA VivLits ==
    ASSUME IInv, viv.cr # CRef_Undef
    PROVE  vivLits \in Seq(Lits) /\ ToSet(vivLits) \subseteq Lits
<1>2. vivLits \in Seq(Lits)
  BY HandShape
<1>3. \A l \in ToSet(vivLits) : l \in Lits
  BY <1>2, Element
<1> QED
  BY <1>2, <1>3

(* The clause in hand stays, and so do its literals and what is true.      *)
HandKept ==
    /\ viv' = viv
    /\ viv.cr # CRef_Undef => vivLits' = vivLits /\ ca'[viv.cr].freed = ca[viv.cr].freed
    /\ \A l \in Lits : IsTrue(l) => IsTrue(l)'
    /\ pc' \in Vivifying <=> pc \in Vivifying

LEMMA HandStays ==
    ASSUME IInv, HandKept
    PROVE  HandInv'
<1>1. HandInv
  BY Shapes
<1>2. viv.cr # CRef_Undef /\ pc' \notin Vivifying =>
        (Len(vivLits) = 1 /\ \A l \in ToSet(vivLits) : IsTrue(l))'
  <2> SUFFICES ASSUME viv.cr # CRef_Undef, pc' \notin Vivifying
               PROVE  (Len(vivLits) = 1 /\ \A l \in ToSet(vivLits) : IsTrue(l))'
    OBVIOUS
  <2>1. pc \notin Vivifying /\ vivLits' = vivLits
    BY DEF HandKept
  <2>2. Len(vivLits) = 1 /\ \A l \in ToSet(vivLits) : IsTrue(l)
    BY <1>1, <2>1 DEF HandInv
  <2>3. \A l \in ToSet(vivLits) : l \in Lits
    BY VivLits
  <2>4. \A l \in ToSet(vivLits) : IsTrue(l)'
    BY <2>2, <2>3 DEF HandKept
  <2> QED
    BY <2>1, <2>2, <2>4 DEF IsTrue
<1>3. viv'.cr = viv.cr /\ viv'.on = viv.on
  BY DEF HandKept
<1>4. viv'.cr = CRef_Undef => viv' = [NotVivifying EXCEPT !.on = viv'.on]
  BY <1>1 DEF HandInv, HandKept
<1>5. viv'.cr # CRef_Undef => viv'.on /\ ~ca'[viv'.cr].freed
  BY <1>1 DEF HandInv, HandKept
<1>6. pc' \in Vivifying => viv'.cr # CRef_Undef
  BY <1>1 DEF HandInv, HandKept
<1> HIDE DEF Vivifying
<1> QED
  BY <1>2, <1>3, <1>4, <1>5, <1>6 DEF HandInv, Vivifying, Assuming

LEMMA PropagateHand ==
    ASSUME IInv, PropagateStep
    PROVE  HandInv'
<1>1. propagate /\ MemoryKept /\ Spread /\ viv' = viv
  BY PropagateFrame
<1>2. pc' \in Vivifying <=> pc \in Vivifying
  BY <1>1, PropagateCases DEF Propagating, Simple, Scanning, Vivifying, Assuming
<1>3. HandKept
  BY <1>1, <1>2, SpreadKeeps DEF HandKept
<1> QED
  BY <1>3, HandStays

LEMMA PropagateAnalysis ==
    ASSUME IInv, PropagateStep
    PROVE  AnalysisInv' /\ NoTraceOfAnalysis'
<1>1. propagate /\ MemoryKept /\ Spread /\ viv' = viv /\ ana' = ana /\ seen' = seen
  BY PropagateFrame
<1>2. /\ pc \in {"clean", "propagate", "simplePropagate"}
      /\ pc' \in {"propagate", "simplePropagate", "conflict", "simpleAnalyze"}
  BY <1>1, PropagateCases DEF Propagating, Simple, Scanning
<1>3. AnalysisInv'
  BY <1>1, <1>2, SameAna, NoAnalysisNext DEF Calm
<1>4. an = NoHints /\ seen = {}
  BY <1>2, Shapes DEF NoTraceOfAnalysis
<1>5. an' = NoHints /\ seen' = {}
  BY <1>1, <1>4 DEF Spread
<1> QED
  BY <1>3, <1>5 DEF NoTraceOfAnalysis

LEMMA PropagateViv ==
    ASSUME IInv, PropagateStep
    PROVE  VivInv'
<1>1. propagate /\ MemoryKept /\ Spread /\ viv' = viv
  BY PropagateFrame
<1>2. /\ pc' \in {"propagate", "simplePropagate", "conflict", "simpleAnalyze"}
      /\ pc' \in {"simplePropagate", "simpleAnalyze"} => pc = "simplePropagate"
  BY <1>1, PropagateCases DEF Propagating, Simple, Scanning
<1>3. CASE pc' \notin {"simplePropagate", "simpleAnalyze"}
  BY <1>2, <1>3, QuietViv DEF Vivifying, Assuming
<1>4. CASE pc' \in {"simplePropagate", "simpleAnalyze"}
  <2>1. pc = "simplePropagate" /\ pc \in Assuming /\ pc' \in Assuming /\ pc' # "simplified"
    BY <1>2, <1>4 DEF Assuming
  <2>2. viv.cr # CRef_Undef /\ VivInv
    BY <2>1, Shapes DEF HandInv, Vivifying
  <2>3. /\ vivLits' = vivLits
        /\ \A cr : Usable(cr)' <=> Usable(cr)
        /\ \A i \in 1 .. Len(trail) : /\ trail'[i] = trail[i] /\ trail[i] \in Lits
                                      /\ reason(trail[i])' = reason(trail[i])
    BY <1>1, <2>2, SpreadKeeps
  <2>4. /\ Len(vivLits) >= 2
        /\ \A l \in ToSet(vivLits) : \A i \in 1 .. viv.trailRecord : Var(trail[i]) # Var(l)
        /\ viv.i \in 1 .. Len(vivLits) + 1
        /\ \A l \in ToSet(viv.kept) : \E k \in 1 .. Len(vivLits) : k <= viv.i /\ vivLits[k] = l
        /\ ~viv.True_confl =>
             \A l \in ToSet(viv.kept) : \E k \in 1 .. viv.i - 1 : vivLits[k] = l
        /\ AllDistinct(viv.kept)
        /\ \A i \in viv.trailRecord + 1 .. Len(trail) :
             IF reason(trail[i]) = CRef_Undef
               THEN -trail[i] \in ToSet(viv.kept) ELSE Usable(reason(trail[i]))
        /\ ~viv.True_confl
        /\ an = NoHints
    BY <2>1, <2>2 DEF VivInv
  <2>5. viv.trailRecord \in Nat /\ viv.trailRecord <= Len(trail) /\ Len(trail) \in Nat
    BY VivShape, TrailShape
  <2>6. an' = NoHints
    BY <1>1, <2>4 DEF Spread
  <2>7. \A l \in ToSet(vivLits) : \A i \in 1 .. viv.trailRecord : Var(trail'[i]) # Var(l)
    BY <2>3, <2>4, <2>5
  <2>8. \A i \in viv.trailRecord + 1 .. Len(trail') :
             IF vardata'[Var(trail'[i])].reason = CRef_Undef
               THEN -trail'[i] \in ToSet(viv.kept) ELSE Usable(vardata'[Var(trail'[i])].reason)
    <3> SUFFICES ASSUME NEW i \in viv.trailRecord + 1 .. Len(trail')
                 PROVE  IF vardata'[Var(trail'[i])].reason = CRef_Undef
                          THEN -trail'[i] \in ToSet(viv.kept)
                          ELSE Usable(vardata'[Var(trail'[i])].reason)
      OBVIOUS
    <3>1. CASE i <= Len(trail)
      <4>1. i \in 1 .. Len(trail) /\ i \in viv.trailRecord + 1 .. Len(trail)
        BY <2>5, <3>1
      <4>2. trail'[i] = trail[i] /\ vardata'[Var(trail[i])].reason = vardata[Var(trail[i])].reason
        BY <2>3, <4>1 DEF reason
      <4> QED
        BY <2>4, <4>1, <4>2 DEF reason
    <3>2. CASE i > Len(trail)
      <4>1. i \in Len(trail) + 1 .. Len(trail')
        BY <2>5, <3>2
      <4>2. Usable(vardata'[Var(trail'[i])].reason)
        BY <1>1, <4>1 DEF Spread
      <4>3. CRef_Undef \notin DOMAIN ca
        BY Shapes
      <4> QED
        BY <4>2, <4>3 DEF Usable
    <3> QED
      BY <2>5, <3>1, <3>2
  <2> HIDE DEF Usable
  <2>9. \A i \in viv.trailRecord + 1 .. Len(trail') :
             IF reason(trail[i])' = CRef_Undef
               THEN -trail'[i] \in ToSet(viv.kept) ELSE Usable(reason(trail[i]))'
    <3>1. \A cr : Usable(cr) => cr \in DOMAIN ca' /\ ~ca'[cr].freed /\ cr # viv'.cr
      BY <2>3 DEF Usable
    <3> QED
      BY <2>8, <3>1 DEF reason, Usable
  <2> QED
    BY <1>1, <2>1, <2>3, <2>4, <2>6, <2>7, <2>9 DEF VivInv
<1> QED
  BY <1>3, <1>4

(* What the proofs below show of each action, besides the trail and the    *)
(* clauses.                                                                *)
Rest ==
    /\ LogInv /\ PlaceInv /\ PlainInv /\ ControlInv
    /\ HandInv /\ VivInv /\ AnalysisInv /\ NoTraceOfAnalysis

LEMMA PropagateRest ==
    ASSUME IInv, PropagateStep
    PROVE  Rest'
BY PropagateTypes, PropagateControl, PropagateHand, PropagateViv, PropagateAnalysis DEF Rest

-----------------------------------------------------------------------------
(* Steps of other parts of the program.                                    *)
LEMMA CalmControl ==
    ASSUME IInv, UNCHANGED <<problem, prop>>, prop.lit = 0,
           pc' \in {"parse", "clean", "propagate", "simplifyLearnt", "simplified", "sat", "unsat"},
           pc' = "propagate" => qhead' = Len(trail'),
           due'.nbconf >= 1,
           searching' => ~viv'.on,
           ~searching' /\ pc' \notin {"sat", "unsat"} => trail_lim' = <<>>,
           pc' = "parse" => ~searching' /\ ~viv'.on /\ qhead' = Len(trail')
    PROVE  ControlInv'
<1>1. ControlInv
  BY Shapes
<1>2. pc' \notin Analyzing /\ pc' \notin {"learn", "simplePropagate", "conflict", "simpleAnalyze"}
  BY DEF Analyzing
<1>3. problem' = problem /\ prop' = prop
  OBVIOUS
<1>4. ~(qhead < Len(trail))' \/ ~Propagating'
  BY DEF Propagating, Simple
<1>5. (Propagating /\ (prop.lit # 0 \/ qhead < Len(trail)) => Clean)'
  BY <1>3, <1>4
<1>6. (pc \in {"simplePropagate", "conflict"} \cup Analyzing => Clean)'
  BY <1>2 DEF Analyzing
<1> QED
  BY <1>1, <1>2, <1>3, <1>5, <1>6 DEF ControlInv, Analyzing

(* What refers to the memory and to the trail stays when both grow.        *)
LEMMA PlaceGrows ==
    ASSUME IInv, UNCHANGED <<qhead, confl, prop, viv>>, DOMAIN ca \subseteq DOMAIN ca',
           Len(trail') \in Nat, Len(trail) <= Len(trail'),
           \A v \in Vars : vardata'[v].reason \in DOMAIN ca' \cup {CRef_Undef}
    PROVE  PlaceInv'
<1>1. PlaceInv /\ CRefs = DOMAIN ca /\ Len(trail) \in Nat
  BY TypeParts, Shapes, TrailShape
<1>2. qhead' \in 0 .. Len(trail') /\ confl' \in CRefs' \cup {CRef_Undef}
  BY <1>1 DEF PlaceInv, CRefs
<1>3. viv' \in [on : BOOLEAN, cr : CRefs' \cup {CRef_Undef}, i : Nat, kept : LitSeq,
                falseLit : LitSeq, True_confl : BOOLEAN, trailRecord : 0 .. Len(trail')]
  <2>1. 0 .. Len(trail) \subseteq 0 .. Len(trail') /\ CRefs \subseteq CRefs'
    BY <1>1 DEF CRefs
  <2>2. viv \in [on : BOOLEAN, cr : CRefs \cup {CRef_Undef}, i : Nat, kept : LitSeq,
                 falseLit : LitSeq, True_confl : BOOLEAN, trailRecord : 0 .. Len(trail)]
    BY VivShape
  <2> QED
    BY <2>1, <2>2
<1>4. prop' \in [lit : Lits \cup {0}, k : Nat, i : Nat]
  BY <1>1 DEF PlaceInv
<1>5. \A v \in Vars : vardata'[v].reason \in CRefs' \cup {CRef_Undef}
  BY DEF CRefs
<1> QED
  BY <1>2, <1>3, <1>4, <1>5 DEF PlaceInv

(* One literal is assigned.                                                *)
Enqueues(p, from) ==
    /\ trail' = Append(trail, p) /\ trail' \in Seq(Lits) /\ Len(trail') = Len(trail) + 1
    /\ assigns' = [assigns EXCEPT ![Var(p)] = p]
    /\ vardata'[Var(p)].reason = from
    /\ \A v \in Vars : v # Var(p) => vardata'[v] = vardata[v]
    /\ \A v \in Vars : vardata'[v].reason \in DOMAIN ca \cup {from, CRef_Undef}

LEMMA EnqueueFrame ==
    ASSUME IInv, NEW p \in Lits, NEW lvl, NEW from, NEW d, NEW a,
           uncheckedEnqueue(p, lvl, from, d, a)
    PROVE  Enqueues(p, from) /\ analyzeEnqueuePropagation(p, lvl, from, d, a)
<1>1. Var(p) \in Vars /\ OnVars(vardata) /\ trail \in Seq(Lits)
  BY LitFacts, TrailShape
<1>2. DOMAIN vardata = Vars
  <2>1. vardata = [v \in Vars |-> [reason |-> vardata[v].reason, level |-> vardata[v].level]]
    BY <1>1 DEF OnVars
  <2> DEFINE f == [v \in Vars |-> [reason |-> vardata[v].reason, level |-> vardata[v].level]]
  <2>2. DOMAIN f = Vars /\ vardata = f
    BY <2>1
  <2> HIDE DEF f
  <2> QED
    BY <2>2
<1>3. /\ trail' = Append(trail, p) /\ assigns' = [assigns EXCEPT ![Var(p)] = p]
      /\ vardata' = [vardata EXCEPT ![Var(p)] = [reason |-> from, level |-> lvl]]
      /\ analyzeEnqueuePropagation(p, lvl, from, d, a)
  BY DEF uncheckedEnqueue
<1>4. vardata'[Var(p)].reason = from /\ \A v \in Vars : v # Var(p) => vardata'[v] = vardata[v]
  BY <1>1, <1>2, <1>3
<1>5. trail' \in Seq(Lits) /\ Len(trail') = Len(trail) + 1
  BY <1>1, <1>3
<1>6. \A v \in Vars : vardata[v].reason \in DOMAIN ca \cup {CRef_Undef}
  BY Shapes
<1>7. \A v \in Vars : vardata'[v].reason \in DOMAIN ca \cup {from, CRef_Undef}
  BY <1>4, <1>6
<1> QED
  BY <1>3, <1>4, <1>5, <1>7 DEF Enqueues

(* Between decisions all that is assigned has a unit record.               *)
LEMMA FalseUnits ==
    ASSUME IInv, trail_lim = <<>>, pc \notin Assuming, NEW q \in Seq(Lits)
    PROVE  UnitCidsOf(Selected(q, IsFalse)) \in Seq(DOMAIN db)
<1> DEFINE at == {k \in DOMAIN q : IsFalse(q[k])}
           z == PickAt(q, at)
<1>1. Selected(q, IsFalse) = z
  BY DEF Selected, PickAt
<1>2. at \in SUBSET DOMAIN q
  OBVIOUS
<1>3. z \in Seq(Lits)
  <2> HIDE DEF at
  <2> QED
    BY <1>2, Picked
<1>4. \A l : l \in ToSet(z) <=> \E k \in at : l = q[k]
  <2> HIDE DEF at
  <2> QED
    BY <1>2, PickedSet
<1>5. \A l \in ToSet(z) : IsFalse(l)
  <2> HIDE DEF z
  <2> QED
    BY <1>4
<1> HIDE DEF z
<1>6. /\ unitCids \in [Vars -> DOMAIN db \cup {NoCid}] /\ UnitsOK(vardata, unitCids, db, trail, settled)
      /\ settled = Len(trail) /\ Levels(vardata, trail, trail_lim, settled) /\ Assigned(assigns, trail)
      /\ trail \in Seq(Lits) /\ HasLevels(vardata)
  BY Shapes, TrailShape, WhereNow
<1>7. ASSUME NEW i \in 1 .. Len(z)
      PROVE  unitCids[Var(z[i])] \in DOMAIN db
  <2>1. z[i] \in Lits /\ z[i] \in ToSet(z)
    BY <1>3, Element
  <2>2. assigns[Var(z[i])] = -z[i] /\ Var(z[i]) \in Vars /\ -z[i] # 0
    BY <1>5, <2>1, LitFacts DEF IsFalse
  <2>3. PICK j \in DOMAIN trail : trail[j] = -z[i]
    BY <1>6, <2>2 DEF Assigned
  <2>4. j \in 1 .. settled /\ Var(trail[j]) = Var(z[i])
    BY <1>6, <2>1, <2>3, Element, LitFacts
  <2>5. Within(trail_lim, Lv(vardata, trail[j]), j)
    BY <1>6, <2>4 DEF Levels
  <2>6. Len(trail_lim) = 0 /\ vardata[Var(z[i])].level \in Nat
    BY <1>6, <2>2 DEF HasLevels
  <2>7. vardata[Var(z[i])].level = 0
    BY <2>4, <2>5, <2>6 DEF Within, Lv
  <2>8. unitCids[Var(z[i])] # NoCid
    BY <1>6, <2>2, <2>7 DEF UnitsOK
  <2> QED
    BY <1>6, <2>2, <2>8
<1>8. Len(z) \in Nat /\ DOMAIN z = 1 .. Len(z)
  BY <1>3, Element
<1>9. UnitCidsOf(z) = [i \in 1 .. Len(z) |-> unitCids[Var(z[i])]]
  BY <1>8 DEF UnitCidsOf
<1>10. UnitCidsOf(z) \in Seq(DOMAIN db)
  BY <1>7, <1>8, <1>9
<1> QED
  BY <1>1, <1>10

-----------------------------------------------------------------------------
(* addClause_: the record of a clause as it came, and the hints for what   *)
(* is left of it.                                                          *)
InputLogged(ps, a) ==
    /\ Continues(db, loggedInput(ps, a))
    /\ inputHints(ps, a) \in HintType(loggedInput(ps, a))
    /\ DOMAIN loggedInput(ps, a) \subseteq Nat

LEMMA InputHints ==
    ASSUME IInv, pc = "parse", NEW ps \in Seq(Lits), NEW a \in HintType(db)
    PROVE  InputLogged(ps, a)
<1>1. db \in Log /\ Continues(db, db) /\ DOMAIN db \subseteq Nat
  BY LogContinues, ContinuesParts
<1>2. CASE ~WasShortened(ps)
  <2>1. loggedInput(ps, a) = db /\ inputHints(ps, a) = a
    BY <1>2 DEF loggedInput, inputHints
  <2> QED
    BY <1>1, <2>1 DEF InputLogged
<1>3. CASE WasShortened(ps)
  <2> DEFINE r == Resolvent(a, sorted(ps), GetOrigin(a))
             d == Append(db, r)
             h == AddHint(NoHints, Len(db) + 1)
             u == UnitCidsOf(Selected(sorted(ps), IsFalse))
             b == AddUnitHints(h, u)
  <2>1. loggedInput(ps, a) = d /\ inputHints(ps, a) = b
    BY <1>3 DEF loggedInput, inputHints
  <2>2. sorted(ps) \in Seq(Lits)
    BY SortedOrder
  <2>3. r \in RecordType
    BY <1>1, <2>2, RecordOf
  <2> HIDE DEF r
  <2>4. Continues(db, d) /\ Len(d) = Len(db) + 1
    BY <1>1, <2>3, ContinuesOne
  <2> HIDE DEF d
  <2>5. DOMAIN d = 1 .. Len(d) /\ Len(db) \in Nat /\ DOMAIN db \subseteq DOMAIN d /\ DOMAIN d \subseteq Nat
    BY <2>4, ContinuesParts
  <2>6. Len(db) + 1 \in DOMAIN d
    BY <2>4, <2>5
  <2>7. NoHints \in HintType(db) /\ \A x \in HintType(db) : x \in HintType(d)
    BY <2>4, HintsNow, ContinuesTypes
  <2>8. NoHints \in HintType(d)
    BY <2>7
  <2>9. h \in HintType(d)
    <3> DEFINE c == Len(db) + 1
    <3>1. c \in DOMAIN d
      BY <2>6
    <3> HIDE DEF c
    <3>2. AddHint(NoHints, c) \in HintType(d)
      BY <2>8, <3>1, HintAdded
    <3> QED
      BY <3>2 DEF c
  <2> HIDE DEF h
  <2>10. u \in Seq(DOMAIN d)
    <3>1. trail_lim = <<>> /\ pc \notin Assuming
      BY Shapes DEF ControlInv, Assuming
    <3>2. u \in Seq(DOMAIN db)
      BY <2>2, <3>1, FalseUnits
    <3>3. \A S, T : S \subseteq T => Seq(S) \subseteq Seq(T)
      OBVIOUS
    <3> QED
      BY <2>5, <3>2, <3>3
  <2> HIDE DEF u
  <2>11. b \in HintType(d)
    BY <2>9, <2>10, UnitHintsAdded
  <2> HIDE DEF b
  <2> QED
    BY <2>1, <2>4, <2>5, <2>11 DEF InputLogged
<1> QED
  BY <1>2, <1>3

(* A clause is added to the memory, with the record n.                     *)
LEMMA ClauseAdded ==
    ASSUME NEW d, NEW c \in Clauses(d), NEW q \in Seq(Lits), NEW isLearnt \in BOOLEAN, NEW n \in DOMAIN d
    PROVE  /\ Append(c, NewClause(q, isLearnt, n)) \in Clauses(d)
           /\ DOMAIN c \subseteq DOMAIN Append(c, NewClause(q, isLearnt, n))
           /\ Len(c) + 1 \in DOMAIN Append(c, NewClause(q, isLearnt, n))
<1>1. NewClause(q, isLearnt, n) \in ClauseRecord(d)
  BY DEF NewClause, ClauseRecord, LitSeq
<1> DEFINE x == NewClause(q, isLearnt, n)
<1> HIDE DEF x
<1>2. c \in Seq(ClauseRecord(d)) /\ x \in ClauseRecord(d)
  BY <1>1 DEF Clauses, x
<1>3. /\ Append(c, x) \in Seq(ClauseRecord(d))
      /\ Len(c) \in Nat /\ DOMAIN c = 1 .. Len(c) /\ DOMAIN Append(c, x) = 1 .. Len(c) + 1
  BY <1>2
<1>4. DOMAIN c \subseteq DOMAIN Append(c, x) /\ Len(c) + 1 \in DOMAIN Append(c, x)
  BY <1>3
<1> QED
  BY <1>3, <1>4 DEF x, Clauses

(* What addClause_ does to the types.                                      *)
AddedOK ==
    /\ LogInv' /\ an' = NoHints /\ DOMAIN ca \subseteq DOMAIN ca'
    /\ Len(trail') \in Nat /\ Len(trail) <= Len(trail')
    /\ \A v \in Vars : vardata'[v].reason \in DOMAIN ca' \cup {CRef_Undef}
    /\ ok' \in BOOLEAN
    /\ pc' \in {"parse", "clean", "unsat"} /\ (pc' = "parse" => trail' = trail)

LEMMA AddSatisfiedOK ==
    ASSUME IInv, NEW ps, NEW a \in HintType(db), Adds(ps, a), addSatisfied(ps, a)
    PROVE  AddedOK
<1> DEFINE r == Resolvent(a, sorted(ps), GetOrigin(a))
           x == DeleteRecord(Len(db) + 1)
<1>1. db \in Log /\ DOMAIN db \subseteq Nat /\ Len(db) \in Nat /\ ps \in Seq(Lits) /\ pc = "parse"
  BY LogContinues, ContinuesParts DEF Adds
<1>2. sorted(ps) \in Seq(Lits)
  BY <1>1, SortedOrder
<1>3. r \in RecordType
  BY <1>1, <1>2, RecordOf
<1>4. x \in RecordType
  BY <1>1, DeletionOf
<1>5. db' = db \o <<r, x>> /\ an' = NoHints
  BY DEF addSatisfied
<1>6. UNCHANGED <<ca, watches, assigns, vardata, trail, ok, unitCids, pc>>
  BY DEF addSatisfied
<1> HIDE DEF r, x
<1>7. Continues(db, db')
  BY <1>1, <1>3, <1>4, <1>5, ContinuesTwo
<1>8. LogInv
  BY TypeParts
<1>9. LogInv'
  <2>1. ca \in Clauses(db) /\ NoHints \in HintType(db) /\ unitCids \in [Vars -> DOMAIN db \cup {NoCid}]
    BY <1>8, HintsNow DEF LogInv
  <2>2. ca \in Clauses(db') /\ NoHints \in HintType(db') /\ unitCids \in [Vars -> DOMAIN db' \cup {NoCid}]
    BY <1>7, <2>1, ContinuesTypes
  <2>3. db' \in Log
    BY <1>7 DEF Continues
  <2> QED
    BY <1>5, <1>6, <2>2, <2>3 DEF LogInv
<1>10. ok \in BOOLEAN /\ Len(trail) \in Nat /\ \A v \in Vars : vardata[v].reason \in DOMAIN ca \cup {CRef_Undef}
  BY TypeParts, TrailShape, Shapes DEF PlainInv
<1> QED
  BY <1>1, <1>5, <1>6, <1>9, <1>10 DEF AddedOK

LEMMA AddEmptyOK ==
    ASSUME IInv, NEW ps, NEW a \in HintType(db), Adds(ps, a), addEmpty(ps, a)
    PROVE  AddedOK
<1> DEFINE d == loggedInput(ps, a)
           b == inputHints(ps, a)
           r == Resolvent(b, <<>>, GetOrigin(b))
<1>1. ps \in Seq(Lits) /\ pc = "parse"
  BY DEF Adds
<1>2. Continues(db, d) /\ b \in HintType(d) /\ DOMAIN d \subseteq Nat
  BY <1>1, InputHints DEF InputLogged
<1>3. db' = Append(d, r) /\ an' = NoHints /\ pc' = "unsat" /\ ok' = FALSE
      /\ UNCHANGED <<ca, watches, assigns, vardata, trail, unitCids>>
  BY DEF addEmpty
<1>4. <<>> \in Seq(Lits)
  OBVIOUS
<1> HIDE DEF d, b
<1>5. r \in RecordType /\ d \in Log
  BY <1>2, <1>4, RecordOf DEF Continues
<1> HIDE DEF r
<1>6. Continues(d, db')
  BY <1>3, <1>5, ContinuesOne
<1>7. LogInv'
  <2>1. ca \in Clauses(db) /\ NoHints \in HintType(db) /\ unitCids \in [Vars -> DOMAIN db \cup {NoCid}]
    BY TypeParts, HintsNow DEF LogInv
  <2>2. ca \in Clauses(d) /\ NoHints \in HintType(d) /\ unitCids \in [Vars -> DOMAIN d \cup {NoCid}]
    BY <1>2, <2>1, ContinuesTypes
  <2>3. ca \in Clauses(db') /\ NoHints \in HintType(db') /\ unitCids \in [Vars -> DOMAIN db' \cup {NoCid}]
    BY <1>6, <2>2, ContinuesTypes
  <2>4. db' \in Log
    BY <1>6 DEF Continues
  <2> QED
    BY <1>3, <2>3, <2>4 DEF LogInv
<1>8. Len(trail) \in Nat /\ \A v \in Vars : vardata[v].reason \in DOMAIN ca \cup {CRef_Undef}
  BY TrailShape, Shapes
<1>9. UNCHANGED <<ca, vardata, trail>>
  BY <1>3
<1>10. /\ DOMAIN ca \subseteq DOMAIN ca' /\ Len(trail') \in Nat /\ Len(trail) <= Len(trail')
       /\ \A v \in Vars : vardata'[v].reason \in DOMAIN ca' \cup {CRef_Undef}
  BY <1>8, <1>9
<1> QED
  BY <1>3, <1>7, <1>10 DEF AddedOK

LEMMA AddUnitOK ==
    ASSUME IInv, NEW ps, NEW a \in HintType(db), Adds(ps, a), addUnit(ps, a)
    PROVE  AddedOK
<1> DEFINE d == loggedInput(ps, a)
           b == inputHints(ps, a)
           p == reduced(ps)[1]
<1>1. ps \in Seq(Lits) /\ pc = "parse"
  BY DEF Adds
<1>2. Continues(db, d) /\ b \in HintType(d)
  BY <1>1, InputHints DEF InputLogged
<1>3. /\ ~alreadyTrue(ps) /\ Len(reduced(ps)) = 1
      /\ uncheckedEnqueue(p, 0, CRef_Undef, d, b) /\ pc' = "clean"
      /\ UNCHANGED <<ca, watches, ok>>
  BY DEF addUnit
<1>4. 1 \in 1 .. Len(reduced(ps))
  BY <1>3
<1>5. p \in Lits /\ IsUndef(p)
  BY <1>1, <1>3, <1>4, ReducedShape
<1> HIDE DEF d, b, p
<1>6. Enqueues(p, CRef_Undef) /\ analyzeEnqueuePropagation(p, 0, CRef_Undef, d, b)
  BY <1>3, <1>5, EnqueueFrame
<1>7. CanRecord(p, CRef_Undef, d, b)
  BY <1>2, <1>5 DEF CanRecord
<1>8. Continues(d, db') /\ an' \in HintType(db') /\ unitCids' \in [Vars -> DOMAIN db' \cup {NoCid}]
  BY <1>6, <1>7, EnqueueLog
<1>9. an' = NoHints
  BY <1>5, <1>6, NoUnitYet DEF analyzeEnqueuePropagation
<1>10. LogInv'
  <2>1. ca \in Clauses(db)
    BY TypeParts DEF LogInv
  <2>2. ca \in Clauses(d)
    BY <1>2, <2>1, ContinuesTypes
  <2>3. ca \in Clauses(db')
    BY <1>8, <2>2, ContinuesTypes
  <2>4. db' \in Log
    BY <1>8 DEF Continues
  <2> QED
    BY <1>3, <1>8, <2>3, <2>4 DEF LogInv
<1>11. /\ DOMAIN ca \subseteq DOMAIN ca' /\ Len(trail') \in Nat /\ Len(trail) <= Len(trail')
       /\ \A v \in Vars : vardata'[v].reason \in DOMAIN ca' \cup {CRef_Undef}
  <2>1. Len(trail') = Len(trail) + 1 /\ Len(trail) \in Nat
    BY <1>6, TrailShape DEF Enqueues
  <2> QED
    BY <1>3, <1>6, <2>1 DEF Enqueues
<1>12. ok' \in BOOLEAN
  BY <1>3, TypeParts DEF PlainInv
<1> QED
  BY <1>3, <1>9, <1>10, <1>11, <1>12 DEF AddedOK

LEMMA AddLongerOK ==
    ASSUME IInv, NEW ps, NEW a \in HintType(db), Adds(ps, a), addLonger(ps, a)
    PROVE  AddedOK
<1> DEFINE d == loggedInput(ps, a)
           b == inputHints(ps, a)
           q == reduced(ps)
           r == Resolvent(b, q, GetOrigin(b))
           n == Len(db')
<1>1. ps \in Seq(Lits) /\ pc = "parse"
  BY DEF Adds
<1>2. Continues(db, d) /\ b \in HintType(d) /\ DOMAIN d \subseteq Nat
  BY <1>1, InputHints DEF InputLogged
<1>3. /\ ~alreadyTrue(ps) /\ db' = Append(d, r) /\ an' = NoHints
      /\ ca' = Append(ca, NewClause(q, FALSE, n))
      /\ UNCHANGED <<assigns, vardata, trail, ok, unitCids, pc>>
  BY DEF addLonger
<1>4. q \in Seq(Lits)
  BY <1>1, <1>3, ReducedShape
<1> HIDE DEF d, b, q
<1>5. r \in RecordType /\ d \in Log
  BY <1>2, <1>4, RecordOf DEF Continues
<1> HIDE DEF r
<1>6. Continues(d, db') /\ n = Len(d) + 1
  BY <1>3, <1>5, ContinuesOne
<1>7. n \in DOMAIN db'
  BY <1>6, ContinuesParts
<1> HIDE DEF n
<1>8. /\ ca \in Clauses(db') /\ NoHints \in HintType(db') /\ unitCids \in [Vars -> DOMAIN db' \cup {NoCid}]
      /\ db' \in Log
  <2>1. ca \in Clauses(db) /\ NoHints \in HintType(db) /\ unitCids \in [Vars -> DOMAIN db \cup {NoCid}]
    BY TypeParts, HintsNow DEF LogInv
  <2>2. ca \in Clauses(d) /\ NoHints \in HintType(d) /\ unitCids \in [Vars -> DOMAIN d \cup {NoCid}]
    BY <1>2, <2>1, ContinuesTypes
  <2>3. ca \in Clauses(db') /\ NoHints \in HintType(db') /\ unitCids \in [Vars -> DOMAIN db' \cup {NoCid}]
    BY <1>6, <2>2, ContinuesTypes
  <2> QED
    BY <1>6, <2>3 DEF Continues
<1> DEFINE e == db'
<1>9. ca \in Clauses(e) /\ n \in DOMAIN e
  BY <1>7, <1>8
<1> HIDE DEF e
<1>10. ca' \in Clauses(e) /\ DOMAIN ca \subseteq DOMAIN ca'
  BY <1>3, <1>4, <1>9, ClauseAdded
<1>11. LogInv'
  <2>1. ca' \in Clauses(db')
    BY <1>10 DEF e
  <2> QED
    BY <1>3, <1>8, <2>1 DEF LogInv
<1>12. /\ Len(trail') \in Nat /\ Len(trail) <= Len(trail')
       /\ \A v \in Vars : vardata'[v].reason \in DOMAIN ca' \cup {CRef_Undef}
  <2>1. Len(trail) \in Nat /\ \A v \in Vars : vardata[v].reason \in DOMAIN ca \cup {CRef_Undef}
    BY TrailShape, Shapes
  <2>2. trail' = trail /\ vardata' = vardata
    BY <1>3
  <2> QED
    BY <1>10, <2>1, <2>2
<1>13. ok' \in BOOLEAN /\ pc' = "parse" /\ trail' = trail
  BY <1>1, <1>3, TypeParts DEF PlainInv
<1> QED
  BY <1>3, <1>10, <1>11, <1>12, <1>13 DEF AddedOK

LEMMA ParseRest ==
    ASSUME IInv, parseClause
    PROVE  Rest'
<1> DEFINE ps == formula[next]
<1>1. Adds(ps, an) /\ an \in HintType(db)
  BY ParseAdds, HintsNow
<1> HIDE DEF ps
<1>2. AddedOK
  BY <1>1, AddSatisfiedOK, AddEmptyOK, AddUnitOK, AddLongerOK DEF Adds, addClause_
<1>3. /\ viv.cr = CRef_Undef /\ prop.lit = 0 /\ qhead = Len(trail) /\ ~searching /\ trail_lim = <<>>
      /\ pc = "parse"
  BY <1>1, AddsShape
<1>4. /\ UNCHANGED <<dirty, trail_lim, qhead, seen, prop, confl, learnt, ana, searching, conflicts,
                     viv, due, problem, restarts, reductions, simpDB_assigns, model>>
      /\ next' = next + 1 /\ next <= Len(formula)
  BY DEF parseClause, addFrame, analysisVars, vivifyVars, budgetVars
<1>5. LogInv' /\ PlaceInv'
  BY <1>2, <1>4, PlaceGrows DEF AddedOK
<1>6. PlainInv'
  <2>1. PlainInv
    BY TypeParts
  <2>2. next' \in 1 .. Len(formula) + 1 /\ formula' = formula
    <3>1. problem.cnf \in Seq(Seq(Lits))
      BY Shapes, ProblemsAssumption DEF ControlInv
    <3>2. Len(formula) \in Nat
      BY <3>1, Element DEF formula
    <3> QED
      BY <1>4, <2>1, <3>2 DEF PlainInv, formula
  <2>3. ok' \in BOOLEAN /\ pc' \in Phases
    BY <1>2 DEF AddedOK, Phases
  <2> QED
    BY <1>4, <2>1, <2>2, <2>3 DEF PlainInv
<1>7. ControlInv'
  <2>1. due'.nbconf >= 1 /\ ~viv'.on /\ ~searching'
    BY <1>3, <1>4, Shapes DEF ControlInv
  <2>2. pc' \in {"parse", "clean", "propagate", "simplifyLearnt", "simplified", "sat", "unsat"}
    BY <1>2 DEF AddedOK
  <2>3. pc' \in {"parse", "propagate"} => qhead' = Len(trail')
    BY <1>2, <1>3, <1>4 DEF AddedOK
  <2> QED
    BY <1>3, <1>4, <2>1, <2>2, <2>3, CalmControl
<1>8. HandInv' /\ VivInv'
  <2>1. pc' \notin Vivifying /\ viv'.cr = CRef_Undef /\ viv' = viv
    BY <1>2, <1>3, <1>4 DEF AddedOK, Vivifying, Assuming
  <2>2. viv' = [NotVivifying EXCEPT !.on = viv'.on]
    BY <1>3, <1>4, Shapes DEF HandInv
  <2> QED
    BY <2>1, <2>2, QuietViv DEF HandInv
<1>9. AnalysisInv' /\ NoTraceOfAnalysis'
  <2>1. Calm' /\ AnaTypes'
    BY <1>2, <1>4, SameAna DEF AddedOK, Calm
  <2>2. seen = {}
    BY <1>3, Shapes DEF NoTraceOfAnalysis
  <2> QED
    BY <1>2, <1>4, <2>1, <2>2, NoAnalysisNext DEF AddedOK, NoTraceOfAnalysis
<1> QED
  BY <1>5, <1>6, <1>7, <1>8, <1>9 DEF Rest

-----------------------------------------------------------------------------
(* Steps with no clause in hand.                                           *)
NoneHeld == viv.cr = CRef_Undef /\ \E o \in BOOLEAN : viv' = [viv EXCEPT !.on = o]

LEMMA StillNone ==
    ASSUME IInv, NoneHeld
    PROVE  /\ viv'.cr = CRef_Undef /\ viv'.on \in BOOLEAN /\ viv' = [NotVivifying EXCEPT !.on = viv'.on]
           /\ viv'.trailRecord = 0 /\ viv'.i = 1 /\ viv'.kept = <<>> /\ viv'.falseLit = <<>>
           /\ ~viv'.True_confl
<1>1. PICK o \in BOOLEAN : viv' = [viv EXCEPT !.on = o]
  BY DEF NoneHeld
<1>2. viv.cr = CRef_Undef /\ viv = [NotVivifying EXCEPT !.on = viv.on]
  BY Shapes DEF HandInv, NoneHeld
<1>3. viv' = [NotVivifying EXCEPT !.on = o]
  BY <1>1, <1>2 DEF NotVivifying
<1>4. [NotVivifying EXCEPT !.on = o].on = o
  BY DEF NotVivifying
<1> QED
  BY <1>1, <1>3, <1>4 DEF NotVivifying

LEMMA FreeHand ==
    ASSUME IInv, NoneHeld, pc' \notin Vivifying
    PROVE  HandInv' /\ VivInv'
BY StillNone, QuietViv DEF HandInv

LEMMA FreePlace ==
    ASSUME IInv, NoneHeld, DOMAIN ca \subseteq DOMAIN ca', UNCHANGED prop,
           confl' \in DOMAIN ca' \cup {CRef_Undef},
           Len(trail') \in Nat, qhead' \in 0 .. Len(trail'),
           \A v \in Vars : vardata'[v].reason \in DOMAIN ca' \cup {CRef_Undef}
    PROVE  PlaceInv'
<1>1. prop' \in [lit : Lits \cup {0}, k : Nat, i : Nat]
  BY TypeParts DEF PlaceInv
<1>2. viv' \in [on : BOOLEAN, cr : CRefs' \cup {CRef_Undef}, i : Nat, kept : LitSeq,
                falseLit : LitSeq, True_confl : BOOLEAN, trailRecord : 0 .. Len(trail')]
  <2>1. \E o \in BOOLEAN : viv' = [on |-> o, cr |-> CRef_Undef, i |-> 1, kept |-> <<>>,
                                   falseLit |-> <<>>, True_confl |-> FALSE, trailRecord |-> 0]
    BY StillNone DEF NotVivifying
  <2>2. <<>> \in LitSeq /\ 0 \in 0 .. Len(trail')
    BY DEF LitSeq
  <2> QED
    BY <2>1, <2>2
<1>3. /\ \A v \in Vars : vardata'[v].reason \in CRefs' \cup {CRef_Undef}
      /\ confl' \in CRefs' \cup {CRef_Undef}
  BY DEF CRefs
<1> QED
  BY <1>1, <1>2, <1>3 DEF PlaceInv

LEMMA SameLearner ==
    ASSUME IInv, UNCHANGED <<ok, seen, learnt, due, conflicts, problem, next>>, searching' \in BOOLEAN,
           restarts' \in Nat, reductions' \in Nat, pc' \in Phases
    PROVE  PlainInv'
BY TypeParts DEF PlainInv, formula

(* Propagation is over: nothing is pending.                                *)
LEMMA Pending ==
    ASSUME IInv, pc \in {"parse", "clean", "propagate", "simplePropagate", "conflict",
                         "simplifyLearnt", "simpleAnalyze"}
    PROVE  seen = {} /\ an = NoHints
BY Shapes DEF NoTraceOfAnalysis

LEMMA CalmStep ==
    ASSUME IInv, Calm', pc \in {"parse", "clean", "propagate"}, UNCHANGED <<an, seen, ana>>
    PROVE  AnalysisInv' /\ NoTraceOfAnalysis'
<1>1. AnalysisInv'
  BY SameAna, NoAnalysisNext
<1>2. seen' = {} /\ an' = NoHints
  BY Pending
<1> QED
  BY <1>1, <1>2 DEF NoTraceOfAnalysis

LEMMA AddUnitDoneRest ==
    ASSUME IInv, addUnitDone
    PROVE  Rest'
<1>1. /\ QueueEmpty /\ ~searching /\ ~viv.on /\ pc' = "parse"
      /\ UNCHANGED <<ca, watches, dirty, assigns, vardata, trail, trail_lim, qhead, ok, db, an, unitCids,
                     seen, prop, confl, searching, conflicts, learnt, ana, viv, due, problem, next,
                     restarts, reductions>>
  BY DEF addUnitDone, clauseVars, trailVars, tracerVars, analysisVars, vivifyVars, inputVars, budgetVars
<1>2. viv.cr = CRef_Undef /\ pc = "propagate" /\ prop.lit = 0 /\ qhead = Len(trail)
  BY <1>1, Shapes DEF HandInv, QueueEmpty
<1>3. NoneHeld
  <2>1. viv.on \in BOOLEAN /\ viv' = [viv EXCEPT !.on = viv.on]
    BY <1>1, VivShape
  <2> QED
    BY <1>2, <2>1 DEF NoneHeld
<1>4. LogInv'
  BY <1>1, SameLogTypes, TypeParts DEF LogInv
<1>5. PlaceInv'
  BY <1>1, TypeParts DEF PlaceInv, CRefs
<1>6. PlainInv'
  BY <1>1, SameLearner, TypeParts DEF PlainInv, Phases
<1>7. ControlInv'
  <2>1. due'.nbconf >= 1 /\ trail_lim' = <<>> /\ ~viv'.on /\ ~searching' /\ qhead' = Len(trail')
    BY <1>1, <1>2, Shapes DEF ControlInv
  <2> QED
    BY <1>1, <1>2, <2>1, CalmControl
<1>8. HandInv' /\ VivInv'
  BY <1>1, <1>3, FreeHand DEF Vivifying, Assuming
<1>9. AnalysisInv' /\ NoTraceOfAnalysis'
  BY <1>1, <1>2, CalmStep DEF Calm
<1> QED
  BY <1>4, <1>5, <1>6, <1>7, <1>8, <1>9 DEF Rest

(* search is entered.                                                      *)
LEMMA EnterShape ==
    ASSUME IInv, enterSearch
    PROVE  /\ pc' = "clean" /\ due' = due /\ searching' \in BOOLEAN /\ viv'.on \in BOOLEAN
           /\ (searching' => ~viv'.on) /\ (viv.cr = CRef_Undef => NoneHeld)
<1> DEFINE o == conflicts >= due.curSimplify * due.nbconf
<1>1. viv' = [viv EXCEPT !.on = o] /\ searching' = ~o /\ pc' = "clean" /\ due' = due
  BY DEF enterSearch
<1>2. o \in BOOLEAN
  OBVIOUS
<1> HIDE DEF o
<1>3. viv'.on = o
  BY <1>1, VivShape
<1> QED
  BY <1>1, <1>2, <1>3 DEF NoneHeld

LEMMA SolveRest ==
    ASSUME IInv, solve_
    PROVE  Rest'
<1>1. /\ pc = "parse" /\ enterSearch
      /\ UNCHANGED <<ca, watches, dirty, assigns, vardata, trail, trail_lim, qhead, ok, db, an, unitCids,
                     seen, prop, confl, conflicts, learnt, ana, problem, next, restarts, reductions>>
  BY DEF solve_, clauseVars, trailVars, tracerVars, inputVars, budgetVars
<1>2. viv.cr = CRef_Undef /\ prop.lit = 0 /\ trail_lim = <<>>
  BY <1>1, NoHand, NotScanning, Shapes DEF ControlInv
<1>3. NoneHeld /\ pc' = "clean" /\ due' = due /\ searching' \in BOOLEAN /\ (searching' => ~viv'.on)
  BY <1>1, <1>2, EnterShape
<1>4. LogInv'
  BY <1>1, SameLogTypes, TypeParts DEF LogInv
<1>5. PlaceInv'
  <2>1. /\ confl \in DOMAIN ca \cup {CRef_Undef} /\ Len(trail) \in Nat /\ qhead \in 0 .. Len(trail)
        /\ \A v \in Vars : vardata[v].reason \in DOMAIN ca \cup {CRef_Undef}
    BY TypeParts, TrailShape DEF PlaceInv, CRefs
  <2> QED
    BY <1>1, <1>3, <2>1, FreePlace
<1>6. PlainInv'
  BY <1>1, <1>3, SameLearner, TypeParts DEF PlainInv, Phases
<1>7. ControlInv'
  <2>1. due'.nbconf >= 1
    BY <1>3, Shapes DEF ControlInv
  <2> QED
    BY <1>1, <1>2, <1>3, <2>1, CalmControl
<1>8. HandInv' /\ VivInv'
  BY <1>3, FreeHand DEF Vivifying, Assuming
<1>9. AnalysisInv' /\ NoTraceOfAnalysis'
  BY <1>1, <1>3, CalmStep DEF Calm
<1> QED
  BY <1>4, <1>5, <1>6, <1>7, <1>8, <1>9 DEF Rest

-----------------------------------------------------------------------------
(* Removed clauses: their records are deleted.                             *)
LEMMA RemovalLog ==
    ASSUME IInv, NEW crs, Removal(crs), UNCHANGED an
    PROVE  /\ LogInv' /\ DOMAIN ca' = DOMAIN ca
           /\ \A v \in Vars : vardata'[v].reason \in DOMAIN ca \cup {CRef_Undef}
<1>1. /\ crs \in Seq(CRefs) /\ db' = db \o Deletions(crs) /\ ca' = Freed(crs)
      /\ vardata' = Unlocked(crs) /\ unitCids' = unitCids
  BY DEF Removal, CanRemove, removeClauses
<1>2. /\ db \in Log /\ ca \in Clauses(db) /\ CRefs = DOMAIN ca /\ an \in HintType(db)
      /\ unitCids \in [Vars -> DOMAIN db \cup {NoCid}] /\ OnVars(vardata)
      /\ \A v \in Vars : vardata[v].reason \in DOMAIN ca \cup {CRef_Undef}
  BY TypeParts, Shapes, TrailShape DEF LogInv
<1>3. Deletions(crs) \in Seq(RecordType)
  <2> DEFINE R(i) == DeleteRecord(ca[crs[i]].cid)
  <2>1. ASSUME NEW i \in 1 .. Len(crs) PROVE R(i) \in RecordType
    <3>1. crs[i] \in DOMAIN ca
      BY <1>1, <1>2, Element
    <3>2. ca[crs[i]].cid \in Nat
      BY <1>2, <3>1, ClauseTypes, LogTypes
    <3> QED
      BY <3>2, DeletionOf
  <2>2. DOMAIN crs = 1 .. Len(crs) /\ Len(crs) \in Nat
    BY <1>1, Element
  <2>3. Deletions(crs) = [i \in 1 .. Len(crs) |-> R(i)]
    BY <2>2 DEF Deletions
  <2> HIDE DEF R
  <2> QED
    BY <2>1, <2>2, <2>3
<1>4. Continues(db, db')
  <2> DEFINE e == Deletions(crs)
  <2>1. e \in Seq(RecordType) /\ db \in Seq(RecordType) /\ db' = db \o e
    BY <1>1, <1>2, <1>3 DEF Log
  <2> HIDE DEF e
  <2>2. db \o e \in Seq(RecordType) /\ Len(db \o e) = Len(db) + Len(e) /\ Len(db) \in Nat /\ Len(e) \in Nat
    BY <2>1
  <2>3. Len(db) <= Len(db \o e)
    BY <2>2
  <2> QED
    BY <1>2, <2>1, <2>2, <2>3 DEF Continues, Log
<1>5. Freed(crs) \in Clauses(db) /\ DOMAIN Freed(crs) = DOMAIN ca
  <2> DEFINE F(cr) == [ca[cr] EXCEPT !.freed = @ \/ cr \in ToSet(crs)]
  <2>1. ASSUME NEW cr \in DOMAIN ca PROVE F(cr) \in ClauseRecord(db)
    <3>1. ca[cr] \in ClauseRecord(db)
      BY <1>2, ClauseTypes
    <3> DEFINE x == ca[cr]
               b == ca[cr].freed \/ cr \in ToSet(crs)
    <3>2. F(cr) = [x EXCEPT !.freed = b] /\ b \in BOOLEAN /\ x \in ClauseRecord(db)
      BY <3>1
    <3> HIDE DEF x, b
    <3> QED
      BY <3>2 DEF ClauseRecord
  <2>2. Len(ca) \in Nat /\ DOMAIN ca = 1 .. Len(ca)
    BY Shapes
  <2>3. Freed(crs) = [cr \in 1 .. Len(ca) |-> F(cr)]
    BY <1>2, <2>2 DEF Freed
  <2> HIDE DEF F
  <2> QED
    BY <2>1, <2>2, <2>3 DEF Clauses
<1>6. LogInv'
  <2>1. /\ ca' \in Clauses(db') /\ an \in HintType(db') /\ unitCids \in [Vars -> DOMAIN db' \cup {NoCid}]
        /\ db' \in Log
    <3>1. ca' \in Clauses(db)
      BY <1>1, <1>5
    <3>2. /\ \A c \in Clauses(db) : c \in Clauses(db')
          /\ \A a \in HintType(db) : a \in HintType(db')
          /\ \A u \in [Vars -> DOMAIN db \cup {NoCid}] : u \in [Vars -> DOMAIN db' \cup {NoCid}]
      BY <1>4, ContinuesTypes
    <3> QED
      BY <1>2, <1>4, <3>1, <3>2 DEF Continues
  <2> QED
    BY <1>1, <2>1 DEF LogInv
<1>7. \A v \in Vars : Unlocked(crs)[v].reason \in DOMAIN ca \cup {CRef_Undef}
  <2> DEFINE freed == {Var(ImpliedLit(ca[cr].lits)) : cr \in {c \in ToSet(crs) : locked(c)}}
  <2>1. Unlocked(crs) = [v \in Vars |-> IF v \in freed THEN [vardata[v] EXCEPT !.reason = CRef_Undef]
                                        ELSE vardata[v]]
    BY DEF Unlocked
  <2> HIDE DEF freed
  <2>2. \A v \in Vars : vardata[v] = [reason |-> vardata[v].reason, level |-> vardata[v].level]
    BY <1>2 DEF OnVars
  <2>3. \A v \in Vars : [vardata[v] EXCEPT !.reason = CRef_Undef].reason = CRef_Undef
    BY <2>2
  <2> QED
    BY <1>2, <2>1, <2>3
<1> QED
  BY <1>1, <1>5, <1>6, <1>7

(* What the actions that only remove clauses have in common.               *)
RemovalOnly(crs) ==
    /\ Removal(crs) /\ viv.cr = CRef_Undef
    /\ UNCHANGED <<ok, seen, an, confl, learnt, ana, due, conflicts, problem, next, searching>>
    /\ restarts' \in Nat /\ reductions' \in Nat

LEMMA RemovalRest ==
    ASSUME IInv, simplify \/ reduceDB \/ (simplifySatisfied /\ UNCHANGED inputFrame)
    PROVE  Rest'
<1>1. PICK crs : Removal(crs)
  BY RemovalOf
<1>2. RemovalOnly(crs)
  <2>1. viv.cr = CRef_Undef
    BY NoHand DEF simplify, reduceDB, simplifySatisfied, Idle, BetweenClauses
  <2>2. restarts \in Nat /\ reductions \in Nat
    BY TypeParts DEF PlainInv
  <2>3. CASE simplify
    BY <1>1, <2>1, <2>2, <2>3 DEF simplify, RemovalOnly, idleFrame, inputVars, budgetVars
  <2>4. CASE reduceDB
    BY <1>1, <2>1, <2>2, <2>4 DEF reduceDB, RemovalOnly, idleFrame, inputVars
  <2>5. CASE simplifySatisfied /\ UNCHANGED inputFrame
    BY <1>1, <2>1, <2>2, <2>5
    DEF simplifySatisfied, RemovalOnly, vivifyFrame, vivifyVars, inputFrame, inputVars, budgetVars
  <2> QED
    BY <2>3, <2>4, <2>5
<1>3. /\ pc = "propagate" /\ pc' = "propagate" /\ prop.lit = 0 /\ viv.cr = CRef_Undef /\ Removal(crs)
      /\ UNCHANGED <<watches, viv, assigns, trail, trail_lim, qhead, unitCids, prop,
                     ok, seen, an, confl, learnt, ana, due, conflicts, problem, next, searching>>
      /\ restarts' \in Nat /\ reductions' \in Nat
  BY <1>2 DEF RemovalOnly, Removal
<1>4. qhead = Len(trail)
  BY DEF simplify, reduceDB, simplifySatisfied, Idle, BetweenClauses, QueueEmpty
<1>5. /\ LogInv' /\ DOMAIN ca' = DOMAIN ca
      /\ \A v \in Vars : vardata'[v].reason \in DOMAIN ca \cup {CRef_Undef}
  BY <1>3, RemovalLog
<1>6. NoneHeld
  <2>1. viv.on \in BOOLEAN /\ viv' = [viv EXCEPT !.on = viv.on]
    BY <1>3, VivShape
  <2> QED
    BY <1>3, <2>1 DEF NoneHeld
<1>7. PlaceInv'
  <2>1. confl \in DOMAIN ca \cup {CRef_Undef} /\ Len(trail) \in Nat /\ qhead \in 0 .. Len(trail)
    BY TypeParts, TrailShape DEF PlaceInv, CRefs
  <2> QED
    BY <1>3, <1>5, <1>6, <2>1, FreePlace
<1>8. PlainInv'
  BY <1>3, SameLearner, TypeParts DEF PlainInv, Phases
<1>9. ControlInv'
  <2>1. /\ due'.nbconf >= 1 /\ (searching' => ~viv'.on)
        /\ (~searching' /\ pc' \notin {"sat", "unsat"} => trail_lim' = <<>>)
    BY <1>3, Shapes DEF ControlInv
  <2>2. qhead' = Len(trail')
    BY <1>3, <1>4
  <2> QED
    BY <1>3, <2>1, <2>2, CalmControl
<1>10. HandInv' /\ VivInv'
  BY <1>3, <1>6, FreeHand DEF Vivifying, Assuming
<1>11. AnalysisInv' /\ NoTraceOfAnalysis'
  BY <1>3, CalmStep DEF Calm
<1> QED
  BY <1>5, <1>7, <1>8, <1>9, <1>10, <1>11 DEF Rest

-----------------------------------------------------------------------------
(* cancelUntil leaves places of the trail.                                 *)
CancelOf(b, P) == cancelUntil(b) /\ (decisionLevel > b => CanCancel(ca, b, P))

LEMMA CancelFrame ==
    ASSUME IInv, NEW b, NEW P, CancelOf(b, P)
    PROVE  /\ Len(trail') \in Nat /\ qhead' \in 0 .. Len(trail')
           /\ decisionLevel > b => Len(trail_lim') = b
           /\ ~(decisionLevel > b) => trail_lim' = trail_lim
<1>1. CASE decisionLevel > b
  <2>1. CanCancel(ca, b, P) /\ cancelUntil(b)
    BY <1>1 DEF CancelOf
  <2>2. /\ Trailing(ca, viv.cr, assigns', vardata, trail', trail_lim', Len(trail'), qhead', unitCids, db)
        /\ Len(trail_lim') = b
    BY <2>1, Cancel
  <2>3. trail' \in Seq(Lits) /\ qhead' \in Nat /\ qhead' <= Len(trail')
    BY <2>2, TrailingParts
  <2>4. Len(trail') \in Nat
    BY <2>3, Element
  <2> QED
    BY <1>1, <2>2, <2>3, <2>4
<1>2. CASE ~(decisionLevel > b)
  <2>1. UNCHANGED <<trail, assigns, qhead, trail_lim>>
    BY <1>2 DEF CancelOf, cancelUntil
  <2> QED
    BY <1>2, <2>1, Shapes, TrailShape
<1> QED
  BY <1>1, <1>2

LEMMA RestartRest ==
    ASSUME IInv, restart
    PROVE  Rest'
<1>1. /\ QueueEmpty /\ searching /\ decisionLevel > 0 /\ cancelUntil(0) /\ enterSearch
      /\ restarts' = restarts + 1
      /\ UNCHANGED <<watches, ok, unitCids, seen, an, prop, confl, conflicts, learnt, ana,
                     due, problem, next, ca, dirty, vardata, db, reductions>>
  BY DEF restart, Idle, idleFrame, inputVars
<1>2. viv.cr = CRef_Undef /\ pc = "propagate" /\ prop.lit = 0
  BY <1>1, NoHand DEF QueueEmpty
<1>3. NoneHeld /\ pc' = "clean" /\ searching' \in BOOLEAN /\ (searching' => ~viv'.on)
  BY <1>1, <1>2, EnterShape
<1>4. CancelOf(0, Len(trail))
  BY <1>1, AllPropagated, Lims DEF CancelOf, CanCancel
<1>5. Len(trail') \in Nat /\ qhead' \in 0 .. Len(trail') /\ Len(trail_lim') = 0
  BY <1>1, <1>4, CancelFrame
<1>6. trail_lim' = <<>>
  <2>1. trail_lim' \in Seq(Nat)
    <3>1. CanCancel(ca, 0, Len(trail)) /\ cancelUntil(0)
      BY <1>1, <1>4 DEF CancelOf
    <3> QED
      BY <3>1, Cancel, TrailingParts
  <2> QED
    BY <1>5, <2>1
<1>7. LogInv'
  BY <1>1, SameLogTypes, TypeParts DEF LogInv
<1>8. PlaceInv'
  <2>1. /\ confl \in DOMAIN ca \cup {CRef_Undef}
        /\ \A v \in Vars : vardata[v].reason \in DOMAIN ca \cup {CRef_Undef}
    BY TypeParts DEF PlaceInv, CRefs
  <2> QED
    BY <1>1, <1>3, <1>5, <2>1, FreePlace
<1>9. PlainInv'
  <2>1. restarts' \in Nat /\ reductions' \in Nat
    BY <1>1, TypeParts DEF PlainInv
  <2> QED
    BY <1>1, <1>3, <2>1, SameLearner DEF Phases
<1>10. ControlInv'
  <2>1. due'.nbconf >= 1
    BY <1>1, Shapes DEF ControlInv
  <2> QED
    BY <1>1, <1>2, <1>3, <1>6, <2>1, CalmControl
<1>11. HandInv' /\ VivInv'
  BY <1>3, FreeHand DEF Vivifying, Assuming
<1>12. AnalysisInv' /\ NoTraceOfAnalysis'
  BY <1>1, <1>2, <1>3, CalmStep DEF Calm
<1> QED
  BY <1>7, <1>8, <1>9, <1>10, <1>11, <1>12 DEF Rest

LEMMA DecideRest ==
    ASSUME IInv, decide
    PROVE  Rest'
<1>1. PICK l \in problem.decisions : decideOn(l)
  BY DEF decide
<1>2. /\ QueueEmpty /\ searching /\ IsUndef(l)
      /\ uncheckedEnqueue(l, decisionLevel + 1, CRef_Undef, db, an) /\ pc' = "clean"
      /\ UNCHANGED <<ca, watches, dirty, qhead, ok, seen, prop, confl, searching, conflicts, learnt, ana,
                     viv, due, problem, next, restarts, reductions>>
  BY <1>1 DEF decide, decideOn, Idle, clauseVars, analysisVars, vivifyVars, inputVars, budgetVars
<1>3. l \in Lits
  BY <1>1, Shapes, ProblemsAssumption DEF ControlInv
<1>4. viv.cr = CRef_Undef /\ ~viv.on /\ pc = "propagate" /\ prop.lit = 0
  BY <1>2, NoHand DEF QueueEmpty
<1>5. Enqueues(l, CRef_Undef) /\ analyzeEnqueuePropagation(l, decisionLevel + 1, CRef_Undef, db, an)
  BY <1>2, <1>3, EnqueueFrame
<1>6. UNCHANGED <<db, an, unitCids>>
  <2>1. decisionLevel + 1 # 0
    BY Lims
  <2> QED
    BY <1>5, <2>1 DEF analyzeEnqueuePropagation
<1>7. LogInv'
  BY <1>2, <1>6, SameLogTypes, TypeParts DEF LogInv
<1>8. PlaceInv'
  <2>1. Len(trail') = Len(trail) + 1 /\ Len(trail) \in Nat
        /\ \A v \in Vars : vardata'[v].reason \in DOMAIN ca \cup {CRef_Undef}
    BY <1>5, TrailShape DEF Enqueues
  <2> QED
    BY <1>2, <2>1, PlaceGrows
<1>9. PlainInv'
  BY <1>2, SameLearner, TypeParts DEF PlainInv, Phases
<1>10. ControlInv'
  <2>1. due'.nbconf >= 1
    BY <1>2, Shapes DEF ControlInv
  <2> QED
    BY <1>2, <1>4, <2>1, CalmControl
<1>11. HandInv' /\ VivInv'
  <2>1. NoneHeld
    <3>1. viv.on \in BOOLEAN /\ viv' = [viv EXCEPT !.on = viv.on]
      BY <1>2, VivShape
    <3> QED
      BY <1>4, <3>1 DEF NoneHeld
  <2> QED
    BY <1>2, <2>1, FreeHand DEF Vivifying, Assuming
<1>12. AnalysisInv' /\ NoTraceOfAnalysis'
  BY <1>2, <1>4, <1>6, CalmStep DEF Calm
<1> QED
  BY <1>7, <1>8, <1>9, <1>10, <1>11, <1>12 DEF Rest

LEMMA AnswerSatRest ==
    ASSUME IInv, answerSat
    PROVE  Rest'
<1>1. /\ QueueEmpty /\ searching /\ cancelUntil(0) /\ pc' = "sat"
      /\ UNCHANGED <<ca, watches, dirty, vardata, ok, db, an, unitCids, seen, prop, confl, searching,
                     conflicts, learnt, ana, viv, due, problem, next, restarts, reductions>>
  BY DEF answerSat, answerModel, Idle, clauseVars, tracerVars, analysisVars, vivifyVars, inputVars,
         budgetVars
<1>2. viv.cr = CRef_Undef /\ ~viv.on /\ pc = "propagate" /\ prop.lit = 0
  BY <1>1, NoHand DEF QueueEmpty
<1>3. CancelOf(0, Len(trail))
  BY <1>1, AllPropagated, Lims DEF CancelOf, CanCancel
<1>4. Len(trail') \in Nat /\ qhead' \in 0 .. Len(trail')
  BY <1>3, CancelFrame
<1>5. NoneHeld
  <2>1. viv.on \in BOOLEAN /\ viv' = [viv EXCEPT !.on = viv.on]
    BY <1>1, VivShape
  <2> QED
    BY <1>2, <2>1 DEF NoneHeld
<1>6. LogInv'
  BY <1>1, SameLogTypes, TypeParts DEF LogInv
<1>7. PlaceInv'
  <2>1. /\ confl \in DOMAIN ca \cup {CRef_Undef}
        /\ \A v \in Vars : vardata[v].reason \in DOMAIN ca \cup {CRef_Undef}
    BY TypeParts DEF PlaceInv, CRefs
  <2> QED
    BY <1>1, <1>4, <1>5, <2>1, FreePlace
<1>8. PlainInv'
  BY <1>1, SameLearner, TypeParts DEF PlainInv, Phases
<1>9. ControlInv'
  <2>1. due'.nbconf >= 1
    BY <1>1, Shapes DEF ControlInv
  <2> QED
    BY <1>1, <1>2, <2>1, CalmControl
<1>10. HandInv' /\ VivInv'
  BY <1>1, <1>5, FreeHand DEF Vivifying, Assuming
<1>11. AnalysisInv' /\ NoTraceOfAnalysis'
  BY <1>1, <1>2, CalmStep DEF Calm
<1> QED
  BY <1>6, <1>7, <1>8, <1>9, <1>10, <1>11 DEF Rest

LEMMA SearchRest ==
    ASSUME IInv, search
    PROVE  Rest'
BY RestartRest, RemovalRest, DecideRest, AnswerSatRest DEF search

-----------------------------------------------------------------------------
(* The conflict clause with its literal of the highest level put first.    *)
LEMMA HighestMemory ==
    ASSUME IInv, pc = "conflict", HighestFirst
    PROVE  MemoryKept
<1>1. CASE BothAtDecisionLevel
  BY <1>1, SameMemory DEF HighestFirst
<1>2. CASE ~BothAtDecisionLevel
  <2> DEFINE s == SwapAt(conflLits, 1, highestId)
  <2>1. ca' = [ca EXCEPT ![confl].lits = s]
    BY <1>2 DEF HighestFirst
  <2>2. s = SwapAt(conflLits, 1, highestId)
    OBVIOUS
  <2> HIDE DEF s
  <2>3. Swapped(Lits, conflLits, 1, highestId, s)
    BY <2>1, <2>2, HighestSwap
  <2>4. s \in Seq(Lits) /\ ToSet(s) = ToSet(ca[confl].lits)
    BY <2>3 DEF Swapped, conflLits
  <2>5. confl \in DOMAIN ca /\ confl # viv.cr
    BY ConflictShape
  <2> QED
    BY <2>1, <2>4, <2>5, MemoryPut
<1> QED
  BY <1>1, <1>2

(* A log in which every number is the one of a record.                     *)
AnyLog == [n \in Nat |-> n]

LEMMA AnyHints ==
    ASSUME IInv
    PROVE  an \in HintType(AnyLog) /\ DOMAIN AnyLog = Nat
<1>1. DOMAIN AnyLog = Nat
  BY DEF AnyLog
<1>2. DOMAIN db \subseteq Nat /\ an \in HintType(db)
  BY LogContinues, ContinuesParts, TypeParts DEF LogInv
<1>3. Seq(DOMAIN db) \subseteq Seq(Nat)
  <2>1. \A S, T : S \subseteq T => Seq(S) \subseteq Seq(T)
    OBVIOUS
  <2> QED
    BY <1>2, <2>1
<1> QED
  BY <1>1, <1>2, <1>3 DEF HintType

(* The empty clause is recorded.                                           *)
LEMMA AnswerTypes ==
    ASSUME IInv, pc = "conflict", AnswerUnsat, ca' \in Clauses(db)
    PROVE  LogInv' /\ an' = NoHints
<1> DEFINE a == AddHint(an, ca[confl].cid)
           b == AddUnitHints(a, UnitCidsOf(conflLits))
           r == Resolvent(b, <<>>, GetOrigin(b))
<1>1. db' = Append(db, r) /\ an' = NoHints /\ unitCids' = unitCids
  BY DEF AnswerUnsat
<1>2. an \in HintType(AnyLog) /\ DOMAIN AnyLog = Nat /\ ca[confl].cid \in Nat /\ conflLits \in Seq(Lits)
  BY AnyHints, ConflictShape, TypeParts, ClauseTypes DEF LogInv
<1>3. UnitCidsOf(conflLits) \in Seq(Nat)
  BY <1>2, UnitCidsNat
<1>4. a \in HintType(AnyLog)
  BY <1>2, HintAdded
<1>5. <<>> \in Seq(Lits)
  OBVIOUS
<1> HIDE DEF a
<1>6. b \in HintType(AnyLog)
  BY <1>2, <1>3, <1>4, UnitHintsAdded
<1> HIDE DEF b
<1>7. r \in RecordType
  BY <1>2, <1>5, <1>6, RecordOf
<1> HIDE DEF r
<1>8. db \in Log /\ unitCids \in [Vars -> DOMAIN db \cup {NoCid}]
  BY TypeParts DEF LogInv
<1>9. Continues(db, db')
  BY <1>1, <1>7, <1>8, ContinuesOne
<1>10. ca' \in Clauses(db') /\ unitCids' \in [Vars -> DOMAIN db' \cup {NoCid}] /\ db' \in Log
  BY <1>1, <1>8, <1>9, ContinuesTypes DEF Continues
<1>11. an' \in HintType(db')
  BY <1>1 DEF NoHints, HintType
<1> QED
  BY <1>1, <1>10, <1>11 DEF LogInv

LEMMA LevelZeroConflictRest ==
    ASSUME IInv, levelZeroConflict, UNCHANGED <<vivifyVars, inputFrame>>
    PROVE  Rest'
<1>1. /\ pc = "conflict" /\ ~searching /\ AnswerUnsat /\ pc' = "unsat" /\ ok' = FALSE
      /\ UNCHANGED <<ca, assigns, vardata, trail, trail_lim, qhead, seen, prop, confl, searching,
                     conflicts, learnt, ana, viv, due, problem, next, restarts, reductions>>
  BY DEF levelZeroConflict, AnswerUnsat, trailVars, vivifyVars, inputFrame, inputVars, budgetVars
<1>2. LogInv' /\ an' = NoHints
  BY <1>1, AnswerTypes, TypeParts DEF LogInv
<1>3. PlaceInv'
  <2>1. /\ Len(trail) \in Nat /\ Len(trail) <= Len(trail)
        /\ \A v \in Vars : vardata[v].reason \in DOMAIN ca \cup {CRef_Undef}
    BY Shapes, TrailShape
  <2> QED
    BY <1>1, <2>1, PlaceGrows
<1>4. PlainInv'
  BY <1>1, TypeParts DEF PlainInv, Phases, formula
<1>5. ControlInv'
  <2>1. due'.nbconf >= 1 /\ prop.lit = 0
    BY <1>1, Shapes, NotScanning DEF ControlInv
  <2> QED
    BY <1>1, <2>1, CalmControl
<1>6. HandInv'
  <2>1. HandKept
    BY <1>1 DEF HandKept, vivLits, IsTrue, Vivifying, Assuming
  <2> QED
    BY <2>1, HandStays
<1>7. VivInv'
  BY <1>1, QuietViv DEF Vivifying, Assuming
<1>8. AnalysisInv' /\ NoTraceOfAnalysis'
  BY <1>1, <1>2, SameAna, NoAnalysisNext, Pending DEF Calm, NoTraceOfAnalysis
<1> QED
  BY <1>2, <1>3, <1>4, <1>5, <1>6, <1>7, <1>8 DEF Rest

(* What a step of the analysis changes of the plain variables.             *)
LEMMA OneConflict ==
    ASSUME IInv, UNCHANGED <<due, problem, next, restarts, reductions>>,
           conflicts' \in {conflicts, conflicts + 1},
           ok' \in BOOLEAN, searching' \in BOOLEAN, seen' \subseteq Vars, pc' \in Phases,
           learnt' \in Seq(Lits \cup {0})
    PROVE  PlainInv'
<1>1. PlainInv
  BY TypeParts
<1>2. conflicts' \in Nat
  <2>1. conflicts \in Nat
    BY <1>1 DEF PlainInv
  <2> QED
    BY <2>1
<1> QED
  BY <1>1, <1>2 DEF PlainInv, formula

(* search gets to a conflict with no clause in hand.                       *)
LEMMA SearchFree ==
    ASSUME IInv, searching, viv' = viv
    PROVE  viv.cr = CRef_Undef /\ ~viv.on /\ NoneHeld
<1>1. viv.cr = CRef_Undef /\ ~viv.on
  BY NoHand
<1>2. viv.on \in BOOLEAN /\ viv' = [viv EXCEPT !.on = viv.on]
  BY VivShape
<1> QED
  BY <1>1, <1>2 DEF NoneHeld

LEMMA SearchLevelZeroRest ==
    ASSUME IInv, searchLevelZeroConflict, UNCHANGED <<vivifyVars, inputFrame>>
    PROVE  Rest'
<1>1. /\ pc = "conflict" /\ searching /\ HighestFirst /\ AnswerUnsat /\ cancelUntil(0)
      /\ pc' = "unsat" /\ ok' = FALSE /\ conflicts' = conflicts + 1
      /\ UNCHANGED <<vardata, seen, prop, confl, searching, learnt, ana, viv, due, problem, next,
                     restarts, reductions>>
  BY DEF searchLevelZeroConflict, AnswerUnsat, vivifyVars, inputFrame, inputVars, budgetVars
<1>2. viv.cr = CRef_Undef /\ ~viv.on /\ NoneHeld /\ MemoryKept /\ prop.lit = 0
  BY <1>1, SearchFree, HighestMemory, NotScanning
<1>3. LogInv' /\ an' = NoHints
  BY <1>1, <1>2, AnswerTypes DEF MemoryKept
<1>4. CancelOf(0, done)
  BY <1>1, ConflictPropagated, Lims DEF CancelOf, CanCancel
<1>5. Len(trail') \in Nat /\ qhead' \in 0 .. Len(trail')
  BY <1>4, CancelFrame
<1>6. PlaceInv'
  <2>1. /\ confl \in DOMAIN ca \cup {CRef_Undef} /\ DOMAIN ca' = DOMAIN ca
        /\ \A v \in Vars : vardata[v].reason \in DOMAIN ca \cup {CRef_Undef}
    BY <1>2, TypeParts DEF PlaceInv, CRefs, MemoryKept
  <2> QED
    BY <1>1, <1>2, <1>5, <2>1, FreePlace
<1>7. PlainInv'
  <2>1. PlainInv /\ pc' \in Phases
    BY <1>1, TypeParts DEF Phases
  <2> QED
    BY <1>1, <2>1, OneConflict DEF PlainInv
<1>8. ControlInv'
  <2>1. due'.nbconf >= 1
    BY <1>1, Shapes DEF ControlInv
  <2> QED
    BY <1>1, <1>2, <2>1, CalmControl
<1>9. HandInv' /\ VivInv'
  BY <1>1, <1>2, FreeHand DEF Vivifying, Assuming
<1>10. AnalysisInv' /\ NoTraceOfAnalysis'
  BY <1>1, <1>3, SameAna, NoAnalysisNext, Pending DEF Calm, NoTraceOfAnalysis
<1> QED
  BY <1>3, <1>6, <1>7, <1>8, <1>9, <1>10 DEF Rest

LEMMA SingleHighestRest ==
    ASSUME IInv, singleHighest, UNCHANGED <<vivifyVars, inputFrame>>
    PROVE  Rest'
<1>1. /\ pc = "conflict" /\ searching /\ HighestFirst /\ cancelUntil(nHighestLevel - 1)
      /\ nHighestLevel > 0 /\ pc' = "clean" /\ conflicts' = conflicts + 1 /\ confl' = CRef_Undef
      /\ UNCHANGED <<vardata, ok, db, an, unitCids, seen, prop, searching, learnt, ana, viv, due,
                     problem, next, restarts, reductions>>
  BY DEF singleHighest, tracerVars, vivifyVars, inputFrame, inputVars, budgetVars
<1>2. viv.cr = CRef_Undef /\ ~viv.on /\ NoneHeld /\ MemoryKept /\ prop.lit = 0
  BY <1>1, SearchFree, HighestMemory, NotScanning
<1>3. LogInv'
  BY <1>1, <1>2, SameLogTypes DEF MemoryKept
<1>4. CancelOf(nHighestLevel - 1, done)
  <2>1. /\ nHighestLevel \in Nat /\ nHighestLevel <= decisionLevel /\ decisionLevel \in Nat
        /\ beforeLevel = trail_lim[nHighestLevel] /\ beforeLevel <= done
    BY <1>1, HighestShape, Lims, BeforeLevel DEF beforeLevel
  <2>2. (nHighestLevel - 1) + 1 = nHighestLevel /\ nHighestLevel - 1 \in Nat /\ nHighestLevel - 1 < decisionLevel
    BY <1>1, <2>1
  <2>3. Trailing(ca, viv.cr, assigns, vardata, trail, trail_lim, Len(trail), done, unitCids, db)
    BY <1>1, ConflictPropagated
  <2>4. CanCancel(ca, nHighestLevel - 1, done)
    BY <2>1, <2>2, <2>3 DEF CanCancel
  <2> QED
    BY <1>1, <2>4 DEF CancelOf
<1>5. Len(trail') \in Nat /\ qhead' \in 0 .. Len(trail')
  BY <1>4, CancelFrame
<1>6. PlaceInv'
  <2>1. /\ DOMAIN ca' = DOMAIN ca
        /\ \A v \in Vars : vardata[v].reason \in DOMAIN ca \cup {CRef_Undef}
    BY <1>2, TypeParts DEF PlaceInv, CRefs, MemoryKept
  <2> QED
    BY <1>1, <1>2, <1>5, <2>1, FreePlace
<1>7. PlainInv'
  <2>1. PlainInv /\ pc' \in Phases
    BY <1>1, TypeParts DEF Phases
  <2> QED
    BY <1>1, <2>1, OneConflict DEF PlainInv
<1>8. ControlInv'
  <2>1. due'.nbconf >= 1
    BY <1>1, Shapes DEF ControlInv
  <2> QED
    BY <1>1, <1>2, <2>1, CalmControl
<1>9. HandInv' /\ VivInv'
  BY <1>1, <1>2, FreeHand DEF Vivifying, Assuming
<1>10. AnalysisInv' /\ NoTraceOfAnalysis'
  BY <1>1, SameAna, NoAnalysisNext, Pending DEF Calm, NoTraceOfAnalysis
<1> QED
  BY <1>3, <1>6, <1>7, <1>8, <1>9, <1>10 DEF Rest

-----------------------------------------------------------------------------
(* The steps of analyze, which leave the trail as it is.                   *)
StaysAnalyzing ==
    /\ pc \in {"conflict"} \cup Analyzing /\ pc' \in Analyzing /\ searching
    /\ UNCHANGED <<dirty, assigns, vardata, trail, trail_lim, qhead, ok, db, unitCids, prop, searching,
                   viv, due, problem, next, restarts, reductions>>
    /\ conflicts' \in {conflicts, conflicts + 1}
    /\ MemoryKept

LEMMA AnalyzingFrame ==
    ASSUME IInv, StaysAnalyzing, an' \in HintType(db), confl' \in DOMAIN ca \cup {CRef_Undef}
    PROVE  LogInv' /\ PlaceInv' /\ ControlInv' /\ HandInv' /\ VivInv'
<1>1. /\ pc \in {"conflict"} \cup Analyzing /\ pc' \in Analyzing /\ searching
      /\ UNCHANGED <<dirty, trail, trail_lim, qhead, db, unitCids, prop, searching, viv, due, problem, vardata>>
  BY DEF StaysAnalyzing
<1>2. MemoryKept
  BY DEF StaysAnalyzing
<1>3. ca' \in Clauses(db) /\ DOMAIN ca' = DOMAIN ca
  BY <1>2 DEF MemoryKept
<1>4. viv.cr = CRef_Undef /\ ~viv.on /\ NoneHeld /\ prop.lit = 0
  BY <1>1, SearchFree, NotScanning DEF Analyzing
<1>5. LogInv'
  BY <1>1, <1>3, TypeParts DEF LogInv
<1>6. PlaceInv'
  <2>1. /\ Len(trail) \in Nat /\ qhead \in 0 .. Len(trail)
        /\ \A v \in Vars : vardata[v].reason \in DOMAIN ca \cup {CRef_Undef}
    BY TypeParts, TrailShape DEF PlaceInv, CRefs
  <2> QED
    BY <1>1, <1>3, <1>4, <2>1, FreePlace
<1>7. ControlInv'
  <2>1. ControlInv
    BY Shapes
  <2>2. Clean
    BY <1>1, <2>1 DEF ControlInv
  <2>3. Clean'
    BY <1>1, <2>2 DEF Clean
  <2>4. pc' \notin {"parse", "propagate", "simplePropagate", "conflict", "simpleAnalyze", "sat", "unsat"}
    BY <1>1 DEF Analyzing
  <2> QED
    BY <1>1, <1>4, <2>1, <2>3, <2>4 DEF ControlInv, Propagating, Simple
<1>8. HandInv' /\ VivInv'
  BY <1>1, <1>4, FreeHand DEF Vivifying, Assuming, Analyzing
<1> QED
  BY <1>5, <1>6, <1>7, <1>8

LEMMA AnalyzingPlain ==
    ASSUME IInv, StaysAnalyzing, seen' \subseteq Vars, learnt' \in Seq(Lits \cup {0})
    PROVE  PlainInv'
<1>1. /\ UNCHANGED <<ok, searching, due, problem, next, restarts, reductions>> /\ pc' \in Analyzing
      /\ conflicts' \in {conflicts, conflicts + 1}
  BY DEF StaysAnalyzing
<1>2. PlainInv /\ pc' \in Phases
  BY <1>1, TypeParts DEF Analyzing, Phases
<1> QED
  BY <1>1, <1>2, OneConflict DEF PlainInv

(* The fields of ana.                                                      *)
LEMMA AnaShape ==
    ASSUME IInv
    PROVE  ana \in [p : Lits \cup {0}, index : Nat, pathC : Nat, nDecisionLevel : Nat,
                    toclear : LitSeq, levels : SUBSET Nat, i : Nat, kept : LitSeq,
                    stack : LitSeq, top : Nat, btlevel : Nat]
BY Shapes DEF AnalysisInv, AnaTypes

(* Two literals of the highest level.                                      *)
LEMMA TwoHighest ==
    ASSUME IInv, pc = "conflict", ~bOnlyOneLitFromHighest
    PROVE  \E l, m \in ToSet(conflLits) : l # m /\ level(l) = nHighestLevel /\ level(m) = nHighestLevel
<1>1. /\ conflLits \in Seq(Lits) /\ AllDistinct(conflLits) /\ 1 \in 1 .. Len(conflLits)
      /\ 2 \in 1 .. Len(conflLits) /\ DOMAIN conflLits = 1 .. Len(conflLits)
  BY ConflictShape
<1>2. CASE BothAtDecisionLevel
  <2>1. conflLits[1] \in ToSet(conflLits) /\ conflLits[2] \in ToSet(conflLits)
    BY <1>1, Element
  <2>2. conflLits[1] # conflLits[2]
    BY <1>1 DEF AllDistinct
  <2>3. level(conflLits[1]) = nHighestLevel /\ level(conflLits[2]) = nHighestLevel
    BY <1>2 DEF BothAtDecisionLevel, nHighestLevel
  <2> QED
    BY <2>1, <2>2, <2>3
<1>3. CASE ~BothAtDecisionLevel
  <2> DEFINE S == {l \in ToSet(conflLits) : level(l) = nHighestLevel}
             x == conflLits[highestId]
  <2>1. Cardinality(S) # 1
    BY <1>3 DEF bOnlyOneLitFromHighest
  <2>2. x \in S
    BY <1>1, HighestShape, Element
  <2> SUFFICES ASSUME \A m \in S : m = x PROVE FALSE
    BY <2>2
  <2>3. S = {x}
    BY <2>2
  <2> HIDE DEF S, x
  <2> QED
    BY <2>1, <2>3, FS_Singleton
<1> QED
  BY <1>2, <1>3

LEMMA AnalyzeBeginRest ==
    ASSUME IInv, analyzeBegin, UNCHANGED <<vivifyVars, inputFrame>>
    PROVE  Rest'
<1>1. /\ pc = "conflict" /\ searching /\ nHighestLevel > 0 /\ ~bOnlyOneLitFromHighest /\ HighestFirst
      /\ conflicts' = conflicts + 1 /\ learnt' = <<0>> /\ pc' = "analyze"
      /\ ana' = [NoAnalysis EXCEPT !.index = Len(trail), !.nDecisionLevel = nHighestLevel]
      /\ UNCHANGED <<dirty, assigns, vardata, trail, trail_lim, qhead, ok, db, an, unitCids, seen, prop,
                     confl, searching, viv, due, problem, next, restarts, reductions>>
  BY DEF analyzeBegin, trailVars, tracerVars, vivifyVars, inputFrame, inputVars, budgetVars
<1>2. MemoryKept
  BY <1>1, HighestMemory
<1>3. StaysAnalyzing
  BY <1>1, <1>2 DEF StaysAnalyzing, Analyzing
<1>4. /\ confl \in DOMAIN ca /\ ~ca[confl].freed /\ confl # viv.cr /\ AllFalse(conflLits)
      /\ conflLits \in Seq(Lits) /\ Len(trail) \in Nat /\ decisionLevel \in Nat
  BY <1>1, ConflictShape, TrailShape, Lims
<1>5. seen' = {} /\ an' = NoHints
  BY <1>1, Pending
<1>6. LogInv' /\ PlaceInv' /\ ControlInv' /\ HandInv' /\ VivInv'
  BY <1>1, <1>3, <1>4, <1>5, HintsNow, AnalyzingFrame
<1>7. PlainInv'
  BY <1>1, <1>3, <1>5, AnalyzingPlain
<1>8. /\ ana'.nDecisionLevel = nHighestLevel /\ ana'.index = Len(trail) /\ ana'.p = 0 /\ ana'.pathC = 0
      /\ ana'.toclear = <<>> /\ N' = nHighestLevel
  BY <1>1 DEF NoAnalysis, N
<1>9. nHighestLevel \in 1 .. decisionLevel /\ decisionLevel' = decisionLevel
  BY <1>1, <1>4, HighestShape DEF decisionLevel
<1>10. AnaTypes'
  <2>1. <<>> \in LitSeq
    BY DEF LitSeq
  <2>2. nHighestLevel \in Nat /\ Len(trail) \in Nat
    BY <1>4, <1>9
  <2>3. ana' = [NoAnalysis EXCEPT !.index = Len(trail), !.nDecisionLevel = nHighestLevel]
    BY <1>1
  <2>4. NoAnalysis \in [p : Lits \cup {0}, index : Nat, pathC : Nat, nDecisionLevel : Nat,
                        toclear : LitSeq, levels : SUBSET Nat, i : Nat, kept : LitSeq,
                        stack : LitSeq, top : Nat, btlevel : Nat]
    BY <2>1 DEF NoAnalysis
  <2> QED
    BY <2>2, <2>3, <2>4 DEF AnaTypes
<1>11. ToSet(conflLits') = ToSet(conflLits)
  BY <1>1, <1>2, <1>4 DEF MemoryKept, conflLits
<1>12. ResolveInv'
  <2>1. Usable(confl)'
    BY <1>1, <1>2, <1>4 DEF MemoryKept, Usable
  <2>2. learnt'[1] = 0 /\ Len(learnt') = 1
    BY <1>1
  <2>3. LowerLearnt' /\ \A k, m \in 2 .. Len(learnt') : Var(learnt'[k]) = Var(learnt'[m]) => k = m
    BY <2>2 DEF LowerLearnt
  <2>4. ana'.pathC = Cardinality(HereVars(seen)')
    <3>1. HereVars(seen)' = {}
      BY <1>5 DEF HereVars
    <3> QED
      BY <1>8, <3>1, FS_EmptySet
  <2>5. /\ ana'.index \in 0 .. Len(trail')
        /\ \A i \in ana'.index + 1 .. Len(trail') : FALSE
    BY <1>1, <1>4, <1>8
  <2>6. \A l \in ToSet(conflLits) : IsFalse(l) /\ level(l) <= nHighestLevel
    <3> SUFFICES ASSUME NEW l \in ToSet(conflLits)
                 PROVE  IsFalse(l) /\ level(l) <= nHighestLevel
      OBVIOUS
    <3>1. PICK k \in 1 .. Len(conflLits) : conflLits[k] = l
      BY <1>4, Element
    <3> QED
      BY <1>1, <1>4, <3>1, HighestShape DEF AllFalse
  <2>7. /\ AllFalse(conflLits)' /\ (\A l \in ToSet(conflLits) : level(l) <= N)'
        /\ (\E l, m \in ToSet(conflLits) : l # m /\ level(l) = N /\ level(m) = N)'
    <3>1. \E l, m \in ToSet(conflLits) : l # m /\ level(l) = nHighestLevel /\ level(m) = nHighestLevel
      BY <1>1, TwoHighest
    <3> QED
      BY <1>1, <1>8, <1>11, <2>6, <3>1 DEF AllFalse, IsFalse, level
  <2>8. \A v \in Vars : ~(\E k \in 2 .. Len(learnt') : Var(learnt'[k]) = v)
    BY <2>2
  <2> QED
    BY <1>5, <1>8, <1>1, <2>1, <2>2, <2>3, <2>4, <2>5, <2>7, <2>8 DEF ResolveInv
<1>13. AnalysisInv' /\ NoTraceOfAnalysis'
  <2>1. Len(learnt') >= 1
    BY <1>1
  <2> QED
    BY <1>1, <1>5, <1>8, <1>9, <1>10, <1>12, <2>1 DEF AnalysisInv, NoTraceOfAnalysis
<1> QED
  BY <1>6, <1>7, <1>13 DEF Rest

(* The learnt clause is minimized: it stays as it is, and so do the levels. *)
Minimizes ==
    /\ pc \in {"minimize", "litRedundant"} /\ pc' \in {"minimize", "litRedundant"}
    /\ UNCHANGED <<minimizeFrame, learnt, vivifyVars, inputFrame>>
    /\ MemoryKept /\ ana'.nDecisionLevel = ana.nDecisionLevel
    /\ an' \in HintType(db) /\ an'.hints # <<>>
    /\ seen' \subseteq VarsOf(ana'.toclear)

LEMMA LearntStays ==
    ASSUME IInv, pc \in {"minimize", "litRedundant", "backtrack"},
           UNCHANGED <<learnt, assigns, vardata>>, ana'.nDecisionLevel = ana.nDecisionLevel
    PROVE  LearntInv'
<1>1. LearntInv
  BY Shapes DEF AnalysisInv
<1> QED
  BY <1>1 DEF LearntInv, LowerLearnt, AllFalse, IsFalse, level, N

LEMMA VarsOfLits == ASSUME NEW q \in Seq(Lits) PROVE VarsOf(q) \subseteq Vars
<1>1. \A i \in DOMAIN q : Var(q[i]) \in Vars
  BY Element, LitFacts
<1> QED
  BY <1>1 DEF VarsOf

LEMMA MinimizesRest ==
    ASSUME IInv, Minimizes, AnaTypes', MinimizeInv', pc' = "litRedundant" => RedundantInv'
    PROVE  Rest'
<1>1. /\ pc \in {"minimize", "litRedundant"} /\ pc' \in {"minimize", "litRedundant"}
      /\ UNCHANGED <<watches, dirty, assigns, vardata, trail, trail_lim, qhead, ok, db, unitCids, prop,
                     confl, searching, conflicts, learnt, viv, due, problem, next, restarts, reductions>>
      /\ MemoryKept /\ an' \in HintType(db) /\ an'.hints # <<>>
      /\ seen' \subseteq VarsOf(ana'.toclear) /\ ana'.nDecisionLevel = ana.nDecisionLevel
  BY DEF Minimizes, minimizeFrame, trailVars, vivifyVars, inputFrame, inputVars, budgetVars
<1>2. /\ searching /\ N \in 1 .. decisionLevel /\ Len(learnt) >= 1 /\ learnt \in Seq(Lits \cup {0})
      /\ confl \in DOMAIN ca \cup {CRef_Undef}
  BY <1>1, Shapes, TypeParts DEF ControlInv, AnalysisInv, Analyzing, PlainInv, PlaceInv, CRefs
<1>3. StaysAnalyzing
  BY <1>1, <1>2 DEF StaysAnalyzing, Analyzing
<1>4. LogInv' /\ PlaceInv' /\ ControlInv' /\ HandInv' /\ VivInv'
  BY <1>1, <1>2, <1>3, AnalyzingFrame
<1>5. seen' \subseteq Vars
  <2>1. ana'.toclear \in Seq(Lits)
    BY DEF AnaTypes, LitSeq
  <2> DEFINE q == ana'.toclear
  <2>2. q \in Seq(Lits)
    BY <2>1
  <2> HIDE DEF q
  <2>3. VarsOf(q) \subseteq Vars
    BY <2>2, VarsOfLits
  <2> QED
    BY <1>1, <2>3 DEF q
<1>6. PlainInv'
  BY <1>1, <1>2, <1>3, <1>5, AnalyzingPlain
<1>7. LearntInv'
  BY <1>1, LearntStays
<1>8. N' = N /\ decisionLevel' = decisionLevel
  BY <1>1 DEF N, decisionLevel
<1>9. AnalysisInv' /\ NoTraceOfAnalysis'
  BY <1>1, <1>2, <1>7, <1>8 DEF AnalysisInv, NoTraceOfAnalysis
<1> QED
  BY <1>4, <1>6, <1>9 DEF Rest

(* The literal looked at has been dealt with: it stays or not.             *)
KeepsOn(a2) ==
    /\ ana.i <= Len(learnt) /\ a2.i = ana.i + 1
    /\ a2.kept = ana.kept \/ a2.kept = Append(ana.kept, learnt[ana.i])

LEMMA KeptNext ==
    ASSUME IInv, pc \in {"minimize", "litRedundant"}, pc' = "minimize", KeepsOn(ana'), learnt' = learnt,
           seen' \subseteq VarsOf(ana'.toclear)
    PROVE  MinimizeInv' /\ ana'.kept \in LitSeq
<1>1. MinimizeInv /\ LearntInv
  BY Shapes DEF AnalysisInv
<1>2. /\ ana.i \in 2 .. Len(learnt) /\ Len(learnt) \in Nat /\ learnt \in Seq(Lits) /\ AllDistinct(learnt)
      /\ learnt[ana.i] \in Lits
  <2>1. learnt \in Seq(Lits) /\ AllDistinct(learnt)
    BY <1>1 DEF LearntInv, LitSeq
  <2>2. Len(learnt) \in Nat
    BY <2>1
  <2>3. ana.i \in 2 .. Len(learnt)
    BY <1>1, <2>2 DEF MinimizeInv, KeepsOn
  <2> QED
    BY <2>1, <2>2, <2>3
<1>3. ana.kept \in Seq(Lits) /\ Len(ana.kept) \in Nat
  BY AnaShape DEF LitSeq
<1>4. /\ AllDistinct(ana.kept) /\ Len(ana.kept) >= 1 /\ ana.kept[1] = learnt[1]
      /\ \A k \in 2 .. Len(ana.kept) : \E m \in 2 .. ana.i - 1 : ana.kept[k] = learnt[m]
  BY <1>1 DEF MinimizeInv
<1> DEFINE s == ana.kept
           x == learnt[ana.i]
           j == ana.i
           t == ana'.kept
<1>5. ana'.i = j + 1 /\ (t = s \/ t = Append(s, x))
  BY DEF KeepsOn
<1>6. \A k \in 1 .. Len(s) : \E m \in 1 .. j - 1 : s[k] = learnt[m]
  <2> SUFFICES ASSUME NEW k \in 1 .. Len(s)
               PROVE  \E m \in 1 .. j - 1 : s[k] = learnt[m]
    OBVIOUS
  <2>1. CASE k = 1
    <3>1. 1 \in 1 .. j - 1
      BY <1>2
    <3> QED
      BY <1>4, <2>1, <3>1
  <2>2. CASE k # 1
    <3>1. k \in 2 .. Len(s)
      BY <1>3, <2>2
    <3> QED
      BY <1>4, <1>2, <3>1
  <2> QED
    BY <2>1, <2>2
<1>7. \A y \in ToSet(s) : Var(y) # Var(x)
  <2> SUFFICES ASSUME NEW y \in ToSet(s) PROVE Var(y) # Var(x)
    OBVIOUS
  <2>1. PICK k \in 1 .. Len(s) : s[k] = y
    BY <1>3, Element
  <2>2. PICK m \in 1 .. j - 1 : s[k] = learnt[m]
    BY <1>6
  <2>3. m # j /\ m \in DOMAIN learnt /\ j \in DOMAIN learnt
    BY <1>2
  <2> QED
    BY <1>2, <2>1, <2>2, <2>3 DEF AllDistinct
<1> HIDE DEF s, x, t, j
<1>8. s \in Seq(Lits) /\ x \in Lits /\ j \in 2 .. Len(learnt) /\ learnt[j] = x
  BY <1>2, <1>3 DEF s, x, j
<1>9. /\ t \in Seq(Lits) /\ AllDistinct(t) /\ Len(t) >= 1 /\ t[1] = learnt[1]
      /\ \A k \in 2 .. Len(t) : \E m \in 2 .. j : t[k] = learnt[m]
  <2>1. \A k \in 2 .. Len(s) : \E m \in 2 .. j : s[k] = learnt[m]
    <3>1. 2 .. j - 1 \subseteq 2 .. j
      BY <1>8
    <3> QED
      BY <1>4, <3>1 DEF s, j
  <2>2. CASE t = s
    BY <1>4, <1>8, <2>1, <2>2 DEF s
  <2>3. CASE t = Append(s, x)
    <3>1. AllDistinct(t)
      BY <1>4, <1>7, <1>8, <2>3, AppendDistinct DEF s
    <3>2. /\ t \in Seq(Lits) /\ Len(t) = Len(s) + 1 /\ t[Len(s) + 1] = x /\ Len(s) \in Nat
          /\ \A k \in 1 .. Len(s) : t[k] = s[k]
      BY <1>8, <2>3
    <3>3. Len(s) >= 1 /\ s[1] = learnt[1]
      BY <1>4 DEF s
    <3>4. \A k \in 2 .. Len(t) : \E m \in 2 .. j : t[k] = learnt[m]
      <4> SUFFICES ASSUME NEW k \in 2 .. Len(t)
                   PROVE  \E m \in 2 .. j : t[k] = learnt[m]
        OBVIOUS
      <4>1. CASE k = Len(s) + 1
        BY <1>8, <3>2, <4>1
      <4>2. CASE k # Len(s) + 1
        <5>1. k \in 2 .. Len(s) /\ k \in 1 .. Len(s)
          BY <3>2, <4>2
        <5> QED
          BY <2>1, <3>2, <5>1
      <4> QED
        BY <4>1, <4>2
    <3> QED
      BY <3>1, <3>2, <3>3, <3>4
  <2> QED
    BY <1>5, <2>2, <2>3
<1>10. ana'.i \in 2 .. Len(learnt) + 1 /\ ana'.i - 1 = j /\ ana'.kept \in LitSeq
  BY <1>2, <1>5, <1>8, <1>9 DEF t, LitSeq
<1> QED
  BY <1>9, <1>10 DEF MinimizeInv, t

LEMMA MinimizeKeepRest ==
    ASSUME IInv, minimizeKeep \/ minimizeBasic, UNCHANGED <<vivifyVars, inputFrame>>
    PROVE  Rest'
<1>1. /\ pc = "minimize" /\ ana.i <= Len(learnt) /\ pc' = pc
      /\ UNCHANGED <<minimizeFrame, ca, an, seen, learnt>>
  BY DEF minimizeKeep, minimizeBasic, Minimizing
<1>2. /\ ana'.i = ana.i + 1 /\ ana'.nDecisionLevel = ana.nDecisionLevel /\ ana'.toclear = ana.toclear
      /\ ana'.kept = ana.kept \/ ana'.kept = Append(ana.kept, learnt[ana.i])
      /\ ana' = [ana EXCEPT !.kept = ana'.kept, !.i = ana.i + 1]
  BY AnaShape DEF minimizeKeep, minimizeBasic
<1>3. /\ an \in HintType(db) /\ an.hints # <<>> /\ seen \subseteq VarsOf(ana.toclear)
  BY <1>1, HintsNow, Shapes DEF AnalysisInv, MinimizeInv
<1>4. Minimizes
  BY <1>1, <1>2, <1>3, SameMemory DEF Minimizes
<1>5. MinimizeInv' /\ ana'.kept \in LitSeq
  BY <1>1, <1>2, <1>3, KeptNext DEF KeepsOn
<1>6. AnaTypes'
  <2>1. ana.i + 1 \in Nat
    BY AnaShape
  <2> QED
    BY <1>2, <1>5, <2>1, AnaShape DEF AnaTypes
<1> QED
  BY <1>1, <1>4, <1>5, <1>6, MinimizesRest
=============================================================================
