----------------------- MODULE SearchTheorems_proofs ------------------------
(***************************************************************************)
(* The inductive invariant of ChronoSearch, third part: hints that may be  *)
(* taken back, minimization, the learnt clause, and vivification; that     *)
(* every step keeps the invariant; the properties that follow from it; and *)
(* which steps record an input clause.                                     *)
(***************************************************************************)
EXTENDS SearchInvariant_proofs

-----------------------------------------------------------------------------
(* A clause with its implied literal put first.                            *)
LEMMA ImpliedFirstShape ==
    ASSUME NEW s \in Seq(Lits), NEW q, q = ImpliedFirst(s)
    PROVE  /\ q \in Seq(Lits) /\ Len(q) = Len(s) /\ ToSet(q) = ToSet(s)
           /\ AllDistinct(s) => AllDistinct(q)
           /\ Len(q) = 2 => ((IsFalse(s[1]) /\ q[1] = s[2]) \/ (~IsFalse(s[1]) /\ q = s))
           /\ Len(q) # 2 => q = s
<1>1. CASE Len(s) = 2 /\ IsFalse(s[1])
  <2>1. CanSwap(Lits, s, 1, 2)
    BY <1>1 DEF CanSwap
  <2>2. q = SwapAt(s, 1, 2)
    BY <1>1 DEF ImpliedFirst
  <2>3. Swapped(Lits, s, 1, 2, q)
    BY <2>1, <2>2, SwapFacts
  <2>4. q[1] = s[2]
    BY <1>1, <2>3 DEF Swapped
  <2> QED
    BY <1>1, <2>3, <2>4 DEF Swapped
<1>2. CASE ~(Len(s) = 2 /\ IsFalse(s[1]))
  BY <1>2 DEF ImpliedFirst
<1> QED
  BY <1>1, <1>2

(* The reason of a true literal: the literal stands first in it, and the   *)
(* others, false and of levels up to its own, before it on the trail.      *)
ReasonOf(l, q, i) ==
    /\ l \in Lits /\ IsTrue(l) /\ reason(l) # CRef_Undef /\ q = ImpliedFirst(ca[reason(l)].lits)
    /\ i \in 1 .. Len(trail) /\ trail[i] = l

LEMMA ReasonOthers ==
    ASSUME IInv, pc \notin Assuming, NEW l, NEW q, NEW i, ReasonOf(l, q, i)
    PROVE  /\ reason(l) \in DOMAIN ca /\ ~ca[reason(l)].freed
           /\ q \in Seq(Lits) /\ AllDistinct(q) /\ Len(q) \in Nat /\ Len(q) >= 2 /\ q[1] = l
           /\ ToSet(q) = ToSet(ca[reason(l)].lits)
           /\ \A k \in 2 .. Len(q) :
                q[k] \in Lits /\ IsFalse(q[k]) /\ level(q[k]) <= level(l) /\ OnTrail(trail, -q[k], i - 1)
           /\ \E k \in 2 .. Len(q) : level(q[k]) = level(l)
<1> DEFINE cr == reason(l)
           s == ca[cr].lits
<1>1. settled = Len(trail) /\ cr = Rs(vardata, trail[i]) /\ cr # CRef_Undef
  BY WhereNow DEF ReasonOf, Rs, reason
<1>2. cr \in DOMAIN ca /\ ~ca[cr].freed /\ trail[i] = ImpliedLit(s)
  BY <1>1, ReasonImplied DEF ReasonOf
<1>3. /\ Reasons(ca, vardata, trail, settled) /\ Memory(ca, viv.cr) /\ HasLits(ca)
      /\ Assigned(assigns, trail) /\ trail \in Seq(Lits) /\ Len(trail) \in Nat
  BY TrailShape, MemoryShape
<1>4. Forces(s, vardata, trail, i)
  BY <1>1, <1>3 DEF Reasons, ReasonOf
<1>5. s \in Seq(Lits) /\ AllDistinct(s)
  BY <1>2, <1>3 DEF HasLits, Memory
<1>6. l \in Lits /\ IsTrue(l) /\ i \in 1 .. Len(trail) /\ trail[i] = l /\ q = ImpliedFirst(s)
  BY DEF ReasonOf
<1>7. /\ Len(s) >= 2 /\ l \in ToSet(s) /\ (Len(s) # 2 => s[1] = l)
      /\ \A x \in ToSet(s) \ {l} : level(x) <= level(l) /\ OnTrail(trail, -x, i - 1)
      /\ \E x \in ToSet(s) \ {l} : level(x) = level(l)
  BY <1>4, <1>6 DEF Forces, Lv, level
<1> HIDE DEF s, cr
<1>8. /\ q \in Seq(Lits) /\ Len(q) = Len(s) /\ ToSet(q) = ToSet(s) /\ AllDistinct(q)
      /\ Len(q) = 2 => ((IsFalse(s[1]) /\ q[1] = s[2]) \/ (~IsFalse(s[1]) /\ q = s))
      /\ Len(q) # 2 => q = s
  BY <1>5, <1>6, ImpliedFirstShape
<1>9. \A x \in ToSet(s) \ {l} : x \in Lits /\ IsFalse(x)
  <2> SUFFICES ASSUME NEW x \in ToSet(s) \ {l} PROVE x \in Lits /\ IsFalse(x)
    OBVIOUS
  <2>1. x \in Lits
    BY <1>5, Element
  <2>2. PICK j \in 1 .. i - 1 : trail[j] = -x
    BY <1>7 DEF OnTrail
  <2>3. j \in DOMAIN trail
    BY <1>3, <1>6, <2>2
  <2>4. assigns[Var(-x)] = -x
    BY <1>3, <2>2, <2>3 DEF Assigned
  <2> QED
    BY <2>1, <2>4, LitFacts DEF IsFalse
<1>10. Len(q) \in Nat /\ Len(q) >= 2 /\ 1 \in 1 .. Len(q)
  BY <1>7, <1>8
<1>11. ~IsFalse(l)
  BY <1>6, LitFacts DEF IsTrue, IsFalse
<1>12. q[1] = l
  <2>1. CASE Len(q) # 2
    BY <1>7, <1>8, <2>1
  <2>2. CASE Len(q) = 2
    <3>1. s[1] \in ToSet(s) /\ s[2] \in ToSet(s) /\ \A x \in ToSet(s) : x = s[1] \/ x = s[2]
      <4>0. \A x \in ToSet(s) : \E j \in 1 .. Len(s) : s[j] = x
        BY <1>5, Element
      <4>1. Len(s) = 2 /\ \A x \in ToSet(s) : \E j \in 1 .. Len(s) : s[j] = x
        BY <1>8, <2>2, <4>0
      <4>2. 1 \in 1 .. Len(s) /\ 2 \in 1 .. Len(s) /\ \A k \in 1 .. Len(s) : k = 1 \/ k = 2
        BY <4>1
      <4>3. s[1] \in ToSet(s) /\ s[2] \in ToSet(s)
        BY <1>5, <4>2, Element
      <4> QED
        BY <4>1, <4>2, <4>3
    <3>2. CASE s[1] = l
      BY <1>8, <1>11, <2>2, <3>2
    <3>3. CASE s[1] # l
      <4>1. IsFalse(s[1]) /\ s[2] = l
        BY <1>7, <1>9, <3>1, <3>3
      <4> QED
        BY <1>8, <2>2, <4>1
    <3> QED
      BY <3>2, <3>3
  <2> QED
    BY <2>1, <2>2
<1>13. \A k \in 2 .. Len(q) : q[k] \in ToSet(s) \ {l}
  <2> SUFFICES ASSUME NEW k \in 2 .. Len(q) PROVE q[k] \in ToSet(s) \ {l}
    OBVIOUS
  <2>1. k \in 1 .. Len(q) /\ k # 1 /\ k \in DOMAIN q /\ 1 \in DOMAIN q
    BY <1>8, <1>10
  <2>2. q[k] \in ToSet(q)
    BY <1>8, <2>1, Element
  <2>3. q[k] # q[1]
    BY <1>8, <2>1 DEF AllDistinct
  <2> QED
    BY <1>8, <1>12, <2>2, <2>3
<1>14. \E k \in 2 .. Len(q) : level(q[k]) = level(l)
  <2>1. PICK x \in ToSet(s) \ {l} : level(x) = level(l)
    BY <1>7
  <2>2. PICK k \in 1 .. Len(q) : q[k] = x
    BY <1>8, <2>1, Element
  <2>3. k \in 2 .. Len(q)
    BY <1>10, <1>12, <2>1, <2>2
  <2> QED
    BY <2>1, <2>2, <2>3
<1> QED
  BY <1>2, <1>7, <1>8, <1>9, <1>10, <1>12, <1>13, <1>14 DEF s, cr

(* The literals of a clause from place k on that are not marked.           *)
LEMMA FreshShape ==
    ASSUME NEW q \in Seq(Lits), AllDistinct(q), NEW k \in {1, 2}, Len(q) >= 2, NEW f, f = Unseen(q, k)
    PROVE  /\ f \in Seq(Lits) /\ AllDistinct(f)
           /\ \A l : l \in ToSet(f) <=> Var(l) \notin seen /\ \E j \in k .. Len(q) : q[j] = l
<1> DEFINE t == SubSeq(q, k, Len(q))
           at == {j \in DOMAIN t : Var(t[j]) \notin seen}
<1>1. f = PickAt(t, at)
  BY DEF Unseen, Selected, PickAt
<1>2. Len(q) \in Nat /\ DOMAIN q = 1 .. Len(q)
  BY Element
<1>3. /\ t \in Seq(Lits) /\ Len(t) = Len(q) - k + 1 /\ Len(t) \in Nat
      /\ \A i \in 1 .. Len(t) : t[i] = q[k + i - 1]
  <2>1. CASE k = 1
    BY <1>2, <2>1
  <2>2. CASE k = 2
    BY <1>2, <2>2
  <2> QED
    BY <2>1, <2>2
<1>4. at \in SUBSET DOMAIN t
  OBVIOUS
<1> HIDE DEF t
<1>5. AllDistinct(t)
  <2>0. DOMAIN t = 1 .. Len(t)
    BY <1>3, Element
  <2> SUFFICES ASSUME NEW i \in 1 .. Len(t), NEW j \in 1 .. Len(t), Var(t[i]) = Var(t[j])
               PROVE  i = j
    BY <2>0 DEF AllDistinct
  <2>1. k + i - 1 \in DOMAIN q /\ k + j - 1 \in DOMAIN q /\ (k + i - 1 = k + j - 1 => i = j)
    BY <1>2, <1>3
  <2>2. Var(q[k + i - 1]) = Var(q[k + j - 1])
    BY <1>3
  <2> QED
    BY <2>1, <2>2 DEF AllDistinct
<1>6. \A x : (\E j \in 1 .. Len(t) : t[j] = x) <=> \E j \in k .. Len(q) : q[j] = x
  <2> SUFFICES ASSUME NEW x
               PROVE  (\E j \in 1 .. Len(t) : t[j] = x) <=> \E j \in k .. Len(q) : q[j] = x
    OBVIOUS
  <2>1. ASSUME NEW j \in 1 .. Len(t), t[j] = x PROVE \E i \in k .. Len(q) : q[i] = x
    <3>1. k + j - 1 \in k .. Len(q)
      BY <1>2, <1>3
    <3> QED
      BY <1>3, <2>1, <3>1
  <2>2. ASSUME NEW j \in k .. Len(q), q[j] = x PROVE \E i \in 1 .. Len(t) : t[i] = x
    <3>1. j - k + 1 \in 1 .. Len(t) /\ k + (j - k + 1) - 1 = j
      BY <1>2, <1>3
    <3> QED
      BY <1>3, <2>2, <3>1
  <2> QED
    BY <2>1, <2>2
<1>7. f \in Seq(Lits) /\ AllDistinct(f) /\ \A x : x \in ToSet(f) <=> \E j \in at : x = t[j]
  <2> HIDE DEF at
  <2> QED
    BY <1>1, <1>3, <1>4, <1>5, Picked, PickedSet
<1>8. DOMAIN t = 1 .. Len(t)
  BY <1>3, Element
<1>9. \A x : (\E j \in at : x = t[j]) <=> Var(x) \notin seen /\ \E j \in 1 .. Len(t) : t[j] = x
  BY <1>8
<1> QED
  BY <1>6, <1>7, <1>9

LEMMA AboveShape ==
    ASSUME NEW q \in Seq(Lits)
    PROVE  /\ AboveLevelZero(q) \in Seq(Lits) /\ (AllDistinct(q) => AllDistinct(AboveLevelZero(q)))
           /\ \A l : l \in ToSet(AboveLevelZero(q)) <=> l \in ToSet(q) /\ level(l) > 0
<1> DEFINE at == {k \in DOMAIN q : level(q[k]) > 0}
           z == PickAt(q, at)
<1>1. AboveLevelZero(q) = z
  BY DEF AboveLevelZero, Selected, PickAt
<1>2. at \in SUBSET DOMAIN q
  OBVIOUS
<1>3. /\ z \in Seq(Lits) /\ (AllDistinct(q) => AllDistinct(z))
      /\ \A l : l \in ToSet(z) <=> \E k \in at : l = q[k]
  <2> HIDE DEF at
  <2> QED
    BY <1>2, Picked, PickedSet
<1>4. \A l : (\E k \in at : l = q[k]) <=> l \in ToSet(q) /\ level(l) > 0
  <2> HIDE DEF z
  <2> QED
    BY Element
<1> HIDE DEF z
<1> QED
  BY <1>1, <1>3, <1>4

-----------------------------------------------------------------------------
(* Hints that may be taken back: a marker keeps the lengths of the two     *)
(* buffers, and the last marker says what stays.                           *)
Marker(a) == [nUnordered |-> a.nUnordered, nUnitHints |-> Len(a.units), nHints |-> Len(a.hints)]

LEMMA HintsMarked ==
    ASSUME NEW d, NEW a \in HintType(d), NEW b, b = MarkRevertableHints(a)
    PROVE  /\ b \in HintType(d) /\ b.hints = a.hints /\ b.units = a.units /\ b.reverts # <<>>
           /\ Last(b.reverts) = Marker(a)
<1>1. /\ a.hints \in Seq(DOMAIN d) /\ a.units \in Seq(DOMAIN d) /\ a.reverts \in Seq(RevertMarker)
      /\ a.nUnordered \in Nat
  BY DEF HintType
<1>2. Marker(a) \in RevertMarker
  BY <1>1 DEF Marker, RevertMarker
<1> DEFINE m == Marker(a)
           r == Append(a.reverts, m)
<1>3. r \in Seq(RevertMarker) /\ r # <<>> /\ Last(r) = m
  <2>1. m \in RevertMarker
    BY <1>2
  <2> HIDE DEF m
  <2> QED
    BY <1>1, <2>1 DEF Last
<1>4. b = [a EXCEPT !.reverts = r]
  BY DEF MarkRevertableHints, Marker
<1> HIDE DEF r
<1>5. b = [hints |-> a.hints, units |-> a.units, reverts |-> r, nUnordered |-> a.nUnordered]
  BY <1>4 DEF HintType
<1> QED
  BY <1>1, <1>3, <1>5 DEF HintType

LEMMA UnorderedAdded ==
    ASSUME NEW d, NEW a \in HintType(d), NEW cid \in DOMAIN d, NEW b, b = AddUnorderedHint(a, cid)
    PROVE  /\ b \in HintType(d) /\ b.hints = Append(a.hints, cid) /\ b.units = a.units
           /\ b.reverts = a.reverts /\ Len(b.hints) = Len(a.hints) + 1
<1>1. /\ a.hints \in Seq(DOMAIN d) /\ a.units \in Seq(DOMAIN d) /\ a.reverts \in Seq(RevertMarker)
      /\ a.nUnordered \in Nat
  BY DEF HintType
<1> DEFINE h == Append(a.hints, cid)
           n == a.nUnordered + 1
<1>2. h \in Seq(DOMAIN d) /\ Len(h) = Len(a.hints) + 1 /\ n \in Nat
  BY <1>1
<1>3. b = [hints |-> h, units |-> a.units, reverts |-> a.reverts, nUnordered |-> n]
  BY DEF AddUnorderedHint, HintType
<1> HIDE DEF n
<1> QED
  BY <1>1, <1>2, <1>3 DEF HintType

CanRevert(a) ==
    /\ a.reverts # <<>>
    /\ Last(a.reverts).nHints \in 1 .. Len(a.hints) /\ Last(a.reverts).nUnitHints \in 0 .. Len(a.units)

LEMMA HintsReverted ==
    ASSUME NEW d, NEW a \in HintType(d), CanRevert(a), NEW b, b = RevertHints(a)
    PROVE  b \in HintType(d) /\ b.hints # <<>>
<1> DEFINE m == a.reverts[Len(a.reverts)]
           h == SubSeq(a.hints, 1, m.nHints)
           u == SubSeq(a.units, 1, m.nUnitHints)
           r == SubSeq(a.reverts, 1, Len(a.reverts) - 1)
<1>1. /\ a.hints \in Seq(DOMAIN d) /\ a.units \in Seq(DOMAIN d) /\ a.reverts \in Seq(RevertMarker)
      /\ a.reverts # <<>>
  BY DEF HintType, CanRevert
<1>2. m \in RevertMarker /\ Len(a.reverts) \in Nat /\ Len(a.reverts) >= 1
  BY <1>1
<1>3. m.nHints \in 1 .. Len(a.hints) /\ m.nUnitHints \in 0 .. Len(a.units) /\ m.nUnordered \in Nat
  BY <1>2 DEF CanRevert, Last, RevertMarker
<1> HIDE DEF m
<1>4. h \in Seq(DOMAIN d) /\ h # <<>> /\ u \in Seq(DOMAIN d) /\ r \in Seq(RevertMarker)
  <2>1. h \in Seq(DOMAIN d) /\ Len(h) = m.nHints
    BY <1>1, <1>3
  <2>2. u \in Seq(DOMAIN d)
    BY <1>1, <1>3
  <2>3. r \in Seq(RevertMarker)
    BY <1>1, <1>2
  <2>4. m.nHints >= 1 /\ m.nHints \in Nat
    BY <1>1, <1>3
  <2> HIDE DEF h, u, r
  <2>5. h # <<>>
    BY <2>1, <2>4
  <2> QED
    BY <2>1, <2>2, <2>3, <2>5
<1>5. b = [hints |-> h, units |-> u, reverts |-> r, nUnordered |-> m.nUnordered]
  BY DEF RevertHints, m
<1> HIDE DEF h, u, r
<1> QED
  BY <1>3, <1>4, <1>5 DEF HintType

(* litRedundant is entered with one literal, whose reason is looked at     *)
(* first.                                                                  *)
LEMMA LitRedundantBeginRest ==
    ASSUME IInv, litRedundantBegin, UNCHANGED <<vivifyVars, inputFrame>>
    PROVE  Rest'
<1>1. /\ pc = "minimize" /\ ana.i <= Len(learnt) /\ pc' = "litRedundant"
      /\ reason(learnt[ana.i]) # CRef_Undef /\ an' = MarkRevertableHints(an)
      /\ UNCHANGED <<minimizeFrame, ca, seen, learnt>>
  BY DEF litRedundantBegin, Minimizing
<1>2. /\ an \in HintType(db) /\ an.hints # <<>> /\ MinimizeInv /\ LearntInv
  BY <1>1, HintsNow, Shapes DEF AnalysisInv
<1>3. an' \in HintType(db) /\ an'.hints = an.hints /\ an'.units = an.units /\ an'.reverts # <<>>
      /\ Last(an'.reverts) = Marker(an)
  BY <1>1, <1>2, HintsMarked
<1>4. /\ learnt \in Seq(Lits) /\ ana.i \in 1 .. Len(learnt) /\ ana.i \in Nat /\ learnt[ana.i] \in Lits
      /\ IsFalse(learnt[ana.i])
  <2>1. learnt \in Seq(Lits) /\ Len(learnt) \in Nat /\ ana.i \in 2 .. Len(learnt) + 1
    BY <1>2, Element DEF LearntInv, LitSeq, MinimizeInv
  <2>2. ana.i \in 1 .. Len(learnt)
    BY <1>1, <2>1
  <2> QED
    BY <1>2, <2>1, <2>2, Element DEF LearntInv, AllFalse
<1> DEFINE x == learnt[ana.i]
           st == <<x>>
           n == Len(ana.toclear)
<1>5. st \in LitSeq /\ n \in Nat /\ \A l \in ToSet(st) : l = x
  <2>1. x \in Lits
    BY <1>4
  <2>2. ana.toclear \in Seq(Lits)
    BY AnaShape DEF LitSeq
  <2> HIDE DEF x
  <2>3. st \in Seq(Lits) /\ Len(st) = 1 /\ st[1] = x
    BY <2>1
  <2> HIDE DEF st
  <2>4. \A l \in ToSet(st) : l = x
    BY <2>3, Element
  <2> QED
    BY <2>2, <2>3, <2>4 DEF LitSeq
<1>6. /\ ana'.stack = st /\ ana'.top = n /\ ana'.i = ana.i /\ ana'.kept = ana.kept
      /\ ana'.toclear = ana.toclear /\ ana'.nDecisionLevel = ana.nDecisionLevel
      /\ ana' = [ana EXCEPT !.stack = st, !.top = n]
  BY AnaShape DEF litRedundantBegin
<1> HIDE DEF st, n
<1>7. AnaTypes'
  BY <1>5, <1>6, AnaShape DEF AnaTypes
<1>8. seen' \subseteq VarsOf(ana'.toclear)
  BY <1>1, <1>2, <1>6 DEF MinimizeInv
<1>9. Minimizes
  BY <1>1, <1>2, <1>3, <1>6, <1>8, SameMemory DEF Minimizes
<1>10. MinimizeInv'
  BY <1>1, <1>2, <1>6, <1>8 DEF MinimizeInv
<1>11. UNCHANGED <<assigns, vardata>>
  BY <1>1 DEF minimizeFrame, trailVars
<1>12. RedundantInv'
  <2>1. \A l \in ToSet(ana'.stack) : reason(l)' # CRef_Undef /\ IsFalse(l)'
    BY <1>1, <1>4, <1>5, <1>6, <1>11 DEF reason, IsFalse
  <2>2. ana'.top <= Len(ana'.toclear)
    BY <1>5, <1>6 DEF n
  <2>3. Len(an.hints) \in 1 .. Len(an.hints) /\ Len(an.units) \in 0 .. Len(an.units)
    <3>1. an.hints \in Seq(DOMAIN db) /\ an.units \in Seq(DOMAIN db)
      BY <1>2 DEF HintType
    <3> QED
      BY <1>2, <3>1
  <2> QED
    BY <1>3, <2>1, <2>2, <2>3 DEF RedundantInv, Marker
<1> QED
  BY <1>7, <1>9, <1>10, <1>12, MinimizesRest

(* The literal is redundant.                                               *)
LEMMA LitRedundantTrueRest ==
    ASSUME IInv, litRedundantTrue, UNCHANGED <<vivifyVars, inputFrame>>
    PROVE  Rest'
<1>1. /\ pc = "litRedundant" /\ pc' = "minimize" /\ UNCHANGED <<minimizeFrame, ca, an, seen, learnt>>
  BY DEF litRedundantTrue
<1>2. /\ ana'.i = ana.i + 1 /\ ana'.nDecisionLevel = ana.nDecisionLevel /\ ana'.toclear = ana.toclear
      /\ ana'.kept = ana.kept /\ ana' = [ana EXCEPT !.i = ana.i + 1]
  BY AnaShape DEF litRedundantTrue
<1>3. /\ an \in HintType(db) /\ an.hints # <<>> /\ seen \subseteq VarsOf(ana.toclear)
      /\ ana.i <= Len(learnt)
  BY <1>1, HintsNow, Shapes DEF AnalysisInv, MinimizeInv
<1>4. Minimizes
  BY <1>1, <1>2, <1>3, SameMemory DEF Minimizes
<1>5. MinimizeInv' /\ ana'.kept \in LitSeq
  BY <1>1, <1>2, <1>3, KeptNext DEF KeepsOn
<1>6. AnaTypes'
  <2>1. ana.i + 1 \in Nat
    BY AnaShape
  <2> QED
    BY <1>2, <2>1, AnaShape DEF AnaTypes
<1> QED
  BY <1>1, <1>4, <1>5, <1>6, MinimizesRest

(* The clause litRedundant looks at, with its implied literal put first.   *)
LEMMA RedundantMemory ==
    ASSUME IInv, pc = "litRedundant", ana.stack # <<>>, StoreRedundant
    PROVE  /\ MemoryKept /\ redundantLits \in Seq(Lits) /\ ca[redundantCRef].cid \in DOMAIN db
           /\ \E i : ReasonOf(-Last(ana.stack), redundantLits, i)
<1>1. /\ redundantCRef \in DOMAIN ca /\ redundantCRef # CRef_Undef
      /\ Last(ana.stack) \in Lits /\ IsFalse(Last(ana.stack))
  BY RedundantShape
<1> DEFINE l == Last(ana.stack)
<1>2. -l \in Lits /\ IsTrue(-l) /\ reason(-l) = reason(l) /\ Var(-l) \in Vars /\ assigns[Var(-l)] = -l
  BY <1>1, LitFacts DEF IsTrue, IsFalse, reason
<1>3. OnTrail(trail, -l, Len(trail))
  <2>1. Assigned(assigns, trail) /\ trail \in Seq(Lits)
    BY TrailShape
  <2> QED
    BY <1>2, <2>1, TrueOnTrail
<1>4. PICK i \in 1 .. Len(trail) : trail[i] = -l
  BY <1>3 DEF OnTrail
<1>5. ReasonOf(-l, redundantLits, i)
  BY <1>1, <1>2, <1>4 DEF ReasonOf, redundantLits, redundantCRef
<1>6. pc \notin Assuming
  BY DEF Assuming
<1>7. redundantLits \in Seq(Lits) /\ ToSet(redundantLits) = ToSet(ca[redundantCRef].lits)
  BY <1>2, <1>5, <1>6, ReasonOthers DEF redundantCRef
<1>8. viv.cr = CRef_Undef
  BY NoHand, Shapes DEF ControlInv
<1>9. MemoryKept
  BY <1>1, <1>7, <1>8, MemoryPut DEF StoreRedundant
<1>10. ca[redundantCRef].cid \in DOMAIN db
  BY <1>1, Shapes, ClauseTypes
<1> QED
  BY <1>5, <1>7, <1>9, <1>10

(* The literals of the reason are marked, and those above level 0 are to   *)
(* be looked at.                                                           *)
LEMMA LitRedundantStepRest ==
    ASSUME IInv, litRedundantStep, UNCHANGED <<vivifyVars, inputFrame>>
    PROVE  Rest'
<1> DEFINE fresh == Unseen(redundantLits, 2)
           top == Last(ana.stack)
           front == Front(ana.stack)
           above == AboveLevelZero(fresh)
           cids == UnitCidsOf(AtLevelZero(fresh))
           a1 == AddUnorderedHint(an, ca[redundantCRef].cid)
           st == front \o above
           cl == ana.toclear \o fresh
<1>1. /\ pc = "litRedundant" /\ pc' = "litRedundant" /\ ana.stack # <<>> /\ Resolvable /\ StoreRedundant
      /\ an' = AddUnitHints(a1, cids) /\ seen' = seen \cup VarsOf(fresh)
      /\ UNCHANGED <<minimizeFrame, learnt>>
  BY DEF litRedundantStep
<1>2. /\ MemoryKept /\ redundantLits \in Seq(Lits) /\ ca[redundantCRef].cid \in DOMAIN db
  BY <1>1, RedundantMemory
<1>3. PICK i : ReasonOf(-top, redundantLits, i)
  BY <1>1, RedundantMemory
<1>4. /\ redundantLits \in Seq(Lits) /\ AllDistinct(redundantLits) /\ Len(redundantLits) >= 2
      /\ \A k \in 2 .. Len(redundantLits) : redundantLits[k] \in Lits /\ IsFalse(redundantLits[k])
  <2>1. pc \notin Assuming
    BY <1>1 DEF Assuming
  <2> QED
    BY <1>3, <2>1, ReasonOthers
<1>5. /\ fresh \in Seq(Lits)
      /\ \A l : l \in ToSet(fresh) => \E j \in 2 .. Len(redundantLits) : redundantLits[j] = l
  <2> HIDE DEF fresh
  <2>1. fresh = Unseen(redundantLits, 2)
    BY DEF fresh
  <2> QED
    BY <1>4, <2>1, 2 \in {1, 2}, FreshShape
<1>6. \A l \in ToSet(fresh) : ~Irreducible(l)
  BY <1>1 DEF Resolvable
<1> HIDE DEF fresh
<1>7. above \in Seq(Lits) /\ \A l : l \in ToSet(above) <=> l \in ToSet(fresh) /\ level(l) > 0
  BY <1>5, AboveShape
<1>8. cids \in Seq(DOMAIN db)
  BY <1>5, ZeroUnits
<1>9. /\ an \in HintType(db) /\ an.hints # <<>> /\ MinimizeInv /\ LearntInv /\ RedundantInv
  BY <1>1, HintsNow, Shapes DEF AnalysisInv
<1>10. ana.stack \in Seq(Lits) /\ ana.toclear \in Seq(Lits)
  BY AnaShape DEF LitSeq
<1> HIDE DEF above, cids
<1>11. front \in Seq(Lits) /\ \A l \in ToSet(front) : l \in ToSet(ana.stack)
  <2> DEFINE q == ana.stack
  <2>0. q \in Seq(Lits)
    BY <1>10
  <2>1. Len(q) \in Nat /\ Len(q) >= 1
    BY <1>1, <1>10
  <2> HIDE DEF q
  <2> DEFINE n == Len(q) - 1
  <2>6. n \in Nat /\ n <= Len(q)
    BY <2>1
  <2>7. Front(q) = SubSeq(q, 1, n)
    BY DEF Front
  <2> HIDE DEF n
  <2>8. Front(q) \in Seq(Lits) /\ Len(Front(q)) = n /\ \A k \in 1 .. n : Front(q)[k] = q[k]
    BY <2>0, <2>6, <2>7
  <2>2. Front(q) \in Seq(Lits) /\ Len(Front(q)) = Len(q) - 1
        /\ \A k \in 1 .. Len(q) - 1 : Front(q)[k] = q[k]
    BY <2>8 DEF n
  <2>3. \A l \in ToSet(Front(q)) : \E k \in 1 .. Len(Front(q)) : Front(q)[k] = l
    BY <2>2, Element
  <2>4. \A l \in ToSet(Front(q)) : \E k \in 1 .. Len(q) : q[k] = l
    BY <2>1, <2>2, <2>3
  <2>5. \A l \in ToSet(Front(q)) : l \in ToSet(q)
    BY <2>0, <2>4, Element
  <2> QED
    BY <2>2, <2>5 DEF q
<1> HIDE DEF front
<1>12. st \in Seq(Lits) /\ \A l : l \in ToSet(st) <=> l \in ToSet(front) \/ l \in ToSet(above)
  BY <1>7, <1>11, Joined
<1>13. /\ cl \in Seq(Lits) /\ Len(cl) = Len(ana.toclear) + Len(fresh)
       /\ \A l : l \in ToSet(cl) <=> l \in ToSet(ana.toclear) \/ l \in ToSet(fresh)
  BY <1>5, <1>10, Joined
<1> HIDE DEF st, cl
<1>14. /\ ana'.stack = st /\ ana'.toclear = cl /\ ana'.top = ana.top /\ ana'.i = ana.i
       /\ ana'.kept = ana.kept /\ ana'.nDecisionLevel = ana.nDecisionLevel
       /\ ana' = [ana EXCEPT !.stack = st, !.toclear = cl]
  BY AnaShape DEF litRedundantStep, st, cl, front, above, fresh
<1>15. /\ a1 \in HintType(db) /\ a1.hints = Append(an.hints, ca[redundantCRef].cid) /\ a1.units = an.units
       /\ a1.reverts = an.reverts /\ Len(a1.hints) = Len(an.hints) + 1
  BY <1>2, <1>9, UnorderedAdded
<1> HIDE DEF a1
<1>16. /\ an' \in HintType(db) /\ an'.hints = a1.hints /\ an'.units = a1.units \o cids
       /\ an'.reverts = a1.reverts
  <2> DEFINE b == an'
  <2>1. b = AddUnitHints(a1, cids)
    BY <1>1
  <2> HIDE DEF b
  <2>2. a1 \in HintType(db) /\ cids \in Seq(DOMAIN db)
    BY <1>8, <1>15
  <2>3. b \in HintType(db) /\ b.hints = a1.hints /\ b.units = a1.units \o cids /\ SameMarks(a1, b)
    BY <2>1, <2>2, UnitHintsAdded
  <2> QED
    BY <2>3 DEF SameMarks, b
<1>17. /\ an'.hints # <<>> /\ Len(an'.hints) = Len(an.hints) + 1 /\ Len(an.hints) \in Nat
       /\ Len(an.units) \in Nat /\ Len(an'.units) >= Len(an.units) /\ Len(an'.units) \in Nat
  <2>1. an.hints \in Seq(DOMAIN db) /\ an'.hints \in Seq(DOMAIN db) /\ an.units \in Seq(DOMAIN db)
    BY <1>9, <1>16 DEF HintType
  <2>2. Len(an'.hints) = Len(an.hints) + 1 /\ Len(an.hints) \in Nat
    BY <1>15, <1>16, <2>1
  <2>3. Len(an'.units) = Len(an.units) + Len(cids) /\ Len(cids) \in Nat /\ Len(an.units) \in Nat
    BY <1>8, <1>15, <1>16, <2>1, Joined, Element
  <2> QED
    BY <2>1, <2>2, <2>3
<1>18. AnaTypes'
  BY <1>12, <1>13, <1>14, AnaShape DEF AnaTypes, LitSeq
<1>19. seen' \subseteq VarsOf(ana'.toclear)
  <2>1. \A v \in VarsOf(ana.toclear) \cup VarsOf(fresh) : v \in VarsOf(cl)
    <3> SUFFICES ASSUME NEW v \in VarsOf(ana.toclear) \cup VarsOf(fresh)
                 PROVE  v \in VarsOf(cl)
      OBVIOUS
    <3>1. \E l \in ToSet(ana.toclear) \cup ToSet(fresh) : Var(l) = v
      <4>1. CASE v \in VarsOf(ana.toclear)
        <5>1. PICK k \in DOMAIN ana.toclear : v = Var(ana.toclear[k])
          BY <4>1 DEF VarsOf
        <5> QED
          BY <1>10, <5>1, Element
      <4>2. CASE v \in VarsOf(fresh)
        <5>1. PICK k \in DOMAIN fresh : v = Var(fresh[k])
          BY <4>2 DEF VarsOf
        <5> QED
          BY <1>5, <5>1, Element
      <4> QED
        BY <4>1, <4>2
    <3>2. PICK l \in ToSet(cl) : Var(l) = v
      BY <1>13, <3>1
    <3>3. PICK k \in DOMAIN cl : cl[k] = l
      BY <1>13, Element
    <3> QED
      BY <3>2, <3>3 DEF VarsOf
  <2> QED
    BY <1>1, <1>9, <1>14, <2>1 DEF MinimizeInv
<1>20. Minimizes
  BY <1>1, <1>2, <1>14, <1>16, <1>17, <1>19 DEF Minimizes
<1>21. MinimizeInv'
  BY <1>1, <1>9, <1>14, <1>19 DEF MinimizeInv
<1>22. UNCHANGED <<assigns, vardata>>
  BY <1>1 DEF minimizeFrame, trailVars
<1>23. RedundantInv'
  <2>1. \A l \in ToSet(st) : reason(l) # CRef_Undef /\ IsFalse(l)
    <3> SUFFICES ASSUME NEW l \in ToSet(st) PROVE reason(l) # CRef_Undef /\ IsFalse(l)
      OBVIOUS
    <3>1. CASE l \in ToSet(front)
      BY <1>9, <1>11, <3>1 DEF RedundantInv
    <3>2. CASE l \in ToSet(above)
      <4>1. l \in ToSet(fresh) /\ level(l) > 0
        BY <1>7, <3>2
      <4>2. reason(l) # CRef_Undef
        BY <1>6, <4>1 DEF Irreducible
      <4>3. IsFalse(l)
        BY <1>4, <1>5, <4>1
      <4> QED
        BY <4>2, <4>3
    <3> QED
      BY <1>12, <3>1, <3>2
  <2>2. \A l \in ToSet(ana'.stack) : reason(l)' # CRef_Undef /\ IsFalse(l)'
    BY <1>14, <1>22, <2>1 DEF reason, IsFalse
  <2>3. ana.top \in Nat /\ ana.top <= Len(ana.toclear) /\ Len(ana.toclear) \in Nat /\ Len(fresh) \in Nat
    BY <1>5, <1>9, <1>10, AnaShape, Element DEF RedundantInv
  <2>4. ana'.top <= Len(ana'.toclear)
    BY <1>13, <1>14, <2>3
  <2>5. an.reverts # <<>> /\ Last(an.reverts).nHints \in 1 .. Len(an.hints)
        /\ Last(an.reverts).nUnitHints \in 0 .. Len(an.units)
    BY <1>9 DEF RedundantInv
  <2>6. an'.reverts # <<>> /\ Last(an'.reverts).nHints \in 1 .. Len(an'.hints)
        /\ Last(an'.reverts).nUnitHints \in 0 .. Len(an'.units)
    BY <1>15, <1>16, <1>17, <2>5
  <2> QED
    BY <2>2, <2>4, <2>6 DEF RedundantInv
<1> QED
  BY <1>1, <1>18, <1>20, <1>21, <1>23, MinimizesRest

(* A literal cannot be resolved away: the attempt is taken back.           *)
LEMMA LitRedundantFalseRest ==
    ASSUME IInv, litRedundantFalse, UNCHANGED <<vivifyVars, inputFrame>>
    PROVE  Rest'
<1> DEFINE q == ana.toclear
           cl == SubSeq(q, 1, ana.top)
           gone == SubSeq(q, ana.top + 1, Len(q))
           kept == Append(ana.kept, learnt[ana.i])
<1>1. /\ pc = "litRedundant" /\ pc' = "minimize" /\ ana.stack # <<>> /\ StoreRedundant
      /\ an' = RevertHints(an) /\ seen' = seen \ VarsOf(gone)
      /\ UNCHANGED <<minimizeFrame, learnt>>
  BY DEF litRedundantFalse
<1>2. MemoryKept
  BY <1>1, RedundantMemory
<1>3. /\ an \in HintType(db) /\ an.hints # <<>> /\ MinimizeInv /\ LearntInv /\ RedundantInv
      /\ ana.i <= Len(learnt)
  BY <1>1, HintsNow, Shapes DEF AnalysisInv, MinimizeInv
<1>4. an' \in HintType(db) /\ an'.hints # <<>>
  <2>1. CanRevert(an)
    BY <1>3 DEF RedundantInv, CanRevert
  <2> QED
    BY <1>1, <1>3, <2>1, HintsReverted
<1>5. q \in Seq(Lits) /\ Len(q) \in Nat /\ ana.top \in Nat /\ ana.top <= Len(q) /\ seen \subseteq VarsOf(q)
  BY <1>3, AnaShape, Element DEF RedundantInv, MinimizeInv, LitSeq
<1> DEFINE st == <<>>
<1>6. /\ ana'.i = ana.i + 1 /\ ana'.nDecisionLevel = ana.nDecisionLevel /\ ana'.toclear = cl
      /\ ana'.kept = kept /\ ana' = [ana EXCEPT !.toclear = cl, !.stack = <<>>, !.kept = kept, !.i = ana.i + 1]
  BY AnaShape DEF litRedundantFalse
<1> HIDE DEF q
<1>7. /\ cl \in Seq(Lits) /\ Len(cl) = ana.top /\ \A k \in 1 .. ana.top : cl[k] = q[k]
  BY <1>5
<1>8. /\ Len(gone) = Len(q) - ana.top /\ DOMAIN gone = 1 .. Len(q) - ana.top
      /\ \A k \in 1 .. Len(q) - ana.top : gone[k] = q[ana.top + k]
  BY <1>5
<1> HIDE DEF cl, gone
<1>9. seen' \subseteq VarsOf(cl)
  <2> SUFFICES ASSUME NEW v \in seen, v \notin VarsOf(gone) PROVE v \in VarsOf(cl)
    BY <1>1
  <2>1. PICK k \in 1 .. Len(q) : v = Var(q[k])
    BY <1>5, Element DEF VarsOf
  <2>2. CASE k > ana.top
    <3>1. k - ana.top \in DOMAIN gone /\ ana.top + (k - ana.top) = k
      BY <1>5, <1>8, <2>2
    <3>2. gone[k - ana.top] = q[k]
      BY <1>8, <3>1
    <3> QED
      BY <2>1, <3>1, <3>2 DEF VarsOf
  <2>3. CASE k <= ana.top
    <3>1. k \in 1 .. ana.top /\ DOMAIN cl = 1 .. ana.top
      BY <1>5, <1>7, <2>3, Element
    <3> QED
      BY <1>7, <2>1, <3>1 DEF VarsOf
  <2> QED
    BY <1>5, <2>2, <2>3
<1> HIDE DEF kept
<1>10. seen' \subseteq VarsOf(ana'.toclear)
  BY <1>6, <1>9
<1>11. MinimizeInv' /\ ana'.kept \in LitSeq
  <2>1. KeepsOn(ana')
    BY <1>3, <1>6 DEF KeepsOn, kept
  <2> QED
    BY <1>1, <1>10, <2>1, KeptNext
<1>12. AnaTypes'
  <2>1. ana.i + 1 \in Nat /\ <<>> \in LitSeq
    BY AnaShape DEF LitSeq
  <2> QED
    BY <1>6, <1>7, <1>11, <2>1, AnaShape DEF AnaTypes, LitSeq
<1>13. Minimizes
  BY <1>1, <1>2, <1>4, <1>6, <1>10 DEF Minimizes
<1> QED
  BY <1>1, <1>11, <1>12, <1>13, MinimizesRest

-----------------------------------------------------------------------------
(* One resolution of analyze.                                              *)
(* Literals of different variables are as many as their variables.         *)
LEMMA DistinctCount ==
    ASSUME NEW q \in Seq(Lits), AllDistinct(q)
    PROVE  IsFiniteSet(VarsOf(q)) /\ Cardinality(VarsOf(q)) = Len(q)
<1> DEFINE n == Len(q)
           I == 1 .. n
           f == [i \in I |-> Var(q[i])]
           T == VarsOf(q)
<1>1. n \in Nat /\ DOMAIN q = I
  BY Element
<1>2. IsFiniteSet(I) /\ Cardinality(I) = n
  <2> HIDE DEF n
  <2>1. Cardinality(1 .. n) = IF 1 > n THEN 0 ELSE n - 1 + 1
    BY <1>1, FS_Interval
  <2>2. IsFiniteSet(1 .. n)
    BY <1>1, FS_Interval
  <2> QED
    BY <1>1, <2>1, <2>2
<1>3. \A v : v \in T <=> \E i \in I : v = Var(q[i])
  BY <1>1 DEF VarsOf
<1>4. \A i, j \in I : Var(q[i]) = Var(q[j]) => i = j
  BY <1>1 DEF AllDistinct
<1> HIDE DEF I, n, T
<1>5. f \in [I -> T] /\ \A i \in I : f[i] = Var(q[i])
  BY <1>3
<1> HIDE DEF f
<1>6. f \in Bijection(I, T)
  <2>1. f \in Injection(I, T)
    BY <1>4, <1>5 DEF Injection, IsInjective
  <2>2. f \in Surjection(I, T)
    BY <1>3, <1>5 DEF Surjection
  <2> QED
    BY <2>1, <2>2 DEF Bijection
<1>7. ExistsBijection(I, T)
  BY <1>6 DEF ExistsBijection
<1>8. IsFiniteSet(T) /\ Cardinality(T) = Cardinality(I)
  BY <1>2, <1>7, FS_Bijection
<1> QED
  BY <1>2, <1>8 DEF n, T

(* What the analysis is about.                                             *)
LEMMA ResolveNow ==
    ASSUME IInv, pc = "analyze"
    PROVE  /\ ResolveInv /\ N \in 1 .. decisionLevel /\ N \in Nat /\ searching
           /\ viv.cr = CRef_Undef /\ confl \in DOMAIN ca /\ ~ca[confl].freed
           /\ settled = Len(trail) /\ Len(trail) \in Nat /\ trail \in Seq(Lits)
           /\ Assigned(assigns, trail) /\ Levels(vardata, trail, trail_lim, Len(trail))
           /\ learnt \in Seq(Lits \cup {0}) /\ Len(learnt) \in Nat /\ Len(learnt) >= 1
           /\ learnt[1] = 0 /\ LowerLearnt /\ seen \subseteq Vars
           /\ \A l \in Lits : level(l) \in Nat
           /\ pc \notin Assuming
<1>1. ResolveInv /\ N \in 1 .. decisionLevel /\ searching /\ Len(learnt) >= 1
  BY Shapes DEF AnalysisInv, ControlInv, Analyzing
<1>2. viv.cr = CRef_Undef /\ confl \in DOMAIN ca /\ ~ca[confl].freed /\ learnt[1] = 0 /\ LowerLearnt
  BY <1>1, NoHand DEF ResolveInv, Usable
<1>3. settled = Len(trail) /\ Len(trail) \in Nat /\ trail \in Seq(Lits)
      /\ Assigned(assigns, trail) /\ Levels(vardata, trail, trail_lim, Len(trail))
  <2>1. settled = Len(trail)
    BY WhereNow DEF Assuming
  <2> QED
    BY <2>1, TrailShape
<1>4. learnt \in Seq(Lits \cup {0}) /\ seen \subseteq Vars
  BY TypeParts DEF PlainInv
<1>5. Len(learnt) \in Nat
  BY <1>4
<1>6. N \in Nat
  BY AnaShape DEF N
<1>7. \A l \in Lits : level(l) \in Nat
  BY TrailShape, LitFacts DEF HasLevels, level
<1> QED
  BY <1>1, <1>2, <1>3, <1>4, <1>5, <1>6, <1>7 DEF Assuming

(* The clause resolved on: its literals are false, of levels up to that of *)
(* the conflict, and before the place looked at on the trail.              *)
ResStart == IF ana.p = 0 THEN 1 ELSE 2

LEMMA ResolveClause ==
    ASSUME IInv, pc = "analyze"
    PROVE  /\ ResClause \in Seq(Lits) /\ AllDistinct(ResClause) /\ Len(ResClause) >= 2
           /\ ToSet(ResClause) = ToSet(ca[confl].lits) /\ ResStart \in {1, 2}
           /\ \A j \in ResStart .. Len(ResClause) :
                /\ ResClause[j] \in Lits /\ IsFalse(ResClause[j]) /\ level(ResClause[j]) <= N
                /\ OnTrail(trail, -ResClause[j], ana.index)
<1>1. /\ ResolveInv /\ viv.cr = CRef_Undef /\ confl \in DOMAIN ca /\ ~ca[confl].freed /\ pc \notin Assuming
      /\ Len(trail) \in Nat /\ trail \in Seq(Lits)
  BY ResolveNow
<1>2. CASE ana.p = 0
  <2>1. conflLits \in Seq(Lits) /\ AllDistinct(conflLits) /\ Len(conflLits) >= 2
    <3> DEFINE q == ca[confl].lits
    <3>1. q \in Seq(Lits) /\ AllDistinct(q) /\ (Len(q) < 2 => confl = viv.cr \/ ca[confl].freed)
      BY <1>1, MemoryShape DEF Memory, HasLits
    <3>2. confl # viv.cr
      BY <1>1, Shapes
    <3> HIDE DEF q
    <3>3. Len(q) >= 2
      <4>1. ~(Len(q) < 2) /\ Len(q) \in Nat
        BY <1>1, <3>1, <3>2, Element
      <4> QED
        BY <4>1
    <3> QED
      BY <3>1, <3>3 DEF q, conflLits
  <2>2. ResClause = conflLits /\ ResStart = 1
    BY <1>2 DEF ResClause, ResStart
  <2>3. AllFalse(conflLits) /\ (\A l \in ToSet(conflLits) : level(l) <= N) /\ ana.index = Len(trail)
    BY <1>1, <1>2 DEF ResolveInv
  <2>4. \A l \in ToSet(conflLits) :
          l \in Lits /\ IsFalse(l) /\ level(l) <= N /\ OnTrail(trail, -l, ana.index)
    <3> SUFFICES ASSUME NEW l \in ToSet(conflLits)
                 PROVE  l \in Lits /\ IsFalse(l) /\ OnTrail(trail, -l, ana.index)
      BY <2>3
    <3>1. l \in Lits /\ IsFalse(l)
      BY <2>1, <2>3, Element DEF AllFalse
    <3>2. \E i \in 1 .. Len(trail) : trail[i] = -l
      BY <1>1, <3>1, AssignedLevel
    <3> QED
      BY <2>3, <3>1, <3>2 DEF OnTrail
  <2> QED
    BY <2>1, <2>2, <2>4, Element DEF conflLits
<1>3. CASE ana.p # 0
  <2>1. /\ ana.index < Len(trail) /\ trail[ana.index + 1] = ana.p /\ ana.index \in Nat
        /\ reason(ana.p) = confl /\ level(ana.p) = N
    BY <1>1, <1>3, AnaShape DEF ResolveInv
  <2>2. ana.p \in Lits
    BY <1>3, AnaShape
  <2>3. ResClause = ImpliedFirst(ca[reason(ana.p)].lits) /\ ResStart = 2
    BY <1>3, <2>1 DEF ResClause, ResStart, conflLits
  <2>4. ana.index + 1 \in 1 .. Len(trail) /\ (ana.index + 1) - 1 = ana.index
    BY <1>1, <2>1
  <2>5. IsTrue(ana.p)
    <3>1. ana.index + 1 \in DOMAIN trail
      BY <1>1, <2>4
    <3> QED
      BY <2>1, <3>1, TrailShape DEF Assigned, IsTrue
  <2>6. reason(ana.p) # CRef_Undef
    BY <1>1, <2>1, Shapes
  <2>7. ReasonOf(ana.p, ResClause, ana.index + 1)
    BY <2>1, <2>2, <2>3, <2>4, <2>5, <2>6 DEF ReasonOf
  <2>8. /\ ResClause \in Seq(Lits) /\ AllDistinct(ResClause) /\ Len(ResClause) >= 2
        /\ ToSet(ResClause) = ToSet(ca[reason(ana.p)].lits)
        /\ \A k \in 2 .. Len(ResClause) :
             ResClause[k] \in Lits /\ IsFalse(ResClause[k]) /\ level(ResClause[k]) <= level(ana.p)
             /\ OnTrail(trail, -ResClause[k], ana.index)
    <3> DEFINE l == ana.p
               q == ResClause
               i == ana.index + 1
    <3>1. ReasonOf(l, q, i)
      BY <2>7
    <3> HIDE DEF l, q, i
    <3>2. /\ q \in Seq(Lits) /\ AllDistinct(q) /\ Len(q) >= 2 /\ ToSet(q) = ToSet(ca[reason(l)].lits)
          /\ \A k \in 2 .. Len(q) :
               q[k] \in Lits /\ IsFalse(q[k]) /\ level(q[k]) <= level(l) /\ OnTrail(trail, -q[k], i - 1)
      BY <1>1, <3>1, ReasonOthers
    <3>3. i - 1 = ana.index
      BY <2>4 DEF i
    <3> QED
      BY <3>2, <3>3 DEF l, q
  <2> QED
    BY <2>1, <2>3, <2>8
<1> QED
  BY <1>2, <1>3

(* The literals of the clause that are not marked yet.                     *)
LEMMA ResolveFresh ==
    ASSUME IInv, pc = "analyze"
    PROVE  /\ ResFresh \in Seq(Lits) /\ AllDistinct(ResFresh)
           /\ \A l \in ToSet(ResFresh) :
                /\ l \in Lits /\ IsFalse(l) /\ level(l) <= N /\ level(l) \in Nat
                /\ OnTrail(trail, -l, ana.index) /\ Var(l) \notin seen /\ Var(l) \in Vars
           /\ \A j \in ResStart .. Len(ResClause) :
                Var(ResClause[j]) \notin seen => ResClause[j] \in ToSet(ResFresh)
<1>1. /\ ResClause \in Seq(Lits) /\ AllDistinct(ResClause) /\ Len(ResClause) >= 2 /\ ResStart \in {1, 2}
      /\ \A j \in ResStart .. Len(ResClause) :
           /\ ResClause[j] \in Lits /\ IsFalse(ResClause[j]) /\ level(ResClause[j]) <= N
           /\ OnTrail(trail, -ResClause[j], ana.index)
  BY ResolveClause
<1>2. ResFresh = Unseen(ResClause, ResStart)
  BY DEF ResFresh, ResStart
<1>3. /\ ResFresh \in Seq(Lits) /\ AllDistinct(ResFresh)
      /\ \A l : l \in ToSet(ResFresh) <=> Var(l) \notin seen /\ \E j \in ResStart .. Len(ResClause) : ResClause[j] = l
  BY <1>1, <1>2, FreshShape
<1>4. \A l \in ToSet(ResFresh) :
        /\ l \in Lits /\ IsFalse(l) /\ level(l) <= N /\ OnTrail(trail, -l, ana.index) /\ Var(l) \notin seen
  BY <1>1, <1>3
<1> QED
  BY <1>3, <1>4, ResolveNow, LitFacts

(* Those of the level of the conflict, and those of lower ones.            *)
LEMMA ResolveSplit ==
    ASSUME IInv, pc = "analyze"
    PROVE  /\ ResHere \in Seq(Lits) /\ AllDistinct(ResHere)
           /\ \A l : l \in ToSet(ResHere) <=> l \in ToSet(ResFresh) /\ level(l) = N
           /\ ResLower \in Seq(Lits) /\ AllDistinct(ResLower)
           /\ \A l : l \in ToSet(ResLower) <=> l \in ToSet(ResFresh) /\ level(l) \in 1 .. N - 1
<1> DEFINE q == ResFresh
           above == AboveLevelZero(q)
<1>1. /\ q \in Seq(Lits) /\ AllDistinct(q) /\ \A l \in ToSet(q) : level(l) <= N /\ level(l) \in Nat
      /\ N \in Nat
  BY ResolveFresh, ResolveNow
<1>2. ResHere = Selected(q, LAMBDA l : level(l) >= ana.nDecisionLevel)
  BY DEF ResHere
<1>3. ResLower = Selected(above, LAMBDA l : level(l) < ana.nDecisionLevel)
  BY DEF ResLower
<1> HIDE DEF q
<1>4. /\ above \in Seq(Lits) /\ AllDistinct(above)
      /\ \A l : l \in ToSet(above) <=> l \in ToSet(q) /\ level(l) > 0
  BY <1>1, AboveShape
<1> HIDE DEF above
<1>5. /\ ResHere \in Seq(Lits) /\ AllDistinct(ResHere)
      /\ \A l : l \in ToSet(ResHere) <=> l \in ToSet(q) /\ level(l) = N
  <2> DEFINE at == {k \in DOMAIN q : level(q[k]) >= ana.nDecisionLevel}
             z == PickAt(q, at)
  <2>1. ResHere = z
    BY <1>2 DEF Selected, PickAt
  <2>2. at \in SUBSET DOMAIN q
    OBVIOUS
  <2>3. \A k : k \in at <=> k \in DOMAIN q /\ level(q[k]) >= N
    BY DEF N
  <2> HIDE DEF at
  <2>4. /\ z \in Seq(Lits) /\ AllDistinct(z) /\ \A l : l \in ToSet(z) <=> \E k \in at : l = q[k]
    BY <1>1, <2>2, Picked, PickedSet
  <2> HIDE DEF z
  <2>5. \A l : (\E k \in at : l = q[k]) <=> l \in ToSet(q) /\ level(l) = N
    <3> SUFFICES ASSUME NEW l PROVE (\E k \in at : l = q[k]) <=> l \in ToSet(q) /\ level(l) = N
      OBVIOUS
    <3>1. ASSUME NEW k \in at, l = q[k] PROVE l \in ToSet(q) /\ level(l) = N
      <4>1. k \in 1 .. Len(q) /\ level(l) >= N
        BY <1>1, <2>3, <3>1, Element
      <4>2. l \in ToSet(q)
        BY <1>1, <3>1, <4>1, Element
      <4> QED
        BY <1>1, <4>1, <4>2
    <3>2. ASSUME l \in ToSet(q), level(l) = N PROVE \E k \in at : l = q[k]
      <4>1. PICK k \in 1 .. Len(q) : q[k] = l
        BY <1>1, <3>2, Element
      <4>2. k \in DOMAIN q /\ level(q[k]) >= N
        BY <1>1, <3>2, <4>1, Element
      <4> QED
        BY <2>3, <4>1, <4>2
    <3> QED
      BY <3>1, <3>2
  <2> QED
    BY <2>1, <2>4, <2>5
<1>6. /\ ResLower \in Seq(Lits) /\ AllDistinct(ResLower)
      /\ \A l : l \in ToSet(ResLower) <=> l \in ToSet(above) /\ level(l) < N
  <2> DEFINE at == {k \in DOMAIN above : level(above[k]) < ana.nDecisionLevel}
             z == PickAt(above, at)
  <2>1. ResLower = z
    BY <1>3 DEF Selected, PickAt
  <2>2. at \in SUBSET DOMAIN above
    OBVIOUS
  <2>3. \A k : k \in at <=> k \in DOMAIN above /\ level(above[k]) < N
    BY DEF N
  <2> HIDE DEF at
  <2>4. /\ z \in Seq(Lits) /\ AllDistinct(z) /\ \A l : l \in ToSet(z) <=> \E k \in at : l = above[k]
    BY <1>4, <2>2, Picked, PickedSet
  <2> HIDE DEF z
  <2>5. \A l : (\E k \in at : l = above[k]) <=> l \in ToSet(above) /\ level(l) < N
    <3>1. /\ DOMAIN above = 1 .. Len(above) /\ \A i \in 1 .. Len(above) : above[i] \in ToSet(above)
          /\ \A l \in ToSet(above) : \E i \in 1 .. Len(above) : above[i] = l
      BY <1>4, Element
    <3> QED
      BY <2>3, <3>1
  <2> QED
    BY <2>1, <2>4, <2>5
<1>7. \A l : l \in ToSet(above) /\ level(l) < N <=> l \in ToSet(q) /\ level(l) \in 1 .. N - 1
  BY <1>1, <1>4
<1> QED
  BY <1>5, <1>6, <1>7 DEF q

(* What is marked then, and how much of it is of the level of the          *)
(* conflict.                                                               *)
LEMMA VarsOfSet ==
    ASSUME NEW q \in Seq(Lits)
    PROVE  \A v : v \in VarsOf(q) <=> \E l \in ToSet(q) : v = Var(l)
<1>1. /\ DOMAIN q = 1 .. Len(q) /\ \A i \in 1 .. Len(q) : q[i] \in ToSet(q)
      /\ \A l \in ToSet(q) : \E i \in 1 .. Len(q) : q[i] = l
  BY Element
<1> QED
  BY <1>1 DEF VarsOf

LEMMA ResolveMarked ==
    ASSUME IInv, pc = "analyze"
    PROVE  /\ ResMarked \subseteq Vars
           /\ \A v \in ResMarked :
                /\ assigns[v] # 0 /\ vardata[v].level <= N /\ vardata[v].level \in Nat
                /\ v \in HereVars(ResMarked) <=> vardata[v].level = N
                /\ v \in HereVars(ResMarked) => \E k \in ResPlaces : Var(trail[k]) = v
           /\ \A i \in ana.index + 1 .. Len(trail) : Var(trail[i]) \in ResMarked => level(trail[i]) < N
           /\ IsFiniteSet(HereVars(ResMarked))
           /\ Cardinality(HereVars(ResMarked)) = ana.pathC + Len(ResHere)
<1>1. /\ ResolveInv /\ N \in Nat /\ Len(trail) \in Nat /\ trail \in Seq(Lits) /\ Assigned(assigns, trail)
      /\ seen \subseteq Vars
  BY ResolveNow
<1>2. /\ ResFresh \in Seq(Lits) /\ AllDistinct(ResFresh)
      /\ \A l \in ToSet(ResFresh) :
           /\ l \in Lits /\ IsFalse(l) /\ level(l) <= N /\ level(l) \in Nat
           /\ OnTrail(trail, -l, ana.index) /\ Var(l) \notin seen /\ Var(l) \in Vars
  BY ResolveFresh
<1>3. \A v : v \in ResMarked <=> v \in seen \/ \E l \in ToSet(ResFresh) : v = Var(l)
  BY <1>2, VarsOfSet DEF ResMarked
<1>4. ResMarked \subseteq Vars
  BY <1>1, <1>2, <1>3
<1>5. \A l \in ToSet(ResFresh) : assigns[Var(l)] # 0
  <2> SUFFICES ASSUME NEW l \in ToSet(ResFresh) PROVE assigns[Var(l)] # 0
    OBVIOUS
  <2>1. l \in Lits /\ assigns[Var(l)] = -l
    BY <1>2 DEF IsFalse
  <2> QED
    BY <2>1, LitFacts
<1>6. \A v \in ResMarked : assigns[v] # 0 /\ vardata[v].level <= N /\ vardata[v].level \in Nat
  BY <1>1, <1>2, <1>3, <1>4, <1>5, TrailShape DEF level, ResolveInv, HasLevels
<1>7. \A v \in ResMarked : v \in HereVars(ResMarked) <=> vardata[v].level = N
  BY <1>1, <1>6 DEF HereVars
<1>8. \A i \in ana.index + 1 .. Len(trail) : Var(trail[i]) \in ResMarked => level(trail[i]) < N
  <2> SUFFICES ASSUME NEW i \in ana.index + 1 .. Len(trail), Var(trail[i]) \in ResMarked
               PROVE  level(trail[i]) < N
    OBVIOUS
  <2>1. CASE Var(trail[i]) \in seen
    BY <1>1, <2>1 DEF ResolveInv
  <2>2. ASSUME NEW l \in ToSet(ResFresh), Var(trail[i]) = Var(l) PROVE FALSE
    <3>1. ana.index \in Nat /\ ana.index <= Len(trail)
      BY <1>1 DEF ResolveInv
    <3>2. PICK k \in 1 .. ana.index : trail[k] = -l
      BY <1>2 DEF OnTrail
    <3>3. k \in DOMAIN trail /\ i \in DOMAIN trail /\ k # i
      BY <1>1, <3>1, <3>2
    <3>4. Var(trail[k]) = Var(trail[i])
      BY <1>2, <2>2, <3>2, LitFacts
    <3> QED
      BY <1>1, <3>3, <3>4 DEF Assigned, AllDistinct
  <2> QED
    BY <1>3, <2>1, <2>2
<1>9. \A v \in ResMarked : v \in HereVars(ResMarked) => \E k \in ResPlaces : Var(trail[k]) = v
  <2> SUFFICES ASSUME NEW v \in ResMarked, v \in HereVars(ResMarked)
               PROVE  \E k \in ResPlaces : Var(trail[k]) = v
    OBVIOUS
  <2>1. v \in Vars /\ assigns[v] # 0
    BY <1>4, <1>6
  <2>2. PICK k \in DOMAIN trail : Var(trail[k]) = v
    BY <1>1, <2>1 DEF Assigned
  <2>3. k \in 1 .. Len(trail) /\ ana.index \in Nat /\ ana.index <= Len(trail) /\ level(trail[k]) = N
    BY <1>1, <1>7, <2>2 DEF level, ResolveInv
  <2>4. k <= ana.index
    <3> SUFFICES ASSUME ~(k <= ana.index) PROVE FALSE
      OBVIOUS
    <3>1. k \in ana.index + 1 .. Len(trail)
      BY <1>1, <2>3
    <3>2. level(trail[k]) < N
      BY <1>8, <2>2, <3>1
    <3> QED
      BY <1>1, <2>3, <3>2
  <2>5. k \in ResPlaces
    BY <1>1, <2>2, <2>3, <2>4 DEF ResPlaces, N
  <2> QED
    BY <2>2, <2>5
<1>10. /\ ResHere \in Seq(Lits) /\ AllDistinct(ResHere)
       /\ \A l : l \in ToSet(ResHere) <=> l \in ToSet(ResFresh) /\ level(l) = N
  BY ResolveSplit
<1> DEFINE A == HereVars(seen)
           B == VarsOf(ResHere)
<1>11. IsFiniteSet(B) /\ Cardinality(B) = Len(ResHere)
  BY <1>10, DistinctCount
<1>12. IsFiniteSet(A) /\ Cardinality(A) = ana.pathC
  <2>1. IsFiniteSet(Vars) /\ A \subseteq Vars
    <3>1. NumVars \in Int /\ 1 \in Int
      BY NumVarsAssumption
    <3>2. IsFiniteSet(1 .. NumVars)
      BY <3>1, FS_Interval
    <3> QED
      BY <1>1, <3>2 DEF HereVars, Vars
  <2>2. IsFiniteSet(A)
    BY <2>1, FS_Subset
  <2> QED
    BY <1>1, <2>2 DEF ResolveInv
<1>13. HereVars(ResMarked) = A \cup B
  <2>1. \A v : v \in B <=> \E l \in ToSet(ResHere) : v = Var(l)
    BY <1>10, VarsOfSet
  <2>2. \A v \in ResMarked : v \in HereVars(ResMarked) <=> v \in A \cup B
    <3> SUFFICES ASSUME NEW v \in ResMarked PROVE v \in HereVars(ResMarked) <=> v \in A \cup B
      OBVIOUS
    <3>1. CASE v \in seen
      <4>1. v \notin B
        BY <1>2, <1>10, <2>1, <3>1
      <4>2. v \in A <=> vardata[v].level >= N
        BY <3>1 DEF HereVars
      <4> QED
        BY <1>1, <1>6, <1>7, <4>1, <4>2
    <3>2. CASE v \notin seen
      <4>1. v \notin A
        BY <3>2 DEF HereVars
      <4>2. \E l \in ToSet(ResFresh) : v = Var(l)
        BY <1>3, <3>2
      <4>3. v \in B <=> vardata[v].level = N
        BY <1>10, <2>1, <4>2 DEF level
      <4> QED
        BY <1>7, <4>1, <4>3
    <3> QED
      BY <3>1, <3>2
  <2>3. A \subseteq ResMarked /\ B \subseteq ResMarked /\ HereVars(ResMarked) \subseteq ResMarked
    BY <1>3, <1>10, <2>1 DEF HereVars
  <2> QED
    BY <2>2, <2>3
<1>14. A \cap B = {}
  <2>1. \A v : v \in B => v \notin seen
    BY <1>2, <1>10, VarsOfSet
  <2> QED
    BY <2>1 DEF HereVars
<1>15. /\ IsFiniteSet(A \cup B) /\ Cardinality(A \cap B) = 0
       /\ Cardinality(A \cup B) = Cardinality(A) + Cardinality(B) - Cardinality(A \cap B)
  <2> HIDE DEF A, B
  <2> QED
    BY <1>11, <1>12, <1>14, FS_Union, FS_EmptySet
<1>16. Cardinality(A \cup B) = ana.pathC + Len(ResHere)
  <2>1. ana.pathC \in Nat /\ Len(ResHere) \in Nat
    BY <1>10, AnaShape, Element
  <2> HIDE DEF A, B
  <2> QED
    BY <1>11, <1>12, <1>15, <2>1
<1> QED
  BY <1>4, <1>6, <1>7, <1>8, <1>9, <1>13, <1>15, <1>16

(* The place of the next literal.                                          *)
LEMMA ResolveNext ==
    ASSUME IInv, pc = "analyze"
    PROVE  /\ ResNext \in 1 .. ana.index /\ ResNext \in 1 .. Len(trail)
           /\ trail[ResNext] \in Lits /\ IsTrue(trail[ResNext]) /\ Var(trail[ResNext]) \in ResMarked
           /\ level(trail[ResNext]) = N
           /\ \A k \in ResPlaces : k <= ResNext
<1>1. /\ ResolveInv /\ N \in Nat /\ Len(trail) \in Nat /\ trail \in Seq(Lits) /\ Assigned(assigns, trail)
      /\ seen \subseteq Vars
  BY ResolveNow
<1>2. /\ \A v \in ResMarked :
                /\ vardata[v].level <= N /\ vardata[v].level \in Nat
                /\ v \in HereVars(ResMarked) <=> vardata[v].level = N
                /\ v \in HereVars(ResMarked) => \E k \in ResPlaces : Var(trail[k]) = v
  BY ResolveMarked
<1>3. ana.index \in Nat /\ ana.index <= Len(trail)
  BY <1>1 DEF ResolveInv
<1>4. HereVars(ResMarked) # {}
  <2>1. CASE ana.p = 0
    <3>1. seen = {} /\ \E l \in ToSet(conflLits) : level(l) = N
      BY <1>1, <2>1 DEF ResolveInv
    <3>2. PICK l \in ToSet(ResClause) : level(l) = N
      BY <3>1, ResolveClause DEF conflLits
    <3>3. PICK j \in 1 .. Len(ResClause) : ResClause[j] = l
      BY ResolveClause, Element
    <3>4. l \in ToSet(ResFresh)
      BY <2>1, <3>1, <3>3, ResolveFresh DEF ResStart
    <3>5. Var(l) \in ResMarked
      BY <3>4, ResolveFresh, VarsOfSet DEF ResMarked
    <3> QED
      BY <1>2, <3>2, <3>5 DEF level
  <2>2. CASE ana.p # 0
    <3>1. ana.pathC >= 1 /\ ana.pathC = Cardinality(HereVars(seen))
      BY <1>1, <2>2 DEF ResolveInv
    <3>2. HereVars(seen) # {}
      BY <3>1, FS_EmptySet
    <3> QED
      BY <3>2 DEF HereVars, ResMarked
  <2> QED
    BY <2>1, <2>2
<1>5. ResPlaces # {} /\ ResPlaces \in SUBSET Nat /\ IsFiniteSet(ResPlaces)
  <2>1. ResPlaces # {}
    BY <1>2, <1>4 DEF HereVars
  <2>2. ResPlaces \in SUBSET (1 .. ana.index)
    BY DEF ResPlaces
  <2>3. IsFiniteSet(1 .. ana.index)
    BY <1>3, FS_Interval
  <2>4. IsFiniteSet(ResPlaces)
    BY <2>2, <2>3, FS_Subset
  <2>5. \A k \in ResPlaces : k \in Nat
    BY <1>3, <2>2
  <2> QED
    BY <2>1, <2>4, <2>5
<1>6. ResNext \in ResPlaces /\ \A k \in ResPlaces : k <= ResNext
  BY <1>5, GreatestOf DEF ResNext
<1>7. ResNext \in 1 .. ana.index /\ Var(trail[ResNext]) \in ResMarked /\ level(trail[ResNext]) >= N
  BY <1>6 DEF ResPlaces, N
<1>8. ResNext \in 1 .. Len(trail)
  BY <1>1, <1>3, <1>7
<1>9. trail[ResNext] \in Lits /\ IsTrue(trail[ResNext])
  BY <1>1, <1>8, Element DEF Assigned, IsTrue
<1>10. level(trail[ResNext]) = N
  BY <1>1, <1>2, <1>7 DEF level
<1> QED
  BY <1>6, <1>7, <1>8, <1>9, <1>10

(* The learnt clause so far.                                               *)
LEMMA ResolveOut ==
    ASSUME IInv, pc = "analyze"
    PROVE  /\ ResOut \in Seq(Lits \cup {0}) /\ Len(ResOut) \in Nat /\ Len(ResOut) >= 1 /\ ResOut[1] = 0
           /\ \A k \in 2 .. Len(ResOut) :
                ResOut[k] \in Lits /\ IsFalse(ResOut[k]) /\ level(ResOut[k]) \in 1 .. N - 1
           /\ \A k, m \in 2 .. Len(ResOut) : Var(ResOut[k]) = Var(ResOut[m]) => k = m
           /\ \A v \in Vars : v \in ResMarked /\ vardata[v].level \in 1 .. N - 1
                                <=> \E k \in 2 .. Len(ResOut) : Var(ResOut[k]) = v
<1> DEFINE n == Len(learnt)
           q == ResOut
           low == ResLower
<1>1. /\ ResolveInv /\ N \in Nat /\ learnt \in Seq(Lits \cup {0}) /\ n \in Nat /\ n >= 1
      /\ learnt[1] = 0 /\ LowerLearnt /\ seen \subseteq Vars
  BY ResolveNow
<1>2. /\ low \in Seq(Lits) /\ AllDistinct(low)
      /\ \A l : l \in ToSet(low) <=> l \in ToSet(ResFresh) /\ level(l) \in 1 .. N - 1
  BY ResolveSplit
<1>3. /\ ResFresh \in Seq(Lits)
      /\ \A l \in ToSet(ResFresh) : l \in Lits /\ IsFalse(l) /\ Var(l) \notin seen /\ Var(l) \in Vars
  BY ResolveFresh
<1>4. q = learnt \o low
  BY DEF ResOut
<1> HIDE DEF q, low
<1>5. Len(low) \in Nat /\ low \in Seq(Lits \cup {0}) /\ DOMAIN low = 1 .. Len(low)
  BY <1>2
<1>6. /\ q \in Seq(Lits \cup {0}) /\ Len(q) = n + Len(low)
      /\ \A i \in 1 .. n : q[i] = learnt[i]
      /\ \A i \in 1 .. Len(low) : q[n + i] = low[i]
  BY <1>1, <1>4, <1>5, Joined
<1> HIDE DEF n
<1>7. Len(q) \in Nat /\ Len(q) >= 1 /\ q[1] = 0
  <2>1. 1 \in 1 .. n
    BY <1>1
  <2> QED
    BY <1>1, <1>5, <1>6, <2>1
<1>8. \A k \in 2 .. Len(q) : k \in 2 .. n \/ (k - n \in 1 .. Len(low) /\ n + (k - n) = k)
  BY <1>1, <1>5, <1>6
<1>9. \A k \in 2 .. n : q[k] = learnt[k] /\ learnt[k] \in Lits /\ IsFalse(learnt[k])
        /\ level(learnt[k]) \in 1 .. N - 1 /\ Var(learnt[k]) \in seen /\ Var(learnt[k]) \in Vars
  <2> SUFFICES ASSUME NEW k \in 2 .. n
               PROVE  q[k] = learnt[k] /\ learnt[k] \in Lits /\ IsFalse(learnt[k])
                      /\ level(learnt[k]) \in 1 .. N - 1 /\ Var(learnt[k]) \in seen /\ Var(learnt[k]) \in Vars
    OBVIOUS
  <2>1. k \in 1 .. n /\ q[k] = learnt[k]
    BY <1>1, <1>6
  <2>2. learnt[k] \in Lits /\ IsFalse(learnt[k]) /\ level(learnt[k]) \in 1 .. N - 1
    BY <1>1, <2>1 DEF LowerLearnt, n
  <2>3. Var(learnt[k]) \in Vars
    BY <2>2, LitFacts
  <2>4. Var(learnt[k]) \in seen
    BY <1>1, <2>3 DEF ResolveInv, n
  <2> QED
    BY <2>1, <2>2, <2>3, <2>4
<1>10. \A k \in 1 .. Len(low) : q[n + k] = low[k] /\ low[k] \in Lits /\ IsFalse(low[k])
        /\ level(low[k]) \in 1 .. N - 1 /\ Var(low[k]) \notin seen /\ low[k] \in ToSet(ResFresh)
  BY <1>2, <1>3, <1>6, Element
<1>11. \A k \in 2 .. Len(q) : q[k] \in Lits /\ IsFalse(q[k]) /\ level(q[k]) \in 1 .. N - 1
  <2> SUFFICES ASSUME NEW k \in 2 .. Len(q)
               PROVE  q[k] \in Lits /\ IsFalse(q[k]) /\ level(q[k]) \in 1 .. N - 1
    OBVIOUS
  <2>1. CASE k \in 2 .. n
    BY <1>9, <2>1
  <2>2. CASE k - n \in 1 .. Len(low) /\ n + (k - n) = k
    BY <1>10, <2>2
  <2> QED
    BY <1>8, <2>1, <2>2
<1>12. \A k, m \in 2 .. Len(q) : Var(q[k]) = Var(q[m]) => k = m
  <2> SUFFICES ASSUME NEW k \in 2 .. Len(q), NEW m \in 2 .. Len(q), Var(q[k]) = Var(q[m])
               PROVE  k = m
    OBVIOUS
  <2>1. CASE k \in 2 .. n /\ m \in 2 .. n
    BY <1>1, <1>9, <2>1 DEF ResolveInv, n
  <2>2. CASE k \in 2 .. n /\ m \notin 2 .. n
    <3>1. m - n \in 1 .. Len(low) /\ n + (m - n) = m
      BY <1>8, <2>2
    <3> QED
      BY <1>9, <1>10, <2>2, <3>1
  <2>3. CASE k \notin 2 .. n /\ m \in 2 .. n
    <3>1. k - n \in 1 .. Len(low) /\ n + (k - n) = k
      BY <1>8, <2>3
    <3> QED
      BY <1>9, <1>10, <2>3, <3>1
  <2>4. CASE k \notin 2 .. n /\ m \notin 2 .. n
    <3>1. k - n \in 1 .. Len(low) /\ n + (k - n) = k /\ m - n \in 1 .. Len(low) /\ n + (m - n) = m
      BY <1>8, <2>4
    <3>2. Var(low[k - n]) = Var(low[m - n])
      BY <1>10, <3>1
    <3>3. k - n = m - n
      BY <1>2, <1>5, <3>1, <3>2 DEF AllDistinct
    <3> QED
      BY <3>1, <3>3
  <2> QED
    BY <2>1, <2>2, <2>3, <2>4
<1>13. \A v \in Vars : v \in ResMarked /\ vardata[v].level \in 1 .. N - 1
                         <=> \E k \in 2 .. Len(q) : Var(q[k]) = v
  <2> SUFFICES ASSUME NEW v \in Vars
               PROVE  v \in ResMarked /\ vardata[v].level \in 1 .. N - 1
                        <=> \E k \in 2 .. Len(q) : Var(q[k]) = v
    OBVIOUS
  <2>1. v \in ResMarked <=> v \in seen \/ \E l \in ToSet(ResFresh) : v = Var(l)
    BY <1>3, VarsOfSet DEF ResMarked
  <2>2. v \in seen /\ vardata[v].level \in 1 .. N - 1 <=> \E k \in 2 .. n : Var(learnt[k]) = v
    BY <1>1 DEF ResolveInv, n
  <2>3. ASSUME NEW l \in ToSet(ResFresh), v = Var(l), vardata[v].level \in 1 .. N - 1
        PROVE  \E k \in 2 .. Len(q) : Var(q[k]) = v
    <3>1. l \in ToSet(low)
      BY <1>2, <2>3 DEF level
    <3>2. PICK k \in 1 .. Len(low) : low[k] = l
      BY <1>2, <3>1, Element
    <3>3. n + k \in 2 .. Len(q) /\ q[n + k] = l
      BY <1>1, <1>5, <1>6, <3>2
    <3> QED
      BY <2>3, <3>3
  <2>4. ASSUME NEW k \in 2 .. n, Var(learnt[k]) = v
        PROVE  \E j \in 2 .. Len(q) : Var(q[j]) = v
    <3>1. k \in 2 .. Len(q) /\ q[k] = learnt[k]
      BY <1>1, <1>5, <1>6, <1>9
    <3> QED
      BY <2>4, <3>1
  <2>5. ASSUME NEW k \in 2 .. Len(q), Var(q[k]) = v
        PROVE  v \in ResMarked /\ vardata[v].level \in 1 .. N - 1
    <3>1. CASE k \in 2 .. n
      BY <1>9, <2>1, <2>2, <2>5, <3>1
    <3>2. CASE k - n \in 1 .. Len(low) /\ n + (k - n) = k
      BY <1>10, <2>1, <2>5, <3>2 DEF level
    <3> QED
      BY <1>8, <3>1, <3>2
  <2> QED
    BY <2>1, <2>2, <2>3, <2>4, <2>5
<1> QED
  BY <1>6, <1>7, <1>11, <1>12, <1>13 DEF q

(* What the step does to the tracer and the clauses, and what is marked    *)
(* afterwards.                                                             *)
LEMMA ResolveStep ==
    ASSUME IInv, analyzeResolve
    PROVE  /\ MemoryKept /\ an' \in HintType(db) /\ an'.hints # <<>>
           /\ seen' = ResMarked \ {Var(trail[ResNext])} /\ seen' \subseteq Vars
           /\ ResCleared \in Seq(Lits)
           /\ \A v \in seen' : vardata[v].level = 0 => v \in VarsOf(ResCleared)
           /\ ResPathC \in Nat /\ ResPathC = Cardinality(HereVars(seen')) /\ IsFiniteSet(HereVars(seen'))
<1>1. /\ pc = "analyze" /\ ca' = [ca EXCEPT ![confl].lits = ResClause]
      /\ an' = AddResolved(ResClause, ResFresh, ca[confl].cid)
      /\ seen' = ResMarked \ {Var(trail[ResNext])}
  BY ResolveParts
<1>2. /\ ResolveInv /\ N \in Nat /\ viv.cr = CRef_Undef /\ confl \in DOMAIN ca
  BY <1>1, ResolveNow
<1>3. MemoryKept
  <2>1. ResClause \in Seq(Lits) /\ ToSet(ResClause) = ToSet(ca[confl].lits)
    BY <1>1, ResolveClause
  <2>2. confl # viv.cr
    BY <1>2, Shapes
  <2> QED
    BY <1>1, <1>2, <2>1, <2>2, MemoryPut
<1>4. ResFresh \in Seq(Lits) /\ \A l \in ToSet(ResFresh) : l \in Lits /\ Var(l) \in Vars
  BY <1>1, ResolveFresh
<1>5. /\ AtLevelZero(ResFresh) \in Seq(Lits)
      /\ \A l : l \in ToSet(AtLevelZero(ResFresh)) <=> l \in ToSet(ResFresh) /\ level(l) = 0
      /\ UnitCidsOf(AtLevelZero(ResFresh)) \in Seq(DOMAIN db)
  BY <1>4, ZeroUnits
<1> DEFINE zero == AtLevelZero(ResFresh)
           cids == UnitCidsOf(zero)
           cid == ca[confl].cid
           a1 == AddHint(an, cid)
           b == an'
<1>6. an' \in HintType(db) /\ an'.hints # <<>>
  <2>1. cid \in DOMAIN db
    BY <1>2, Shapes, ClauseTypes
  <2>2. cids \in Seq(DOMAIN db)
    BY <1>5
  <2>3. b = AddUnitHints(a1, cids)
    BY <1>1 DEF AddResolved
  <2> HIDE DEF cids, cid, b
  <2>4. an \in HintType(db)
    BY HintsNow
  <2>5. a1 \in HintType(db) /\ a1.hints # <<>>
    BY <2>1, <2>4, HintAdded
  <2> HIDE DEF a1
  <2>6. b \in HintType(db) /\ b.hints = a1.hints
    BY <2>2, <2>3, <2>5, UnitHintsAdded
  <2> QED
    BY <2>5, <2>6 DEF b
<1> HIDE DEF zero
<1>7. /\ zero \in Seq(Lits) /\ \A l : l \in ToSet(zero) <=> l \in ToSet(ResFresh) /\ level(l) = 0
  BY <1>5 DEF zero
<1>8. ResCleared = ana.toclear \o zero /\ ana.toclear \in Seq(Lits)
  BY AnaShape DEF ResCleared, zero, LitSeq
<1>9. ResCleared \in Seq(Lits) /\ \A l : l \in ToSet(ResCleared) <=> l \in ToSet(ana.toclear) \/ l \in ToSet(zero)
  BY <1>7, <1>8, Joined
<1>10. ResMarked \subseteq Vars /\ seen' \subseteq ResMarked
  BY <1>1, ResolveMarked
<1>11. \A v \in seen' : vardata[v].level = 0 => v \in VarsOf(ResCleared)
  <2> SUFFICES ASSUME NEW v \in ResMarked, vardata[v].level = 0 PROVE v \in VarsOf(ResCleared)
    BY <1>10
  <2>1. v \in seen \/ \E l \in ToSet(ResFresh) : v = Var(l)
    BY <1>4, VarsOfSet DEF ResMarked
  <2>2. CASE v \in seen
    <3>1. v \in VarsOf(ana.toclear)
      BY <1>2, <2>2 DEF ResolveInv
    <3>2. PICK l \in ToSet(ana.toclear) : v = Var(l)
      BY <1>8, <3>1, VarsOfSet
    <3> QED
      BY <1>9, <3>2, VarsOfSet
  <2>3. ASSUME NEW l \in ToSet(ResFresh), v = Var(l) PROVE v \in VarsOf(ResCleared)
    <3>1. l \in ToSet(ResCleared)
      BY <1>7, <1>9, <2>3 DEF level
    <3> QED
      BY <1>9, <2>3, <3>1, VarsOfSet
  <2> QED
    BY <2>1, <2>2, <2>3
<1> DEFINE H == HereVars(ResMarked)
           x == Var(trail[ResNext])
<1>12. IsFiniteSet(H) /\ Cardinality(H) = ana.pathC + Len(ResHere) /\ x \in H
  BY <1>1, ResolveMarked, ResolveNext DEF level
<1>13. HereVars(seen') = H \ {x}
  BY <1>1 DEF HereVars
<1>14. IsFiniteSet(H \ {x}) /\ Cardinality(H \ {x}) = Cardinality(H) - 1
  <2> HIDE DEF H, x
  <2> QED
    BY <1>12, FS_RemoveElement
<1>15. Cardinality(H \ {x}) \in Nat
  <2> HIDE DEF H, x
  <2> QED
    BY <1>14, FS_CardinalityType
<1>16. ResPathC = Cardinality(H) - 1
  <2>1. ResPathC = ana.pathC + Len(ResHere) - 1
    BY DEF ResPathC
  <2>2. ana.pathC \in Nat /\ Len(ResHere) \in Nat
    BY <1>1, AnaShape, ResolveSplit, Element
  <2> QED
    BY <1>12, <2>1, <2>2
<1>17. ResPathC \in Nat /\ ResPathC = Cardinality(HereVars(seen')) /\ IsFiniteSet(HereVars(seen'))
  BY <1>13, <1>14, <1>15, <1>16
<1> QED
  BY <1>1, <1>3, <1>6, <1>9, <1>10, <1>11, <1>17

(* There is another literal to resolve on: the reason of the next one is a *)
(* clause.                                                                 *)
LEMMA ResolveReason ==
    ASSUME IInv, analyzeResolve, ResPathC > 0
    PROVE  Usable(reason(trail[ResNext]))
<1> DEFINE r == ResNext
           x == trail[r]
<1>1. /\ pc = "analyze" /\ seen' = ResMarked \ {Var(x)}
      /\ ResPathC \in Nat /\ ResPathC = Cardinality(HereVars(seen'))
  BY ResolveParts, ResolveStep
<1>2. /\ N \in 1 .. decisionLevel /\ N \in Nat /\ viv.cr = CRef_Undef /\ settled = Len(trail)
      /\ Len(trail) \in Nat /\ trail \in Seq(Lits) /\ Levels(vardata, trail, trail_lim, Len(trail))
  BY <1>1, ResolveNow
<1>3. r \in 1 .. Len(trail) /\ x \in Lits /\ level(x) = N /\ \A k \in ResPlaces : k <= r
  BY <1>1, ResolveNext
<1> HIDE DEF r
<1>4. HereVars(seen') # {}
  BY <1>1, FS_EmptySet
<1>5. PICK v \in HereVars(ResMarked) : v # Var(x)
  BY <1>1, <1>4 DEF HereVars
<1>6. PICK k \in ResPlaces : Var(trail[k]) = v
  BY <1>1, <1>5, ResolveMarked DEF HereVars
<1>7. k \in 1 .. Len(trail) /\ k < r /\ level(trail[k]) = N
  <2>1. v \in ResMarked /\ vardata[v].level = N
    BY <1>1, <1>5, ResolveMarked DEF HereVars
  <2>2. k \in Nat /\ k >= 1 /\ k <= r /\ k # r
    BY <1>3, <1>5, <1>6 DEF ResPlaces
  <2>3. k \in 1 .. Len(trail) /\ k < r
    BY <1>2, <1>3, <2>2
  <2> QED
    BY <1>6, <2>1, <2>3 DEF level
<1>8. reason(x) # CRef_Undef
  <2> SUFFICES ASSUME reason(x) = CRef_Undef PROVE FALSE
    OBVIOUS
  <2>1. r = trail_lim[N] + 1
    BY <1>2, <1>3 DEF Levels, Rs, Lv, reason, level
  <2>2. trail_lim[N] < k
    BY <1>2, <1>7 DEF Levels, Within, Lv, level
  <2>3. N \in 1 .. Len(trail_lim) /\ trail_lim[N] \in Nat
    BY <1>2, Lims DEF decisionLevel
  <2> QED
    BY <1>2, <1>7, <2>1, <2>2, <2>3
<1>9. reason(x) \in DOMAIN ca /\ ~ca[reason(x)].freed
  <2> DEFINE cr == reason(x)
  <2>1. r \in 1 .. settled /\ cr = Rs(vardata, trail[r]) /\ cr # CRef_Undef
    BY <1>2, <1>3, <1>8 DEF Rs, reason
  <2> HIDE DEF cr
  <2>2. cr \in DOMAIN ca /\ ~ca[cr].freed
    BY <2>1, ReasonImplied
  <2> QED
    BY <2>2 DEF cr
<1> QED
  BY <1>2, <1>8, <1>9 DEF Usable, r

LEMMA ResolveGoesOn ==
    ASSUME IInv, analyzeResolve, ResPathC > 0, UNCHANGED <<vivifyVars, inputFrame>>
    PROVE  /\ ResolveInv' /\ AnaTypes' /\ pc' = "analyze" /\ ana'.nDecisionLevel = ana.nDecisionLevel
           /\ confl' \in DOMAIN ca /\ learnt' \in Seq(Lits \cup {0}) /\ Len(learnt') >= 1
<1> DEFINE r == ResNext
           x == trail[r]
           out == ResOut
           cl == ResCleared
           pc1 == ResPathC
           cr == reason(x)
<1>1. /\ pc = "analyze" /\ confl' = cr /\ learnt' = out /\ pc' = pc
      /\ ana' = [ana EXCEPT !.p = x, !.index = r - 1, !.pathC = pc1, !.toclear = cl]
      /\ UNCHANGED <<assigns, vardata, trail, trail_lim>> /\ viv' = viv
  BY ResolveParts DEF ResGoesOn, trailVars, vivifyVars
<1>2. /\ MemoryKept /\ an'.hints # <<>> /\ seen' = ResMarked \ {Var(x)} /\ seen' \subseteq Vars
      /\ cl \in Seq(Lits) /\ (\A v \in seen' : vardata[v].level = 0 => v \in VarsOf(cl))
      /\ pc1 \in Nat /\ pc1 = Cardinality(HereVars(seen')) /\ pc1 >= 1
  BY ResolveStep
<1>3. /\ r \in 1 .. ana.index /\ r \in 1 .. Len(trail) /\ x \in Lits /\ level(x) = N
      /\ \A k \in ResPlaces : k <= r
  BY <1>1, ResolveNext
<1>4. Usable(cr)
  BY ResolveReason
<1>5. /\ ResolveInv /\ N \in 1 .. decisionLevel /\ N \in Nat /\ Len(trail) \in Nat
  BY <1>1, ResolveNow
<1>6. /\ out \in Seq(Lits \cup {0}) /\ Len(out) \in Nat /\ Len(out) >= 1 /\ out[1] = 0
      /\ \A k \in 2 .. Len(out) : out[k] \in Lits /\ IsFalse(out[k]) /\ level(out[k]) \in 1 .. N - 1
      /\ \A k, m \in 2 .. Len(out) : Var(out[k]) = Var(out[m]) => k = m
      /\ \A v \in Vars : v \in ResMarked /\ vardata[v].level \in 1 .. N - 1
                           <=> \E k \in 2 .. Len(out) : Var(out[k]) = v
  BY <1>1, ResolveOut
<1>7. /\ \A v \in ResMarked : assigns[v] # 0 /\ vardata[v].level <= N /\ vardata[v].level \in Nat
      /\ \A i \in ana.index + 1 .. Len(trail) : Var(trail[i]) \in ResMarked => level(trail[i]) < N
  BY <1>1, ResolveMarked
<1> HIDE DEF out, cl, pc1, cr
<1>8. /\ ana'.p = x /\ ana'.index = r - 1 /\ ana'.pathC = pc1 /\ ana'.toclear = cl
      /\ ana'.nDecisionLevel = ana.nDecisionLevel
  BY <1>1, AnaShape
<1>9. r - 1 \in Nat /\ (r - 1) + 1 = r /\ r - 1 < Len(trail) /\ r - 1 \in 0 .. Len(trail)
  BY <1>3, <1>5
<1>10. AnaTypes'
  <2> DEFINE i1 == r - 1
  <2>1. i1 \in Nat
    BY <1>9
  <2> HIDE DEF i1
  <2>2. ana' = [ana EXCEPT !.p = x, !.index = i1, !.pathC = pc1, !.toclear = cl]
    BY <1>1 DEF i1
  <2>3. cl \in LitSeq /\ pc1 \in Nat /\ x \in Lits \cup {0}
    BY <1>2, <1>3 DEF LitSeq
  <2> HIDE DEF x, r
  <2> QED
    BY <2>1, <2>2, <2>3, AnaShape DEF AnaTypes
<1>11. N' = N /\ \A l : level(l)' = level(l) /\ IsFalse(l)' = IsFalse(l) /\ reason(l)' = reason(l)
  BY <1>1, <1>8 DEF N, level, IsFalse, reason
<1>12. Usable(confl)'
  BY <1>1, <1>2, <1>4 DEF Usable, MemoryKept
<1>13. LowerLearnt'
  <2>1. \A k \in 2 .. Len(out) : out[k] # 0
    BY <1>6, LitFacts
  <2> QED
    BY <1>1, <1>6, <1>11, <2>1 DEF LowerLearnt
<1>14. \A i \in r .. Len(trail) : Var(trail[i]) \in seen' => level(trail[i]) < N
  <2> SUFFICES ASSUME NEW i \in r .. Len(trail), Var(trail[i]) \in seen' PROVE level(trail[i]) < N
    OBVIOUS
  <2>1. i # r /\ Var(trail[i]) \in ResMarked
    BY <1>2
  <2>2. ana.index \in Nat
    BY AnaShape
  <2>3. CASE i \in ana.index + 1 .. Len(trail)
    BY <1>7, <2>1, <2>3
  <2>4. CASE i \notin ana.index + 1 .. Len(trail)
    <3>1. i \in 1 .. ana.index /\ i > r
      BY <1>3, <1>5, <2>1, <2>2, <2>4
    <3>2. i \notin ResPlaces
      BY <1>3, <3>1
    <3>3. ~(level(trail[i]) >= N)
      BY <2>1, <3>1, <3>2 DEF ResPlaces, N
    <3>4. level(trail[i]) \in Nat
      BY <1>7, <2>1 DEF level
    <3> QED
      BY <1>5, <3>3, <3>4
  <2> QED
    BY <2>3, <2>4
<1>15. \A v \in Vars : v \in seen' /\ vardata[v].level \in 1 .. N - 1
                         <=> \E k \in 2 .. Len(out) : Var(out[k]) = v
  <2>1. vardata[Var(x)].level = N
    BY <1>3 DEF level
  <2>2. ~(N \in 1 .. N - 1)
    BY <1>5
  <2> QED
    BY <1>2, <1>6, <2>1, <2>2
<1>16. HereVars(seen)' = HereVars(seen')
  BY <1>1, <1>11 DEF HereVars
<1>17. \A v \in seen' : assigns[v] # 0 /\ vardata[v].level <= N
  BY <1>2, <1>7
<1>18. Var(x) \notin seen' /\ x # 0 /\ reason(x) = cr
  BY <1>2, <1>3, LitFacts DEF cr
<1>19. \A i \in (r - 1) + 1 .. Len(trail) : Var(trail[i]) \in seen' => level(trail[i]) < N
  BY <1>9, <1>14
<1>20. ResolveInv'
  <2>1. /\ Usable(confl)' /\ learnt'[1] = 0 /\ LowerLearnt'
        /\ (\A k, m \in 2 .. Len(learnt') : Var(learnt'[k]) = Var(learnt'[m]) => k = m)
        /\ ana'.index \in 0 .. Len(trail')
    BY <1>1, <1>6, <1>8, <1>9, <1>12, <1>13
  <2>2. /\ (\A v \in seen' : assigns'[v] # 0 /\ vardata'[v].level <= N')
        /\ (\A i \in ana'.index + 1 .. Len(trail') : Var(trail'[i]) \in seen' => level(trail[i])' < N')
        /\ ana'.pathC = Cardinality(HereVars(seen)')
    <3>1. \A i \in ana'.index + 1 .. Len(trail') : Var(trail'[i]) \in seen' => level(trail[i])' < N'
      BY <1>1, <1>8, <1>11, <1>19 DEF level
    <3> QED
      BY <1>1, <1>2, <1>8, <1>11, <1>16, <1>17, <3>1
  <2>3. /\ \A v \in Vars : v \in seen' /\ vardata'[v].level \in 1 .. N' - 1
                             <=> \E k \in 2 .. Len(learnt') : Var(learnt'[k]) = v
        /\ \A v \in seen' : vardata'[v].level = 0 => v \in VarsOf(ana'.toclear)
    BY <1>1, <1>2, <1>8, <1>11, <1>15
  <2>4. /\ ana'.p # 0 /\ ana'.pathC >= 1 /\ ana'.index < Len(trail') /\ trail'[ana'.index + 1] = ana'.p
        /\ Var(ana'.p) \notin seen' /\ HasResolvents(an')
    BY <1>1, <1>2, <1>8, <1>9, <1>18 DEF HasResolvents
  <2>5. reason(ana.p)' = confl' /\ level(ana.p)' = N'
    <3>1. reason(ana.p)' = vardata[Var(x)].reason /\ level(ana.p)' = vardata[Var(x)].level
      BY <1>1, <1>8 DEF reason, level
    <3> QED
      BY <1>1, <1>3, <1>11, <1>18, <3>1 DEF reason, level
  <2> QED
    BY <2>1, <2>2, <2>3, <2>4, <2>5 DEF ResolveInv
<1> QED
  BY <1>1, <1>4, <1>6, <1>8, <1>10, <1>20 DEF Usable

LEMMA ResolveStops ==
    ASSUME IInv, analyzeResolve, ~(ResPathC > 0), UNCHANGED <<vivifyVars, inputFrame>>
    PROVE  /\ LearntInv' /\ MinimizeInv' /\ AnaTypes' /\ pc' = "minimize"
           /\ ana'.nDecisionLevel = ana.nDecisionLevel
           /\ confl' = CRef_Undef /\ learnt' \in Seq(Lits \cup {0}) /\ Len(learnt') >= 1
<1> DEFINE r == ResNext
           x == trail[r]
           out == ResOut
           cl == ResCleared
           q == learnt'
           lv == {level(l) % 32 : l \in ToSet(ResLower) \cup ToSet(SubSeq(learnt, 2, Len(learnt)))}
           cleared == cl \o q
           one == <<-x>>
<1>1. /\ pc = "analyze" /\ confl' = CRef_Undef /\ q = [out EXCEPT ![1] = -x] /\ pc' = "minimize"
      /\ ana' = [NoAnalysis EXCEPT !.toclear = cleared, !.nDecisionLevel = ana.nDecisionLevel,
                                   !.levels = lv, !.i = 2, !.kept = one]
      /\ UNCHANGED <<assigns, vardata, trail, trail_lim>> /\ viv' = viv
  BY ResolveParts DEF ResStops, trailVars, vivifyVars
<1>2. /\ seen' = ResMarked \ {Var(x)} /\ seen' \subseteq Vars
      /\ cl \in Seq(Lits) /\ (\A v \in seen' : vardata[v].level = 0 => v \in VarsOf(cl))
      /\ ResPathC \in Nat /\ ResPathC = Cardinality(HereVars(seen')) /\ IsFiniteSet(HereVars(seen'))
  BY ResolveStep
<1>3. /\ x \in Lits /\ level(x) = N /\ IsTrue(x)
  BY <1>1, ResolveNext
<1>5. N \in 1 .. decisionLevel /\ N \in Nat
  BY <1>1, ResolveNow
<1>6. /\ out \in Seq(Lits \cup {0}) /\ Len(out) \in Nat /\ Len(out) >= 1 /\ out[1] = 0
      /\ \A k \in 2 .. Len(out) : out[k] \in Lits /\ IsFalse(out[k]) /\ level(out[k]) \in 1 .. N - 1
      /\ \A k, m \in 2 .. Len(out) : Var(out[k]) = Var(out[m]) => k = m
      /\ \A v \in Vars : v \in ResMarked /\ vardata[v].level \in 1 .. N - 1
                           <=> \E k \in 2 .. Len(out) : Var(out[k]) = v
  BY <1>1, ResolveOut
<1>7. \A v \in ResMarked : vardata[v].level <= N /\ vardata[v].level \in Nat
  BY <1>1, ResolveMarked
<1>8. lv \subseteq Nat
  <2>1. \A l \in ToSet(ResLower) : level(l) \in Nat
    BY <1>1, <1>5, ResolveSplit
  <2>2. \A l \in ToSet(SubSeq(learnt, 2, Len(learnt))) : level(l) \in Nat
    <3>1. learnt \in Seq(Lits \cup {0}) /\ Len(learnt) \in Nat /\ Len(learnt) >= 1 /\ LowerLearnt
      BY <1>1, ResolveNow
    <3> DEFINE t == SubSeq(learnt, 2, Len(learnt))
    <3>2. Len(t) = Len(learnt) - 1 /\ \A k \in 1 .. Len(t) : t[k] = learnt[k + 1]
      <4> DEFINE n == Len(learnt)
      <4>1. n \in Nat /\ n >= 1 /\ learnt \in Seq(Lits \cup {0})
        BY <3>1
      <4>2. t = SubSeq(learnt, 2, n) /\ 2 \in Int /\ n \in Int
        BY <4>1
      <4>3. \A i \in 2 .. n : learnt[i] \in Lits \cup {0}
        BY <4>1
      <4> HIDE DEF n, t
      <4>4. /\ Len(t) = IF 2 <= n THEN n - 2 + 1 ELSE 0
            /\ \A k \in 1 .. n - 2 + 1 : t[k] = learnt[2 + k - 1]
        BY <4>2, <4>3, SubSeqProperties
      <4>5. Len(t) = n - 1
        BY <4>1, <4>4
      <4>6. \A k \in 1 .. n - 1 : t[k] = learnt[k + 1]
        <5> SUFFICES ASSUME NEW k \in 1 .. n - 1 PROVE t[k] = learnt[k + 1]
          OBVIOUS
        <5>1. k \in 1 .. n - 2 + 1 /\ 2 + k - 1 = k + 1
          BY <4>1
        <5> QED
          BY <4>4, <5>1
      <4> QED
        BY <4>5, <4>6 DEF n
    <3>3. t \in Seq(Lits \cup {0})
      BY <3>1
    <3> HIDE DEF t
    <3>4. \A k \in 1 .. Len(t) : level(t[k]) \in Nat
      <4> SUFFICES ASSUME NEW k \in 1 .. Len(t) PROVE level(t[k]) \in Nat
        OBVIOUS
      <4>1. k + 1 \in 2 .. Len(learnt)
        BY <3>1, <3>2
      <4> QED
        BY <1>5, <3>1, <3>2, <4>1 DEF LowerLearnt
    <3>5. \A l \in ToSet(t) : \E k \in 1 .. Len(t) : t[k] = l
      BY <3>3, Element
    <3> QED
      BY <3>4, <3>5 DEF t
  <2>3. \A l : level(l) \in Nat => level(l) % 32 \in Nat
    OBVIOUS
  <2> QED
    BY <2>1, <2>2, <2>3
<1> HIDE DEF lv, out, cl, x
<1>9. -x \in Lits /\ IsFalse(-x) /\ level(-x) = N /\ Var(-x) = Var(x)
  BY <1>3, LitFacts DEF IsTrue, IsFalse, level
<1>10. /\ DOMAIN q = 1 .. Len(out) /\ q[1] = -x /\ \A k \in 2 .. Len(out) : q[k] = out[k]
  BY <1>1, <1>6
<1>11. q \in Seq(Lits) /\ Len(q) = Len(out)
  <2>1. \A k \in 1 .. Len(out) : q[k] \in Lits
    <3> SUFFICES ASSUME NEW k \in 1 .. Len(out) PROVE q[k] \in Lits
      OBVIOUS
    <3>1. k = 1 \/ k \in 2 .. Len(out)
      BY <1>6
    <3> QED
      BY <1>6, <1>9, <1>10, <3>1
  <2>2. q = [k \in 1 .. Len(out) |-> q[k]]
    BY <1>1, <1>6, <1>10
  <2>3. q \in [1 .. Len(out) -> Lits]
    BY <2>1, <2>2
  <2> QED
    BY <1>6, <2>3
<1> HIDE DEF q
<1>12. q \in LitSeq /\ Len(q) \in Nat /\ Len(q) >= 1 /\ q \in Seq(Lits \cup {0})
  BY <1>6, <1>11 DEF LitSeq
<1>13. \A k \in 2 .. Len(q) : q[k] # 0 /\ IsFalse(q[k]) /\ level(q[k]) \in 1 .. N - 1
  BY <1>6, <1>10, <1>11, LitFacts
<1>14. AllDistinct(q)
  <2>1. \A k \in 2 .. Len(q) : Var(q[1]) # Var(q[k])
    <3> SUFFICES ASSUME NEW k \in 2 .. Len(q), Var(q[1]) = Var(q[k]) PROVE FALSE
      OBVIOUS
    <3>1. level(q[k]) = N
      BY <1>9, <1>10 DEF level
    <3> QED
      BY <1>5, <1>13, <3>1
  <2>2. \A k, m \in 2 .. Len(q) : Var(q[k]) = Var(q[m]) => k = m
    BY <1>6, <1>10, <1>11
  <2>3. DOMAIN q = 1 .. Len(q) /\ \A k \in 1 .. Len(q) : k = 1 \/ k \in 2 .. Len(q)
    BY <1>10, <1>11, <1>12
  <2> QED
    BY <2>1, <2>2, <2>3 DEF AllDistinct
<1>15. AllFalse(q)
  <2>1. \A k \in 1 .. Len(q) : IsFalse(q[k])
    <3> SUFFICES ASSUME NEW k \in 1 .. Len(q) PROVE IsFalse(q[k])
      OBVIOUS
    <3>1. k = 1 \/ k \in 2 .. Len(q)
      BY <1>12
    <3> QED
      BY <1>9, <1>10, <1>13, <3>1
  <2> QED
    BY <1>11, <2>1, Element DEF AllFalse
<1>16. cleared \in Seq(Lits) /\ \A l : l \in ToSet(cleared) <=> l \in ToSet(cl) \/ l \in ToSet(q)
  BY <1>2, <1>11, Joined
<1>17. one \in LitSeq /\ Len(one) = 1 /\ one[1] = -x
  BY <1>9 DEF LitSeq
<1> HIDE DEF cleared, one
<1>18. /\ ana'.toclear = cleared /\ ana'.nDecisionLevel = ana.nDecisionLevel /\ ana'.levels = lv
       /\ ana'.i = 2 /\ ana'.kept = one /\ AnaTypes'
  <2>1. NoAnalysis \in [p : Lits \cup {0}, index : Nat, pathC : Nat, nDecisionLevel : Nat,
                    toclear : LitSeq, levels : SUBSET Nat, i : Nat, kept : LitSeq,
                    stack : LitSeq, top : Nat, btlevel : Nat]
    BY DEF NoAnalysis, LitSeq
  <2>2. ana.nDecisionLevel \in Nat
    BY AnaShape
  <2>3. cleared \in LitSeq /\ lv \in SUBSET Nat
    BY <1>8, <1>16 DEF LitSeq
  <2>4. /\ ana'.toclear = cleared /\ ana'.nDecisionLevel = ana.nDecisionLevel /\ ana'.levels = lv
        /\ ana'.i = 2 /\ ana'.kept = one
    BY <1>1, <2>1
  <2> QED
    BY <1>1, <1>17, <2>1, <2>2, <2>3, <2>4 DEF AnaTypes
<1>19. N' = N /\ \A l : level(l)' = level(l) /\ IsFalse(l)' = IsFalse(l)
  BY <1>1, <1>18 DEF N, level, IsFalse
<1>20. q = learnt'
  BY DEF q
<1>21. LearntInv'
  <2>1. LowerLearnt'
    BY <1>13, <1>19, <1>20 DEF LowerLearnt
  <2>2. AllFalse(learnt)'
    BY <1>1, <1>15, <1>20 DEF AllFalse, IsFalse
  <2>3. level(learnt[1])' = N'
    BY <1>1, <1>9, <1>10, <1>19, <1>20 DEF level
  <2> QED
    BY <1>12, <1>14, <1>20, <2>1, <2>2, <2>3 DEF LearntInv
<1>22. seen' \subseteq VarsOf(cleared)
  <2> SUFFICES ASSUME NEW v \in seen' PROVE v \in VarsOf(cleared)
    OBVIOUS
  <2>1. v \in Vars /\ v \in ResMarked /\ vardata[v].level <= N /\ vardata[v].level \in Nat
    BY <1>2, <1>7
  <2>2. HereVars(seen') = {}
    <3>1. Cardinality(HereVars(seen')) = 0
      BY <1>2
    <3> QED
      BY <1>2, <3>1, FS_EmptySet
  <2>3. vardata[v].level < N
    <3>1. ~(vardata[v].level >= N)
      BY <2>2 DEF HereVars
    <3> QED
      BY <1>5, <2>1, <3>1
  <2>4. CASE vardata[v].level = 0
    <3>1. PICK l \in ToSet(cl) : v = Var(l)
      BY <1>2, <2>4, VarsOfSet
    <3> QED
      BY <1>16, <3>1, VarsOfSet
  <2>5. CASE vardata[v].level \in 1 .. N - 1
    <3>1. PICK k \in 2 .. Len(out) : Var(out[k]) = v
      BY <1>6, <2>1, <2>5
    <3>2. k \in 1 .. Len(q) /\ Var(q[k]) = v
      BY <1>6, <1>10, <1>11, <3>1
    <3>3. q[k] \in ToSet(cleared)
      BY <1>11, <1>16, <3>2, Element
    <3> QED
      BY <1>16, <3>2, <3>3, VarsOfSet
  <2> QED
    BY <1>5, <2>1, <2>3, <2>4, <2>5
<1>23. MinimizeInv'
  <2>1. AllDistinct(one) /\ Len(one) >= 1
    <3>1. DOMAIN one = 1 .. 1
      BY <1>17, Element DEF LitSeq
    <3> QED
      BY <1>17, <3>1 DEF AllDistinct
  <2>2. 2 \in 2 .. Len(q) + 1 /\ 2 .. Len(one) = {}
    BY <1>12, <1>17
  <2> QED
    BY <1>1, <1>10, <1>17, <1>18, <1>20, <1>22, <2>1, <2>2 DEF MinimizeInv
<1> QED
  BY <1>1, <1>12, <1>18, <1>20, <1>21, <1>23

LEMMA AnalyzeResolveRest ==
    ASSUME IInv, analyzeResolve, UNCHANGED <<vivifyVars, inputFrame>>
    PROVE  Rest'
<1>1. /\ pc = "analyze" /\ MemoryKept /\ an' \in HintType(db) /\ an'.hints # <<>> /\ seen' \subseteq Vars
      /\ UNCHANGED <<watches, dirty, assigns, vardata, trail, trail_lim, qhead, ok, db, unitCids, prop,
                     searching, conflicts, viv, due, problem, next, restarts, reductions>>
  BY ResolveParts, ResolveStep DEF trailVars, vivifyVars, inputFrame, inputVars, budgetVars
<1>2. ResPathC \in Nat /\ searching /\ N \in 1 .. decisionLevel
  BY <1>1, ResolveStep, ResolveNow
<1>3. \/ /\ ResolveInv' /\ AnaTypes' /\ pc' = "analyze"
      \/ /\ LearntInv' /\ MinimizeInv' /\ AnaTypes' /\ pc' = "minimize"
  BY ResolveGoesOn, ResolveStops
<1>4. /\ ana'.nDecisionLevel = ana.nDecisionLevel /\ confl' \in DOMAIN ca \cup {CRef_Undef}
      /\ learnt' \in Seq(Lits \cup {0}) /\ Len(learnt') >= 1
  BY ResolveGoesOn, ResolveStops
<1>5. StaysAnalyzing
  BY <1>1, <1>2, <1>3 DEF StaysAnalyzing, Analyzing
<1>6. LogInv' /\ PlaceInv' /\ ControlInv' /\ HandInv' /\ VivInv' /\ PlainInv'
  BY <1>1, <1>4, <1>5, AnalyzingFrame, AnalyzingPlain
<1>7. N' = N /\ decisionLevel' = decisionLevel
  BY <1>1, <1>4 DEF N, decisionLevel
<1>8. AnalysisInv' /\ NoTraceOfAnalysis'
  BY <1>1, <1>2, <1>3, <1>4, <1>7 DEF AnalysisInv, NoTraceOfAnalysis
<1> QED
  BY <1>6, <1>8 DEF Rest

-----------------------------------------------------------------------------
(* binResMinimize: what stays of the clause keeps its first literal.       *)
Drawn(q, s) ==
    /\ s \in Seq(Lits) /\ Len(s) >= 1 /\ AllDistinct(s) /\ s[1] = q[1]
    /\ \A k \in 2 .. Len(s) : \E m \in 2 .. Len(q) : s[k] = q[m]

Removes(q, R) ==
    /\ q \in Seq(Lits) /\ AllDistinct(q) /\ Len(q) >= 1
    /\ \A v \in R : \E k \in 2 .. Len(q) : Var(q[k]) = v
GonePlaces(q, R) == {k \in 1 .. Len(q) : Var(q[k]) \in R}
Shrinking(q, R) == Len(q) - Cardinality(R)
Holes(q, R) == {k \in 1 .. Shrinking(q, R) : Var(q[k]) \in R}
Fill(q, R) == {k \in 1 .. Len(q) : k > Shrinking(q, R) /\ Var(q[k]) \notin R}

(* There are as many literals to fill the holes as there are holes.        *)
LEMMA HolesFilled ==
    ASSUME NEW q, NEW R, Removes(q, R)
    PROVE  /\ Shrinking(q, R) \in 1 .. Len(q) /\ IsFiniteSet(Holes(q, R)) /\ IsFiniteSet(Fill(q, R))
           /\ Cardinality(Holes(q, R)) = Cardinality(Fill(q, R)) /\ Cardinality(Fill(q, R)) \in Nat
<1> DEFINE n == Len(q)
           I == 1 .. n
           G == GonePlaces(q, R)
           f == [k \in G |-> Var(q[k])]
           size == Shrinking(q, R)
           H == Holes(q, R)
           F == Fill(q, R)
           K == 1 .. size
           rest == I \ G
<1>1. /\ n \in Nat /\ n >= 1 /\ DOMAIN q = I /\ q \in Seq(Lits)
      /\ \A i, j \in I : Var(q[i]) = Var(q[j]) => i = j
  BY Element DEF Removes, AllDistinct
<1>2. \A v \in R : \E k \in 2 .. n : Var(q[k]) = v
  BY DEF Removes
<1>3. IsFiniteSet(I) /\ Cardinality(I) = n
  <2> HIDE DEF n
  <2>1. Cardinality(1 .. n) = IF 1 > n THEN 0 ELSE n - 1 + 1
    BY <1>1, FS_Interval
  <2>2. IsFiniteSet(1 .. n)
    BY <1>1, FS_Interval
  <2> QED
    BY <1>1, <2>1, <2>2
<1> HIDE DEF n
<1>4. G \subseteq I /\ \A k : k \in G <=> k \in I /\ Var(q[k]) \in R
  BY DEF GonePlaces, n
<1>5. 1 \in I /\ 1 \notin G
  <2>1. 1 \in I
    BY <1>1
  <2>2. ASSUME Var(q[1]) \in R PROVE FALSE
    <3>1. PICK k \in 2 .. n : Var(q[k]) = Var(q[1])
      BY <1>2, <2>2
    <3>2. k \in I /\ k # 1
      BY <1>1
    <3> QED
      BY <1>1, <2>1, <3>1, <3>2
  <2> QED
    BY <1>4, <2>1, <2>2
<1>6. \A k \in 2 .. n : k \in I
  BY <1>1
<1> HIDE DEF I, G
<1>7. IsFiniteSet(G) /\ IsFiniteSet(I \ {1}) /\ Cardinality(I \ {1}) = n - 1
      /\ G \in SUBSET (I \ {1}) /\ G \in SUBSET I
  <2>1. G \in SUBSET (I \ {1}) /\ G \in SUBSET I
    BY <1>4, <1>5
  <2>2. IsFiniteSet(I \ {1}) /\ Cardinality(I \ {1}) = n - 1
    BY <1>3, <1>5, FS_RemoveElement
  <2> QED
    BY <1>3, <2>1, <2>2, FS_Subset
<1>8. Cardinality(G) \in Nat /\ Cardinality(G) <= n - 1
  <2>1. Cardinality(G) <= Cardinality(I \ {1})
    BY <1>7, FS_Subset
  <2> QED
    BY <1>7, <2>1, FS_CardinalityType
<1>9. f \in Bijection(G, R)
  <2>1. f \in [G -> R] /\ \A k \in G : f[k] = Var(q[k])
    BY <1>4
  <2> HIDE DEF f
  <2>2. f \in Injection(G, R)
    BY <1>1, <1>4, <2>1 DEF Injection, IsInjective
  <2>3. \A v \in R : \E k \in G : f[k] = v
    BY <1>2, <1>4, <1>6, <2>1
  <2>4. f \in Surjection(G, R)
    BY <2>1, <2>3 DEF Surjection
  <2> QED
    BY <2>2, <2>4 DEF Bijection
<1>10. Cardinality(R) = Cardinality(G)
  <2>1. ExistsBijection(G, R)
    BY <1>9 DEF ExistsBijection
  <2> QED
    BY <1>7, <2>1, FS_Bijection
<1>11. size = n - Cardinality(G) /\ size \in 1 .. n /\ size \in Nat
  <2>1. size = n - Cardinality(G)
    BY <1>10 DEF Shrinking, n
  <2> QED
    BY <1>1, <1>8, <2>1
<1>12. /\ \A k : k \in H <=> k \in K /\ Var(q[k]) \in R
       /\ \A k : k \in F <=> k \in I /\ k > size /\ Var(q[k]) \notin R
  BY DEF Holes, Fill, I, n
<1> HIDE DEF size, H, F
<1>13. IsFiniteSet(K) /\ Cardinality(K) = size
  <2>1. Cardinality(1 .. size) = IF 1 > size THEN 0 ELSE size - 1 + 1
    BY <1>11, FS_Interval
  <2>2. IsFiniteSet(1 .. size)
    BY <1>11, FS_Interval
  <2> QED
    BY <1>11, <2>1, <2>2
<1>14. \A k : k \in K <=> k \in I /\ ~(k > size)
  <2>1. \A k : k \in 1 .. size <=> k \in 1 .. n /\ ~(k > size)
    BY <1>1, <1>11
  <2> QED
    BY <2>1 DEF I
<1> HIDE DEF K
<1>15. K \ H \in SUBSET K /\ H \in SUBSET K /\ F \in SUBSET I /\ K \cap H = H
  BY <1>12
<1>16. /\ IsFiniteSet(K \ H) /\ Cardinality(K \ H) = size - Cardinality(H) /\ IsFiniteSet(H) /\ IsFiniteSet(F)
       /\ Cardinality(H) \in Nat /\ Cardinality(F) \in Nat
  <2>1. IsFiniteSet(K \ H) /\ Cardinality(K \ H) = Cardinality(K) - Cardinality(K \cap H)
    BY <1>13, FS_Difference
  <2>2. IsFiniteSet(H) /\ IsFiniteSet(F)
    BY <1>3, <1>13, <1>15, FS_Subset
  <2> QED
    BY <1>13, <1>15, <2>1, <2>2, FS_CardinalityType
<1>17. rest = (K \ H) \cup F /\ (K \ H) \cap F = {}
  BY <1>4, <1>12, <1>14
<1>18. Cardinality(rest) = n - Cardinality(G)
  <2>1. Cardinality(I \ G) = Cardinality(I) - Cardinality(I \cap G) /\ I \cap G = G
    BY <1>3, <1>4, FS_Difference
  <2> QED
    BY <1>3, <2>1
<1> DEFINE A == K \ H
<1>19. Cardinality(A \cup F) = Cardinality(A) + Cardinality(F) - 0
  <2>1. Cardinality(A \cap F) = 0
    BY <1>17, FS_EmptySet
  <2>2. IsFiniteSet(A) /\ IsFiniteSet(F)
    BY <1>16
  <2> HIDE DEF A
  <2> QED
    BY <2>1, <2>2, FS_Union
<1>20. Cardinality(H) = Cardinality(F)
  <2>1. Cardinality(A) = size - Cardinality(H) /\ Cardinality(A \cup F) = size
    BY <1>11, <1>16, <1>17, <1>18
  <2> QED
    BY <1>11, <1>16, <1>19, <2>1
<1> QED
  BY <1>11, <1>16, <1>20 DEF size, H, F, n

LEMMA ShrunkDrawn ==
    ASSUME NEW q, NEW R, Removes(q, R), NEW s, s = Shrunk(q, R)
    PROVE  Drawn(q, s)
<1> DEFINE n == Len(q)
           size == Shrinking(q, R)
           H == Holes(q, R)
           F == Fill(q, R)
           holes == Ascending[H]
           fill == Reverse(Ascending[F])
           c(k) == CHOOSE i \in DOMAIN holes : holes[i] = k
           g(k) == IF Var(q[k]) \in R THEN fill[c(k)] ELSE k
<1>1. /\ size \in 1 .. n /\ IsFiniteSet(H) /\ IsFiniteSet(F) /\ Cardinality(H) = Cardinality(F)
      /\ Cardinality(F) \in Nat
  BY HolesFilled
<1>2. /\ n \in Nat /\ n >= 1 /\ DOMAIN q = 1 .. n /\ q \in Seq(Lits) /\ \A i \in 1 .. n : q[i] \in Lits
      /\ \A i, j \in 1 .. n : Var(q[i]) = Var(q[j]) => i = j
  BY Element DEF Removes, AllDistinct
<1>3. \A v \in R : \E k \in 2 .. n : Var(q[k]) = v
  BY DEF Removes
<1>4. s = [k \in 1 .. size |-> IF Var(q[k]) \in R THEN q[fill[c(k)]] ELSE q[k]]
  <2> DEFINE Hole(k) == Var(q[k]) \in R
  <2>1. holes = Places(size, Hole)
    BY DEF Places, Holes
  <2>2. fill = Reverse(Places(n, LAMBDA k : k > size /\ ~Hole(k)))
    BY DEF Places, Fill
  <2> QED
    BY <2>1, <2>2 DEF Shrunk, Shrinking
<1>5. /\ \A k : k \in H <=> k \in 1 .. size /\ Var(q[k]) \in R
      /\ \A k : k \in F <=> k \in 1 .. n /\ k > size /\ Var(q[k]) \notin R
  BY DEF Holes, Fill
<1> HIDE DEF n, size, H, F
<1>6. H \in SUBSET Nat /\ F \in SUBSET Nat
  BY <1>1, <1>2, <1>5
<1> DEFINE m == Cardinality(F)
           b == Ascending[F]
<1>7. /\ holes \in Seq(H) /\ Len(holes) = m /\ DOMAIN holes = 1 .. m
      /\ \A k \in H : \E i \in 1 .. m : holes[i] = k
  <2>1. /\ holes \in Seq(H) /\ Len(holes) = Cardinality(H)
        /\ \A k \in H : \E i \in 1 .. Cardinality(H) : holes[i] = k
    BY <1>1, <1>6, AscendingOf
  <2> QED
    BY <1>1, <2>1, Element
<1>8. /\ b \in Seq(F) /\ Len(b) = m /\ \A i, j \in 1 .. m : i < j => b[i] < b[j]
  BY <1>1, <1>6, AscendingOf
<1>9. m \in Nat
  BY <1>1
<1> HIDE DEF m, holes
<1>10. fill = [i \in 1 .. m |-> b[m - i + 1]]
  <2>1. fill = [i \in 1 .. Len(b) |-> b[Len(b) - i + 1]]
    BY DEF Reverse
  <2> QED
    BY <1>8, <2>1
<1> HIDE DEF b, fill
<1>11. \A i \in 1 .. m : fill[i] \in F
  <2> SUFFICES ASSUME NEW i \in 1 .. m PROVE fill[i] \in F
    OBVIOUS
  <2>1. m - i + 1 \in 1 .. Len(b)
    BY <1>8, <1>9
  <2> QED
    BY <1>8, <1>10, <2>1, Element
<1>12. \A i, j \in 1 .. m : fill[i] = fill[j] => i = j
  <2> SUFFICES ASSUME NEW i \in 1 .. m, NEW j \in 1 .. m, fill[i] = fill[j] PROVE i = j
    OBVIOUS
  <2> DEFINE x == m - i + 1
             y == m - j + 1
  <2>1. x \in 1 .. m /\ y \in 1 .. m /\ (x = y => i = j)
    BY <1>9
  <2>2. b[x] = b[y]
    BY <1>10
  <2> HIDE DEF x, y
  <2>3. b[x] \in Nat /\ b[y] \in Nat
    <3>1. x \in 1 .. Len(b) /\ y \in 1 .. Len(b)
      BY <1>8, <2>1
    <3>2. b[x] \in F /\ b[y] \in F
      BY <1>8, <3>1, Element
    <3> QED
      BY <1>6, <3>2
  <2>4. ~(x < y) /\ ~(y < x)
    BY <1>8, <2>1, <2>2, <2>3
  <2>5. x = y
    BY <1>9, <2>1, <2>4
  <2> QED
    BY <2>1, <2>5
<1>13. \A k \in H : c(k) \in 1 .. m /\ holes[c(k)] = k
  BY <1>7
<1> HIDE DEF c
<1>14. \A k \in 1 .. size : /\ g(k) \in 1 .. n /\ s[k] = q[g(k)] /\ Var(q[g(k)]) \notin R
                            /\ (Var(q[k]) \in R => g(k) \in F)
  <2> SUFFICES ASSUME NEW k \in 1 .. size
               PROVE  /\ g(k) \in 1 .. n /\ s[k] = q[g(k)] /\ Var(q[g(k)]) \notin R
                      /\ (Var(q[k]) \in R => g(k) \in F)
    OBVIOUS
  <2>1. CASE Var(q[k]) \in R
    <3>1. k \in H /\ g(k) = fill[c(k)]
      BY <1>5, <2>1
    <3>2. g(k) \in F
      BY <1>11, <1>13, <3>1
    <3>3. s[k] = q[g(k)]
      BY <1>4, <2>1, <3>1
    <3> QED
      BY <1>5, <3>2, <3>3
  <2>2. CASE Var(q[k]) \notin R
    <3>1. g(k) = k /\ s[k] = q[k] /\ k \in 1 .. n
      BY <1>1, <1>2, <1>4, <2>2
    <3> QED
      BY <2>2, <3>1
  <2> QED
    BY <2>1, <2>2
<1>15. \A j, k \in 1 .. size : g(j) = g(k) => j = k
  <2> SUFFICES ASSUME NEW j \in 1 .. size, NEW k \in 1 .. size, g(j) = g(k) PROVE j = k
    OBVIOUS
  <2>1. \A i \in 1 .. size : i \notin F
    BY <1>1, <1>2, <1>5
  <2>2. CASE Var(q[j]) \in R /\ Var(q[k]) \in R
    <3>1. j \in H /\ k \in H /\ fill[c(j)] = fill[c(k)]
      BY <1>5, <2>2
    <3>2. c(j) = c(k)
      BY <1>12, <1>13, <3>1
    <3> QED
      BY <1>13, <3>1, <3>2
  <2>3. CASE Var(q[j]) \in R /\ Var(q[k]) \notin R
    BY <1>14, <2>1, <2>3
  <2>4. CASE Var(q[j]) \notin R /\ Var(q[k]) \in R
    BY <1>14, <2>1, <2>4
  <2>5. CASE Var(q[j]) \notin R /\ Var(q[k]) \notin R
    BY <2>5
  <2> QED
    BY <2>2, <2>3, <2>4, <2>5
<1>16. 1 \in 1 .. size /\ Var(q[1]) \notin R /\ g(1) = 1
  <2>1. 1 \in 1 .. size /\ 1 \in 1 .. n
    BY <1>1, <1>2
  <2>2. ASSUME Var(q[1]) \in R PROVE FALSE
    <3>1. PICK k \in 2 .. n : Var(q[k]) = Var(q[1])
      BY <1>3, <2>2
    <3>2. k \in 1 .. n /\ k # 1
      BY <1>2
    <3> QED
      BY <1>2, <2>1, <3>1, <3>2
  <2> QED
    BY <2>1, <2>2
<1>17. DOMAIN s = 1 .. size /\ size \in Nat /\ s \in Seq(Lits) /\ Len(s) = size
  <2>1. size \in Nat /\ DOMAIN s = 1 .. size
    BY <1>1, <1>2, <1>4
  <2>2. \A k \in 1 .. size : s[k] \in Lits
    BY <1>2, <1>14
  <2>3. s = [k \in 1 .. size |-> s[k]]
    BY <1>4
  <2>4. s \in [1 .. size -> Lits]
    BY <2>2, <2>3
  <2> QED
    BY <2>1, <2>4
<1> HIDE DEF g
<1>18. AllDistinct(s)
  <2> SUFFICES ASSUME NEW j \in 1 .. size, NEW k \in 1 .. size, Var(s[j]) = Var(s[k]) PROVE j = k
    BY <1>17 DEF AllDistinct
  <2>1. g(j) = g(k)
    BY <1>2, <1>14
  <2> QED
    BY <1>15, <2>1
<1>19. s[1] = q[1]
  BY <1>14, <1>16
<1>20. \A k \in 2 .. size : \E j \in 2 .. n : s[k] = q[j]
  <2> SUFFICES ASSUME NEW k \in 2 .. size PROVE \E j \in 2 .. n : s[k] = q[j]
    OBVIOUS
  <2>1. k \in 1 .. size /\ k # 1
    BY <1>1, <1>2
  <2>2. g(k) \in 1 .. n /\ g(k) # 1 /\ s[k] = q[g(k)]
    BY <1>14, <1>15, <1>16, <2>1
  <2>3. g(k) \in 2 .. n
    BY <1>2, <2>2
  <2> QED
    BY <2>2, <2>3
<1> QED
  BY <1>1, <1>17, <1>18, <1>19, <1>20 DEF Drawn, n
-----------------------------------------------------------------------------
(* The end of analyze.                                                     *)
LEMMA TailSet ==
    ASSUME NEW q \in Seq(Lits), Len(q) >= 1
    PROVE  /\ Tail(q) \in Seq(Lits) /\ Len(Tail(q)) = Len(q) - 1
           /\ \A x : x \in ToSet(Tail(q)) <=> \E k \in 2 .. Len(q) : q[k] = x
<1> DEFINE n == Len(q)
           t == Tail(q)
<1>1. n \in Nat /\ n >= 1
  OBVIOUS
<1>2. t \in Seq(Lits) /\ Len(t) = n - 1 /\ \A i \in 1 .. n - 1 : t[i] = q[i + 1]
  OBVIOUS
<1> HIDE DEF t, n
<1>3. DOMAIN t = 1 .. n - 1
  BY <1>2, Element
<1>4. \A x : x \in ToSet(t) <=> \E i \in 1 .. n - 1 : t[i] = x
  BY <1>3 DEF ToSet
<1>5. /\ \A i \in 1 .. n - 1 : i + 1 \in 2 .. n
      /\ \A k \in 2 .. n : k - 1 \in 1 .. n - 1 /\ (k - 1) + 1 = k
  BY <1>1
<1>6. \A x : x \in ToSet(t) <=> \E k \in 2 .. n : q[k] = x
  BY <1>2, <1>4, <1>5
<1> QED
  BY <1>2, <1>6 DEF t, n

LEMMA DrawnTwice ==
    ASSUME NEW q, NEW s, NEW t, Drawn(q, s) /\ Drawn(s, t)
    PROVE  Drawn(q, t)
BY DEF Drawn

(* The second literal is then of the highest level after the first.        *)
SecondHighest(t) == \A k \in 2 .. Len(t) : level(t[k]) <= level(t[2])

LEMMA SecondDrawn ==
    ASSUME IInv, NEW s, NEW q, Drawn(q, s), NEW t, t = HighestSecond(s)
    PROVE  Drawn(s, t) /\ Len(t) = Len(s) /\ SecondHighest(t)
<1> DEFINE n == Len(s)
<1>1. s \in Seq(Lits) /\ n \in Nat /\ n >= 1 /\ AllDistinct(s)
  BY DEF Drawn
<1>2. CASE n = 1
  <2>1. t = s
    BY <1>2 DEF HighestSecond
  <2>2. \A k : k \notin 2 .. n
    BY <1>2
  <2> QED
    BY <1>1, <2>1, <2>2 DEF Drawn, SecondHighest
<1>3. CASE n # 1
  <2> DEFINE I == 2 .. n
             m == Max({level(s[k]) : k \in I})
             b == Min({k \in I : level(s[k]) = m})
  <2>1. \A k \in Nat : k >= 1 /\ k # 1 => k >= 2 /\ 2 \in 2 .. k /\ 2 \in 1 .. k
    OBVIOUS
  <2>2. n >= 2 /\ 2 \in 2 .. n /\ 2 \in 1 .. n
    BY <1>1, <1>3, <2>1
  <2>3. \A x : x \in ToSet(Tail(s)) <=> \E k \in 2 .. n : s[k] = x
    BY <1>1, TailSet
  <2>4. MaxLevelOf(Tail(s)) = m
    <3>1. {level(l) : l \in ToSet(Tail(s))} = {level(s[k]) : k \in 2 .. n}
      BY <2>3
    <3> QED
      BY <3>1 DEF MaxLevelOf
  <2>5. t = SwapAt(s, 2, b)
    BY <1>3, <2>4 DEF HighestSecond
  <2>6. I \in SUBSET (1 .. Len(s)) /\ I # {} /\ IsSeq(s) /\ ToSet(s) \subseteq Lits
    BY <1>1, <2>2, Element DEF IsSeq
  <2>7. b \in I /\ level(s[b]) = m /\ \A k \in I : level(s[k]) <= m
    <3> HIDE DEF I
    <3> QED
      BY <2>6, Shapes, TopLevelPlace
  <2> HIDE DEF b, m
  <2>12. CanSwap(Lits, s, 2, b)
    <3>1. b \in 1 .. n
      BY <1>1, <2>7
    <3> QED
      BY <1>1, <2>2, <3>1 DEF CanSwap
  <2>13. Swapped(Lits, s, 2, b, t)
    BY <2>5, <2>12, SwapFacts
  <2>14. /\ t \in Seq(Lits) /\ Len(t) = n /\ AllDistinct(t)
         /\ \A k \in 1 .. n : t[k] = IF k = b THEN s[2] ELSE IF k = 2 THEN s[b] ELSE s[k]
    BY <1>1, <2>13 DEF Swapped
  <2>15. t[1] = s[1] /\ t[2] = s[b]
    <3>1. 1 \in 1 .. n /\ b # 1 /\ 1 # 2
      BY <1>1, <2>7
    <3>2. b = 2 => t[2] = s[2]
      BY <2>2, <2>14
    <3> QED
      BY <2>2, <2>14, <3>1, <3>2
  <2>16. \A k \in 2 .. n : \E j \in 2 .. n : t[k] = s[j]
    <3> SUFFICES ASSUME NEW k \in 2 .. n PROVE \E j \in 2 .. n : t[k] = s[j]
      OBVIOUS
    <3>1. k \in 1 .. n
      BY <1>1
    <3> QED
      BY <2>2, <2>7, <2>14, <3>1
  <2>17. \A k \in 2 .. n : level(t[k]) <= level(t[2])
    BY <2>7, <2>15, <2>16
  <2> QED
    BY <1>1, <2>14, <2>15, <2>16, <2>17 DEF Drawn, SecondHighest
<1> QED
  BY <1>2, <1>3

(* The clause as the minimization leaves it.                               *)
EndOut == IF CcMinMode = 0 THEN learnt ELSE ana.kept

LEMMA EndOutDrawn ==
    ASSUME IInv, pc = "minimize", ana.i > Len(learnt) \/ CcMinMode = 0
    PROVE  Drawn(learnt, EndOut)
<1>1. LearntInv /\ MinimizeInv /\ Len(learnt) >= 1 /\ ana.kept \in Seq(Lits)
  BY Shapes, AnaShape DEF AnalysisInv, Analyzing, LitSeq
<1>2. learnt \in Seq(Lits) /\ AllDistinct(learnt) /\ Len(learnt) \in Nat
  BY <1>1 DEF LearntInv, LitSeq
<1>3. CASE CcMinMode = 0
  BY <1>1, <1>2, <1>3 DEF Drawn, EndOut
<1>4. CASE CcMinMode # 0
  <2>1. EndOut = ana.kept
    BY <1>4 DEF EndOut
  <2>2. ana.i - 1 = Len(learnt)
    BY <1>1, <1>2, <1>4 DEF MinimizeInv
  <2> QED
    BY <1>1, <2>1, <2>2 DEF MinimizeInv, Drawn
<1> QED
  BY <1>3, <1>4

(* The watchers that remove literals.                                      *)
Removers(q) == {w \in [cref : DOMAIN ca, blocker : Lits] : Var(w.blocker) \in VarsOf(Tail(q))}
FirstPlaces(ws) == {k \in 1 .. Len(ws) : \A j \in 1 .. k - 1 : ws[j].blocker # ws[k].blocker}

LEMMA RemoversFound ==
    ASSUME IInv, NEW q \in Seq(Lits), Len(q) >= 1
    PROVE  FirstPerLiteral(BinaryResolvents(q)) \in Seq(Removers(q))
<1> DEFINE all == watches["bin"][-q[1]]
           W == [cref : DOMAIN ca, blocker : Lits]
           D == {k \in DOMAIN all : Var(all[k].blocker) \in VarsOf(Tail(q)) /\ IsTrue(all[k].blocker)}
           ws == PickAt(all, D)
           F == FirstPlaces(ws)
<1>1. all \in Seq(W)
  <2>1. 1 \in 1 .. Len(q) /\ q[1] \in Lits /\ -q[1] \in Lits
    BY Element, LitFacts
  <2>2. watches \in [{"bin", "long"} -> [Lits -> Seq([cref : CRefs, blocker : Lits])]]
    BY Shapes DEF TypeOK
  <2> QED
    BY <2>1, <2>2 DEF CRefs
<1>2. BinaryResolvents(q) = ws
  BY DEF BinaryResolvents, Selected, PickAt
<1> HIDE DEF all
<1>3. D \in SUBSET DOMAIN all
  OBVIOUS
<1>4. ws \in Seq(W) /\ \A x \in ToSet(ws) : \E k \in D : x = all[k]
  BY <1>1, <1>3, Picked, PickedSet
<1>5. \A x \in ToSet(ws) : x \in W /\ Var(x.blocker) \in VarsOf(Tail(q))
  BY <1>4, Element
<1> HIDE DEF D, ws
<1>6. ws \in Seq(Removers(q))
  <2>1. \A i \in 1 .. Len(ws) : ws[i] \in Removers(q)
    BY <1>4, <1>5, Element DEF Removers
  <2>2. ws \in [1 .. Len(ws) -> Removers(q)] /\ Len(ws) \in Nat
    BY <1>4, <2>1
  <2> QED
    BY <2>2
<1>7. FirstPerLiteral(ws) = PickAt(ws, F)
  <2> DEFINE IsFirst(k) == \A j \in 1 .. k - 1 : ws[j].blocker # ws[k].blocker
  <2>1. Places(Len(ws), IsFirst) = Ascending[F]
    BY DEF Places, FirstPlaces
  <2> QED
    BY <2>1 DEF FirstPerLiteral, PickAt
<1>8. F \in SUBSET DOMAIN ws
  BY <1>4, Element DEF FirstPlaces
<1>9. PickAt(ws, F) \in Seq(Removers(q))
  <2> HIDE DEF F
  <2> QED
    BY <1>6, <1>8, Picked
<1> QED
  BY <1>2, <1>7, <1>9
(* What analyze ends with, its parts named.                                *)
EndUsed ==
    IF lbd(EndOut) <= 6 /\ Len(EndOut) <= 30 THEN FirstPerLiteral(BinaryResolvents(EndOut)) ELSE <<>>
EndGone == {Var(EndUsed[k].blocker) : k \in DOMAIN EndUsed}
EndShort == Shrunk(EndOut, EndGone)
EndHints == [k \in DOMAIN EndUsed |-> ca[EndUsed[k].cref].cid]
EndLevel(t) == IF Len(EndShort) = 1 THEN 0 ELSE level(t[2])

LEMMA EndParts ==
    ASSUME analyzeEnd
    PROVE  /\ pc = "minimize" /\ (ana.i > Len(learnt) \/ CcMinMode = 0) /\ pc' = "backtrack"
           /\ UNCHANGED <<minimizeFrame, ca>>
           /\ an' = AddHints(an, EndHints) /\ learnt' = HighestSecond(EndShort)
           /\ ana' = [NoAnalysis EXCEPT !.nDecisionLevel = ana.nDecisionLevel, !.btlevel = EndLevel(learnt')]
           /\ seen' = seen \ VarsOf(ana.toclear)
BY DEF analyzeEnd, EndOut, EndUsed, EndGone, EndShort, EndHints, EndLevel

LEMMA EndRemoved ==
    ASSUME IInv, Drawn(learnt, EndOut)
    PROVE  Removes(EndOut, EndGone) /\ EndHints \in Seq(DOMAIN db)
<1> DEFINE q == EndOut
           u == EndUsed
<1>1. q \in Seq(Lits) /\ Len(q) >= 1 /\ AllDistinct(q)
  BY DEF Drawn
<1>2. u \in Seq(Removers(q))
  <2> HIDE DEF q
  <2>1. FirstPerLiteral(BinaryResolvents(q)) \in Seq(Removers(q))
    BY <1>1, RemoversFound
  <2>2. <<>> \in Seq(Removers(q))
    OBVIOUS
  <2> QED
    BY <2>1, <2>2 DEF EndUsed, q
<1>3. DOMAIN u = 1 .. Len(u) /\ Len(u) \in Nat
      /\ \A k \in DOMAIN u : u[k].cref \in DOMAIN ca /\ Var(u[k].blocker) \in VarsOf(Tail(q))
  <2> HIDE DEF u, q
  <2>1. DOMAIN u = 1 .. Len(u) /\ Len(u) \in Nat /\ \A k \in 1 .. Len(u) : u[k] \in Removers(q)
    BY <1>2, Element
  <2> QED
    BY <2>1 DEF Removers
<1> HIDE DEF u
<1>4. \A v \in EndGone : \E k \in 2 .. Len(q) : Var(q[k]) = v
  <2> SUFFICES ASSUME NEW v \in EndGone PROVE \E k \in 2 .. Len(q) : Var(q[k]) = v
    OBVIOUS
  <2>1. PICK j \in DOMAIN u : v = Var(u[j].blocker)
    BY DEF EndGone, u
  <2>2. v \in VarsOf(Tail(q))
    BY <1>3, <2>1
  <2> HIDE DEF q
  <2>3. Tail(q) \in Seq(Lits) /\ \A x : x \in ToSet(Tail(q)) <=> \E k \in 2 .. Len(q) : q[k] = x
    BY <1>1, TailSet
  <2>4. PICK l \in ToSet(Tail(q)) : v = Var(l)
    BY <2>2, <2>3, VarsOfSet
  <2> QED
    BY <2>3, <2>4
<1>5. EndHints \in Seq(DOMAIN db)
  <2>1. DOMAIN db = 1 .. Len(db)
    BY Shapes, LogTypes
  <2>2. \A k \in DOMAIN u : ca[u[k].cref].cid \in DOMAIN db
    BY <1>3, <2>1, Shapes, ClauseTypes
  <2>3. EndHints = [k \in 1 .. Len(u) |-> ca[u[k].cref].cid]
    BY <1>3 DEF EndHints, u
  <2>4. EndHints \in [1 .. Len(u) -> DOMAIN db]
    BY <1>3, <2>2, <2>3
  <2> QED
    BY <1>3, <2>4
<1> QED
  BY <1>1, <1>4, <1>5 DEF Removes

LEMMA HintsJoined ==
    ASSUME NEW d, NEW a \in HintType(d), NEW cids \in Seq(DOMAIN d), NEW b, b = AddHints(a, cids)
    PROVE  b \in HintType(d) /\ (a.hints # <<>> => b.hints # <<>>)
<1>1. a.hints \in Seq(DOMAIN d)
  BY DEF HintType
<1>2. \A X : \A s, t \in Seq(X) : s \o t \in Seq(X) /\ (s # <<>> => s \o t # <<>>)
  OBVIOUS
<1> DEFINE more == a.hints \o cids
<1>3. b = [a EXCEPT !.hints = more] /\ more \in Seq(DOMAIN d) /\ (a.hints # <<>> => more # <<>>)
  BY <1>1, <1>2 DEF AddHints
<1> HIDE DEF more
<1> QED
  BY <1>3 DEF HintType

LEMMA EndLearnt ==
    ASSUME IInv, analyzeEnd, UNCHANGED <<assigns, vardata>>
    PROVE  /\ LearntInv' /\ BacktrackInv' /\ AnaTypes' /\ ana'.nDecisionLevel = ana.nDecisionLevel
           /\ learnt' \in Seq(Lits) /\ Len(learnt') >= 1
<1> DEFINE t == learnt'
           lev == EndLevel(t)
           s == EndShort
<1>1. Drawn(learnt, EndOut)
  BY EndParts, EndOutDrawn
<1>2. Drawn(EndOut, s)
  BY <1>1, EndRemoved, ShrunkDrawn DEF EndShort
<1>3. t = HighestSecond(s)
  BY EndParts
<1> HIDE DEF s, t
<1>4. Drawn(s, t) /\ Len(t) = Len(s) /\ SecondHighest(t)
  BY <1>2, <1>3, SecondDrawn
<1>5. Drawn(learnt, t)
  <2>1. Drawn(learnt, s)
    BY <1>1, <1>2, DrawnTwice
  <2> QED
    BY <1>4, <2>1, DrawnTwice
<1>6. LearntInv /\ learnt \in Seq(Lits) /\ Len(learnt) \in Nat /\ Len(learnt) >= 1
  <2>1. LearntInv /\ Len(learnt) >= 1
    BY EndParts, Shapes DEF AnalysisInv, Analyzing
  <2> QED
    BY <2>1 DEF LearntInv, LitSeq
<1>7. /\ t \in Seq(Lits) /\ Len(t) >= 1 /\ Len(t) \in Nat /\ AllDistinct(t) /\ t[1] = learnt[1]
      /\ \A k \in 2 .. Len(t) : \E m \in 2 .. Len(learnt) : t[k] = learnt[m]
  BY <1>5 DEF Drawn
<1>8. \A k \in 1 .. Len(t) : \E m \in 1 .. Len(learnt) : t[k] = learnt[m]
  <2> SUFFICES ASSUME NEW k \in 1 .. Len(t) PROVE \E m \in 1 .. Len(learnt) : t[k] = learnt[m]
    OBVIOUS
  <2>1. CASE k = 1
    BY <1>6, <1>7, <2>1
  <2>2. CASE k # 1
    <3>1. k \in 2 .. Len(t)
      BY <1>7, <2>2
    <3> QED
      BY <1>6, <1>7, <3>1
  <2> QED
    BY <2>1, <2>2
<1>9. /\ AllFalse(t) /\ level(t[1]) = N
      /\ \A k \in 2 .. Len(t) : t[k] # 0 /\ IsFalse(t[k]) /\ level(t[k]) \in 1 .. N - 1
  <2>1. AllFalse(t)
    <3> SUFFICES ASSUME NEW l \in ToSet(t) PROVE IsFalse(l)
      BY DEF AllFalse
    <3>1. PICK k \in 1 .. Len(t) : t[k] = l
      BY <1>7, Element
    <3>2. PICK m \in 1 .. Len(learnt) : t[k] = learnt[m]
      BY <1>8
    <3>3. l \in ToSet(learnt)
      BY <1>6, <3>1, <3>2, Element
    <3> QED
      BY <1>6, <3>3 DEF LearntInv, AllFalse
  <2>2. level(t[1]) = N /\ LowerLearnt
    BY <1>6, <1>7 DEF LearntInv
  <2>3. \A k \in 2 .. Len(t) : t[k] # 0 /\ IsFalse(t[k]) /\ level(t[k]) \in 1 .. N - 1
    BY <1>7, <2>2 DEF LowerLearnt
  <2> QED
    BY <2>1, <2>2, <2>3
<1>10. lev = (IF Len(t) = 1 THEN 0 ELSE level(t[2])) /\ lev \in Nat
  <2>1. lev = IF Len(t) = 1 THEN 0 ELSE level(t[2])
    BY <1>4 DEF EndLevel, s
  <2>2. CASE Len(t) = 1
    BY <2>1, <2>2
  <2>3. CASE Len(t) # 1
    <3>0. \A k \in Nat : k >= 1 /\ k # 1 => 2 \in 1 .. k
      OBVIOUS
    <3>1. 2 \in 1 .. Len(t)
      BY <1>7, <2>3, <3>0
    <3>2. t[2] \in Lits
      BY <1>7, <3>1, Element
    <3> QED
      BY <2>1, <2>3, <3>2, LevelType, Shapes
  <2> QED
    BY <2>1, <2>2, <2>3
<1>11. \A k \in 2 .. Len(t) : level(t[k]) <= lev
  <2>1. CASE Len(t) = 1
    BY <2>1
  <2>2. CASE Len(t) # 1
    BY <1>4, <1>10, <2>2 DEF SecondHighest
  <2> QED
    BY <2>1, <2>2
<1>12. ana' = [NoAnalysis EXCEPT !.nDecisionLevel = ana.nDecisionLevel, !.btlevel = lev]
  BY EndParts DEF t
<1> HIDE DEF lev
<1>13. ana'.nDecisionLevel = ana.nDecisionLevel /\ ana'.btlevel = lev /\ AnaTypes'
  <2> DEFINE A == [p : Lits \cup {0}, index : Nat, pathC : Nat, nDecisionLevel : Nat, toclear : LitSeq,
                   levels : SUBSET Nat, i : Nat, kept : LitSeq, stack : LitSeq, top : Nat, btlevel : Nat]
  <2>1. NoAnalysis \in A
    BY DEF NoAnalysis, LitSeq
  <2>2. ana.nDecisionLevel \in Nat
    BY AnaShape
  <2> QED
    BY <1>10, <1>12, <2>1, <2>2 DEF AnaTypes
<1>14. LearntInv'
  <2>1. t = learnt'
    BY DEF t
  <2>2. N' = N
    BY <1>13 DEF N
  <2>3. learnt' \in LitSeq /\ AllDistinct(learnt')
    BY <1>7, <2>1 DEF LitSeq
  <2>4. (AllFalse(learnt))'
    BY <1>9, <2>1 DEF AllFalse, IsFalse
  <2>5. (level(learnt[1]))' = N'
    BY <1>9, <2>1, <2>2 DEF level
  <2>6. LowerLearnt'
    BY <1>9, <2>1, <2>2 DEF LowerLearnt, IsFalse, level
  <2> QED
    BY <2>3, <2>4, <2>5, <2>6 DEF LearntInv
<1>15. BacktrackInv'
  BY <1>10, <1>11, <1>13 DEF BacktrackInv, level, t
<1> QED
  BY <1>7, <1>13, <1>14, <1>15 DEF t

LEMMA AnalyzeEndRest ==
    ASSUME IInv, analyzeEnd, UNCHANGED <<vivifyVars, inputFrame>>
    PROVE  Rest'
<1>1. /\ pc = "minimize" /\ pc' = "backtrack" /\ seen' = seen \ VarsOf(ana.toclear)
      /\ UNCHANGED <<watches, dirty, assigns, vardata, trail, trail_lim, qhead, ok, db, unitCids, prop,
                     confl, ca, searching, conflicts, viv, due, problem, next, restarts, reductions>>
  BY EndParts DEF minimizeFrame, trailVars, vivifyVars, inputFrame, inputVars, budgetVars
<1>2. /\ searching /\ N \in 1 .. decisionLevel /\ confl \in DOMAIN ca \cup {CRef_Undef}
      /\ seen \subseteq VarsOf(ana.toclear) /\ an.hints # <<>>
  BY <1>1, Shapes, TypeParts DEF ControlInv, AnalysisInv, MinimizeInv, Analyzing, PlaceInv, CRefs
<1>3. /\ LearntInv' /\ BacktrackInv' /\ AnaTypes' /\ ana'.nDecisionLevel = ana.nDecisionLevel
      /\ learnt' \in Seq(Lits) /\ Len(learnt') >= 1
  BY <1>1, EndLearnt
<1>4. an' \in HintType(db) /\ an'.hints # <<>>
  <2>1. EndHints \in Seq(DOMAIN db)
    BY EndParts, EndOutDrawn, EndRemoved
  <2> DEFINE b == an'
  <2>2. b = AddHints(an, EndHints) /\ an \in HintType(db)
    BY EndParts, HintsNow
  <2> HIDE DEF b
  <2>3. b \in HintType(db) /\ b.hints # <<>>
    BY <1>2, <2>1, <2>2, HintsJoined
  <2> QED
    BY <2>3 DEF b
<1>5. StaysAnalyzing
  BY <1>1, <1>2, SameMemory DEF StaysAnalyzing, Analyzing
<1>6. seen' = {} /\ learnt' \in Seq(Lits \cup {0})
  BY <1>1, <1>2, <1>3
<1>7. LogInv' /\ PlaceInv' /\ ControlInv' /\ HandInv' /\ VivInv' /\ PlainInv'
  BY <1>1, <1>2, <1>4, <1>5, <1>6, AnalyzingFrame, AnalyzingPlain
<1>8. N' = N /\ decisionLevel' = decisionLevel
  BY <1>1, <1>3 DEF N, decisionLevel
<1>9. AnalysisInv' /\ NoTraceOfAnalysis'
  BY <1>1, <1>2, <1>3, <1>4, <1>6, <1>8 DEF AnalysisInv, NoTraceOfAnalysis
<1> QED
  BY <1>7, <1>9 DEF Rest
-----------------------------------------------------------------------------
(* Going back, and the learnt clause.                                      *)
LEMMA PlainStays ==
    ASSUME IInv, UNCHANGED <<ok, searching, due, conflicts, restarts, reductions, problem, next>>,
           seen' \subseteq Vars, pc' \in Phases, learnt' \in Seq(Lits \cup {0})
    PROVE  PlainInv'
<1>1. PlainInv
  BY TypeParts
<1>2. formula' = formula
  BY DEF formula
<1> QED
  BY <1>1, <1>2 DEF PlainInv

LEMMA BacktrackRest ==
    ASSUME IInv, backtrack, UNCHANGED <<vivifyVars, inputFrame>>
    PROVE  Rest'
<1> DEFINE b == IF ChronoBacktrack THEN ana.nDecisionLevel - 1 ELSE ana.btlevel
<1>1. /\ pc = "backtrack" /\ cancelUntil(b) /\ pc' = "learn"
      /\ UNCHANGED <<ca, watches, dirty, vardata, ok, db, an, unitCids, seen, prop, confl, searching,
                     conflicts, learnt, ana, viv, due, problem, next, restarts, reductions>>
  BY DEF backtrack, clauseVars, tracerVars, analysisVars, vivifyVars, inputFrame, inputVars, budgetVars
<1>2. /\ b \in Nat /\ b < decisionLevel /\ b + 1 <= N /\ ana.btlevel <= b
      /\ N \in 1 .. Len(trail_lim) /\ N \in Nat /\ ana.btlevel \in Nat
  BY <1>1, BackLevel, Lims DEF N
<1> HIDE DEF b
<1>3. settled = Len(trail) /\ done = trail_lim[N]
  BY <1>1, WhereNow DEF Assuming, Analyzing, N
<1>4. trail_lim[b + 1] <= done
  BY <1>2, <1>3, Lims
<1>5. CanCancel(ca, b, done)
  BY <1>2, <1>3, <1>4, TrailShape DEF CanCancel
<1>6. Len(trail_lim') = b /\ Lowered(assigns, vardata, b, assigns')
  BY <1>1, <1>5, Cancel
<1>7. Len(trail') \in Nat /\ qhead' \in 0 .. Len(trail')
  BY <1>1, <1>5, CancelFrame DEF CancelOf
<1>8. viv.cr = CRef_Undef /\ ~viv.on /\ NoneHeld /\ prop.lit = 0 /\ searching
  <2>1. searching
    BY <1>1, Shapes DEF ControlInv
  <2> QED
    BY <1>1, <2>1, SearchFree, NotScanning DEF Analyzing
<1>9. LogInv'
  BY <1>1, SameLogTypes, TypeParts DEF LogInv
<1>10. PlaceInv'
  <2>1. /\ confl \in DOMAIN ca \cup {CRef_Undef}
        /\ \A v \in Vars : vardata[v].reason \in DOMAIN ca \cup {CRef_Undef}
    BY TypeParts DEF PlaceInv, CRefs
  <2> QED
    BY <1>1, <1>7, <1>8, <2>1, FreePlace
<1>11. PlainInv'
  <2>1. seen \subseteq Vars /\ learnt \in Seq(Lits \cup {0}) /\ <<>> \in Seq(Lits \cup {0})
    BY TypeParts DEF PlainInv
  <2> QED
    BY <1>1, <2>1, PlainStays DEF Phases
<1>12. ControlInv'
  <2>1. ControlInv
    BY Shapes
  <2> QED
    BY <1>1, <1>8, <2>1 DEF ControlInv, Propagating, Simple, Analyzing
<1>13. HandInv' /\ VivInv'
  BY <1>1, <1>8, FreeHand DEF Vivifying, Assuming
<1>14. LearnInv'
  <2>1. LearntInv /\ BacktrackInv /\ Len(learnt) >= 1
    BY <1>1, Shapes DEF AnalysisInv, Analyzing
  <2>2. learnt \in Seq(Lits) /\ AllDistinct(learnt) /\ AllFalse(learnt) /\ level(learnt[1]) = N /\ LowerLearnt
    BY <2>1 DEF LearntInv, LitSeq
  <2>3. Len(learnt) \in Nat /\ \A k \in 1 .. Len(learnt) : learnt[k] \in Lits /\ learnt[k] \in ToSet(learnt)
    BY <2>2, Element
  <2>4. \A v \in Vars : assigns'[v] = IF assigns[v] # 0 /\ vardata[v].level > b THEN 0 ELSE assigns[v]
    BY <1>6 DEF Lowered
  <2>5. (IsUndef(learnt[1]))'
    <3>1. learnt[1] \in Lits /\ IsFalse(learnt[1])
      BY <2>1, <2>2, <2>3 DEF AllFalse
    <3>2. Var(learnt[1]) \in Vars /\ assigns[Var(learnt[1])] # 0
      BY <3>1, LitFacts DEF IsFalse
    <3>3. vardata[Var(learnt[1])].level > b
      BY <1>2, <2>2 DEF level
    <3> QED
      BY <1>1, <2>4, <3>2, <3>3 DEF IsUndef
  <2>6. \A k \in 2 .. Len(learnt) : (IsFalse(learnt[k]))' /\ level(learnt[k]) \in 1 .. ana.btlevel
    <3> SUFFICES ASSUME NEW k \in 2 .. Len(learnt)
                 PROVE  (IsFalse(learnt[k]))' /\ level(learnt[k]) \in 1 .. ana.btlevel
      OBVIOUS
    <3>1. k \in 1 .. Len(learnt)
      BY <2>3
    <3>2. IsFalse(learnt[k]) /\ level(learnt[k]) \in 1 .. N - 1 /\ level(learnt[k]) <= ana.btlevel
      BY <2>1, <2>2 DEF LowerLearnt, BacktrackInv
    <3>3. level(learnt[k]) \in 1 .. ana.btlevel /\ ~(level(learnt[k]) > b)
      BY <1>2, <3>2
    <3>4. learnt[k] \in Lits /\ Var(learnt[k]) \in Vars
      BY <2>3, <3>1, LitFacts
    <3>5. assigns'[Var(learnt[k])] = assigns[Var(learnt[k])]
      BY <2>4, <3>3, <3>4 DEF level
    <3> QED
      BY <1>1, <3>2, <3>3, <3>5 DEF IsFalse
  <2>7. ana.btlevel = IF Len(learnt) = 1 THEN 0 ELSE level(learnt[2])
    BY <2>1 DEF BacktrackInv
  <2>8. ana.btlevel <= Len(trail_lim')
    BY <1>2, <1>6
  <2>9. \A k \in 2 .. Len(learnt) : level(learnt[k])' \in 1 .. ana.btlevel /\ (IsFalse(learnt[k]))'
    BY <1>1, <2>6 DEF level
  <2> QED
    BY <1>1, <2>2, <2>5, <2>7, <2>8, <2>9 DEF LearnInv, level, LitSeq, decisionLevel
<1>15. AnalysisInv' /\ NoTraceOfAnalysis'
  <2>1. Len(learnt) >= 1 /\ an.hints # <<>> /\ seen = {} /\ AnaTypes
    BY <1>1, Shapes DEF AnalysisInv, Analyzing, NoTraceOfAnalysis
  <2>2. AnaTypes'
    BY <1>1, SameAna
  <2> QED
    BY <1>1, <1>14, <2>1, <2>2 DEF AnalysisInv, Analyzing, NoTraceOfAnalysis
<1> QED
  BY <1>9, <1>10, <1>11, <1>12, <1>13, <1>15 DEF Rest

LEMMA AnalysisNone == ASSUME ana' = NoAnalysis PROVE AnaTypes'
BY DEF AnaTypes, NoAnalysis, LitSeq

LEMMA LearnUnitRest ==
    ASSUME IInv, learnUnit, UNCHANGED <<vivifyVars, inputFrame>>
    PROVE  Rest'
<1> DEFINE p == learnt[1]
<1>1. /\ pc = "learn" /\ Len(learnt) = 1 /\ uncheckedEnqueue(p, 0, CRef_Undef, db, an)
      /\ learnt' = <<>> /\ ana' = NoAnalysis /\ pc' = "clean"
      /\ UNCHANGED <<ca, watches, dirty, trail_lim, qhead, ok, seen, prop, confl, searching, conflicts,
                     viv, due, problem, next, restarts, reductions>>
  BY DEF learnUnit, learnFrame, vivifyVars, inputFrame, inputVars, budgetVars
<1>2. p \in Lits /\ IsUndef(p) /\ searching
  <2>1. LearnInv /\ searching
    BY <1>1, Shapes DEF AnalysisInv, ControlInv
  <2>2. learnt \in Seq(Lits)
    BY <2>1 DEF LearnInv, LitSeq
  <2>3. 1 \in 1 .. Len(learnt)
    BY <1>1
  <2> QED
    BY <2>1, <2>2, <2>3, Element DEF LearnInv
<1> HIDE DEF p
<1>3. unitCids[Var(p)] = NoCid
  BY <1>2, NoUnitYet
<1>4. Enqueues(p, CRef_Undef) /\ analyzeEnqueuePropagation(p, 0, CRef_Undef, db, an)
  BY <1>1, <1>2, EnqueueFrame
<1>5. an' = NoHints
  BY <1>3, <1>4 DEF analyzeEnqueuePropagation
<1>6. LogInv'
  <2>1. CanRecord(p, CRef_Undef, db, an)
    BY <1>2, HintsNow, LogContinues DEF CanRecord
  <2>2. /\ Continues(db, db') /\ an' \in HintType(db')
        /\ unitCids' \in [Vars -> DOMAIN db' \cup {NoCid}]
    BY <1>4, <2>1, EnqueueLog
  <2> DEFINE d2 == db'
  <2>3. Continues(db, d2)
    BY <2>2
  <2> HIDE DEF d2
  <2>4. d2 \in Log /\ \A c \in Clauses(db) : c \in Clauses(d2)
    BY <2>3, ContinuesTypes DEF Continues
  <2> QED
    BY <1>1, <2>2, <2>4, TypeParts DEF LogInv, d2
<1>7. viv.cr = CRef_Undef /\ ~viv.on /\ NoneHeld /\ prop.lit = 0
  <2>1. viv.cr = CRef_Undef /\ ~viv.on
    BY <1>2, NoHand, Shapes DEF ControlInv
  <2>2. NoneHeld
    <3>1. viv.on \in BOOLEAN /\ viv' = [viv EXCEPT !.on = viv.on]
      BY <1>1, VivShape
    <3> QED
      BY <2>1, <3>1 DEF NoneHeld
  <2> QED
    BY <1>1, <2>1, <2>2, NotScanning
<1>8. PlaceInv'
  <2>1. Len(trail') = Len(trail) + 1 /\ Len(trail) \in Nat
        /\ \A v \in Vars : vardata'[v].reason \in DOMAIN ca \cup {CRef_Undef}
    BY <1>4, TrailShape DEF Enqueues
  <2> QED
    BY <1>1, <2>1, PlaceGrows
<1>9. PlainInv'
  <2>1. seen \subseteq Vars /\ learnt \in Seq(Lits \cup {0}) /\ <<>> \in Seq(Lits \cup {0})
    BY TypeParts DEF PlainInv
  <2> QED
    BY <1>1, <2>1, PlainStays DEF Phases
<1>10. ControlInv'
  <2>1. due'.nbconf >= 1
    BY <1>1, Shapes DEF ControlInv
  <2> QED
    BY <1>1, <1>2, <1>7, <2>1, CalmControl
<1>11. HandInv' /\ VivInv'
  BY <1>1, <1>7, FreeHand DEF Vivifying, Assuming
<1>12. AnaTypes'
  BY <1>1, AnalysisNone
<1>13. seen' = {}
  BY <1>1, Shapes DEF NoTraceOfAnalysis
<1>14. AnalysisInv' /\ NoTraceOfAnalysis'
  BY <1>1, <1>5, <1>12, <1>13, NoAnalysisNext DEF Calm, NoTraceOfAnalysis
<1> QED
  BY <1>6, <1>8, <1>9, <1>10, <1>11, <1>14 DEF Rest

LEMMA LearnClauseRest ==
    ASSUME IInv, learnClause, UNCHANGED <<vivifyVars, inputFrame>>
    PROVE  Rest'
<1> DEFINE p == learnt[1]
           cr == Len(ca) + 1
           r == Resolvent(an, learnt, GetOrigin(an))
           d == Append(db, r)
           new == NewClause(learnt, TRUE, Len(db) + 1)
<1>1. /\ pc = "learn" /\ Len(learnt) > 1 /\ uncheckedEnqueue(p, ana.btlevel, cr, d, NoHints)
      /\ ca' = Append(ca, new)
      /\ learnt' = <<>> /\ ana' = NoAnalysis /\ pc' = "clean"
      /\ UNCHANGED <<dirty, trail_lim, qhead, ok, seen, prop, confl, searching, conflicts,
                     viv, due, problem, next, restarts, reductions>>
  BY DEF learnClause, learnFrame, vivifyVars, inputFrame, inputVars, budgetVars
<1>2. /\ p \in Lits /\ IsUndef(p) /\ searching /\ learnt \in Seq(Lits) /\ ana.btlevel \in Nat /\ ana.btlevel >= 1
  BY <1>1, LearnShape, Shapes DEF ControlInv
<1> HIDE DEF p, cr
<1>3. Enqueues(p, cr) /\ analyzeEnqueuePropagation(p, ana.btlevel, cr, d, NoHints)
  <2> HIDE DEF d
  <2> QED
    BY <1>1, <1>2, EnqueueFrame
<1>4. an' = NoHints /\ db' = d /\ unitCids' = unitCids
  BY <1>2, <1>3 DEF analyzeEnqueuePropagation
<1>5. /\ db \in Log /\ DOMAIN db \subseteq Nat /\ Len(db) \in Nat /\ r \in RecordType
  <2>1. db \in Log /\ DOMAIN db \subseteq Nat /\ Len(db) \in Nat
    BY LogContinues, ContinuesParts, TypeParts DEF LogInv
  <2> QED
    BY <1>2, <2>1, HintsNow, RecordOf
<1> HIDE DEF r
<1>6. Continues(db, d) /\ Len(d) = Len(db) + 1
  BY <1>5, ContinuesOne
<1> HIDE DEF d
<1>7. /\ d \in Log /\ ca \in Clauses(d) /\ NoHints \in HintType(d) /\ DOMAIN d = 1 .. Len(d)
      /\ unitCids \in [Vars -> DOMAIN d \cup {NoCid}]
  <2>1. ca \in Clauses(db) /\ NoHints \in HintType(db) /\ unitCids \in [Vars -> DOMAIN db \cup {NoCid}]
    BY HintsNow, TypeParts DEF LogInv
  <2> QED
    BY <1>6, <2>1, ContinuesTypes, ContinuesParts DEF Continues
<1>8. ca' \in Clauses(d) /\ DOMAIN ca \subseteq DOMAIN ca' /\ cr \in DOMAIN ca'
  <2> DEFINE n == Len(db) + 1
  <2>1. n \in DOMAIN d
    BY <1>5, <1>6, <1>7
  <2> HIDE DEF n
  <2>2. /\ Append(ca, NewClause(learnt, TRUE, n)) \in Clauses(d)
        /\ DOMAIN ca \subseteq DOMAIN Append(ca, NewClause(learnt, TRUE, n))
        /\ Len(ca) + 1 \in DOMAIN Append(ca, NewClause(learnt, TRUE, n))
    BY <1>2, <1>7, <2>1, ClauseAdded
  <2> QED
    BY <1>1, <2>2 DEF n, cr
<1>9. LogInv'
  BY <1>4, <1>7, <1>8 DEF LogInv
<1>10. viv.cr = CRef_Undef /\ ~viv.on /\ NoneHeld /\ prop.lit = 0
  <2>1. viv.cr = CRef_Undef /\ ~viv.on
    BY <1>2, NoHand, Shapes DEF ControlInv
  <2>2. NoneHeld
    <3>1. viv.on \in BOOLEAN /\ viv' = [viv EXCEPT !.on = viv.on]
      BY <1>1, VivShape
    <3> QED
      BY <2>1, <3>1 DEF NoneHeld
  <2> QED
    BY <1>1, <2>1, <2>2, NotScanning
<1>11. PlaceInv'
  <2>1. Len(trail') = Len(trail) + 1 /\ Len(trail) \in Nat
        /\ \A v \in Vars : vardata'[v].reason \in DOMAIN ca \cup {cr, CRef_Undef}
    BY <1>3, TrailShape DEF Enqueues
  <2>2. \A v \in Vars : vardata'[v].reason \in DOMAIN ca' \cup {CRef_Undef}
    BY <1>8, <2>1
  <2> QED
    BY <1>1, <1>8, <2>1, <2>2, PlaceGrows
<1>12. PlainInv'
  <2>1. seen \subseteq Vars /\ learnt \in Seq(Lits \cup {0}) /\ <<>> \in Seq(Lits \cup {0})
    BY TypeParts DEF PlainInv
  <2> QED
    BY <1>1, <2>1, PlainStays DEF Phases
<1>13. ControlInv'
  <2>1. due'.nbconf >= 1
    BY <1>1, Shapes DEF ControlInv
  <2> QED
    BY <1>1, <1>2, <1>10, <2>1, CalmControl
<1>14. HandInv' /\ VivInv'
  BY <1>1, <1>10, FreeHand DEF Vivifying, Assuming
<1>15. AnaTypes'
  BY <1>1, AnalysisNone
<1>16. seen' = {}
  BY <1>1, Shapes DEF NoTraceOfAnalysis
<1>17. AnalysisInv' /\ NoTraceOfAnalysis'
  BY <1>1, <1>4, <1>15, <1>16, NoAnalysisNext DEF Calm, NoTraceOfAnalysis
<1> QED
  BY <1>9, <1>11, <1>12, <1>13, <1>14, <1>17 DEF Rest

(* Every step of the handling of a conflict.                               *)
LEMMA ConflictHandlingRest ==
    ASSUME IInv, conflictHandling, UNCHANGED <<vivifyVars, inputFrame>>
    PROVE  Rest'
<1> HIDE DEF Rest
<1> QED
  BY LevelZeroConflictRest, SearchLevelZeroRest, SingleHighestRest, AnalyzeBeginRest, AnalyzeResolveRest,
     MinimizeKeepRest, LitRedundantBeginRest, LitRedundantStepRest, LitRedundantTrueRest,
     LitRedundantFalseRest, AnalyzeEndRest, BacktrackRest, LearnUnitRest, LearnClauseRest
     DEF conflictHandling

-----------------------------------------------------------------------------
(* Vivification.  What its steps leave alone, and where they go.           *)
VivStep ==
    /\ UNCHANGED <<vivifyFrame, inputFrame>>
    /\ pc \in {"propagate"} \cup Vivifying /\ pc' \in {"clean", "propagate"} \cup Vivifying
    /\ due' \in [curSimplify : Nat, nbconf : Nat] /\ searching' \in BOOLEAN

LEMMA VivStepRest ==
    ASSUME IInv, VivStep, pc' = "simplified" \/ an' = NoHints
    PROVE  PlainInv' /\ AnalysisInv' /\ NoTraceOfAnalysis'
<1>1. /\ UNCHANGED <<ok, seen, conflicts, learnt, ana, problem, next, restarts, reductions>>
      /\ due' \in [curSimplify : Nat, nbconf : Nat] /\ searching' \in BOOLEAN
      /\ pc \in {"propagate"} \cup Vivifying /\ pc' \in {"clean", "propagate"} \cup Vivifying
  BY DEF VivStep, vivifyFrame, inputFrame, inputVars, budgetVars
<1>2. seen = {}
  BY <1>1, Shapes DEF NoTraceOfAnalysis, Vivifying, Assuming
<1>3. PlainInv'
  <2>1. PlainInv /\ pc' \in Phases
    BY <1>1, TypeParts DEF Phases, Vivifying, Assuming
  <2>2. formula' = formula
    BY <1>1 DEF formula
  <2> QED
    BY <1>1, <2>1, <2>2 DEF PlainInv
<1>4. AnaTypes'
  BY <1>1, SameAna
<1>5. Calm'
  BY <1>1 DEF Calm, Vivifying, Assuming
<1>6. AnalysisInv'
  BY <1>4, <1>5, NoAnalysisNext
<1>7. NoTraceOfAnalysis'
  BY <1>1, <1>2 DEF NoTraceOfAnalysis
<1> QED
  BY <1>3, <1>6, <1>7

(* Vivification runs between decisions.                                    *)
LEMMA VivNow ==
    ASSUME IInv, pc \in Vivifying \/ viv.on \/ viv.cr # CRef_Undef
    PROVE  /\ ~searching /\ searching \in BOOLEAN
           /\ due \in [curSimplify : Nat, nbconf : Nat] /\ due.nbconf >= 1
           /\ pc \notin {"sat", "unsat"} => trail_lim = <<>>
<1>1. HandInv /\ ControlInv /\ PlainInv
  BY Shapes, TypeParts
<1>2. viv.on
  BY <1>1 DEF HandInv
<1> QED
  BY <1>1, <1>2 DEF ControlInv, PlainInv

(* What refers to the trail and the memory, when both stay.                *)
LEMMA VivPlace ==
    ASSUME IInv, UNCHANGED <<vardata, trail, qhead, prop>>, DOMAIN ca' = DOMAIN ca,
           confl' \in DOMAIN ca \cup {CRef_Undef},
           viv' \in [on : BOOLEAN, cr : CRefs \cup {CRef_Undef}, i : Nat, kept : LitSeq,
                     falseLit : LitSeq, True_confl : BOOLEAN, trailRecord : 0 .. Len(trail)]
    PROVE  PlaceInv'
<1>1. PlaceInv
  BY TypeParts
<1> QED
  BY <1>1 DEF PlaceInv, CRefs

(* The clause in hand stays while it is being shortened.                   *)
LEMMA HandGoesOn ==
    ASSUME IInv, pc \in Vivifying, pc' \in Vivifying, viv'.cr = viv.cr, viv'.on = viv.on,
           ca'[viv.cr].freed = ca[viv.cr].freed
    PROVE  HandInv'
<1>1. HandInv
  BY Shapes
<1>2. viv.cr # CRef_Undef /\ viv.on /\ ~ca[viv.cr].freed
  BY <1>1 DEF HandInv
<1> HIDE DEF Vivifying
<1> QED
  BY <1>2 DEF HandInv

(* The lists of vivification are done.                                     *)
LEMMA SimplifyAllDoneRest ==
    ASSUME IInv, simplifyAllDone, UNCHANGED inputFrame
    PROVE  Rest'
<1>1. /\ BetweenClauses /\ viv' = NotVivifying
      /\ due' = [curSimplify |-> (conflicts \div due.nbconf) + 1, nbconf |-> due.nbconf + SimplifyEvery]
      /\ searching' = TRUE /\ pc' = "clean"
      /\ UNCHANGED <<ca, watches, dirty, assigns, vardata, trail, trail_lim, qhead, db, an, unitCids,
                     prop, confl, problem>>
      /\ UNCHANGED <<vivifyFrame, inputFrame>>
  BY DEF simplifyAllDone, clauseVars, trailVars, tracerVars, inputFrame, inputVars
<1>2. pc = "propagate" /\ prop.lit = 0 /\ viv.on /\ viv.cr = CRef_Undef /\ QueueEmpty
  <2>1. QueueEmpty /\ viv.on /\ viv.cr = CRef_Undef
    BY <1>1 DEF BetweenClauses
  <2> QED
    BY <2>1, AllPropagated
<1>3. due' \in [curSimplify : Nat, nbconf : Nat] /\ due'.nbconf >= 1
  <2>1. due \in [curSimplify : Nat, nbconf : Nat] /\ due.nbconf >= 1 /\ conflicts \in Nat
    BY <1>2, VivNow, TypeParts DEF PlainInv
  <2>2. due.nbconf \in Nat /\ SimplifyEvery \in Nat
    BY <2>1, SimplifyAssumption
  <2>3. \A a, b \in Nat : b >= 1 => a \div b \in Nat
    OBVIOUS
  <2>4. conflicts \div due.nbconf \in Nat
    BY <2>1, <2>2, <2>3
  <2> DEFINE n == conflicts \div due.nbconf
  <2>5. n \in Nat /\ due' = [curSimplify |-> n + 1, nbconf |-> due.nbconf + SimplifyEvery]
    BY <1>1, <2>4
  <2> HIDE DEF n
  <2> QED
    BY <2>1, <2>2, <2>5
<1>4. an = NoHints
  BY <1>2, Pending
<1>5. VivStep
  BY <1>1, <1>2, <1>3 DEF VivStep
<1>6. PlainInv' /\ AnalysisInv' /\ NoTraceOfAnalysis'
  BY <1>1, <1>4, <1>5, VivStepRest
<1>7. LogInv'
  <2>1. ca' \in Clauses(db)
    BY <1>1, Shapes
  <2> QED
    BY <1>1, <2>1, SameLogTypes
<1>8. NoneHeld
  <2> DEFINE o == viv.on
             z == NotVivifying
  <2>1. viv = [z EXCEPT !.on = o]
    BY <1>2, Shapes DEF HandInv
  <2>2. z \in [on : {FALSE}, cr : {CRef_Undef}, i : {1}, kept : {<<>>}, falseLit : {<<>>},
               True_confl : {FALSE}, trailRecord : {0}]
    BY DEF NotVivifying
  <2> HIDE DEF o, z
  <2>3. z = [viv EXCEPT !.on = FALSE]
    BY <2>1, <2>2
  <2>4. viv' = [viv EXCEPT !.on = FALSE]
    BY <1>1, <2>3 DEF z
  <2> QED
    BY <1>2, <2>4 DEF NoneHeld
<1>9. PlaceInv'
  <2>1. confl' \in DOMAIN ca' \cup {CRef_Undef} /\ Len(trail') \in Nat /\ qhead' \in 0 .. Len(trail')
        /\ \A v \in Vars : vardata'[v].reason \in DOMAIN ca' \cup {CRef_Undef}
    BY <1>1, TypeParts, TrailShape DEF PlaceInv, CRefs
  <2> QED
    BY <1>1, <1>8, <2>1, FreePlace
<1>10. ControlInv'
  <2>1. ~viv'.on
    BY <1>1 DEF NotVivifying
  <2> QED
    BY <1>1, <1>2, <1>3, <2>1, CalmControl
<1>11. HandInv' /\ VivInv'
  BY <1>1, <1>8, FreeHand DEF Vivifying, Assuming
<1> QED
  BY <1>6, <1>7, <1>9, <1>10, <1>11 DEF Rest

(* Everything implied by the assumptions has been found, without conflict. *)
LEMMA SimplePropagateDoneRest ==
    ASSUME IInv, simplePropagateDone, UNCHANGED inputFrame
    PROVE  Rest'
<1>1. /\ pc = "simplePropagate" /\ prop.lit = 0 /\ pc' = "simplifyLearnt"
      /\ UNCHANGED <<ca, watches, dirty, assigns, vardata, trail, trail_lim, qhead, db, an, unitCids,
                     prop, confl, problem, viv, due, searching>>
      /\ UNCHANGED <<vivifyFrame, inputFrame>>
  BY DEF simplePropagateDone, Simple, clauseVars, trailVars, tracerVars, inputFrame, inputVars, vivifyVars
<1>2. pc \in Vivifying /\ pc' \in Vivifying /\ pc \in Assuming
  BY <1>1 DEF Vivifying, Assuming
<1>3. /\ ~searching /\ searching \in BOOLEAN /\ trail_lim = <<>>
      /\ due \in [curSimplify : Nat, nbconf : Nat] /\ due.nbconf >= 1
  BY <1>1, <1>2, VivNow
<1>4. an = NoHints
  BY <1>1, Pending
<1>5. VivStep
  BY <1>1, <1>2, <1>3 DEF VivStep
<1>6. PlainInv' /\ AnalysisInv' /\ NoTraceOfAnalysis'
  BY <1>1, <1>4, <1>5, VivStepRest
<1>7. LogInv'
  <2>1. ca' \in Clauses(db)
    BY <1>1, Shapes
  <2> QED
    BY <1>1, <2>1, SameLogTypes
<1>8. PlaceInv'
  BY <1>1, TypeParts, VivShape, VivPlace DEF PlaceInv, CRefs
<1>9. ControlInv'
  BY <1>1, <1>3, CalmControl
<1>10. HandInv'
  BY <1>1, <1>2, HandGoesOn
<1>11. VivInv'
  <2>1. VivInv
    BY Shapes
  <2>2. ~viv.True_confl
    BY <1>1, <1>2, <2>1 DEF VivInv
  <2>3. reason(0) = vardata[Var(0)].reason
    BY DEF reason
  <2> QED
    BY <1>1, <1>2, <2>1, <2>2 DEF VivInv, Assuming, vivLits, reason, Usable
<1> QED
  BY <1>6, <1>7, <1>8, <1>9, <1>10, <1>11 DEF Rest

(* What is common to the steps that look at a literal of the clause in     *)
(* hand.                                                                   *)
LooksAt ==
    /\ NextLiteral /\ UNCHANGED <<ca, trail_lim, prop, due, searching, db, an, unitCids, problem>>
    /\ UNCHANGED <<vivifyFrame, inputFrame>>
    /\ pc' \in Assuming /\ viv'.cr = viv.cr /\ viv'.on = viv.on

LEMMA LooksAtRest ==
    ASSUME IInv, LooksAt
    PROVE  /\ LogInv' /\ PlainInv' /\ AnalysisInv' /\ NoTraceOfAnalysis' /\ HandInv'
           /\ ~searching /\ trail_lim = <<>> /\ prop.lit = 0 /\ due.nbconf >= 1
<1>1. /\ NextLiteral /\ UNCHANGED <<ca, trail_lim, prop, due, searching, db, an, unitCids, problem>>
      /\ UNCHANGED <<vivifyFrame, inputFrame>>
      /\ pc' \in Assuming /\ viv'.cr = viv.cr /\ viv'.on = viv.on
  BY DEF LooksAt
<1>2. pc = "simplifyLearnt" /\ pc \in Vivifying /\ pc' \in Vivifying /\ prop.lit = 0
  BY <1>1, LiteralShape DEF Vivifying, Assuming
<1>3. /\ ~searching /\ searching \in BOOLEAN /\ trail_lim = <<>>
      /\ due \in [curSimplify : Nat, nbconf : Nat] /\ due.nbconf >= 1
  BY <1>2, VivNow
<1>4. an = NoHints
  BY <1>2, Pending
<1>5. VivStep
  <2>1. searching' \in BOOLEAN /\ due' \in [curSimplify : Nat, nbconf : Nat]
    BY <1>1, <1>3
  <2> QED
    BY <1>1, <1>2, <2>1 DEF VivStep
<1>6. PlainInv' /\ AnalysisInv' /\ NoTraceOfAnalysis'
  BY <1>1, <1>4, <1>5, VivStepRest
<1>7. LogInv'
  <2>1. ca' \in Clauses(db)
    BY <1>1, Shapes
  <2> QED
    BY <1>1, <2>1, SameLogTypes
<1>8. HandInv'
  BY <1>1, <1>2, HandGoesOn
<1> QED
  BY <1>2, <1>3, <1>6, <1>7, <1>8

(* What VivInv says while the literals of the clause are looked at.        *)
LEMMA LookShape ==
    ASSUME IInv, NextLiteral
    PROVE  /\ Len(vivLits) >= 2 /\ viv.i \in 1 .. Len(vivLits) /\ Len(vivLits) \in Nat /\ viv.i \in Nat
           /\ \A l \in ToSet(vivLits) : \A i \in 1 .. viv.trailRecord : Var(trail[i]) # Var(l)
           /\ \A l \in ToSet(viv.kept) : \E k \in 1 .. viv.i - 1 : vivLits[k] = l
           /\ AllDistinct(viv.kept) /\ viv.kept \in Seq(Lits)
           /\ \A i \in viv.trailRecord + 1 .. Len(trail) :
                IF reason(trail[i]) = CRef_Undef
                  THEN -trail[i] \in ToSet(viv.kept) ELSE Usable(reason(trail[i]))
           /\ ~viv.True_confl /\ an = NoHints
           /\ vivLits \in Seq(Lits) /\ AllDistinct(vivLits) /\ vivLit \in Lits
           /\ viv.trailRecord \in 0 .. Len(trail) /\ Len(trail) \in Nat
<1>1. /\ pc = "simplifyLearnt" /\ pc \in Assuming /\ viv.cr # CRef_Undef /\ vivLit \in Lits
      /\ viv.i \in 1 .. Len(vivLits)
  BY LiteralShape DEF Assuming
<1>2. VivInv
  BY Shapes
<1>3. ~viv.True_confl
  BY <1>1, <1>2 DEF VivInv
<1>4. viv.kept \in Seq(Lits) /\ viv.trailRecord \in 0 .. Len(trail) /\ Len(trail) \in Nat
  BY VivShape, TrailShape DEF LitSeq
<1>5. vivLits \in Seq(Lits) /\ AllDistinct(vivLits) /\ Len(vivLits) \in Nat
  BY <1>1, HandShape
<1> QED
  BY <1>1, <1>2, <1>3, <1>4, <1>5 DEF VivInv

(* The literal looked at is not among those kept: of another variable.     *)
LEMMA KeptOthers ==
    ASSUME IInv, NextLiteral
    PROVE  /\ \A y \in ToSet(viv.kept) : Var(y) # Var(vivLit)
           /\ ToSet(Append(viv.kept, vivLit)) = ToSet(viv.kept) \cup {vivLit}
           /\ AllDistinct(Append(viv.kept, vivLit)) /\ Append(viv.kept, vivLit) \in Seq(Lits)
<1>1. /\ viv.i \in 1 .. Len(vivLits) /\ Len(vivLits) \in Nat /\ viv.i \in Nat
      /\ \A l \in ToSet(viv.kept) : \E k \in 1 .. viv.i - 1 : vivLits[k] = l
      /\ AllDistinct(viv.kept) /\ viv.kept \in Seq(Lits) /\ AllDistinct(vivLits) /\ vivLit \in Lits
      /\ DOMAIN vivLits = 1 .. Len(vivLits)
  BY LookShape, Element
<1>2. \A y \in ToSet(viv.kept) : Var(y) # Var(vivLit)
  <2> SUFFICES ASSUME NEW y \in ToSet(viv.kept), Var(y) = Var(vivLit)
               PROVE  FALSE
    OBVIOUS
  <2>1. PICK k \in 1 .. viv.i - 1 : vivLits[k] = y
    BY <1>1
  <2>2. k \in 1 .. Len(vivLits) /\ k # viv.i
    BY <1>1
  <2> QED
    BY <1>1, <2>1, <2>2 DEF AllDistinct, vivLit
<1> DEFINE s == viv.kept
           x == vivLit
<1>3. s \in Seq(Lits) /\ AllDistinct(s) /\ x \in Lits /\ \A y \in ToSet(s) : Var(y) # Var(x)
  BY <1>1, <1>2
<1> HIDE DEF s, x
<1>4. ToSet(Append(s, x)) = ToSet(s) \cup {x} /\ AllDistinct(Append(s, x)) /\ Append(s, x) \in Seq(Lits)
  BY <1>3, AppendDistinct
<1> QED
  BY <1>2, <1>4 DEF s, x

LEMMA AssumeControl ==
    ASSUME IInv, UNCHANGED <<problem, prop, due, trail_lim, searching>>, prop.lit = 0, ~searching,
           trail_lim = <<>>, pc' \in {"simplifyLearnt", "simplePropagate", "simpleAnalyze"},
           pc' = "simplePropagate" => Clean', pc' = "simpleAnalyze" => Usable(confl)'
    PROVE  ControlInv'
<1>1. ControlInv
  BY Shapes
<1>2. pc' \notin {"parse", "propagate", "conflict", "sat", "unsat"} \cup Analyzing /\ pc' # "learn"
  BY DEF Analyzing
<1> HIDE DEF Usable, Clean
<1>3. pc' \in {"simplePropagate", "conflict"} \cup Analyzing => Clean'
  BY <1>2 DEF Analyzing
<1>4. Propagating' => Clean'
  BY <1>2 DEF Propagating, Simple
<1> QED
  BY <1>1, <1>2, <1>3, <1>4 DEF ControlInv, Analyzing

(* A false literal is left out.                                            *)
LEMMA LiteralFalseRest ==
    ASSUME IInv, literalFalse, UNCHANGED inputFrame
    PROVE  Rest'
<1>1. /\ NextLiteral
      /\ viv' = [viv EXCEPT !.falseLit = Append(@, vivLit), !.i = @ + 1]
      /\ UNCHANGED <<ca, watches, dirty, assigns, vardata, trail, trail_lim, qhead, db, an, unitCids,
                     pc, prop, confl, problem, due, searching>>
      /\ UNCHANGED <<vivifyFrame, inputFrame>>
  BY DEF literalFalse, clauseVars, trailVars, tracerVars, inputFrame, inputVars
<1>2. pc = "simplifyLearnt" /\ pc \in Assuming /\ pc' = "simplifyLearnt"
  BY <1>1, LiteralShape DEF Assuming
<1>3. /\ vivLit \in Lits /\ viv \in [on : BOOLEAN, cr : CRefs \cup {CRef_Undef}, i : Nat, kept : LitSeq,
                 falseLit : LitSeq, True_confl : BOOLEAN, trailRecord : 0 .. Len(trail)]
  BY <1>1, LookShape, VivShape
<1>4. /\ viv' \in [on : BOOLEAN, cr : CRefs \cup {CRef_Undef}, i : Nat, kept : LitSeq,
                 falseLit : LitSeq, True_confl : BOOLEAN, trailRecord : 0 .. Len(trail)]
      /\ viv'.cr = viv.cr /\ viv'.on = viv.on /\ viv'.i = viv.i + 1 /\ viv'.kept = viv.kept
      /\ viv'.True_confl = viv.True_confl /\ viv'.trailRecord = viv.trailRecord
  <2> DEFINE f == Append(viv.falseLit, vivLit)
  <2>1. viv.falseLit \in Seq(Lits)
    BY <1>3 DEF LitSeq
  <2>2. f \in LitSeq
    BY <1>3, <2>1 DEF LitSeq
  <2> DEFINE n == viv.i + 1
             T == 0 .. Len(trail)
  <2>3. n \in Nat /\ viv' = [viv EXCEPT !.falseLit = f, !.i = n]
    BY <1>1, <1>3
  <2>4. viv \in [on : BOOLEAN, cr : CRefs \cup {CRef_Undef}, i : Nat, kept : LitSeq,
                 falseLit : LitSeq, True_confl : BOOLEAN, trailRecord : T]
    BY <1>3
  <2> HIDE DEF f, n, T
  <2>5. /\ viv' \in [on : BOOLEAN, cr : CRefs \cup {CRef_Undef}, i : Nat, kept : LitSeq,
                     falseLit : LitSeq, True_confl : BOOLEAN, trailRecord : T]
        /\ viv'.cr = viv.cr /\ viv'.on = viv.on /\ viv'.i = n /\ viv'.kept = viv.kept
        /\ viv'.True_confl = viv.True_confl /\ viv'.trailRecord = viv.trailRecord
    BY <2>2, <2>3, <2>4
  <2> QED
    BY <2>5 DEF n, T
<1>5. LooksAt
  BY <1>1, <1>2, <1>4 DEF LooksAt
<1>6. /\ LogInv' /\ PlainInv' /\ AnalysisInv' /\ NoTraceOfAnalysis' /\ HandInv'
      /\ ~searching /\ trail_lim = <<>> /\ prop.lit = 0
  BY <1>5, LooksAtRest
<1>7. PlaceInv'
  BY <1>1, <1>4, TypeParts, VivPlace DEF PlaceInv, CRefs
<1>8. ControlInv'
  BY <1>1, <1>2, <1>6, AssumeControl
<1>9. VivInv'
  <2>1. /\ Len(vivLits) >= 2 /\ viv.i \in 1 .. Len(vivLits) /\ Len(vivLits) \in Nat /\ viv.i \in Nat
        /\ \A l \in ToSet(vivLits) : \A i \in 1 .. viv.trailRecord : Var(trail[i]) # Var(l)
        /\ \A l \in ToSet(viv.kept) : \E k \in 1 .. viv.i - 1 : vivLits[k] = l
        /\ AllDistinct(viv.kept)
        /\ \A i \in viv.trailRecord + 1 .. Len(trail) :
             IF reason(trail[i]) = CRef_Undef
               THEN -trail[i] \in ToSet(viv.kept) ELSE Usable(reason(trail[i]))
        /\ ~viv.True_confl /\ an = NoHints
    BY <1>1, LookShape
  <2>2. vivLits' = vivLits /\ Len(vivLits) + 1 \in Nat
    BY <1>1, <1>4, <2>1 DEF vivLits
  <2>3. viv'.i \in 1 .. Len(vivLits) + 1
    BY <1>4, <2>1
  <2>4. \A l \in ToSet(viv.kept) :
          /\ \E k \in 1 .. Len(vivLits) : k <= viv'.i /\ vivLits[k] = l
          /\ \E k \in 1 .. viv'.i - 1 : vivLits[k] = l
    <3> SUFFICES ASSUME NEW l \in ToSet(viv.kept)
                 PROVE  /\ \E k \in 1 .. Len(vivLits) : k <= viv'.i /\ vivLits[k] = l
                        /\ \E k \in 1 .. viv'.i - 1 : vivLits[k] = l
      OBVIOUS
    <3>1. PICK k \in 1 .. viv.i - 1 : vivLits[k] = l
      BY <2>1
    <3>2. k \in 1 .. Len(vivLits) /\ k <= viv'.i /\ k \in 1 .. viv'.i - 1
      BY <1>4, <2>1
    <3> QED
      BY <3>1, <3>2
  <2>5. \A i \in viv.trailRecord + 1 .. Len(trail) :
             IF reason(trail[i])' = CRef_Undef
               THEN -trail[i] \in ToSet(viv.kept) ELSE Usable(reason(trail[i]))'
    BY <1>1, <1>4, <2>1 DEF reason, Usable
  <2> HIDE DEF Usable
  <2> QED
    BY <1>1, <1>2, <1>4, <2>1, <2>2, <2>3, <2>4, <2>5 DEF VivInv
<1> QED
  BY <1>6, <1>7, <1>8, <1>9 DEF Rest

(* A literal that is true follows from the others assumed false: the       *)
(* clause behind it is looked at.                                          *)
LEMMA ImpliedReason ==
    ASSUME IInv, NextLiteral, IsTrue(vivLit)
    PROVE  Usable(reason(vivLit))
<1>1. /\ vivLit \in Lits /\ viv.trailRecord \in 0 .. Len(trail) /\ Len(trail) \in Nat
      /\ \A l \in ToSet(vivLits) : \A i \in 1 .. viv.trailRecord : Var(trail[i]) # Var(l)
      /\ \A i \in viv.trailRecord + 1 .. Len(trail) :
           IF reason(trail[i]) = CRef_Undef
             THEN -trail[i] \in ToSet(viv.kept) ELSE Usable(reason(trail[i]))
  BY LookShape
<1>2. vivLit \in ToSet(vivLits)
  BY LiteralShape
<1>3. Assigned(assigns, trail) /\ DOMAIN trail = 1 .. Len(trail)
  BY TrailShape
<1>4. PICK j \in 1 .. Len(trail) : trail[j] = vivLit
  BY <1>1, <1>3, LitFacts DEF Assigned, IsTrue
<1>5. j \in viv.trailRecord + 1 .. Len(trail)
  <2>1. ~(j \in 1 .. viv.trailRecord)
    BY <1>1, <1>2, <1>4
  <2> QED
    BY <1>1, <1>4, <2>1
<1>6. reason(vivLit) # CRef_Undef
  <2> SUFFICES ASSUME reason(vivLit) = CRef_Undef
               PROVE  FALSE
    OBVIOUS
  <2>1. -vivLit \in ToSet(viv.kept)
    BY <1>1, <1>4, <1>5
  <2>2. Var(-vivLit) # Var(vivLit)
    BY <2>1, KeptOthers
  <2> QED
    BY <1>1, <2>2, LitFacts
<1> QED
  BY <1>1, <1>4, <1>5, <1>6

LEMMA LiteralTrueRest ==
    ASSUME IInv, literalTrue, UNCHANGED inputFrame
    PROVE  Rest'
<1>1. /\ NextLiteral /\ IsTrue(vivLit) /\ pc' = "simpleAnalyze" /\ confl' = reason(vivLit)
      /\ viv' = [viv EXCEPT !.kept = Append(@, vivLit), !.True_confl = TRUE]
      /\ UNCHANGED <<ca, watches, dirty, assigns, vardata, trail, trail_lim, qhead, db, an, unitCids,
                     prop, problem, due, searching>>
      /\ UNCHANGED <<vivifyFrame, inputFrame>>
  BY DEF literalTrue, clauseVars, trailVars, tracerVars, inputFrame, inputVars
<1>2. pc' \in Assuming
  BY <1>1 DEF Assuming
<1> DEFINE kept2 == Append(viv.kept, vivLit)
<1>3. /\ vivLit \in Lits /\ kept2 \in Seq(Lits) /\ AllDistinct(kept2)
      /\ ToSet(kept2) = ToSet(viv.kept) \cup {vivLit} /\ kept2 # <<>> /\ Last(kept2) = vivLit
  <2>1. vivLit \in Lits /\ viv.kept \in Seq(Lits)
    BY <1>1, LookShape
  <2>2. kept2 # <<>> /\ Last(kept2) = vivLit
    <3>1. Len(viv.kept) \in Nat /\ Len(kept2) = Len(viv.kept) + 1 /\ kept2[Len(viv.kept) + 1] = vivLit
      BY <2>1
    <3> HIDE DEF kept2
    <3>2. kept2 # <<>>
      BY <3>1
    <3> QED
      BY <3>1, <3>2 DEF Last
  <2> QED
    BY <1>1, <2>1, <2>2, KeptOthers
<1>4. viv' = [viv EXCEPT !.kept = kept2, !.True_confl = TRUE]
  BY <1>1
<1> HIDE DEF kept2
<1>5. /\ viv' \in [on : BOOLEAN, cr : CRefs \cup {CRef_Undef}, i : Nat, kept : LitSeq,
                   falseLit : LitSeq, True_confl : BOOLEAN, trailRecord : 0 .. Len(trail)]
      /\ viv'.cr = viv.cr /\ viv'.on = viv.on /\ viv'.i = viv.i /\ viv'.kept = kept2
      /\ viv'.True_confl /\ viv'.trailRecord = viv.trailRecord
  <2> DEFINE T == 0 .. Len(trail)
  <2>1. viv \in [on : BOOLEAN, cr : CRefs \cup {CRef_Undef}, i : Nat, kept : LitSeq,
                 falseLit : LitSeq, True_confl : BOOLEAN, trailRecord : T]
    BY VivShape
  <2>2. kept2 \in LitSeq
    BY <1>3 DEF LitSeq
  <2> HIDE DEF T
  <2>3. /\ viv' \in [on : BOOLEAN, cr : CRefs \cup {CRef_Undef}, i : Nat, kept : LitSeq,
                     falseLit : LitSeq, True_confl : BOOLEAN, trailRecord : T]
        /\ viv'.cr = viv.cr /\ viv'.on = viv.on /\ viv'.i = viv.i /\ viv'.kept = kept2
        /\ viv'.True_confl /\ viv'.trailRecord = viv.trailRecord
    BY <1>4, <2>1, <2>2
  <2> QED
    BY <2>3 DEF T
<1>6. LooksAt
  BY <1>1, <1>2, <1>5 DEF LooksAt
<1>7. /\ LogInv' /\ PlainInv' /\ AnalysisInv' /\ NoTraceOfAnalysis' /\ HandInv'
      /\ ~searching /\ trail_lim = <<>> /\ prop.lit = 0
  BY <1>6, LooksAtRest
<1>8. Usable(confl') /\ \A cr : Usable(cr) => Usable(cr)'
  <2>1. Usable(confl')
    BY <1>1, ImpliedReason
  <2> QED
    BY <1>1, <1>5, <2>1 DEF Usable
<1>9. PlaceInv'
  <2>1. confl' \in DOMAIN ca \cup {CRef_Undef}
    BY <1>8 DEF Usable
  <2> QED
    BY <1>1, <1>5, <2>1, VivPlace
<1>10. ControlInv'
  <2>1. Usable(confl)'
    BY <1>1, <1>5, <1>8 DEF Usable
  <2> QED
    BY <1>1, <1>7, <2>1, AssumeControl
<1>11. VivInv'
  <2>1. /\ Len(vivLits) >= 2 /\ viv.i \in 1 .. Len(vivLits) /\ Len(vivLits) \in Nat /\ viv.i \in Nat
        /\ \A l \in ToSet(vivLits) : \A i \in 1 .. viv.trailRecord : Var(trail[i]) # Var(l)
        /\ \A l \in ToSet(viv.kept) : \E k \in 1 .. viv.i - 1 : vivLits[k] = l
        /\ \A i \in viv.trailRecord + 1 .. Len(trail) :
             IF reason(trail[i]) = CRef_Undef
               THEN -trail[i] \in ToSet(viv.kept) ELSE Usable(reason(trail[i]))
        /\ an = NoHints
    BY <1>1, LookShape
  <2>2. vivLits' = vivLits /\ vivLits[viv.i] = vivLit
    BY <1>1, <1>5 DEF vivLits, vivLit
  <2>3. viv.i \in 1 .. Len(vivLits) + 1
    BY <2>1
  <2>4. \A l \in ToSet(kept2) : \E k \in 1 .. Len(vivLits) : k <= viv.i /\ vivLits[k] = l
    <3> SUFFICES ASSUME NEW l \in ToSet(kept2)
                 PROVE  \E k \in 1 .. Len(vivLits) : k <= viv.i /\ vivLits[k] = l
      OBVIOUS
    <3>1. CASE l = vivLit
      BY <2>1, <2>2, <3>1
    <3>2. CASE l \in ToSet(viv.kept)
      <4>1. PICK k \in 1 .. viv.i - 1 : vivLits[k] = l
        BY <2>1, <3>2
      <4>2. k \in 1 .. Len(vivLits) /\ k <= viv.i
        BY <2>1
      <4> QED
        BY <4>1, <4>2
    <3> QED
      BY <1>3, <3>1, <3>2
  <2>5. \A i \in viv.trailRecord + 1 .. Len(trail) :
             IF reason(trail[i])' = CRef_Undef
               THEN -trail[i] \in ToSet(kept2) ELSE Usable(reason(trail[i]))'
    <3> HIDE DEF Usable
    <3> SUFFICES ASSUME NEW i \in viv.trailRecord + 1 .. Len(trail)
                 PROVE  IF reason(trail[i])' = CRef_Undef
                          THEN -trail[i] \in ToSet(kept2) ELSE Usable(reason(trail[i]))'
      OBVIOUS
    <3>1. reason(trail[i])' = reason(trail[i])
      BY <1>1 DEF reason
    <3>2. Usable(reason(trail[i])) => Usable(reason(trail[i]))'
      <4> DEFINE c == reason(trail[i])
      <4>1. c' = c
        BY <3>1
      <4> QED
        BY <1>1, <1>5, <3>1 DEF Usable
    <3> QED
      BY <1>3, <2>1, <3>1, <3>2
  <2>6. IsTrue(vivLit)'
    <3>1. assigns' = assigns /\ vivLit' = vivLit
      BY <1>1, <1>5 DEF vivLit, vivLits
    <3> QED
      BY <1>1, <3>1 DEF IsTrue
  <2>7. IsTrue(Last(viv.kept))' /\ vivLit = Last(viv'.kept)
    BY <1>1, <1>3, <1>5 DEF IsTrue
  <2>8. UNCHANGED <<trail, an>> /\ pc' = "simpleAnalyze"
    BY <1>1
  <2>9. viv'.kept = kept2 /\ viv'.i = viv.i /\ viv'.trailRecord = viv.trailRecord /\ viv'.True_confl
    BY <1>5
  <2>10. viv.i <= Len(vivLits)
    BY <2>1
  <2> HIDE DEF Usable
  <2> QED
    BY <1>3, <2>1, <2>2, <2>3, <2>4, <2>5, <2>7, <2>8, <2>9, <2>10 DEF VivInv
<1> QED
  BY <1>7, <1>9, <1>10, <1>11 DEF Rest

(* A literal is assumed false.                                             *)
LEMMA AssumeFalseRest ==
    ASSUME IInv, assumeFalse, UNCHANGED inputFrame
    PROVE  Rest'
<1> DEFINE p == -vivLit
           kept2 == Append(viv.kept, vivLit)
           n == viv.i + 1
           T == 0 .. Len(trail)
<1>1. /\ NextLiteral /\ IsUndef(vivLit) /\ pc' = "simplePropagate" /\ cleanAll
      /\ simpleUncheckEnqueue(p, CRef_Undef)
      /\ UNCHANGED <<ca, trail_lim, qhead, confl, db, an, unitCids, prop, problem, due, searching>>
      /\ UNCHANGED <<vivifyFrame, inputFrame>>
  BY DEF assumeFalse, simpleUncheckEnqueue, tracerVars, inputFrame, inputVars
<1>2. viv' = [viv EXCEPT !.kept = kept2, !.i = n]
  BY DEF assumeFalse
<1>3. pc' \in Assuming
  BY <1>1 DEF Assuming
<1>4. /\ vivLit \in Lits /\ kept2 \in Seq(Lits) /\ AllDistinct(kept2)
      /\ ToSet(kept2) = ToSet(viv.kept) \cup {vivLit} /\ viv.i \in Nat /\ n \in Nat
      /\ p \in Lits /\ -p = vivLit /\ IsUndef(p)
  <2>1. vivLit \in Lits /\ viv.i \in Nat /\ n \in Nat
    BY <1>1, LookShape
  <2>2. p \in Lits /\ -p = vivLit /\ IsUndef(p)
    BY <1>1, <2>1, LitFacts DEF IsUndef
  <2>3. kept2 \in Seq(Lits) /\ AllDistinct(kept2) /\ ToSet(kept2) = ToSet(viv.kept) \cup {vivLit}
    BY <1>1, KeptOthers
  <2> QED
    BY <2>1, <2>2, <2>3
<1>5. Entered(p, CRef_Undef)
  <2> HIDE DEF p
  <2> QED
    BY <1>1, <1>4, SimplyEntered
<1> HIDE DEF p, kept2, T
<1>6. /\ Len(trail) \in Nat /\ Len(trail') = Len(trail) + 1 /\ trail'[Len(trail) + 1] = p
      /\ trail \in Seq(Lits) /\ \A i \in 1 .. Len(trail) : trail'[i] = trail[i] /\ trail[i] \in Lits
  BY <1>4, <1>5, TrailShape, Element DEF Entered
<1>7. /\ viv' \in [on : BOOLEAN, cr : CRefs \cup {CRef_Undef}, i : Nat, kept : LitSeq,
                   falseLit : LitSeq, True_confl : BOOLEAN, trailRecord : T]
      /\ viv'.cr = viv.cr /\ viv'.on = viv.on /\ viv'.i = n /\ viv'.kept = kept2
      /\ viv'.True_confl = viv.True_confl /\ viv'.trailRecord = viv.trailRecord
  <2>1. viv \in [on : BOOLEAN, cr : CRefs \cup {CRef_Undef}, i : Nat, kept : LitSeq,
                 falseLit : LitSeq, True_confl : BOOLEAN, trailRecord : T]
    BY VivShape DEF T
  <2>2. kept2 \in LitSeq
    BY <1>4 DEF LitSeq
  <2>3. n \in Nat
    BY <1>4
  <2> HIDE DEF n
  <2> QED
    BY <1>2, <2>1, <2>2, <2>3
<1>8. LooksAt
  BY <1>1, <1>3, <1>7 DEF LooksAt
<1>9. /\ LogInv' /\ PlainInv' /\ AnalysisInv' /\ NoTraceOfAnalysis' /\ HandInv'
      /\ ~searching /\ trail_lim = <<>> /\ prop.lit = 0
  BY <1>8, LooksAtRest
<1>10. PlaceInv'
  <2>1. PlaceInv
    BY TypeParts
  <2>2. \A v \in Vars : vardata'[v].reason \in CRefs \cup {CRef_Undef}
    BY <1>5, <2>1 DEF Entered, PlaceInv
  <2>3. qhead' \in 0 .. Len(trail')
    BY <1>1, <1>6, <2>1 DEF PlaceInv
  <2>4. CRefs' = CRefs /\ UNCHANGED <<confl, prop>>
    BY <1>1 DEF CRefs
  <2>5. viv' \in [on : BOOLEAN, cr : CRefs \cup {CRef_Undef}, i : Nat, kept : LitSeq,
                  falseLit : LitSeq, True_confl : BOOLEAN, trailRecord : 0 .. Len(trail')]
    <3>1. T \subseteq 0 .. Len(trail')
      BY <1>6 DEF T
    <3> QED
      BY <1>7, <3>1
  <2> QED
    BY <2>1, <2>2, <2>3, <2>4, <2>5 DEF PlaceInv
<1>11. ControlInv'
  <2>1. Clean'
    BY <1>1, CleanFacts
  <2> QED
    BY <1>1, <1>9, <2>1, AssumeControl
<1>12. VivInv'
  <2>1. /\ Len(vivLits) >= 2 /\ viv.i \in 1 .. Len(vivLits) /\ Len(vivLits) \in Nat /\ viv.i \in Nat
        /\ \A l \in ToSet(vivLits) : \A i \in 1 .. viv.trailRecord : Var(trail[i]) # Var(l)
        /\ \A l \in ToSet(viv.kept) : \E k \in 1 .. viv.i - 1 : vivLits[k] = l
        /\ \A i \in viv.trailRecord + 1 .. Len(trail) :
             IF reason(trail[i]) = CRef_Undef
               THEN -trail[i] \in ToSet(viv.kept) ELSE Usable(reason(trail[i]))
        /\ ~viv.True_confl /\ an = NoHints /\ viv.trailRecord \in 0 .. Len(trail)
    BY <1>1, LookShape
  <2>2. vivLits' = vivLits /\ vivLits[viv.i] = vivLit
    BY <1>1, <1>7 DEF vivLits, vivLit
  <2>3. n \in 1 .. Len(vivLits) + 1
    BY <2>1
  <2>4. \A l \in ToSet(kept2) : \E k \in 1 .. n - 1 : k \in 1 .. Len(vivLits) /\ k <= n /\ vivLits[k] = l
    <3> SUFFICES ASSUME NEW l \in ToSet(kept2)
                 PROVE  \E k \in 1 .. n - 1 : k \in 1 .. Len(vivLits) /\ k <= n /\ vivLits[k] = l
      OBVIOUS
    <3>1. CASE l = vivLit
      <4>1. viv.i \in 1 .. n - 1 /\ viv.i <= n
        BY <2>1
      <4> QED
        BY <2>1, <2>2, <3>1, <4>1
    <3>2. CASE l \in ToSet(viv.kept)
      <4>1. PICK k \in 1 .. viv.i - 1 : vivLits[k] = l
        BY <2>1, <3>2
      <4>2. k \in 1 .. n - 1 /\ k \in 1 .. Len(vivLits) /\ k <= n
        BY <2>1
      <4> QED
        BY <4>1, <4>2
    <3> QED
      BY <1>4, <3>1, <3>2
  <2>5. \A i \in viv.trailRecord + 1 .. Len(trail') :
             IF vardata'[Var(trail'[i])].reason = CRef_Undef
               THEN -trail'[i] \in ToSet(kept2) ELSE Usable(vardata'[Var(trail'[i])].reason)
    <3> HIDE DEF Usable, n
    <3> SUFFICES ASSUME NEW i \in viv.trailRecord + 1 .. Len(trail')
                 PROVE  IF vardata'[Var(trail'[i])].reason = CRef_Undef
                          THEN -trail'[i] \in ToSet(kept2) ELSE Usable(vardata'[Var(trail'[i])].reason)
      OBVIOUS
    <3>1. CASE i = Len(trail) + 1
      BY <1>4, <1>5, <1>6, <3>1 DEF Entered
    <3>2. CASE i # Len(trail) + 1
      <4>1. i \in viv.trailRecord + 1 .. Len(trail) /\ i \in 1 .. Len(trail)
        BY <1>6, <2>1, <3>2
      <4>2. trail'[i] = trail[i] /\ trail[i] \in Lits /\ Var(trail[i]) \in Vars
        BY <1>6, <4>1, LitFacts
      <4>3. Var(trail[i]) # Var(p)
        <5>1. Assigned(assigns, trail) /\ i \in DOMAIN trail
          BY <1>6, <4>1, TrailShape
        <5>2. assigns[Var(trail[i])] # 0
          BY <4>2, <5>1, LitFacts DEF Assigned
        <5> QED
          BY <1>4, <5>2 DEF IsUndef
      <4>4. vardata'[Var(trail[i])] = vardata[Var(trail[i])]
        BY <1>5, <4>2, <4>3 DEF Entered
      <4> QED
        BY <1>4, <2>1, <4>1, <4>2, <4>4 DEF reason
    <3> QED
      BY <3>1, <3>2
  <2>6. \A i \in viv.trailRecord + 1 .. Len(trail') :
             IF reason(trail[i])' = CRef_Undef
               THEN -trail'[i] \in ToSet(kept2) ELSE Usable(reason(trail[i]))'
    <3>1. \A cr : Usable(cr) => cr \in DOMAIN ca' /\ ~ca'[cr].freed /\ cr # viv'.cr
      BY <1>1, <1>7 DEF Usable
    <3> HIDE DEF Usable, n
    <3> QED
      BY <2>5, <3>1 DEF reason, Usable
  <2>7. \A l \in ToSet(vivLits) : \A i \in 1 .. viv.trailRecord : Var(trail'[i]) # Var(l)
    BY <1>6, <2>1
  <2>8. an' = NoHints /\ pc' = "simplePropagate"
    BY <1>1, <2>1
  <2> HIDE DEF Usable, n
  <2> QED
    BY <1>4, <1>7, <2>1, <2>2, <2>3, <2>4, <2>6, <2>7, <2>8 DEF VivInv
<1> QED
  BY <1>9, <1>10, <1>11, <1>12 DEF Rest

(* One clause of the memory is changed.                                    *)
OneChanged(d, c, c2, cr) ==
    /\ c \in Clauses(d) /\ DOMAIN c2 = DOMAIN c /\ c2 = [k \in DOMAIN c |-> c2[k]]
    /\ \A k \in DOMAIN c : k # cr => c2[k] = c[k]
    /\ cr \in DOMAIN c => c2[cr] \in ClauseRecord(d)

LEMMA OneChangedTypes ==
    ASSUME NEW d, NEW c, NEW c2, NEW cr, OneChanged(d, c, c2, cr)
    PROVE  c2 \in Clauses(d) /\ DOMAIN c2 = DOMAIN c
<1>1. Len(c) \in Nat /\ DOMAIN c = 1 .. Len(c) /\ \A k \in DOMAIN c : c[k] \in ClauseRecord(d)
  BY DEF Clauses, OneChanged
<1>2. \A k \in DOMAIN c : c2[k] \in ClauseRecord(d)
  BY <1>1 DEF OneChanged
<1>3. c2 = [k \in 1 .. Len(c) |-> c2[k]]
  BY <1>1 DEF OneChanged
<1>4. c2 \in [1 .. Len(c) -> ClauseRecord(d)]
  BY <1>1, <1>2, <1>3
<1>5. c2 \in Seq(ClauseRecord(d))
  <2>1. \A n \in Nat : \A X : \A f \in [1 .. n -> X] : f \in Seq(X)
    OBVIOUS
  <2> QED
    BY <1>1, <1>4, <2>1
<1> QED
  BY <1>5 DEF Clauses, OneChanged

(* A clause is marked, or gets other literals and another record.          *)
Flagged(c, c2, cr) == c2 = [c EXCEPT ![cr].simplified = TRUE] \/ c2 = [c EXCEPT ![cr].freed = TRUE]

LEMMA FlaggedClauses ==
    ASSUME NEW d, NEW c \in Clauses(d), NEW cr, NEW c2, Flagged(c, c2, cr)
    PROVE  c2 \in Clauses(d) /\ DOMAIN c2 = DOMAIN c
<1>1. DOMAIN c2 = DOMAIN c /\ c2 = [k \in DOMAIN c |-> c2[k]] /\ \A k \in DOMAIN c : k # cr => c2[k] = c[k]
  BY DEF Flagged
<1>2. cr \in DOMAIN c => c2[cr] \in ClauseRecord(d)
  <2> SUFFICES ASSUME cr \in DOMAIN c
               PROVE  c2[cr] \in ClauseRecord(d)
    OBVIOUS
  <2> DEFINE x == c[cr]
  <2>1. x \in ClauseRecord(d)
    BY DEF Clauses
  <2>2. c2[cr] = [x EXCEPT !.simplified = TRUE] \/ c2[cr] = [x EXCEPT !.freed = TRUE]
    BY DEF Flagged
  <2> HIDE DEF x
  <2> QED
    BY <2>1, <2>2 DEF ClauseRecord
<1>3. OneChanged(d, c, c2, cr)
  BY <1>1, <1>2 DEF OneChanged
<1> QED
  BY <1>3, OneChangedTypes

LEMMA RenumberedClauses ==
    ASSUME NEW d, NEW c \in Clauses(d), NEW cr, NEW q \in Seq(Lits), NEW n \in DOMAIN d,
           NEW c2, Renumbered(c, c2, cr, q, n)
    PROVE  c2 \in Clauses(d) /\ DOMAIN c2 = DOMAIN c
<1>1. DOMAIN c2 = DOMAIN c /\ c2 = [k \in DOMAIN c |-> c2[k]] /\ \A k \in DOMAIN c : k # cr => c2[k] = c[k]
  BY DEF Renumbered
<1>2. cr \in DOMAIN c => c2[cr] \in ClauseRecord(d)
  <2> SUFFICES ASSUME cr \in DOMAIN c
               PROVE  c2[cr] \in ClauseRecord(d)
    OBVIOUS
  <2> DEFINE x == c[cr]
  <2>1. x \in ClauseRecord(d)
    BY DEF Clauses
  <2>2. c2[cr] = [x EXCEPT !.lits = q, !.cid = n]
    BY DEF Renumbered
  <2> HIDE DEF x
  <2> QED
    BY <2>1, <2>2 DEF ClauseRecord, LitSeq
<1>3. OneChanged(d, c, c2, cr)
  BY <1>1, <1>2 DEF OneChanged
<1> QED
  BY <1>3, OneChangedTypes

(* The clause in hand is put back.                                         *)
PutsBack == viv' = [NotVivifying EXCEPT !.on = TRUE] /\ pc' \notin Vivifying

LEMMA PutBackRest ==
    ASSUME IInv, PutsBack
    PROVE  /\ HandInv' /\ VivInv' /\ viv'.on
           /\ viv' \in [on : BOOLEAN, cr : CRefs \cup {CRef_Undef}, i : Nat, kept : LitSeq,
                        falseLit : LitSeq, True_confl : BOOLEAN, trailRecord : 0 .. Len(trail)]
<1> DEFINE z == NotVivifying
           T == 0 .. Len(trail)
<1>1. z \in [on : {FALSE}, cr : {CRef_Undef}, i : {1}, kept : {<<>>}, falseLit : {<<>>},
             True_confl : {FALSE}, trailRecord : {0}]
  BY DEF NotVivifying
<1>2. viv' = [z EXCEPT !.on = TRUE] /\ pc' \notin Vivifying
  BY DEF PutsBack
<1> HIDE DEF z
<1>3. viv'.cr = CRef_Undef /\ viv'.on = TRUE
  BY <1>1, <1>2
<1>4. viv' = [z EXCEPT !.on = viv'.on]
  <2> DEFINE o == TRUE
  <2>1. viv'.on = o /\ viv' = [z EXCEPT !.on = o]
    BY <1>2, <1>3
  <2> HIDE DEF o
  <2> QED
    BY <2>1
<1>5. HandInv'
  BY <1>2, <1>3, <1>4 DEF HandInv, z
<1>6. VivInv'
  BY <1>2, QuietViv
<1>7. <<>> \in LitSeq /\ 1 \in Nat /\ 0 \in T
  <2>1. Len(trail) \in Nat
    BY TrailShape
  <2> QED
    BY <2>1 DEF LitSeq, T
<1>8. viv' \in [on : BOOLEAN, cr : CRefs \cup {CRef_Undef}, i : Nat, kept : LitSeq,
                falseLit : LitSeq, True_confl : BOOLEAN, trailRecord : T]
  <2> HIDE DEF T
  <2> QED
    BY <1>1, <1>2, <1>7
<1> QED
  BY <1>3, <1>5, <1>6, <1>8 DEF T

LEMMA SimplifiedAttachRest ==
    ASSUME IInv, simplifiedAttach \/ simplifiedUnitDone, UNCHANGED inputFrame
    PROVE  Rest'
<1>1. /\ PutsBack /\ Flagged(ca, ca', viv.cr) /\ pc' = "propagate"
      /\ UNCHANGED <<vardata, trail, trail_lim, qhead, db, an, unitCids, prop, confl, problem, due, searching>>
      /\ UNCHANGED <<vivifyFrame, inputFrame>>
  BY DEF simplifiedAttach, simplifiedUnitDone, QueueEmpty, PutsBack, Flagged, trailVars, tracerVars,
         inputFrame, inputVars, Vivifying, Assuming
<1>2. pc \in {"propagate"} \cup Vivifying /\ pc \in {"propagate", "simplified"} /\ viv.cr # CRef_Undef
  <2>1. pc = "simplified" \/ (pc = "propagate" /\ viv.cr # CRef_Undef)
    BY DEF simplifiedAttach, simplifiedUnitDone, QueueEmpty
  <2> QED
    BY <2>1, Shapes DEF HandInv, Vivifying
<1>3. /\ ~searching /\ searching \in BOOLEAN /\ trail_lim = <<>>
      /\ due \in [curSimplify : Nat, nbconf : Nat] /\ due.nbconf >= 1
  BY <1>2, VivNow
<1>4. an = NoHints /\ qhead = Len(trail) /\ prop.lit = 0
  <2>1. CASE simplifiedAttach
    <3>1. pc = "simplified" /\ Len(vivLits) > 1
      BY <2>1 DEF simplifiedAttach
    <3> QED
      BY <3>1, NotScanning, Shapes DEF VivInv
  <2>2. CASE simplifiedUnitDone
    <3>1. QueueEmpty
      BY <2>2 DEF simplifiedUnitDone
    <3> QED
      BY <3>1, Pending DEF QueueEmpty
  <2> QED
    BY <2>1, <2>2
<1>5. ca' \in Clauses(db) /\ DOMAIN ca' = DOMAIN ca
  <2>1. ca \in Clauses(db)
    BY Shapes
  <2> DEFINE c2 == ca'
             cr == viv.cr
  <2>2. Flagged(ca, c2, cr)
    BY <1>1
  <2> HIDE DEF c2, cr
  <2>3. c2 \in Clauses(db) /\ DOMAIN c2 = DOMAIN ca
    BY <2>1, <2>2, FlaggedClauses
  <2> QED
    BY <2>3 DEF c2
<1>6. VivStep
  BY <1>1, <1>2, <1>3 DEF VivStep
<1>7. PlainInv' /\ AnalysisInv' /\ NoTraceOfAnalysis'
  BY <1>1, <1>4, <1>6, VivStepRest
<1>8. LogInv'
  BY <1>1, <1>5, SameLogTypes
<1>9. HandInv' /\ VivInv'
  BY <1>1, PutBackRest
<1>10. PlaceInv'
  <2>1. confl' \in DOMAIN ca \cup {CRef_Undef}
    BY <1>1, TypeParts DEF PlaceInv, CRefs
  <2> QED
    BY <1>1, <1>5, <2>1, PutBackRest, VivPlace
<1>11. ControlInv'
  BY <1>1, <1>3, <1>4, CalmControl
<1> QED
  BY <1>7, <1>8, <1>9, <1>10, <1>11 DEF Rest

(* A clause of which one literal is left: the literal is assigned, and     *)
(* true when the clause is freed.                                          *)
LEMMA SimplifiedUnitRest ==
    ASSUME IInv, simplifiedUnit, UNCHANGED inputFrame
    PROVE  Rest'
<1> DEFINE p == vivLits[1]
<1>1. /\ pc = "simplified" /\ Len(vivLits) = 1 /\ uncheckedEnqueue(p, 0, CRef_Undef, db, an) /\ pc' = "clean"
      /\ UNCHANGED <<ca, trail_lim, qhead, prop, confl, problem, viv, due, searching>>
      /\ UNCHANGED <<vivifyFrame, inputFrame>>
  BY DEF simplifiedUnit, clauseVars, vivifyVars, inputFrame, inputVars
<1>2. pc \in {"propagate"} \cup Vivifying /\ pc \in Vivifying /\ viv.cr # CRef_Undef /\ prop.lit = 0
  BY <1>1, NotScanning, Shapes DEF HandInv, Vivifying
<1>3. /\ ~searching /\ searching \in BOOLEAN /\ trail_lim = <<>>
      /\ due \in [curSimplify : Nat, nbconf : Nat] /\ due.nbconf >= 1
  BY <1>1, <1>2, VivNow
<1>4. p \in Lits /\ IsUndef(p) /\ ToSet(vivLits) = {p}
  <2>1. vivLits \in Seq(Lits) /\ DOMAIN vivLits = 1 .. 1
    BY <1>1, <1>2, VivLits, Element
  <2>2. ToSet(vivLits) = {p}
    <3>1. 1 .. 1 = {1}
      OBVIOUS
    <3> QED
      BY <2>1, <3>1 DEF ToSet
  <2>3. p \in Lits
    BY <1>2, <2>2, VivLits
  <2>4. \A l \in ToSet(vivLits) : IsUndef(l)
    BY <1>1, Shapes DEF VivInv
  <2> QED
    BY <2>2, <2>3, <2>4
<1> HIDE DEF p
<1>5. unitCids[Var(p)] = NoCid
  BY <1>4, NoUnitYet
<1>6. Enqueues(p, CRef_Undef) /\ analyzeEnqueuePropagation(p, 0, CRef_Undef, db, an)
  BY <1>1, <1>4, EnqueueFrame
<1>7. an' = NoHints
  BY <1>5, <1>6 DEF analyzeEnqueuePropagation
<1>8. LogInv'
  <2>1. CanRecord(p, CRef_Undef, db, an)
    BY <1>4, HintsNow, LogContinues DEF CanRecord
  <2>2. /\ Continues(db, db') /\ an' \in HintType(db')
        /\ unitCids' \in [Vars -> DOMAIN db' \cup {NoCid}]
    BY <1>6, <2>1, EnqueueLog
  <2> DEFINE d2 == db'
  <2>3. Continues(db, d2)
    BY <2>2
  <2> HIDE DEF d2
  <2>4. d2 \in Log /\ \A c \in Clauses(db) : c \in Clauses(d2)
    BY <2>3, ContinuesTypes DEF Continues
  <2> QED
    BY <1>1, <2>2, <2>4, TypeParts DEF LogInv, d2
<1>9. PlaceInv'
  <2>1. Len(trail') = Len(trail) + 1 /\ Len(trail) \in Nat
        /\ \A v \in Vars : vardata'[v].reason \in DOMAIN ca \cup {CRef_Undef}
    BY <1>6, TrailShape DEF Enqueues
  <2> QED
    BY <1>1, <2>1, PlaceGrows
<1>10. VivStep
  BY <1>1, <1>2, <1>3 DEF VivStep
<1>11. PlainInv' /\ AnalysisInv' /\ NoTraceOfAnalysis'
  BY <1>7, <1>10, VivStepRest
<1>12. ControlInv'
  BY <1>1, <1>2, <1>3, CalmControl
<1>13. HandInv'
  <2>1. viv.on /\ ~ca[viv.cr].freed
    BY <1>2, Shapes DEF HandInv
  <2>2. vivLits' = vivLits
    BY <1>1 DEF vivLits
  <2>3. assigns'[Var(p)] = p
    <3>1. Var(p) \in Vars /\ assigns \in [Vars -> Lits \cup {0}]
      BY <1>4, LitFacts, TrailShape
    <3> QED
      BY <1>6, <3>1 DEF Enqueues
  <2>4. \A l \in ToSet(vivLits) : IsTrue(l)'
    BY <1>4, <2>3 DEF IsTrue
  <2>5. pc' \notin Vivifying
    BY <1>1 DEF Vivifying, Assuming
  <2> HIDE DEF Vivifying
  <2> QED
    BY <1>1, <1>2, <2>1, <2>2, <2>4, <2>5 DEF HandInv
<1>14. VivInv'
  BY <1>1, QuietViv DEF Vivifying, Assuming
<1> QED
  BY <1>8, <1>9, <1>11, <1>12, <1>13, <1>14 DEF Rest

(* The clause cr gets other literals, and another record.                  *)
Renumbers(a, cr, q, c) ==
    /\ a \in HintType(db) /\ q \in Seq(Lits) /\ c \in Clauses(db) /\ cr \in DOMAIN ca
    /\ db' = Replaced(db, a, cr, q) /\ an' = NoHints /\ unitCids' = unitCids
    /\ ca' = [c EXCEPT ![cr].lits = q, ![cr].cid = Len(db) + 1]

LEMMA RenumberLog ==
    ASSUME IInv, NEW a, NEW cr, NEW q, NEW c, Renumbers(a, cr, q, c)
    PROVE  LogInv' /\ DOMAIN ca' = DOMAIN c
<1>1. /\ a \in HintType(db) /\ q \in Seq(Lits) /\ c \in Clauses(db) /\ cr \in DOMAIN ca
      /\ db' = Replaced(db, a, cr, q) /\ an' = NoHints /\ unitCids' = unitCids
      /\ ca' = [c EXCEPT ![cr].lits = q, ![cr].cid = Len(db) + 1]
  BY DEF Renumbers
<1>2. /\ db \in Log /\ ca \in Clauses(db) /\ unitCids \in [Vars -> DOMAIN db \cup {NoCid}]
      /\ DOMAIN db \subseteq Nat /\ DOMAIN db = 1 .. Len(db) /\ Len(db) \in Nat
  BY Shapes, LogTypes
<1> DEFINE r == Resolvent(a, q, GetOrigin(a))
           s == DeleteRecord(ca[cr].cid)
           d == db \o <<r, s>>
           n == Len(db) + 1
<1>3. r \in RecordType
  BY <1>1, <1>2, RecordOf
<1>4. s \in RecordType
  <2>1. ca[cr].cid \in Nat
    BY <1>1, <1>2, ClauseTypes, LogTypes
  <2> QED
    BY <2>1, DeletionOf
<1>5. db' = d
  BY <1>1 DEF Replaced
<1> HIDE DEF r, s
<1>6. Continues(db, d) /\ Len(d) = Len(db) + 2
  BY <1>2, <1>3, <1>4, ContinuesTwo
<1> HIDE DEF d
<1>7. /\ \A x \in Clauses(db) : x \in Clauses(d)
      /\ \A u \in [Vars -> DOMAIN db \cup {NoCid}] : u \in [Vars -> DOMAIN d \cup {NoCid}]
  BY <1>6, ContinuesTypes
<1>8. d \in Log /\ DOMAIN d = 1 .. Len(d) /\ n \in DOMAIN d
  <2>1. d \in Log /\ DOMAIN d = 1 .. Len(d)
    BY <1>6, ContinuesParts DEF Continues
  <2>2. n \in 1 .. Len(d)
    BY <1>2, <1>6
  <2> HIDE DEF n
  <2> QED
    BY <2>1, <2>2
<1>9. c \in Clauses(d)
  BY <1>1, <1>7
<1> DEFINE c2 == ca'
<1>10. Renumbered(c, c2, cr, q, n)
  BY <1>1 DEF Renumbered
<1> HIDE DEF n, c2
<1>11. c2 \in Clauses(d) /\ DOMAIN c2 = DOMAIN c
  BY <1>1, <1>8, <1>9, <1>10, RenumberedClauses
<1>12. NoHints \in HintType(d)
  BY DEF HintType, NoHints
<1> QED
  BY <1>1, <1>2, <1>5, <1>7, <1>8, <1>11, <1>12 DEF LogInv, c2

(* A clause that is not satisfied, with everything propagated, has two     *)
(* literals without a value: its watched ones.                             *)
LEMMA OpenEnough ==
    ASSUME IInv, BetweenClauses, NEW cr, TakesUp(cr)
    PROVE  /\ Len(StillOpen(ca[cr].lits)) >= 2
           /\ \A l \in ToSet(StillOpen(ca[cr].lits)) : l \in Lits /\ IsUndef(l)
<1> DEFINE s == ca[cr].lits
           q == StillOpen(ca[cr].lits)
<1>1. /\ cr \in DOMAIN ca /\ cr # CRef_Undef /\ ~ca[cr].freed /\ viv.cr = CRef_Undef
      /\ s \in Seq(Lits) /\ AllDistinct(s) /\ Len(s) >= 2 /\ \A l \in ToSet(s) : ~IsTrue(l)
  BY TakesUpShape
<1>2. /\ q \in Seq(Lits) /\ AllDistinct(q) /\ Len(q) \in Nat
      /\ \A l : l \in ToSet(q) <=> l \in ToSet(s) /\ ~IsFalse(l)
  <2> HIDE DEF s
  <2>1. s \in Seq(Lits) /\ AllDistinct(s)
    BY <1>1
  <2> QED
    BY <2>1, OpenShape DEF s
<1> HIDE DEF s, q
<1>3. /\ Complete(ca, vardata, trail, trail_lim, CRef_Undef, Len(trail), Len(trail))
      /\ Assigned(assigns, trail) /\ trail \in Seq(Lits) /\ assigns \in [Vars -> Lits \cup {0}]
      /\ Len(trail) \in Nat /\ DOMAIN trail = 1 .. Len(trail)
  <2>1. QueueEmpty
    BY DEF BetweenClauses
  <2>2. Trailing(ca, viv.cr, assigns, vardata, trail, trail_lim, Len(trail), Len(trail), unitCids, db)
    BY <2>1, AllPropagated
  <2> QED
    BY <1>1, <2>2, TrailingParts, Element
<1>4. ASSUME NEW l \in Lits, assigns[Var(l)] # 0
      PROVE  IsTrue(l) \/ IsFalse(l)
  <2>1. Var(l) \in Vars
    BY LitFacts
  <2>2. assigns[Var(l)] \in Lits /\ Var(assigns[Var(l)]) = Var(l)
    BY <1>3, <1>4, <2>1 DEF Assigned
  <2> QED
    BY <2>2, LitFacts DEF IsTrue, IsFalse
<1>5. ASSUME NEW l \in ToSet(q)
      PROVE  l \in Lits /\ IsUndef(l)
  <2>1. l \in Lits /\ ~IsFalse(l) /\ l \in ToSet(s)
    BY <1>2, Element
  <2> QED
    BY <1>1, <1>4, <2>1 DEF IsUndef
<1>6. ASSUME NEW j \in {1, 2}
      PROVE  s[j] \in ToSet(q)
  <2>1. j \in 1 .. Len(s) /\ s[j] \in Lits /\ s[j] \in ToSet(s)
    <3>1. Len(s) \in Nat
      BY <1>1, Element
    <3>2. j \in 1 .. Len(s)
      BY <1>1, <3>1
    <3> QED
      BY <1>1, <3>2, Element
  <2>2. ASSUME IsFalse(s[j])
        PROVE  FALSE
    <3>1. assigns[Var(s[j])] = -s[j] /\ -s[j] # 0 /\ Var(s[j]) \in Vars
      BY <2>1, <2>2, LitFacts DEF IsFalse
    <3>2. PICK i \in 1 .. Len(trail) : trail[i] = -s[j]
      BY <1>3, <3>1 DEF Assigned
    <3>3. Covered(s, vardata, trail, trail_lim, Len(trail), i)
      BY <1>1, <1>3, <3>2 DEF Complete, s
    <3>4. PICK b \in ToSet(s) : OnTrail(trail, b, Len(trail))
      BY <3>3 DEF Covered
    <3>5. PICK m \in 1 .. Len(trail) : trail[m] = b
      BY <3>4 DEF OnTrail
    <3>6. IsTrue(b)
      BY <1>3, <3>5 DEF Assigned, IsTrue
    <3> QED
      BY <1>1, <3>6
  <2> QED
    BY <1>2, <2>1, <2>2
<1>7. s[1] # s[2]
  <2>1. 1 \in DOMAIN s /\ 2 \in DOMAIN s
    <3>1. Len(s) \in Nat /\ DOMAIN s = 1 .. Len(s)
      BY <1>1, Element
    <3> QED
      BY <1>1, <3>1
  <2> QED
    BY <1>1, <2>1 DEF AllDistinct
<1>8. Len(q) >= 2
  <2>1. s[1] \in ToSet(q) /\ s[2] \in ToSet(q)
    BY <1>6
  <2>2. PICK i \in 1 .. Len(q) : q[i] = s[1]
    BY <1>2, <2>1, Element
  <2>3. PICK k \in 1 .. Len(q) : q[k] = s[2]
    BY <1>2, <2>1, Element
  <2>4. i # k
    BY <1>7, <2>2, <2>3
  <2> QED
    BY <1>2, <2>4
<1> QED
  BY <1>5, <1>8 DEF q

LEMMA SimplifyBeginRest ==
    ASSUME IInv, simplifyBegin, UNCHANGED inputFrame
    PROVE  Rest'
<1>1. /\ BetweenClauses /\ pc' = "simplifyLearnt"
      /\ UNCHANGED <<due, assigns, vardata, trail, trail_lim, qhead, prop, confl, problem, searching>>
      /\ UNCHANGED <<vivifyFrame, inputFrame>>
  BY BeginParts DEF trailVars, inputFrame, inputVars
<1>2. PICK cr : TakesUp(cr)
  BY BeginParts
<1> HIDE DEF simplifyBegin
<1> DEFINE s == ca[cr].lits
           q == StillOpen(ca[cr].lits)
<1>3. /\ cr \in DOMAIN ca /\ cr # CRef_Undef /\ ~ca[cr].freed
      /\ s \in Seq(Lits) /\ viv.cr = CRef_Undef /\ viv.on
      /\ DOMAIN ca' = DOMAIN ca /\ ca'[cr].lits = q /\ ca'[cr].freed = ca[cr].freed
      /\ q \in Seq(Lits) /\ AllDistinct(q)
  BY <1>1, <1>2, TakesUpShape
<1>4. Len(q) >= 2 /\ \A l \in ToSet(q) : l \in Lits /\ IsUndef(l)
  BY <1>1, <1>2, OpenEnough
<1>5. pc = "propagate" /\ prop.lit = 0 /\ QueueEmpty
  BY <1>1, AllPropagated DEF BetweenClauses
<1>6. /\ ~searching /\ searching \in BOOLEAN /\ trail_lim = <<>>
      /\ due \in [curSimplify : Nat, nbconf : Nat] /\ due.nbconf >= 1
  BY <1>3, <1>5, VivNow
<1>7. an = NoHints
  BY <1>5, Pending
<1>8. LogInv' /\ an' = NoHints
  <2>1. CASE UNCHANGED <<ca, tracerVars>>
    <3>1. ca' \in Clauses(db) /\ UNCHANGED <<db, an, unitCids>>
      BY <2>1, Shapes DEF tracerVars
    <3> QED
      BY <1>7, <3>1, SameLogTypes
  <2>2. CASE /\ db' = Replaced(db, BeginHints(cr), cr, q) /\ an' = NoHints /\ unitCids' = unitCids
             /\ ca' = [ca EXCEPT ![cr].lits = q, ![cr].cid = Len(db) + 1]
    <3> DEFINE cid == ca[cr].cid
               b == AddHint(an, cid)
               u == UnitCidsOf(Selected(ca[cr].lits, IsFalse))
               a == AddUnitHints(b, u)
    <3>1. an \in HintType(db) /\ cid \in DOMAIN db
      BY <1>3, HintsNow, Shapes, ClauseTypes
    <3>2. u \in Seq(DOMAIN db)
      BY <1>3, <1>5, <1>6, FalseUnits DEF Assuming
    <3> HIDE DEF cid, u
    <3>3. b \in HintType(db)
      BY <3>1, HintAdded
    <3> HIDE DEF b
    <3>4. a \in HintType(db)
      BY <3>2, <3>3, UnitHintsAdded
    <3>5. a = BeginHints(cr)
      BY DEF a, b, u, cid, BeginHints
    <3> HIDE DEF a, q
    <3>6. ca \in Clauses(db)
      BY Shapes
    <3>7. Renumbers(a, cr, q, ca)
      BY <1>3, <2>2, <3>4, <3>5, <3>6 DEF Renumbers
    <3> QED
      BY <2>2, <3>7, RenumberLog
  <2> QED
    BY <1>2, <2>1, <2>2 DEF TakesUp
<1>9. VivStep
  BY <1>1, <1>5, <1>6 DEF VivStep, Vivifying, Assuming
<1>10. PlainInv' /\ AnalysisInv' /\ NoTraceOfAnalysis'
  BY <1>8, <1>9, VivStepRest
<1> DEFINE T == 0 .. Len(trail)
           n == Len(trail)
<1>11. /\ viv' = [viv EXCEPT !.cr = cr, !.trailRecord = n] /\ n \in T /\ n \in Nat
       /\ viv \in [on : BOOLEAN, cr : CRefs \cup {CRef_Undef}, i : Nat, kept : LitSeq,
                   falseLit : LitSeq, True_confl : BOOLEAN, trailRecord : T]
  BY <1>2, VivShape, TrailShape DEF TakesUp
<1>12. viv.kept = <<>> /\ viv.i = 1 /\ viv.True_confl = FALSE
  <2> DEFINE z == NotVivifying
             o == viv.on
  <2>1. viv = [z EXCEPT !.on = o]
    BY <1>3, Shapes DEF HandInv
  <2>2. z \in [on : {FALSE}, cr : {CRef_Undef}, i : {1}, kept : {<<>>}, falseLit : {<<>>},
               True_confl : {FALSE}, trailRecord : {0}]
    BY DEF NotVivifying
  <2> HIDE DEF o, z
  <2> QED
    BY <2>1, <2>2
<1>13. n = Len(trail)
  OBVIOUS
<1> HIDE DEF T, n
<1>14. /\ viv'.cr = cr /\ viv'.on = viv.on /\ viv'.trailRecord = n
       /\ viv'.kept = <<>> /\ viv'.i = 1 /\ viv'.True_confl = FALSE
  BY <1>11, <1>12
<1>15. viv' \in [on : BOOLEAN, cr : CRefs \cup {CRef_Undef}, i : Nat, kept : LitSeq,
                 falseLit : LitSeq, True_confl : BOOLEAN, trailRecord : T]
  BY <1>3, <1>11 DEF CRefs
<1>16. PlaceInv'
  <2>1. confl' \in DOMAIN ca \cup {CRef_Undef}
    BY <1>1, TypeParts DEF PlaceInv, CRefs
  <2> QED
    BY <1>1, <1>3, <1>15, <2>1, VivPlace DEF T
<1>17. ControlInv'
  BY <1>1, <1>5, <1>6, CalmControl
<1>18. HandInv'
  BY <1>1, <1>3, <1>14 DEF HandInv, Vivifying, Assuming
<1>19. VivInv'
  <2>1. vivLits' = q
    BY <1>3, <1>14 DEF vivLits
  <2>2. Len(q) \in Nat /\ 1 \in 1 .. Len(q) + 1
    <3>1. Len(q) \in Nat
      BY <1>3, Element
    <3> HIDE DEF q
    <3> QED
      BY <1>4, <3>1
  <2>3. ASSUME NEW l \in ToSet(q), NEW i \in 1 .. n
        PROVE  Var(trail[i]) # Var(l)
    <3>1. assigns[Var(l)] = 0
      BY <1>4 DEF IsUndef
    <3>2. i \in DOMAIN trail /\ trail[i] \in Lits /\ Assigned(assigns, trail)
      BY <1>13, TrailShape, Element
    <3>3. assigns[Var(trail[i])] = trail[i] /\ trail[i] # 0
      BY <3>2, LitFacts DEF Assigned
    <3> QED
      BY <3>1, <3>3
  <2>4. n + 1 .. Len(trail) = {}
    BY <1>11, <1>13
  <2>5. ToSet(<<>>) = {} /\ AllDistinct(<<>>)
    BY DEF ToSet, AllDistinct
  <2> HIDE DEF q
  <2>6. pc' \in Assuming /\ pc' # "simpleAnalyze" /\ pc' # "simplified"
    BY <1>1 DEF Assuming
  <2> HIDE DEF Assuming
  <2> QED
    BY <1>1, <1>4, <1>8, <1>14, <2>1, <2>2, <2>3, <2>4, <2>5, <2>6 DEF VivInv
<1> QED
  BY <1>8, <1>10, <1>16, <1>17, <1>18, <1>19 DEF Rest

(* The clause in hand is left with the literals q, or as it is, and the    *)
(* assumptions are taken back.                                             *)
Vivified(c, q, a) ==
    /\ Walking /\ cancelUntilTrailRecord /\ pc' = "simplified" /\ UNCHANGED <<shrinkFrame, inputFrame>>
    /\ CanReplace(c, q) /\ c[viv.cr].freed = ca[viv.cr].freed
    /\ \A l \in ToSet(q) : \A i \in 1 .. viv.trailRecord : Var(trail[i]) # Var(l)
    /\ a \in HintType(db) /\ HasResolvents(a) /\ confl' \in DOMAIN ca \cup {CRef_Undef}
    /\ \/ ReplaceBy(q, a, c)
       \/ UNCHANGED <<ca, db, an>> /\ Len(vivLits) >= 2 /\ q = vivLits

LEMMA VivifiedLog ==
    ASSUME IInv, NEW c, NEW q, NEW a, Vivified(c, q, a)
    PROVE  /\ LogInv' /\ DOMAIN ca' = DOMAIN ca
           /\ ca'[viv.cr].lits = q /\ ca'[viv.cr].freed = ca[viv.cr].freed
           /\ Len(q) = 1 => HasResolvents(an')
           /\ Len(q) > 1 => an' = NoHints
<1> DEFINE cr == viv.cr
<1>1. /\ Walking /\ cancelUntilTrailRecord /\ unitCids' = unitCids
      /\ CanReplace(c, q) /\ c[cr].freed = ca[cr].freed
      /\ a \in HintType(db) /\ HasResolvents(a)
  BY DEF Vivified, shrinkFrame
<1>2. pc \in {"simplifyLearnt", "simpleAnalyze"} /\ cr # CRef_Undef /\ cr \in DOMAIN ca
  <2>1. pc \in {"simplifyLearnt", "simpleAnalyze"}
    BY <1>1 DEF Walking
  <2>2. viv.cr # CRef_Undef
    BY <1>1, TakeBack
  <2> QED
    BY <2>1, <2>2, Shapes
<1>3. c \in Clauses(db) /\ DOMAIN c = DOMAIN ca /\ q \in Seq(Lits) /\ Len(q) \in Nat
  <2>1. c \in Clauses(db) /\ DOMAIN c = DOMAIN ca /\ q \in Seq(Lits)
    BY <1>1 DEF CanReplace
  <2> QED
    BY <2>1, Element
<1>4. an = NoHints
  BY <1>2, Pending
<1>5. CASE ReplaceBy(q, a, c)
  <2>1. ca'[cr].lits = q /\ ca'[cr].freed = c[cr].freed
    BY <1>1, <1>2, <1>5, ReplaceShape
  <2> HIDE DEF cr
  <2>2. CASE Len(q) > 1
    <3>1. /\ db' = Replaced(db, a, cr, q) /\ an' = NoHints
          /\ ca' = [c EXCEPT ![cr].lits = q, ![cr].cid = Len(db) + 1]
      BY <1>5, <2>2 DEF ReplaceBy, cr
    <3>2. Renumbers(a, cr, q, c)
      BY <1>1, <1>2, <1>3, <3>1 DEF Renumbers
    <3>3. LogInv' /\ DOMAIN ca' = DOMAIN c
      BY <3>2, RenumberLog
    <3>4. ~(Len(q) = 1)
      <4>1. \A k \in Nat : k > 1 => ~(k = 1)
        OBVIOUS
      <4> QED
        BY <1>3, <2>2, <4>1
    <3> QED
      BY <1>1, <1>3, <2>1, <3>1, <3>3, <3>4 DEF cr
  <2>3. CASE ~(Len(q) > 1)
    <3>1. db' = db /\ an' = a /\ ca' = [c EXCEPT ![cr].lits = q]
      BY <1>5, <2>3 DEF ReplaceBy, cr
    <3> DEFINE c2 == ca'
    <3>2. c2 = [c EXCEPT ![cr].lits = q]
      BY <3>1
    <3> HIDE DEF c2
    <3>3. c2 \in Clauses(db) /\ DOMAIN c2 = DOMAIN c
      BY <1>3, <3>2, ExceptClauses
    <3>4. LogInv'
      <4>1. db \in Log /\ unitCids \in [Vars -> DOMAIN db \cup {NoCid}]
        BY Shapes
      <4> QED
        BY <1>1, <3>1, <3>3, <4>1 DEF LogInv, c2
    <3> QED
      BY <1>1, <1>3, <2>1, <2>3, <3>1, <3>3, <3>4 DEF c2, cr
  <2> QED
    BY <2>2, <2>3
<1>6. CASE UNCHANGED <<ca, db, an>> /\ Len(vivLits) >= 2 /\ q = vivLits
  <2>1. ca' \in Clauses(db)
    BY <1>6, Shapes
  <2>2. LogInv'
    BY <1>1, <1>6, <2>1, SameLogTypes
  <2>3. ~(Len(q) = 1)
    <3>1. \A k \in Nat : k >= 2 => ~(k = 1)
      OBVIOUS
    <3>2. Len(q) >= 2 /\ Len(q) \in Nat
      BY <1>3, <1>6
    <3> QED
      BY <3>1, <3>2
  <2> QED
    BY <1>4, <1>6, <2>2, <2>3 DEF vivLits
<1> QED
  BY <1>5, <1>6 DEF Vivified

LEMMA VivifiedRest ==
    ASSUME IInv, NEW c, NEW q, NEW a, Vivified(c, q, a)
    PROVE  Rest'
<1> DEFINE cr == viv.cr
           n == viv.trailRecord
<1>1. /\ Walking /\ cancelUntilTrailRecord /\ pc' = "simplified"
      /\ UNCHANGED <<vivifyFrame, inputFrame>> /\ UNCHANGED <<viv, due, prop, searching, problem>>
      /\ vardata' = vardata /\ trail_lim' = trail_lim /\ qhead' = n
      /\ q \in Seq(Lits)
      /\ \A l \in ToSet(q) : \A i \in 1 .. n : Var(trail[i]) # Var(l)
      /\ confl' \in DOMAIN ca \cup {CRef_Undef}
  BY DEF Vivified, shrinkFrame, vivifyVars, inputFrame, inputVars, cancelUntilTrailRecord, CanReplace
<1>2. /\ LogInv' /\ DOMAIN ca' = DOMAIN ca
      /\ ca'[cr].lits = q /\ ca'[cr].freed = ca[cr].freed
      /\ Len(q) = 1 => HasResolvents(an')
      /\ Len(q) > 1 => an' = NoHints
  BY VivifiedLog
<1>3. pc \in Vivifying /\ pc' \in Vivifying /\ pc \in {"simplifyLearnt", "simpleAnalyze"} /\ cr # CRef_Undef
  BY <1>1, TakeBack DEF Walking, Vivifying, Assuming
<1>4. /\ ~searching /\ searching \in BOOLEAN /\ trail_lim = <<>> /\ prop.lit = 0
      /\ due \in [curSimplify : Nat, nbconf : Nat] /\ due.nbconf >= 1
  BY <1>3, VivNow, NotScanning
<1>5. PlainInv' /\ AnalysisInv' /\ NoTraceOfAnalysis'
  <2>1. VivStep
    BY <1>1, <1>3, <1>4 DEF VivStep
  <2> QED
    BY <1>1, <2>1, VivStepRest
<1>6. TakenBack(assigns, trail, n, assigns', trail') /\ n \in Nat /\ n <= Len(trail)
  <2>1. n \in Nat /\ n <= Len(trail)
    BY <1>1, AssumptionPlaces
  <2> QED
    BY <1>1, <2>1, TakeBack
<1>7. Len(trail') = n /\ trail' \in Seq(Lits) /\ Assigned(assigns', trail') /\ \A i \in 1 .. n : trail'[i] = trail[i]
  BY <1>6 DEF TakenBack
<1>8. PlaceInv'
  <2>1. /\ \A v \in Vars : vardata[v].reason \in DOMAIN ca \cup {CRef_Undef}
        /\ prop \in [lit : Lits \cup {0}, k : Nat, i : Nat]
    BY TypeParts, Shapes DEF PlaceInv
  <2>2. viv \in [on : BOOLEAN, cr : CRefs \cup {CRef_Undef}, i : Nat, kept : LitSeq,
                 falseLit : LitSeq, True_confl : BOOLEAN, trailRecord : 0 .. n]
    <3>1. n \in 0 .. n
      BY <1>6
    <3> DEFINE T == 0 .. Len(trail)
               U == 0 .. n
    <3>2. /\ viv \in [on : BOOLEAN, cr : CRefs \cup {CRef_Undef}, i : Nat, kept : LitSeq,
                      falseLit : LitSeq, True_confl : BOOLEAN, trailRecord : T]
          /\ viv.trailRecord \in U
      BY <3>1, VivShape
    <3> HIDE DEF T, U
    <3> QED
      BY <3>2 DEF U
  <2>3. n \in 0 .. n
    BY <1>6
  <2> HIDE DEF n
  <2> QED
    BY <1>1, <1>2, <1>7, <2>1, <2>2, <2>3 DEF PlaceInv, CRefs
<1>9. ControlInv'
  BY <1>1, <1>3, <1>4, CalmControl
<1>10. HandInv'
  BY <1>1, <1>2, <1>3, HandGoesOn
<1>11. ASSUME NEW l \in ToSet(q)
       PROVE  assigns'[Var(l)] = 0
  <2>1. l \in Lits /\ Var(l) \in Vars
    BY <1>1, Element, LitFacts
  <2>2. ASSUME assigns'[Var(l)] # 0
        PROVE  FALSE
    <3>1. PICK i \in DOMAIN trail' : trail'[i] = assigns'[Var(l)]
      BY <1>7, <2>1, <2>2 DEF Assigned
    <3>2. Var(assigns'[Var(l)]) = Var(l)
      BY <1>7, <2>1, <2>2 DEF Assigned
    <3>3. i \in 1 .. n /\ trail'[i] = trail[i]
      BY <1>7
    <3> QED
      BY <1>1, <3>1, <3>2, <3>3
  <2> QED
    BY <2>2
<1>12. VivInv'
  <2>1. vivLits' = q
    BY <1>1, <1>2 DEF vivLits
  <2>2. \A l \in ToSet(q) : IsUndef(l)'
    BY <1>11 DEF IsUndef
  <2>3. pc' \notin Assuming
    BY <1>1 DEF Assuming
  <2> HIDE DEF Assuming
  <2> QED
    BY <1>1, <1>2, <1>7, <2>1, <2>2, <2>3 DEF VivInv
<1> QED
  BY <1>2, <1>5, <1>8, <1>9, <1>10, <1>12 DEF Rest

LEMMA FlippedFreed == ASSUME NEW c, Flipped(c), NEW cr \in DOMAIN ca PROVE c[cr].freed = ca[cr].freed
BY DEF Flipped

(* A conflict among the assumptions.                                       *)
LEMMA ConflictVivified ==
    ASSUME IInv, simplifyConflict, UNCHANGED inputFrame
    PROVE  \E c, q, a : Vivified(c, q, a)
<1> DEFINE w == simpleAnalyze
           q == Shortened(w)
           c == Normalized(w)
           a == w.hints
<1>1. /\ pc = "simpleAnalyze" /\ cancelUntilTrailRecord /\ pc' = "simplified"
      /\ UNCHANGED <<shrinkFrame, inputFrame>> /\ confl' = CRef_Undef
  BY DEF simplifyConflict
<1>2. ReplaceBy(q, a, c)
  BY DEF simplifyConflict, Shortened, Negated
<1>3. ConflictWalk(w)
  BY <1>1 DEF ConflictWalk
<1>4. Walking
  BY <1>1 DEF Walking
<1>5. viv.cr \in DOMAIN ca
  BY <1>1, <1>4, TakeBack, Shapes
<1> HIDE DEF w
<1>6. Shorter(q)
  BY <1>3, ShortenedShape
<1>7. Flipped(c) /\ DOMAIN c = DOMAIN ca /\ c \in Clauses(db)
  BY NormalizedFlips
<1>8. w \in Walk /\ w.hints.hints # <<>>
  BY <1>3, ConflictWalkShape
<1>9. a \in HintType(db) /\ HasResolvents(a)
  BY <1>8 DEF Walk, HasResolvents
<1> HIDE DEF q, c, a
<1>10. c[viv.cr].freed = ca[viv.cr].freed
  BY <1>5, <1>7, FlippedFreed
<1>11. /\ CanReplace(c, q)
       /\ \A l \in ToSet(q) : \A i \in 1 .. viv.trailRecord : Var(trail[i]) # Var(l)
  BY <1>6, <1>7 DEF CanReplace, Shorter
<1>12. Vivified(c, q, a)
  BY <1>1, <1>2, <1>4, <1>9, <1>10, <1>11 DEF Vivified
<1> QED
  BY <1>12

(* No conflict: the literals found false go.                               *)
LEMMA NoConflictVivified ==
    ASSUME IInv, simplifyNoConflict, UNCHANGED inputFrame
    PROVE  \E c, q, a : Vivified(c, q, a)
<1>1. /\ pc = "simplifyLearnt" /\ cancelUntilTrailRecord /\ pc' = "simplified"
      /\ UNCHANGED <<shrinkFrame, inputFrame>> /\ confl' = confl
  BY DEF simplifyNoConflict
<1>2. Walking /\ pc \in Assuming
  BY <1>1 DEF Walking, Assuming
<1>3. viv.cr \in DOMAIN ca /\ viv.cr # CRef_Undef
  BY <1>1, <1>2, TakeBack, Shapes
<1>4. VivInv /\ confl \in DOMAIN ca \cup {CRef_Undef} /\ ca \in Clauses(db) /\ an = NoHints
  BY <1>1, Shapes, Pending, TypeParts DEF PlaceInv, CRefs
<1> DEFINE w0 == [hints |-> AddHint(an, ca[viv.cr].cid), seen |-> VarsOf(viv.falseLit), assumed |-> <<>>]
           w == Traced(w0)
           a == w.hints
<1>5. a \in HintType(db) /\ HasResolvents(a)
  <2> DEFINE b == AddHint(an, ca[viv.cr].cid)
             cid == ca[viv.cr].cid
             s == VarsOf(viv.falseLit)
  <2>1. cid \in DOMAIN db /\ an \in HintType(db)
    BY <1>3, HintsNow, Shapes, ClauseTypes
  <2> HIDE DEF cid
  <2>2. b \in HintType(db) /\ b.hints # <<>>
    <3>1. b = AddHint(an, cid)
      BY DEF cid
    <3> HIDE DEF b
    <3> QED
      BY <2>1, <3>1, HintAdded
  <2>3. s \subseteq Vars
    <3>1. viv.falseLit \in Seq(Lits)
      BY VivShape DEF LitSeq
    <3> QED
      BY <3>1, VarsOfLits
  <2>4. w0 = [hints |-> b, seen |-> s, assumed |-> <<>>]
    OBVIOUS
  <2> HIDE DEF b, s, w0
  <2>5. w0 \in Walk /\ w0.assumed = <<>> /\ w0.hints.hints # <<>>
    BY <2>2, <2>3, <2>4 DEF Walk
  <2>6. Traces(w0, w)
    BY <1>2, <2>5, TracedShape
  <2> HIDE DEF w
  <2> QED
    BY <2>6 DEF Traces, Walk, HasResolvents
<1>6. (UNCHANGED <<ca, db, an>>) \/ ReplaceBy(viv.kept, a, ca)
  BY DEF simplifyNoConflict, analyzeFalseLits
<1> HIDE DEF a
<1>7. CASE ReplaceBy(viv.kept, a, ca)
  <2> DEFINE q == viv.kept
  <2>1. q \in Seq(Lits) /\ AllDistinct(q)
    BY <1>2, <1>4, VivShape DEF VivInv, LitSeq
  <2>2. \A l \in ToSet(q) : \A i \in 1 .. viv.trailRecord : Var(trail[i]) # Var(l)
    BY <1>2, KeptShape
  <2> HIDE DEF q
  <2>3. CanReplace(ca, q)
    BY <1>4, <2>1 DEF CanReplace
  <2>4. ReplaceBy(q, a, ca)
    BY <1>7 DEF q
  <2>5. Vivified(ca, q, a)
    BY <1>1, <1>2, <1>4, <1>5, <2>2, <2>3, <2>4 DEF Vivified
  <2> QED
    BY <2>5
<1>8. CASE UNCHANGED <<ca, db, an>>
  <2> DEFINE q == vivLits
  <2>1. q \in Seq(Lits) /\ AllDistinct(q)
    BY <1>3, HandShape
  <2>2. Len(vivLits) >= 2 /\ \A l \in ToSet(q) : \A i \in 1 .. viv.trailRecord : Var(trail[i]) # Var(l)
    BY <1>2, <1>4 DEF VivInv
  <2>3. q = vivLits
    OBVIOUS
  <2> HIDE DEF q
  <2>4. CanReplace(ca, q)
    BY <1>4, <2>1 DEF CanReplace
  <2>5. Vivified(ca, q, a)
    BY <1>1, <1>2, <1>4, <1>5, <1>8, <2>2, <2>3, <2>4 DEF Vivified
  <2> QED
    BY <2>5
<1> QED
  BY <1>6, <1>7, <1>8

LEMMA SimplifyConflictRest ==
    ASSUME IInv, simplifyConflict \/ simplifyNoConflict, UNCHANGED inputFrame
    PROVE  Rest'
<1>1. \E c, q, a : Vivified(c, q, a)
  BY ConflictVivified, NoConflictVivified
<1> HIDE DEF Rest
<1> QED
  BY <1>1, VivifiedRest

LEMMA SimplifyAllRest ==
    ASSUME IInv, simplifyAll, UNCHANGED inputFrame
    PROVE  Rest'
<1> HIDE DEF Rest
<1>1. CASE simplifySatisfied
  BY <1>1, RemovalRest
<1>2. CASE simplifyBegin \/ simplifyAllDone \/ assumeFalse \/ simplePropagateDone \/ literalFalse \/ literalTrue
  BY <1>2, SimplifyBeginRest, SimplifyAllDoneRest, AssumeFalseRest, SimplePropagateDoneRest,
     LiteralFalseRest, LiteralTrueRest
<1>3. CASE simplifyConflict \/ simplifyNoConflict \/ simplifiedAttach \/ simplifiedUnit \/ simplifiedUnitDone
  BY <1>3, SimplifyConflictRest, SimplifiedAttachRest, SimplifiedUnitRest
<1> QED
  BY <1>1, <1>2, <1>3 DEF simplifyAll

-----------------------------------------------------------------------------
(* The invariant is inductive.                                             *)
LEMMA StepKeeps ==
    ASSUME IInv, [Next]_vars
    PROVE  IInv'
<1> HIDE DEF Rest
<1>1. CASE UNCHANGED vars
  BY <1>1, IdleStep
<1>2. CASE Step
  <2>1. KernelInv' /\ ScanInv'
    BY KernelStep
  <2>2. Rest'
    <3>1. CASE parseClause \/ addUnitDone \/ solve_ \/ search
      BY <3>1, ParseRest, AddUnitDoneRest, SolveRest, SearchRest
    <3>2. CASE propagate /\ UNCHANGED <<analysisVars, vivifyVars, inputFrame>>
      BY <3>2, PropagateRest DEF PropagateStep
    <3>3. CASE conflictHandling /\ UNCHANGED <<vivifyVars, inputFrame>>
      BY <3>3, ConflictHandlingRest
    <3>4. CASE simplifyAll /\ UNCHANGED inputFrame
      BY <3>4, SimplifyAllRest
    <3> QED
      BY <1>2, <3>1, <3>2, <3>3, <3>4 DEF Step
  <2>3. /\ LogInv' /\ PlaceInv' /\ PlainInv' /\ ControlInv' /\ HandInv' /\ VivInv' /\ AnalysisInv'
        /\ NoTraceOfAnalysis'
    BY <2>2 DEF Rest
  <2>4. TypeOK'
    BY <2>1, <2>3, TypesNext
  <2> QED
    BY <2>1, <2>3, <2>4 DEF IInv
<1> QED
  BY <1>1, <1>2 DEF Next

(* It holds before anything has been read.                                 *)
LEMMA InitKernel ==
    ASSUME Init
    PROVE  KernelInv /\ ScanInv
<1>1. /\ ca = <<>> /\ trail = <<>> /\ trail_lim = <<>> /\ qhead = 0 /\ db = <<>>
      /\ watches = [k \in {"bin", "long"} |-> [l \in Lits |-> <<>>]]
      /\ dirty = [k \in {"bin", "long"} |-> {}]
      /\ assigns = [v \in Vars |-> 0] /\ unitCids = [v \in Vars |-> NoCid]
      /\ vardata = [v \in Vars |-> [reason |-> CRef_Undef, level |-> IntMax]]
      /\ pc = "parse" /\ prop = NoProp /\ viv = NotVivifying
  BY DEF Init, StateInit, PropInit, VivifyInit
<1>2. /\ DOMAIN ca = {} /\ Len(trail) = 0 /\ DOMAIN trail = {} /\ DOMAIN trail_lim = {}
      /\ viv.cr = CRef_Undef /\ prop.lit = 0
  BY <1>1 DEF NotVivifying, NoProp
<1>3. settled = 0 /\ done = 0
  BY <1>1, <1>2, WhereNow DEF Assuming
<1>4. IntMax \in Nat /\ IntMax # 0
  BY DEF IntMax
<1>5. \A v \in Vars : vardata[v] = [reason |-> CRef_Undef, level |-> IntMax] /\ vardata[v].level = IntMax
  BY <1>1
<1>6. OnVars(vardata) /\ HasLevels(vardata)
  BY <1>1, <1>4, <1>5 DEF OnVars, HasLevels
<1>7. Assigned(assigns, trail)
  BY <1>1, <1>2 DEF Assigned, AllDistinct
<1>8. Levels(vardata, trail, trail_lim, 0)
  BY <1>2 DEF Levels
<1>9. Reasons(ca, vardata, trail, 0) /\ Complete(ca, vardata, trail, trail_lim, CRef_Undef, 0, 0)
  BY <1>2 DEF Reasons, Complete
<1>10. UnitsOK(vardata, unitCids, db, trail, 0)
  BY <1>1, <1>4, <1>5 DEF UnitsOK
<1>11. /\ HasLits(ca) /\ assigns \in [Vars -> Lits \cup {0}] /\ trail \in Seq(Lits) /\ trail_lim \in Seq(Nat)
       /\ unitCids \in [Vars -> Nat]
  BY <1>1, <1>2 DEF HasLits, NoCid
<1>12. Trailing(ca, CRef_Undef, assigns, vardata, trail, trail_lim, 0, 0, unitCids, db)
  BY <1>2, <1>6, <1>7, <1>8, <1>9, <1>10, <1>11 DEF Trailing
<1>13. watches \in WatcherLists(ca) /\ dirty \in [{"bin", "long"} -> SUBSET Lits]
  BY <1>1 DEF WatcherLists
<1>14. Memory(ca, CRef_Undef) /\ Watching(ca, watches, dirty, CRef_Undef)
  <2>1. \A kind \in {"bin", "long"} : \A l \in Lits : ToSet(watches[kind][l]) = {}
    BY <1>1 DEF ToSet
  <2> QED
    BY <1>2, <2>1 DEF Memory, Watching, Blocked
<1>15. Watchful(ca, watches, dirty, CRef_Undef)
  BY <1>11, <1>13, <1>14 DEF Watchful
<1>16. KernelInv
  BY <1>2, <1>3, <1>12, <1>15 DEF KernelInv
<1>17. ScanInv
  BY <1>1, <1>2 DEF ScanInv
<1> QED
  BY <1>16, <1>17

LEMMA InitHolds ==
    ASSUME Init
    PROVE  IInv
<1>1. /\ ca = <<>> /\ trail = <<>> /\ trail_lim = <<>> /\ qhead = 0 /\ db = <<>> /\ an = NoHints /\ seen = {}
      /\ ok = TRUE /\ unitCids = [v \in Vars |-> NoCid]
      /\ vardata = [v \in Vars |-> [reason |-> CRef_Undef, level |-> IntMax]]
      /\ dirty = [k \in {"bin", "long"} |-> {}]
      /\ pc = "parse" /\ prop = NoProp /\ confl = CRef_Undef
      /\ searching = FALSE /\ conflicts = 0 /\ learnt = <<>> /\ ana = NoAnalysis
      /\ viv = NotVivifying /\ due = [curSimplify |-> 1, nbconf |-> SimplifyEvery]
      /\ problem \in Problems /\ next = 1 /\ restarts = 0 /\ reductions = 0
  BY DEF Init, StateInit, PropInit, ConflictInit, VivifyInit
<1>2. KernelInv /\ ScanInv
  BY InitKernel
<1>3. LogInv
  BY <1>1 DEF LogInv, Log, Clauses, HintType, NoHints
<1>4. <<>> \in LitSeq /\ Len(trail) = 0
  BY <1>1 DEF LitSeq
<1>5. PlaceInv
  <2>1. \A v \in Vars : vardata[v].reason = CRef_Undef
    BY <1>1
  <2>2. prop \in [lit : Lits \cup {0}, k : Nat, i : Nat]
    BY <1>1 DEF NoProp
  <2>3. 0 \in 0 .. 0
    OBVIOUS
  <2>4. viv \in [on : BOOLEAN, cr : CRefs \cup {CRef_Undef}, i : Nat, kept : LitSeq,
                 falseLit : LitSeq, True_confl : BOOLEAN, trailRecord : 0 .. Len(trail)]
    BY <1>1, <1>4, <2>3 DEF NotVivifying
  <2> QED
    BY <1>1, <1>4, <2>1, <2>2, <2>3, <2>4 DEF PlaceInv
<1>6. PlainInv
  <2>1. 1 \in 1 .. Len(formula) + 1
    <3>1. formula \in Seq(Seq(Lits))
      BY <1>1, ProblemsAssumption DEF formula
    <3>2. \A n \in Nat : 1 \in 1 .. n + 1
      OBVIOUS
    <3> QED
      BY <3>1, <3>2
  <2>2. due \in [curSimplify : Nat, nbconf : Nat]
    BY <1>1, SimplifyAssumption
  <2>3. <<>> \in Seq(Lits \cup {0})
    OBVIOUS
  <2>4. /\ ok = TRUE /\ searching = FALSE /\ seen = {} /\ pc = "parse" /\ learnt = <<>>
        /\ conflicts = 0 /\ restarts = 0 /\ reductions = 0 /\ next = 1
    BY <1>1
  <2>5. ok \in BOOLEAN /\ searching \in BOOLEAN
    BY <2>4
  <2>6. pc \in Phases
    BY <2>4 DEF Phases
  <2> QED
    BY <2>1, <2>2, <2>3, <2>4, <2>5, <2>6 DEF PlainInv
<1>7. TypeOK
  BY <1>2, <1>3, <1>5, <1>6, TypesFromParts
<1>8. ControlInv
  <2>1. due.nbconf >= 1
    BY <1>1, SimplifyAssumption
  <2>2. prop.lit = 0 /\ prop.k = 1 /\ prop.i = 1 /\ ~viv.on
    BY <1>1 DEF NoProp, NotVivifying
  <2> QED
    BY <1>1, <1>4, <2>1, <2>2 DEF ControlInv, Clean, Propagating, Simple, Analyzing
<1>9. HandInv
  BY <1>1 DEF HandInv, NotVivifying, Vivifying, Assuming
<1>10. VivInv
  BY <1>1 DEF VivInv, Assuming
<1>11. AnalysisInv
  <2>1. AnaTypes
    BY <1>1, <1>4 DEF AnaTypes, NoAnalysis
  <2> QED
    BY <1>1, <2>1, CalmParts DEF Calm
<1>12. NoTraceOfAnalysis
  BY <1>1 DEF NoTraceOfAnalysis
<1> QED
  BY <1>2, <1>7, <1>8, <1>9, <1>10, <1>11, <1>12 DEF IInv

LEMMA Invariant == Spec => []IInv
<1>1. Init => IInv
  BY InitHolds
<1>2. IInv /\ [Next]_vars => IInv'
  BY StepKeeps
<1> QED
  BY <1>1, <1>2, PTL DEF Spec

-----------------------------------------------------------------------------
(* What follows from it.                                                   *)
LEMMA SettledPlaces == ASSUME IInv PROVE Settled = 1 .. settled
<1>1. trail \in Seq(Lits)
  BY TrailShape
<1>2. DOMAIN trail = 1 .. Len(trail)
  BY <1>1, Element
<1> QED
  BY <1>2 DEF Settled, settled, Assuming

(* Ascending numbers: at least n of them are below a number that the n-th  *)
(* is below.                                                               *)
LEMMA AscendingCount ==
    ASSUME NEW s \in Seq(Nat), \A j, k \in DOMAIN s : j < k => s[j] < s[k],
           NEW n \in Nat, NEW i \in Nat, Within(s, n, i)
    PROVE  n <= Cardinality({k \in DOMAIN s : s[k] < i})
<1> DEFINE S == {k \in DOMAIN s : s[k] < i}
<1>1. DOMAIN s = 1 .. Len(s) /\ Len(s) \in Nat /\ \A k \in DOMAIN s : s[k] \in Nat
  BY Element
<1>2. n <= Len(s) /\ (n = 0 \/ s[n] < i)
  BY DEF Within
<1>3. 1 .. n \in SUBSET S
  <2> SUFFICES ASSUME NEW k \in 1 .. n
               PROVE  k \in DOMAIN s /\ s[k] < i
    OBVIOUS
  <2>1. k \in DOMAIN s /\ n \in DOMAIN s /\ (k < n \/ k = n)
    BY <1>1, <1>2
  <2>2. s[n] < i
    BY <1>2
  <2>3. s[k] <= s[n] /\ s[k] \in Nat /\ s[n] \in Nat
    <3>1. s[k] \in Nat /\ s[n] \in Nat
      BY <1>1, <2>1
    <3>2. s[k] < s[n] \/ s[k] = s[n]
      BY <2>1
    <3> QED
      BY <3>1, <3>2
  <2> QED
    BY <2>1, <2>2, <2>3
<1>4. IsFiniteSet(S)
  <2>1. 1 \in Int /\ Len(s) \in Int
    BY <1>1
  <2>2. IsFiniteSet(1 .. Len(s))
    BY <2>1, FS_Interval
  <2>3. S \in SUBSET (1 .. Len(s))
    BY <1>1
  <2> HIDE DEF S
  <2> QED
    BY <2>2, <2>3, FS_Subset
<1> HIDE DEF S
<1>5. Cardinality(1 .. n) <= Cardinality(S)
  BY <1>3, <1>4, FS_Subset
<1>6. Cardinality(1 .. n) = n
  <2>1. 1 \in Int /\ n \in Int
    OBVIOUS
  <2>2. Cardinality(1 .. n) = IF 1 > n THEN 0 ELSE n - 1 + 1
    BY <2>1, FS_Interval
  <2> QED
    BY <2>2
<1> QED
  BY <1>5, <1>6 DEF S

LEMMA LevelsHold == ASSUME IInv PROVE TrailLevels
<1>1. /\ Assigned(assigns, trail) /\ Levels(vardata, trail, trail_lim, settled) /\ trail \in Seq(Lits)
      /\ trail_lim \in Seq(Nat) /\ settled \in Nat /\ settled <= Len(trail) /\ Len(trail) \in Nat
      /\ DOMAIN trail = 1 .. Len(trail) /\ HasLevels(vardata)
  BY TrailShape, Element
<1>2. /\ \A v \in Vars : assigns[v] # 0 => \E i \in DOMAIN trail : trail[i] = assigns[v]
      /\ \A i \in DOMAIN trail : assigns[Var(trail[i])] = trail[i]
      /\ AllDistinct(trail)
  BY <1>1 DEF Assigned
<1>3. Cardinality(VarsOf(trail)) = Len(trail)
  BY <1>1, <1>2, DistinctCount
<1>4. \A k \in DOMAIN trail_lim :
         level(trail[trail_lim[k] + 1]) = k /\ reason(trail[trail_lim[k] + 1]) = CRef_Undef
  BY <1>1 DEF Levels, level, reason, Lv, Rs
<1>5. ASSUME NEW i \in Settled
      PROVE  level(trail[i]) <= Cardinality({k \in DOMAIN trail_lim : trail_lim[k] < i})
  <2>1. i \in 1 .. settled /\ i \in 1 .. Len(trail)
    BY <1>1, SettledPlaces
  <2> DEFINE n == level(trail[i])
  <2>2. n \in Nat
    BY <1>1, <2>1, Element, LitFacts DEF HasLevels, level
  <2>3. Within(trail_lim, n, i)
    BY <1>1, <2>1 DEF Levels, level, Lv
  <2>4. \A j, k \in DOMAIN trail_lim : j < k => trail_lim[j] < trail_lim[k]
    BY <1>1 DEF Levels
  <2>5. i \in Nat
    BY <2>1
  <2> HIDE DEF n
  <2> QED
    BY <1>1, <2>2, <2>3, <2>4, <2>5, AscendingCount DEF n
<1> QED
  BY <1>2, <1>3, <1>4, <1>5 DEF TrailLevels

(* The clause that forces a literal has no other literal that is true.     *)
LEMMA ForcedLit ==
    ASSUME IInv, NEW i \in 1 .. Len(trail), NEW q \in Seq(Lits), Forces(q, vardata, trail, i)
    PROVE  /\ trail[i] = ImpliedLit(q)
           /\ level(trail[i]) = Max({level(l) : l \in ToSet(q) \ {trail[i]}})
<1> DEFINE p == trail[i]
           o == ToSet(q) \ {p}
           S == {level(l) : l \in o}
<1>1. /\ Len(q) >= 2 /\ p \in ToSet(q) /\ (Len(q) # 2 => q[1] = p)
      /\ \A l \in o : level(l) <= level(p) /\ OnTrail(trail, -l, i - 1)
      /\ \E l \in o : level(l) = level(p)
  BY DEF Forces, level, Lv
<1>2. /\ Assigned(assigns, trail) /\ trail \in Seq(Lits) /\ DOMAIN trail = 1 .. Len(trail) /\ HasLevels(vardata)
      /\ DOMAIN q = 1 .. Len(q) /\ Len(q) \in Nat /\ Len(trail) \in Nat
      /\ \A k \in 1 .. Len(q) : q[k] \in ToSet(q) /\ q[k] \in Lits
  BY TrailShape, Element
<1>3. IsTrue(p) /\ p \in Lits
  BY <1>2, Element DEF Assigned, IsTrue
<1>4. ASSUME NEW l \in o
      PROVE  ~IsTrue(l) /\ level(l) \in Nat /\ l \in Lits
  <2>1. l \in Lits
    BY <1>2, Element
  <2>2. PICK j \in 1 .. i - 1 : trail[j] = -l
    BY <1>1 DEF OnTrail
  <2>3. j \in DOMAIN trail
    BY <1>2
  <2>4. assigns[Var(l)] = -l /\ -l # l
    BY <1>2, <2>1, <2>2, <2>3, LitFacts DEF Assigned
  <2>5. level(l) \in Nat
    BY <1>2, <2>1, LitFacts DEF HasLevels, level
  <2> QED
    BY <2>1, <2>4, <2>5 DEF IsTrue
<1> HIDE DEF p
<1>5. p = ImpliedLit(q)
  <2>1. CASE Len(q) # 2
    BY <1>1, <2>1 DEF ImpliedLit
  <2>2. CASE Len(q) = 2
    <3>1. PICK k \in DOMAIN q : q[k] = p
      BY <1>1 DEF ToSet
    <3>2. k \in {1, 2}
      BY <1>2, <2>2, <3>1
    <3>3. 1 \in 1 .. Len(q)
      BY <2>2
    <3>4. q[1] = p \/ ~IsTrue(q[1])
      BY <1>2, <1>4, <3>3
    <3> QED
      BY <1>3, <2>2, <3>1, <3>2, <3>4 DEF ImpliedLit
  <2> QED
    BY <2>1, <2>2
<1>6. level(p) = Max(S)
  <2>1. S \in SUBSET Nat
    BY <1>4
  <2>2. S # {} /\ level(p) \in S /\ \A y \in S : y <= level(p)
    BY <1>1
  <2>3. level(p) \in Nat
    BY <1>1, <1>4
  <2>4. IsFiniteSet(S)
    <3> DEFINE n == level(p)
    <3>1. n \in Nat /\ S \in SUBSET Nat /\ \A y \in S : y <= n
      BY <2>1, <2>2, <2>3
    <3> HIDE DEF n, S
    <3>2. S \in SUBSET (0 .. n)
      BY <3>1
    <3>3. 0 \in Int /\ n \in Int
      BY <3>1
    <3>4. IsFiniteSet(0 .. n)
      BY <3>3, FS_Interval
    <3> QED
      BY <3>2, <3>4, FS_Subset
  <2> DEFINE n == level(p)
  <2>5. n \in S /\ n \in Nat /\ \A y \in S : y <= n
    BY <2>2, <2>3
  <2> HIDE DEF S, n
  <2>6. Max(S) \in S /\ \A y \in S : y <= Max(S)
    BY <2>1, <2>4, <2>5, GreatestOf
  <2>7. Max(S) \in Nat
    BY <2>1, <2>6
  <2>8. n = Max(S)
    BY <2>5, <2>6, <2>7
  <2> QED
    BY <2>8 DEF n
<1> QED
  BY <1>5, <1>6 DEF p

LEMMA ReasonsHold == ASSUME IInv PROVE ReasonSound
<1> SUFFICES ASSUME NEW i \in Settled, reason(trail[i]) # CRef_Undef
             PROVE  LET cr == reason(trail[i])
                        others == ToSet(ca[cr].lits) \ {trail[i]}
                    IN  /\ ~ca[cr].freed
                        /\ trail[i] = ImpliedLit(ca[cr].lits)
                        /\ \A l \in others : \E j \in 1 .. i - 1 : trail[j] = -l
                        /\ level(trail[i]) = Max({level(l) : l \in others})
  BY DEF ReasonSound
<1> DEFINE cr == reason(trail[i])
           q == ca[cr].lits
<1>1. i \in 1 .. settled /\ i \in 1 .. Len(trail) /\ Reasons(ca, vardata, trail, settled)
  BY SettledPlaces, TrailShape
<1>2. cr \in DOMAIN ca /\ ~ca[cr].freed /\ Forces(q, vardata, trail, i)
  BY <1>1 DEF Reasons, reason, Rs
<1>3. q \in Seq(Lits)
  BY <1>2, MemoryShape DEF HasLits
<1> HIDE DEF q
<1>4. trail[i] = ImpliedLit(q) /\ level(trail[i]) = Max({level(l) : l \in ToSet(q) \ {trail[i]}})
  BY <1>1, <1>2, <1>3, ForcedLit
<1>5. \A l \in ToSet(q) \ {trail[i]} : \E j \in 1 .. i - 1 : trail[j] = -l
  BY <1>2 DEF Forces, OnTrail
<1> QED
  BY <1>2, <1>4, <1>5 DEF q

LEMMA UnitsHold == ASSUME IInv PROVE UnitCidsLevelZero
<1>1. /\ Assigned(assigns, trail) /\ UnitsOK(vardata, unitCids, db, trail, settled)
      /\ trail \in Seq(Lits) /\ DOMAIN trail = 1 .. Len(trail)
      /\ settled \in Nat /\ Len(trail) \in Nat /\ settled <= Len(trail)
  BY TrailShape, Element
<1> SUFFICES ASSUME NEW v \in Vars
             PROVE  IF assigns[v] # 0 /\ vardata[v].level = 0
                      THEN unitCids[v] # NoCid /\ db[unitCids[v]].lits = <<assigns[v]>>
                      ELSE unitCids[v] = NoCid
  BY DEF UnitCidsLevelZero
<1>2. ASSUME unitCids[v] # NoCid
      PROVE  assigns[v] # 0 /\ vardata[v].level = 0 /\ db[unitCids[v]].lits = <<assigns[v]>>
  <2>1. PICK i \in 1 .. Len(trail) : Var(trail[i]) = v /\ db[unitCids[v]].lits = <<trail[i]>>
    <3>1. PICK j \in 1 .. settled : Var(trail[j]) = v /\ db[unitCids[v]].lits = <<trail[j]>>
      BY <1>1, <1>2 DEF UnitsOK
    <3>2. j \in 1 .. Len(trail)
      BY <1>1
    <3> QED
      BY <3>1, <3>2
  <2>2. assigns[v] = trail[i] /\ trail[i] # 0
    BY <1>1, <2>1, Element, LitFacts DEF Assigned
  <2>3. vardata[v].level = 0
    BY <1>1, <1>2 DEF UnitsOK
  <2> QED
    BY <2>1, <2>2, <2>3
<1>3. vardata[v].level = 0 => unitCids[v] # NoCid
  BY <1>1 DEF UnitsOK
<1> QED
  BY <1>2, <1>3

(* Each clause has the watchers it should.                                 *)
LEMMA AbsentWatchers ==
    ASSUME NEW kind, NEW l, NEW cr, Absent(watches[kind][l], cr)
    PROVE  WatchersOf(kind, l, cr) = {}
BY DEF Absent, WatchersOf

LEMMA SingleWatcher ==
    ASSUME NEW kind, NEW l, NEW cr, Single(watches[kind][l], cr)
    PROVE  Cardinality(WatchersOf(kind, l, cr)) = 1
<1>1. PICK i \in DOMAIN watches[kind][l] :
         /\ watches[kind][l][i].cref = cr
         /\ \A j \in DOMAIN watches[kind][l] : watches[kind][l][j].cref = cr => j = i
  BY DEF Single
<1>2. WatchersOf(kind, l, cr) = {i}
  BY <1>1 DEF WatchersOf
<1> QED
  BY <1>2, FS_Singleton

LEMMA WatchersHold == ASSUME IInv PROVE WatchesPaired
<1>1. /\ Watching(ca, watches, dirty, viv.cr) /\ Memory(ca, viv.cr) /\ watches \in WatcherLists(ca)
      /\ HasLits(ca) /\ CRefs = DOMAIN ca
  BY MemoryShape, Shapes
<1>2. DOMAIN watches = {"bin", "long"}
  BY <1>1 DEF WatcherLists
<1> SUFFICES ASSUME NEW cr \in DOMAIN ca, NEW kind \in {"bin", "long"}, NEW l \in Lits
             PROVE  LET c == ca[cr].lits
                        ws == WatchersOf(kind, l, cr)
                    IN  IF InHand(cr) \/ Len(c) = 1 THEN ws = {}
                        ELSE IF ca[cr].freed THEN ws # {} => l \in dirty[kind]
                        ELSE /\ Cardinality(ws) =
                                  (IF kind = Kind(c) /\ -l \in {c[1], c[2]} THEN 1 ELSE 0)
                             /\ \A i \in ws :
                                  watches[kind][l][i].blocker \in ToSet(c) \ {-l}
  BY <1>1, <1>2 DEF WatchesPaired
<1> DEFINE c == ca[cr].lits
           list == watches[kind][l]
           ws == WatchersOf(kind, l, cr)
<1>3. /\ Listed(list, cr, ca[cr], kind, l, dirty[kind], viv.cr)
      /\ Blocked(list, ca, l)
      /\ c \in Seq(Lits) /\ Len(c) \in Nat
      /\ list \in Seq([cref : DOMAIN ca, blocker : Lits])
  <2>1. c \in Seq(Lits)
    BY <1>1 DEF HasLits
  <2>2. list \in Seq([cref : DOMAIN ca, blocker : Lits])
    BY <1>1, ListTypes
  <2> QED
    BY <1>1, <2>1, <2>2, Element DEF Watching
<1>4. CASE InHand(cr) \/ Len(c) = 1
  <2>1. cr = viv.cr \/ Len(ca[cr].lits) < 2
    <3>1. cr = viv.cr \/ Len(c) = 1
      BY <1>4 DEF InHand
    <3>2. ASSUME NEW n \in Nat, n = 1 PROVE n < 2
      BY <3>2
    <3> HIDE DEF c
    <3>3. Len(c) = 1 => Len(c) < 2
      BY <1>3, <3>2
    <3> QED
      BY <3>1, <3>3 DEF c
  <2>2. Absent(list, cr)
    BY <1>3, <2>1 DEF Listed
  <2>3. ws = {}
    BY <2>2, AbsentWatchers
  <2> QED
    BY <1>4, <2>3
<1>5. CASE ~(InHand(cr) \/ Len(c) = 1)
  <2>1. cr # viv.cr /\ ~(Len(ca[cr].lits) < 2)
    <3>1. cr # viv.cr /\ Len(c) # 1
      BY <1>5 DEF InHand
    <3>2. Len(c) >= 1
      BY <1>1, <3>1 DEF Memory
    <3>3. ASSUME NEW n \in Nat, n >= 1, n # 1 PROVE ~(n < 2)
      BY <3>3
    <3> HIDE DEF c
    <3>4. ~(Len(c) < 2)
      BY <1>3, <3>1, <3>2, <3>3
    <3> QED
      BY <3>1, <3>4 DEF c
  <2>2. CASE ca[cr].freed
    <3>1. l \notin dirty[kind] => Absent(list, cr)
      BY <1>3, <2>1, <2>2 DEF Listed
    <3>2. ws # {} => l \in dirty[kind]
      BY <3>1, AbsentWatchers
    <3> QED
      BY <1>5, <2>2, <3>2
  <2>3. CASE ~ca[cr].freed
    <3>1. Cardinality(ws) = IF kind = Kind(c) /\ -l \in {c[1], c[2]} THEN 1 ELSE 0
      <4>1. CASE Watches(c, kind, l)
        <5>1. Single(list, cr)
          BY <1>3, <2>1, <2>3, <4>1 DEF Listed
        <5>2. Cardinality(ws) = 1
          BY <5>1, SingleWatcher
        <5> QED
          BY <4>1, <5>2 DEF Watches
      <4>2. CASE ~Watches(c, kind, l)
        <5>1. Absent(list, cr)
          BY <1>3, <2>1, <2>3, <4>2 DEF Listed
        <5>2. ws = {}
          BY <5>1, AbsentWatchers
        <5>3. Cardinality(ws) = 0
          BY <5>2, FS_EmptySet
        <5> QED
          BY <4>2, <5>3 DEF Watches
      <4> QED
        BY <4>1, <4>2
    <3>2. \A i \in ws : list[i].blocker \in ToSet(c) \ {-l}
      <4> SUFFICES ASSUME NEW i \in ws
                   PROVE  list[i].blocker \in ToSet(c) \ {-l}
        OBVIOUS
      <4>1. i \in DOMAIN list /\ list[i].cref = cr
        BY DEF WatchersOf
      <4>2. list[i] \in ToSet(list)
        BY <4>1 DEF ToSet
      <4> QED
        BY <1>3, <4>1, <4>2 DEF Blocked
    <3> QED
      BY <1>5, <2>3, <3>1, <3>2
  <2> QED
    BY <2>2, <2>3
<1> QED
  BY <1>4, <1>5

(* A clause that is neither in hand nor freed, when all is propagated:     *)
(* satisfied, or its watched literals have no value.                       *)
LEMMA WatchedOpen ==
    ASSUME IInv, QueueEmpty, NEW cr \in DOMAIN ca, cr # viv.cr, ~ca[cr].freed, ~satisfied(cr)
    PROVE  /\ ca[cr].lits \in Seq(Lits) /\ ca[cr].lits[1] # ca[cr].lits[2]
           /\ \A j \in {1, 2} : ca[cr].lits[j] \in ToSet(ca[cr].lits) /\ IsUndef(ca[cr].lits[j])
<1> DEFINE s == ca[cr].lits
<1>1. s \in Seq(Lits) /\ AllDistinct(s) /\ ~(Len(s) < 2)
  BY MemoryShape DEF HasLits, Memory
<1>2. \A l \in ToSet(s) : ~IsTrue(l)
  BY <1>1, Element DEF satisfied
<1> HIDE DEF s
<1>3. /\ Complete(ca, vardata, trail, trail_lim, viv.cr, Len(trail), Len(trail))
      /\ Assigned(assigns, trail) /\ trail \in Seq(Lits) /\ DOMAIN trail = 1 .. Len(trail)
  <2>1. Trailing(ca, viv.cr, assigns, vardata, trail, trail_lim, Len(trail), Len(trail), unitCids, db)
    BY AllPropagated
  <2> QED
    BY <2>1, TrailingParts, Element
<1>4. Len(s) \in Nat /\ DOMAIN s = 1 .. Len(s) /\ 1 \in 1 .. Len(s) /\ 2 \in 1 .. Len(s)
  <2>1. Len(s) \in Nat /\ DOMAIN s = 1 .. Len(s)
    BY <1>1, Element
  <2> QED
    BY <1>1, <2>1
<1>5. ASSUME NEW j \in {1, 2}
      PROVE  s[j] \in ToSet(s) /\ IsUndef(s[j])
  <2>1. s[j] \in Lits /\ s[j] \in ToSet(s)
    BY <1>1, <1>4, Element
  <2>2. ~IsFalse(s[j])
    <3> SUFFICES ASSUME IsFalse(s[j])
                 PROVE  FALSE
      OBVIOUS
    <3>1. assigns[Var(s[j])] = -s[j] /\ -s[j] # 0 /\ Var(s[j]) \in Vars
      BY <2>1, LitFacts DEF IsFalse
    <3>2. PICK i \in 1 .. Len(trail) : trail[i] = -s[j]
      BY <1>3, <3>1 DEF Assigned
    <3>3. Covered(s, vardata, trail, trail_lim, Len(trail), i)
      BY <1>3, <3>2 DEF Complete, s
    <3>4. PICK b \in ToSet(s) : OnTrail(trail, b, Len(trail))
      BY <3>3 DEF Covered
    <3>5. PICK m \in 1 .. Len(trail) : trail[m] = b
      BY <3>4 DEF OnTrail
    <3>6. IsTrue(b)
      BY <1>3, <3>5 DEF Assigned, IsTrue
    <3> QED
      BY <1>2, <3>6
  <2>3. ASSUME assigns[Var(s[j])] # 0
        PROVE  FALSE
    <3>1. Var(s[j]) \in Vars
      BY <2>1, LitFacts
    <3>2. PICK i \in DOMAIN trail : trail[i] = assigns[Var(s[j])]
      BY <1>3, <2>3, <3>1 DEF Assigned
    <3>3. trail[i] \in Lits /\ Var(trail[i]) = Var(s[j])
      BY <1>3, <2>3, <3>1, <3>2, Element DEF Assigned
    <3>4. trail[i] = s[j] \/ trail[i] = -s[j]
      BY <2>1, <3>3, LitFacts
    <3> QED
      BY <1>2, <2>1, <2>2, <3>2, <3>4 DEF IsTrue, IsFalse
  <2> QED
    BY <2>1, <2>3 DEF IsUndef
<1>6. s[1] # s[2]
  BY <1>1, <1>4 DEF AllDistinct
<1> QED
  BY <1>1, <1>5, <1>6 DEF s

LEMMA ImplicationsHold == ASSUME IInv PROVE NoMissedImplication
<1> SUFFICES ASSUME Idle, NEW cr \in CRefs, ~ca[cr].freed, ~satisfied(cr)
             PROVE  Cardinality({l \in ToSet(ca[cr].lits) : IsUndef(l)}) >= 2
  BY DEF NoMissedImplication
<1>1. QueueEmpty /\ searching /\ cr \in DOMAIN ca
  BY Shapes DEF Idle
<1>2. cr # viv.cr
  <2>1. viv.cr = CRef_Undef
    BY <1>1, Shapes DEF ControlInv, HandInv
  <2> QED
    BY <1>1, <2>1, Shapes
<1> DEFINE q == ca[cr].lits
           S == {l \in ToSet(q) : IsUndef(l)}
<1>3. q \in Seq(Lits) /\ q[1] # q[2] /\ \A j \in {1, 2} : q[j] \in ToSet(q) /\ IsUndef(q[j])
  BY <1>1, <1>2, WatchedOpen
<1>4. IsFiniteSet(S)
  <2>1. -NumVars \in Int /\ NumVars \in Int
    BY NumVarsAssumption
  <2>2. IsFiniteSet(-NumVars .. NumVars)
    BY <2>1, FS_Interval
  <2>3. S \in SUBSET (-NumVars .. NumVars)
    <3>1. \A l \in ToSet(q) : l \in Lits
      BY <1>3, Element
    <3> QED
      BY <3>1 DEF Lits
  <2> QED
    BY <2>2, <2>3, FS_Subset
<1> DEFINE a == q[1]
           b == q[2]
<1>5. {a, b} \in SUBSET S /\ a # b
  BY <1>3
<1> HIDE DEF S, a, b
<1>6. Cardinality({a, b}) = 2
  <2>1. IsFiniteSet({a}) /\ Cardinality({a}) = 1
    BY FS_Singleton
  <2>2. {a, b} = {a} \cup {b} /\ b \notin {a}
    BY <1>5
  <2>3. Cardinality({a} \cup {b}) = Cardinality({a}) + 1
    BY <2>1, <2>2, FS_AddElement
  <2> QED
    BY <2>1, <2>2, <2>3
<1>7. Cardinality({a, b}) <= Cardinality(S)
  BY <1>4, <1>5, FS_Subset
<1>8. Cardinality(S) \in Nat
  BY <1>4, FS_CardinalityType
<1>9. Cardinality(S) >= 2
  BY <1>6, <1>7, <1>8
<1> QED
  BY <1>9 DEF S

(* The clause to learn asserts its first literal at the backtrack level.   *)
LEMMA LearntHold == ASSUME IInv PROVE LearntAsserting
<1> SUFFICES ASSUME pc = "learn"
             PROVE  /\ IsUndef(learnt[1])
                    /\ \A l \in ToSet(Tail(learnt)) : IsFalse(l) /\ level(l) \in 1 .. decisionLevel
                    /\ ana.btlevel = Max({level(l) : l \in ToSet(Tail(learnt))} \cup {0})
                    /\ Len(learnt) > 1 => level(learnt[2]) = ana.btlevel
  BY DEF LearntAsserting
<1>1. /\ LearnInv /\ Len(learnt) >= 1 /\ learnt \in Seq(Lits) /\ Len(learnt) \in Nat
      /\ DOMAIN learnt = 1 .. Len(learnt)
  <2>1. LearnInv /\ Len(learnt) >= 1
    BY Shapes DEF AnalysisInv
  <2>2. learnt \in Seq(Lits)
    BY <2>1 DEF LearnInv, LitSeq
  <2> QED
    BY <2>1, <2>2, Element
<1> DEFINE q == learnt
           b == ana.btlevel
           d == decisionLevel
           t == Tail(q)
           S == {level(l) : l \in ToSet(t)} \cup {0}
<1>2. /\ \A k \in 2 .. Len(q) : IsFalse(q[k]) /\ level(q[k]) \in 1 .. b
      /\ b = (IF Len(q) = 1 THEN 0 ELSE level(q[2]))
      /\ b <= d /\ IsUndef(q[1])
  BY <1>1 DEF LearnInv
<1>3. d \in Nat /\ b \in Nat
  <2>1. AnaTypes
    BY Shapes DEF AnalysisInv
  <2>2. ana.btlevel \in Nat
    BY <2>1 DEF AnaTypes, AnaShape
  <2> QED
    BY <2>2, Lims DEF decisionLevel
<1> HIDE DEF q, b, d
<1>4. q \in Seq(Lits) /\ Len(q) \in Nat /\ Len(q) >= 1
  BY <1>1 DEF q
<1>5. \A x : x \in ToSet(t) <=> \E k \in 2 .. Len(q) : q[k] = x
  BY <1>4, TailSet
<1>6. \A l \in ToSet(t) : IsFalse(l) /\ level(l) \in 1 .. b
  BY <1>2, <1>5
<1> HIDE DEF t
<1>7. \A l \in ToSet(t) : level(l) \in 1 .. d
  BY <1>2, <1>3, <1>6
<1>8. b \in S
  <2>1. CASE Len(q) = 1
    BY <1>2, <2>1
  <2>2. CASE Len(q) # 1
    <3>1. ASSUME NEW n \in Nat, n >= 1, n # 1 PROVE 2 \in 2 .. n
      BY <3>1
    <3>2. 2 \in 2 .. Len(q)
      BY <1>4, <2>2, <3>1
    <3> QED
      BY <1>2, <1>5, <2>2, <3>2
  <2> QED
    BY <2>1, <2>2
<1>9. \A y \in S : y \in 0 .. b
  BY <1>3, <1>6
<1>10. b = Max(S)
  <2>1. 0 \in Int /\ b \in Int
    BY <1>3
  <2>2. IsFiniteSet(0 .. b)
    BY <2>1, FS_Interval
  <2>3. S \in SUBSET (0 .. b)
    BY <1>9
  <2>4. IsFiniteSet(S) /\ S # {} /\ S \in SUBSET Nat
    <3>1. IsFiniteSet(S)
      BY <2>2, <2>3, FS_Subset
    <3> QED
      BY <1>3, <1>8, <2>3, <3>1
  <2> HIDE DEF S
  <2>5. Max(S) \in S /\ \A y \in S : y <= Max(S)
    BY <2>4, GreatestOf
  <2> DEFINE m == Max(S)
  <2>6. m \in 0 .. b /\ b <= m
    BY <1>8, <1>9, <2>5
  <2> HIDE DEF m
  <2>7. m = b
    BY <1>3, <2>6
  <2> QED
    BY <2>7 DEF m
<1>11. Len(q) > 1 => level(q[2]) = b
  BY <1>2, <1>4
<1> QED
  BY <1>2, <1>6, <1>7, <1>10, <1>11 DEF q, b, d, t

-----------------------------------------------------------------------------
(* The invariants of the search, for every formula and every choice of the *)
(* heuristics.                                                             *)

(* The state of the solver keeps its types, so that no step of             *)
(* propagation, analysis or vivification reads a clause, level or reason   *)
(* that is not there, and the trail holds every assignment once and no     *)
(* level above that of the decision it follows, although backtracking is   *)
(* chronological.                                                          *)
THEOREM TrailStaysOK == Spec => []TrailOK
<1>1. IInv => TrailOK
  BY LevelsHold DEF IInv, TrailOK
<1> QED
  BY <1>1, Invariant, PTL

(* The clause a literal was propagated by is not freed, by reduceDB,       *)
(* removeSatisfied, vivification or strengthening, while the literal is    *)
(* assigned, and still implies it from what stands earlier on the trail.   *)
THEOREM ReasonsStaySound == Spec => []ReasonSound
<1>1. IInv => ReasonSound
  BY ReasonsHold
<1> QED
  BY <1>1, Invariant, PTL

(* A variable has a unit record in the log exactly if it is assigned at    *)
(* level 0, however it got there and however often backtracking takes back *)
(* what stands below it.                                                   *)
THEOREM UnitsAreRecorded == Spec => []UnitCidsLevelZero
<1>1. IInv => UnitCidsLevelZero
  BY UnitsHold
<1> QED
  BY <1>1, Invariant, PTL

(* Every clause that is not freed is watched by its first two literals and *)
(* by no others, through propagation, FindConflictLevel, vivification and  *)
(* the lazy cleaning of watcher lists.                                     *)
THEOREM WatchersStayPaired == Spec => []WatchesPaired
<1>1. IInv => WatchesPaired
  BY WatchersHold
<1> QED
  BY <1>1, Invariant, PTL

(* When propagation is over, no clause is false or has one literal left    *)
(* that is not assigned, also after chronological backtracking has kept    *)
(* literals above the cut.                                                 *)
THEOREM NothingIsMissed == Spec => []NoMissedImplication
<1>1. IInv => NoMissedImplication
  BY ImplicationsHold
<1> QED
  BY <1>1, Invariant, PTL

(* What analyze learns is false but for its first literal, has one literal *)
(* of the level it was found at, and is asserting at the level search goes *)
(* back to.                                                                *)
THEOREM LearntIsAsserting == Spec => []LearntAsserting
<1>1. IInv => LearntAsserting
  BY LearntHold
<1> QED
  BY <1>1, Invariant, PTL

(* Between two analyses, nothing is marked as seen and no hint is pending: *)
(* what is recorded next has the hints of its own derivation only.         *)
THEOREM AnalysisLeavesNoTrace == Spec => []NoTraceOfAnalysis
<1>1. IInv => NoTraceOfAnalysis
  BY DEF IInv
<1> QED
  BY <1>1, Invariant, PTL

(* A clause in memory and its record in the log never differ, and neither  *)
(* is deleted without the other, whatever the search, the tracing hooks    *)
(* and vivification do in which order.                                     *)
THEOREM ClausesMatchRecords == Spec => []CidCoherent
<1>1. IInv => TypeOK
  BY DEF IInv
<1> QED
  BY <1>1, Invariant, CoherentWhenTyped, PTL

-----------------------------------------------------------------------------
(* The records of the input clauses.                                       *)

(* A record is that of an input clause only if no hint was pending.        *)
LEMMA HintedOrigin ==
    ASSUME NEW a, NEW q, HasResolvents(a)
    PROVE  Resolvent(a, q, GetOrigin(a)).type # "INITIAL"
BY DEF Resolvent, GetOrigin

LEMMA PlainOrigin ==
    ASSUME NEW q
    PROVE  Resolvent(NoHints, q, GetOrigin(NoHints)).type = "INITIAL"
BY DEF Resolvent, GetOrigin, HasResolvents, NoHints

LEMMA OtherOrigin ==
    ASSUME NEW a, NEW q, NEW n
    PROVE  Resolvent(a, q, "REDUNDANT").type # "INITIAL" /\ DeleteRecord(n).type # "INITIAL"
BY DEF Resolvent, DeleteRecord

LEMMA HintThere ==
    ASSUME NEW d, NEW a \in HintType(d), NEW cid \in DOMAIN d, NEW cids \in Seq(DOMAIN d)
    PROVE  /\ AddUnitHints(AddHint(a, cid), cids) \in HintType(d)
           /\ HasResolvents(AddUnitHints(AddHint(a, cid), cids))
<1> DEFINE b == AddHint(a, cid)
           c == AddUnitHints(b, cids)
<1>1. b = AddHint(a, cid) /\ c = AddUnitHints(b, cids)
  OBVIOUS
<1> HIDE DEF b, c
<1>2. b \in HintType(d) /\ b.hints # <<>>
  BY <1>1, HintAdded
<1>3. c \in HintType(d) /\ c.hints = b.hints
  BY <1>1, <1>2, UnitHintsAdded
<1> QED
  BY <1>2, <1>3 DEF HasResolvents, b, c

-----------------------------------------------------------------------------
(* The record of a clause of the formula.                                  *)
LEMMA SortedSet ==
    ASSUME NEW ps \in Seq(Lits)
    PROVE  ToSet(sorted(ps)) = ToSet(ps)
<1> DEFINE s == sorted(ps)
<1>1. s \in Seq(Lits) /\ Len(s) = Len(ps)
  BY SortedOrder
<1>2. PICK g : SortedBy(ps, g)
  BY SortedOrder
<1>3. /\ g \in [1 .. Len(ps) -> 1 .. Len(ps)]
      /\ \A i \in 1 .. Len(ps) : s[i] = ps[g[i]]
      /\ \A k \in 1 .. Len(ps) : \E i \in 1 .. Len(ps) : g[i] = k
  BY <1>2 DEF SortedBy
<1> HIDE DEF s
<1>4. /\ DOMAIN s = 1 .. Len(ps) /\ DOMAIN ps = 1 .. Len(ps)
  BY <1>1, Element
<1>5. \A l : l \in ToSet(s) <=> \E i \in 1 .. Len(ps) : l = s[i]
  BY <1>4 DEF ToSet
<1>6. \A l : l \in ToSet(ps) <=> \E k \in 1 .. Len(ps) : l = ps[k]
  BY <1>4 DEF ToSet
<1>7. \A l : l \in ToSet(s) <=> l \in ToSet(ps)
  <2>1. ASSUME NEW l \in ToSet(s) PROVE l \in ToSet(ps)
    <3>1. PICK i \in 1 .. Len(ps) : l = s[i]
      BY <1>5, <2>1
    <3>2. g[i] \in 1 .. Len(ps) /\ l = ps[g[i]]
      BY <1>3, <3>1
    <3> QED
      BY <1>6, <3>2
  <2>2. ASSUME NEW l \in ToSet(ps) PROVE l \in ToSet(s)
    <3>1. PICK k \in 1 .. Len(ps) : l = ps[k]
      BY <1>6, <2>2
    <3>2. PICK i \in 1 .. Len(ps) : g[i] = k
      BY <1>3
    <3>3. s[i] = ps[k]
      BY <1>3, <3>2
    <3> QED
      BY <1>5, <3>1, <3>3
  <2> QED
    BY <2>1, <2>2
<1> QED
  BY <1>7 DEF s

(* A clause that lost no literal is the sorted one.                        *)
LEMMA KeptWhole ==
    ASSUME NEW ps \in Seq(Lits), ~WasShortened(ps)
    PROVE  reduced(ps) = sorted(ps)
<1> DEFINE s == sorted(ps)
           D == KeptPlaces(ps)
<1>1. s \in Seq(Lits) /\ Len(s) = Len(ps) /\ Len(ps) \in Nat /\ DOMAIN s = 1 .. Len(ps)
  BY SortedOrder, Element
<1>2. D \in SUBSET DOMAIN s
  BY <1>1 DEF KeptPlaces
<1>3. reduced(ps) = PickAt(s, D)
  BY DEF reduced, Places, PickAt, KeptPlaces
<1>4. ~(Len(s) > Len(PickAt(s, D)))
  BY <1>1, <1>3 DEF WasShortened
<1> HIDE DEF s, D
<1>5. /\ Len(PickAt(s, D)) <= Len(s)
      /\ Len(PickAt(s, D)) = Len(s) => D = DOMAIN s
      /\ (\A k \in DOMAIN s : k \in D) => PickAt(s, D) = s
  BY <1>1, <1>2, PickedSet
<1>6. Len(PickAt(s, D)) \in Nat /\ Len(s) \in Nat
  <2>1. PickAt(s, D) \in Seq(Lits)
    BY <1>1, <1>2, Picked
  <2> QED
    BY <1>1, <2>1, Element
<1>7. Len(PickAt(s, D)) = Len(s)
  BY <1>4, <1>5, <1>6
<1> QED
  BY <1>3, <1>5, <1>7 DEF s

(* The last record of addClause_, behind the one of the clause as it came. *)
Recorded(ps, e) == OneInput(db, e) /\ ToSet(e[Len(db) + 1].lits) = ToSet(ps)

LEMMA InputHinted ==
    ASSUME NEW ps, WasShortened(ps)
    PROVE  HasResolvents(inputHints(ps, NoHints))
<1> DEFINE u == UnitCidsOf(Selected(sorted(ps), IsFalse))
           c == Len(db) + 1
<1>1. inputHints(ps, NoHints) = AddUnitHints(AddHint(NoHints, c), u)
  BY DEF inputHints
<1> HIDE DEF u, c
<1>2. AddHint(NoHints, c) = [hints |-> Append(<<>>, c), units |-> <<>>, reverts |-> <<>>, nUnordered |-> 0]
  BY DEF AddHint, NoHints
<1>3. Append(<<>>, c) # <<>>
  <2>1. Append(<<>>, c) = <<c>>
    OBVIOUS
  <2> QED
    BY <2>1
<1>4. inputHints(ps, NoHints).hints = Append(<<>>, c)
  BY <1>1, <1>2 DEF AddUnitHints
<1> QED
  BY <1>3, <1>4 DEF HasResolvents

LEMMA InputRecorded ==
    ASSUME IInv, pc = "parse", NEW ps \in Seq(Lits), NEW q, NEW e \in Log,
           ToSet(q) = ToSet(reduced(ps)),
           LET b == inputHints(ps, NoHints)
           IN  e = Append(loggedInput(ps, NoHints), Resolvent(b, q, GetOrigin(b)))
    PROVE  Recorded(ps, e)
<1> DEFINE b == inputHints(ps, NoHints)
           r == Resolvent(b, q, GetOrigin(b))
           d == loggedInput(ps, NoHints)
<1>1. e = Append(d, r) /\ r.lits = q
  BY DEF Resolvent
<1>2. db \in Log /\ d \in Log
  BY HintsNow, LogContinues, InputHints DEF InputLogged, Continues
<1>3. ToSet(sorted(ps)) = ToSet(ps)
  BY SortedSet
<1>4. CASE WasShortened(ps)
  <2> DEFINE s == Resolvent(NoHints, sorted(ps), GetOrigin(NoHints))
  <2>1. s.type = "INITIAL" /\ s.lits = sorted(ps)
    BY PlainOrigin DEF Resolvent
  <2>2. d = Append(db, s)
    BY <1>4 DEF loggedInput
  <2>3. r.type # "INITIAL"
    BY <1>4, InputHinted, HintedOrigin
  <2> HIDE DEF s, r, d, b
  <2>4. OneInput(db, d) /\ d[Len(db) + 1] = s
    BY <1>2, <2>1, <2>2, OneInputOne
  <2>5. NoInput(d, e)
    BY <1>1, <1>2, <2>3, NoInputOne
  <2>6. OneInput(db, e) /\ e[Len(db) + 1] = s
    BY <1>2, <2>4, <2>5, OneInputMany
  <2> QED
    BY <1>3, <2>1, <2>6 DEF Recorded
<1>5. CASE ~WasShortened(ps)
  <2>1. d = db /\ b = NoHints
    BY <1>5 DEF loggedInput, inputHints
  <2>2. r.type = "INITIAL"
    BY <2>1, PlainOrigin
  <2>3. ToSet(r.lits) = ToSet(ps)
    BY <1>1, <1>3, <1>5, KeptWhole
  <2> HIDE DEF r, d, b
  <2>4. OneInput(db, e) /\ e[Len(db) + 1] = r
    BY <1>1, <1>2, <2>1, <2>2, OneInputOne
  <2> QED
    BY <2>3, <2>4 DEF Recorded
<1> QED
  BY <1>4, <1>5

LEMMA SatisfiedRecorded ==
    ASSUME IInv, NEW ps, Adds(ps, NoHints), addSatisfied(ps, NoHints), db' \in Log
    PROVE  Recorded(ps, db')
<1> DEFINE r == Resolvent(NoHints, sorted(ps), GetOrigin(NoHints))
           x == DeleteRecord(Len(db) + 1)
           e == db'
<1>1. db \in Log /\ DOMAIN db \subseteq Nat /\ ps \in Seq(Lits) /\ Len(db) \in Nat
  BY LogContinues, ContinuesParts DEF Adds
<1>2. sorted(ps) \in Seq(Lits) /\ ToSet(sorted(ps)) = ToSet(ps) /\ NoHints \in HintType(db)
  BY <1>1, SortedOrder, SortedSet, HintsNow
<1>3. r \in RecordType /\ r.type = "INITIAL" /\ r.lits = sorted(ps)
  BY <1>1, <1>2, RecordOf, PlainOrigin DEF Resolvent
<1>4. x.type # "INITIAL" /\ x \in RecordType
  BY <1>1, DeletionOf DEF DeleteRecord
<1>5. e = db \o <<r, x>>
  BY DEF addSatisfied
<1> HIDE DEF r, x
<1>6. e = Append(Append(db, r), x) /\ Append(db, r) \in Log
  <2>1. db \in Seq(RecordType)
    BY <1>1 DEF Log
  <2>2. db \o <<r, x>> = Append(Append(db, r), x) /\ Append(db, r) \in Seq(RecordType)
    BY <1>3, <1>4, <2>1
  <2> QED
    BY <1>5, <2>2 DEF Log
<1> DEFINE d == Append(db, r)
<1>7. d = Append(db, r) /\ d \in Log /\ e = Append(d, x) /\ e \in Log
  BY <1>6
<1> HIDE DEF d, e
<1>8. OneInput(db, d) /\ d[Len(db) + 1] = r
  BY <1>1, <1>3, <1>7, OneInputOne
<1>9. NoInput(d, e)
  BY <1>4, <1>7, NoInputOne
<1>10. OneInput(db, e) /\ e[Len(db) + 1] = d[Len(db) + 1]
  BY <1>1, <1>7, <1>8, <1>9, OneInputMany
<1>11. Recorded(ps, e)
  BY <1>2, <1>3, <1>8, <1>10 DEF Recorded
<1> QED
  BY <1>11 DEF e

LEMMA UnsatisfiedRecorded ==
    ASSUME IInv, NEW ps, Adds(ps, NoHints), db' \in Log,
           addEmpty(ps, NoHints) \/ addUnit(ps, NoHints) \/ addLonger(ps, NoHints)
    PROVE  Recorded(ps, db')
<1> DEFINE b == inputHints(ps, NoHints)
           d == loggedInput(ps, NoHints)
           e == db'
<1>1. ps \in Seq(Lits) /\ pc = "parse" /\ e \in Log
  BY DEF Adds
<1>2. CASE addEmpty(ps, NoHints)
  <2>1. reduced(ps) = <<>> /\ e = Append(d, Resolvent(b, <<>>, GetOrigin(b)))
    BY <1>2 DEF addEmpty
  <2> HIDE DEF e
  <2>2. Recorded(ps, e)
    BY <1>1, <2>1, InputRecorded
  <2> QED
    BY <2>2 DEF e
<1>3. CASE addUnit(ps, NoHints)
  <2> DEFINE p == reduced(ps)[1]
  <2>1. /\ ~alreadyTrue(ps) /\ Len(reduced(ps)) = 1
        /\ uncheckedEnqueue(p, 0, CRef_Undef, d, b)
    BY <1>3 DEF addUnit
  <2>2. 1 \in 1 .. Len(reduced(ps))
    BY <2>1
  <2>3. p \in Lits /\ IsUndef(p) /\ reduced(ps) \in Seq(Lits)
    BY <1>1, <2>1, <2>2, ReducedShape
  <2>4. <<p>> = reduced(ps)
    <3> DEFINE q == reduced(ps)
    <3>1. q \in Seq(Lits) /\ Len(q) = 1
      BY <2>1, <2>3
    <3> HIDE DEF q
    <3>2. q = <<q[1]>>
      BY <3>1
    <3> QED
      BY <3>2 DEF q
  <2> HIDE DEF p, d, b
  <2>5. analyzeEnqueuePropagation(p, 0, CRef_Undef, d, b)
    BY <2>1, <2>3, EnqueueFrame
  <2>6. unitCids[Var(p)] = NoCid
    BY <2>3, NoUnitYet
  <2>7. e = Append(d, Resolvent(b, <<p>>, GetOrigin(b)))
    BY <2>5, <2>6 DEF analyzeEnqueuePropagation
  <2> DEFINE q == <<p>>
  <2>8. ToSet(q) = ToSet(reduced(ps)) /\ e = Append(d, Resolvent(b, q, GetOrigin(b)))
    BY <2>4, <2>7
  <2> HIDE DEF e, q
  <2>9. Recorded(ps, e)
    BY <1>1, <2>8, InputRecorded DEF b, d
  <2> QED
    BY <2>9 DEF e
<1>4. CASE addLonger(ps, NoHints)
  <2>1. e = Append(d, Resolvent(b, reduced(ps), GetOrigin(b)))
    BY <1>4 DEF addLonger
  <2> HIDE DEF e
  <2>2. Recorded(ps, e)
    BY <1>1, <2>1, InputRecorded
  <2> QED
    BY <2>2 DEF e
<1> QED
  BY <1>2, <1>3, <1>4

LEMMA ParseNumbers ==
    ASSUME IInv, db' \in Log, parseClause, InputNumbering
    PROVE  NumberedBy(db', formula', next')
<1> DEFINE ps == formula[next]
           e == db'
<1>1. Adds(ps, NoHints)
  <2>1. an = NoHints
    BY Pending DEF parseClause
  <2> QED
    BY <2>1, ParseAdds
<1>2. Recorded(ps, e)
  <2> HIDE DEF ps
  <2> QED
    BY <1>1, SatisfiedRecorded, UnsatisfiedRecorded DEF Adds, addClause_
<1>3. next' = next + 1 /\ formula' = formula /\ next \in Nat
  <2>1. next \in 1 .. Len(formula) + 1
    BY Shapes DEF TypeOK
  <2>2. problem' = problem /\ next' = next + 1
    BY DEF parseClause, addFrame
  <2>3. Len(formula) \in Nat
    <3>1. problem.cnf \in Seq(Seq(Lits))
      BY Shapes, ProblemsAssumption DEF ControlInv
    <3> QED
      BY <3>1, Element DEF formula
  <2> QED
    BY <2>1, <2>2, <2>3 DEF formula
<1>4. NumberedBy(db, formula, next)
  BY LogContinues, NumberingOf
<1> HIDE DEF e
<1>5. OneInput(db, e) /\ ToSet(e[Len(db) + 1].lits) = ToSet(ps)
  BY <1>2 DEF Recorded
<1>6. NumberedBy(e, formula, next + 1)
  BY <1>3, <1>4, <1>5, InputCounted
<1> QED
  BY <1>3, <1>6 DEF e

-----------------------------------------------------------------------------
(* No other step records an input clause.                                  *)
LEMMA AppendedSome ==
    ASSUME NEW X, NEW s \in Seq(X), NEW x \in X
    PROVE  Append(s, x) # <<>>
<1>1. Len(Append(s, x)) = Len(s) + 1 /\ Len(s) \in Nat
  OBVIOUS
<1>2. Len(<<>>) = 0
  OBVIOUS
<1>3. \A n \in Nat : n + 1 # 0
  OBVIOUS
<1> QED
  BY <1>1, <1>2, <1>3

LEMMA SomeHint ==
    ASSUME NEW d, NEW a \in HintType(d), NEW cid, NEW cids
    PROVE  HasResolvents(AddUnitHints(AddHint(a, cid), cids))
<1> DEFINE b == AddHint(a, cid)
           more == Append(a.hints, cid)
<1>1. a.hints \in Seq(DOMAIN d)
  BY DEF HintType
<1>3. more # <<>>
  <2> DEFINE X == DOMAIN d \cup {cid}
  <2>1. \A S, T : S \subseteq T => Seq(S) \subseteq Seq(T)
    OBVIOUS
  <2>2. a.hints \in Seq(X) /\ cid \in X
    BY <1>1, <2>1
  <2> HIDE DEF X
  <2> QED
    BY <2>2, AppendedSome
<1> HIDE DEF more
<1>4. b = [a EXCEPT !.hints = more]
  BY DEF AddHint, more
<1>5. b.hints = more /\ "hints" \in DOMAIN b
  BY <1>4 DEF HintType
<1> HIDE DEF b
<1>6. AddUnitHints(b, cids).hints = more
  BY <1>5 DEF AddUnitHints
<1> QED
  BY <1>3, <1>6 DEF HasResolvents, b

LEMMA EnqueueNoInput ==
    ASSUME db \in Log, db' \in Log, NEW p, NEW lvl, NEW from, NEW d \in Log, NEW a,
           analyzeEnqueuePropagation(p, lvl, from, d, a),
           from # CRef_Undef \/ HasResolvents(a)
    PROVE  NoInput(d, db')
<1> DEFINE e == db'
           others == Selected(ca[from].lits, LAMBDA l : l # p /\ IsFalse(l))
           b == AddHint(AddUnitHints(a, UnitCidsOf(others)), ca[from].cid)
           r == IF from = CRef_Undef THEN Resolvent(a, <<p>>, GetOrigin(a))
                                     ELSE Resolvent(b, <<p>>, "REDUNDANT")
<1>1. e = d \/ e = Append(d, r)
  BY DEF analyzeEnqueuePropagation
<1> HIDE DEF others, b
<1>2. r.type # "INITIAL"
  BY HintedOrigin, OtherOrigin
<1> HIDE DEF r, e
<1>3. d \in Log /\ e \in Log
  BY DEF e
<1>4. NoInput(d, e)
  BY <1>1, <1>2, <1>3, NoInputSelf, NoInputOne
<1> QED
  BY <1>4 DEF e

LEMMA RemovalNoInput ==
    ASSUME IInv, db' \in Log, simplify \/ reduceDB \/ simplifySatisfied
    PROVE  NoInput(db, db')
<1>1. PICK crs : Removal(crs)
  BY RemovalOf
<1> DEFINE t == Deletions(crs)
           e == db'
<1>2. crs \in Seq(CRefs) /\ e = db \o t
  BY <1>1 DEF Removal, CanRemove, removeClauses
<1>3. Len(crs) \in Nat /\ DOMAIN crs = 1 .. Len(crs)
  BY <1>2, Element
<1> DEFINE R(i) == DeleteRecord(ca[crs[i]].cid)
<1>4. t = [i \in 1 .. Len(crs) |-> R(i)]
  BY <1>3 DEF Deletions
<1>5. ASSUME NEW i \in 1 .. Len(crs) PROVE R(i) \in RecordType /\ R(i).type # "INITIAL"
  <2>1. crs[i] \in DOMAIN ca /\ ca \in Clauses(db) /\ db \in Log
    BY <1>2, Shapes, Element
  <2>2. ca[crs[i]].cid \in Nat
    BY <2>1, ClauseTypes, LogTypes
  <2> QED
    BY <2>2, DeletionOf, OtherOrigin
<1> HIDE DEF t, R, e
<1>6. t \in Seq(RecordType) /\ Len(t) = Len(crs) /\ \A k \in 1 .. Len(t) : t[k].type # "INITIAL"
  BY <1>3, <1>4, <1>5
<1>7. db \in Log /\ e \in Log
  BY LogContinues DEF e
<1>8. NoInput(db, e)
  BY <1>2, <1>6, <1>7, NoInputMany
<1> QED
  BY <1>8 DEF e

LEMMA ReplacedNoInput ==
    ASSUME NEW d \in Log, NEW a, HasResolvents(a), NEW cr, NEW q, NEW e \in Log,
           e = Replaced(d, a, cr, q), Resolvent(a, q, GetOrigin(a)) \in RecordType,
           ca[cr].cid \in Nat
    PROVE  NoInput(d, e)
<1> DEFINE r == Resolvent(a, q, GetOrigin(a))
           x == DeleteRecord(ca[cr].cid)
           t == <<r, x>>
<1>1. e = d \o t
  BY DEF Replaced
<1>2. r \in RecordType /\ r.type # "INITIAL" /\ x \in RecordType /\ x.type # "INITIAL"
  BY HintedOrigin, OtherOrigin, DeletionOf
<1> HIDE DEF r, x
<1>3. t \in Seq(RecordType) /\ Len(t) = 2 /\ \A k \in 1 .. Len(t) : t[k].type # "INITIAL"
  <2>1. t = <<r, x>> /\ Len(t) = 2 /\ t \in Seq(RecordType)
    BY <1>2
  <2>2. \A k \in 1 .. 2 : k = 1 \/ k = 2
    OBVIOUS
  <2>3. t[1] = r /\ t[2] = x
    OBVIOUS
  <2> QED
    BY <1>2, <2>1, <2>2, <2>3
<1> HIDE DEF t
<1> QED
  BY <1>1, <1>3, NoInputMany

LEMMA PropagateNoInput ==
    ASSUME IInv, db' \in Log, propagate
    PROVE  NoInput(db, db')
<1>1. db \in Log
  BY LogContinues
<1>2. CASE UNCHANGED db
  BY <1>1, <1>2, NoInputSelf
<1>3. ASSUME NEW p \in Lits, NEW lvl, NEW from, from # CRef_Undef, Imply(p, lvl, from)
      PROVE  NoInput(db, db')
  <2>1. CASE Simple
    <3>1. UNCHANGED db
      BY <1>3, <2>1 DEF Imply, simpleUncheckEnqueue, tracerVars
    <3> QED
      BY <1>2, <3>1
  <2>2. CASE ~Simple
    <3>1. uncheckedEnqueue(p, lvl, from, db, an)
      BY <1>3, <2>2 DEF Imply
    <3>2. analyzeEnqueuePropagation(p, lvl, from, db, an)
      BY <1>3, <3>1 DEF uncheckedEnqueue
    <3> QED
      BY <1>1, <1>3, <3>2, EnqueueNoInput
  <2> QED
    BY <2>1, <2>2
<1>4. CASE binaryImplies
  <2> DEFINE b == binWatchers[prop.k].blocker
             cr == binWatchers[prop.k].cref
  <2>1. ScanningBinary /\ Imply(b, currLevel, cr)
    BY <1>4 DEF binaryImplies
  <2>2. b \in Lits /\ cr # CRef_Undef
    BY <2>1, BinaryFacts
  <2> HIDE DEF b, cr
  <2> QED
    BY <1>3, <2>1, <2>2
<1>5. ASSUME ScanningLong, NEW lvl, Imply(first, lvl, longWatcher.cref)
      PROVE  NoInput(db, db')
  <2> DEFINE cr == longWatcher.cref
  <2>1. first \in Lits /\ cr # CRef_Undef
    BY <1>5, LongFacts DEF first
  <2> HIDE DEF cr
  <2>2. Imply(first, lvl, cr)
    BY <1>5 DEF cr
  <2> QED
    BY <1>3, <2>1, <2>2
<1>6. CASE unitAtDecisionLevel
  BY <1>5, <1>6 DEF unitAtDecisionLevel, Unit, Unresolved
<1>7. CASE unitBelowDecisionLevel
  <2>1. PICK lvl : uncheckedEnqueue(first, lvl, longWatcher.cref, db, an)
    BY <1>7 DEF unitBelowDecisionLevel
  <2>2. ScanningLong /\ ~Simple
    BY <1>7 DEF unitBelowDecisionLevel, Unit, Unresolved
  <2>3. Imply(first, lvl, longWatcher.cref)
    BY <2>1, <2>2 DEF Imply
  <2> QED
    BY <1>5, <2>2, <2>3
<1> QED
  BY <1>2, <1>4, <1>6, <1>7
     DEF propagate, propagateBegin, propagateDequeue, propagateNext, binarySatisfied, binaryConflict,
         blockerTrue, firstTrue, newWatch, longConflict, tracerVars

LEMMA ConflictNoInput ==
    ASSUME IInv, db' \in Log, conflictHandling
    PROVE  NoInput(db, db')
<1> DEFINE e == db'
<1>1. db \in Log /\ e \in Log /\ an \in HintType(db)
  BY LogContinues, HintsNow
<1>2. CASE UNCHANGED db
  BY <1>1, <1>2, NoInputSelf
<1>3. CASE AnswerUnsat
  <2> DEFINE a == AddUnitHints(AddHint(an, ca[confl].cid), UnitCidsOf(conflLits))
             r == Resolvent(a, <<>>, GetOrigin(a))
  <2>1. e = Append(db, r)
    BY <1>3 DEF AnswerUnsat
  <2>2. HasResolvents(a)
    BY <1>1, SomeHint
  <2> HIDE DEF a
  <2>3. r.type # "INITIAL"
    BY <2>2, HintedOrigin
  <2> HIDE DEF r, e
  <2>4. NoInput(db, e)
    BY <1>1, <2>1, <2>3, NoInputOne
  <2> QED
    BY <2>4 DEF e
<1>4. pc = "learn" => HasResolvents(an)
  BY Shapes DEF AnalysisInv, HasResolvents
<1>5. CASE learnUnit
  <2>1. uncheckedEnqueue(learnt[1], 0, CRef_Undef, db, an) /\ HasResolvents(an)
    BY <1>4, <1>5 DEF learnUnit
  <2>2. analyzeEnqueuePropagation(learnt[1], 0, CRef_Undef, db, an)
    BY <2>1 DEF uncheckedEnqueue
  <2> QED
    BY <1>1, <2>1, <2>2, EnqueueNoInput
<1>6. CASE learnClause
  <2> DEFINE cr == Len(ca) + 1
             r == Resolvent(an, learnt, GetOrigin(an))
             d == Append(db, r)
  <2>1. /\ pc = "learn" /\ Len(learnt) > 1
        /\ uncheckedEnqueue(learnt[1], ana.btlevel, cr, d, NoHints)
    BY <1>6 DEF learnClause
  <2>2. cr # CRef_Undef
    BY Shapes DEF CRef_Undef
  <2>3. r \in RecordType /\ r.type # "INITIAL"
    <3>1. learnt \in Seq(Lits)
      BY <2>1, LearnShape
    <3>2. DOMAIN db \subseteq Nat
      BY LogContinues, ContinuesParts
    <3> QED
      BY <1>1, <1>4, <2>1, <3>1, <3>2, RecordOf, HintedOrigin
  <2> HIDE DEF r, cr
  <2>4. d \in Log
    BY <1>1, <2>3, ContinuesOne DEF Continues
  <2>5. NoInput(db, d)
    BY <1>1, <2>3, <2>4, NoInputOne
  <2> HIDE DEF d
  <2>6. analyzeEnqueuePropagation(learnt[1], ana.btlevel, cr, d, NoHints)
    BY <2>1 DEF uncheckedEnqueue
  <2>7. NoInput(d, e)
    BY <1>1, <2>2, <2>4, <2>6, EnqueueNoInput
  <2> HIDE DEF e
  <2>8. NoInput(db, e)
    BY <1>1, <2>4, <2>5, <2>7, NoInputTrans
  <2> QED
    BY <2>8 DEF e
<1>7. levelZeroConflict \/ searchLevelZeroConflict => AnswerUnsat
  BY DEF levelZeroConflict, searchLevelZeroConflict
<1>8. singleHighest \/ analyzeBegin \/ analyzeResolve \/ backtrack => UNCHANGED db
  BY DEF singleHighest, analyzeBegin, analyzeResolve, backtrack, tracerVars
<1>9. minimizeKeep \/ litRedundantBegin \/ litRedundantStep \/ litRedundantTrue \/ litRedundantFalse
      \/ minimizeBasic \/ analyzeEnd => UNCHANGED db
  BY DEF minimizeKeep, litRedundantBegin, litRedundantStep, litRedundantTrue, litRedundantFalse,
         minimizeBasic, analyzeEnd, minimizeFrame
<1> HIDE DEF e
<1> QED
  BY <1>2, <1>3, <1>5, <1>6, <1>7, <1>8, <1>9 DEF conflictHandling

LEMMA BeginNoInput ==
    ASSUME IInv, db' \in Log, simplifyBegin
    PROVE  NoInput(db, db')
<1> DEFINE e == db'
<1>1. PICK cr : TakesUp(cr)
  BY BeginParts
<1>2. BetweenClauses
  BY BeginParts
<1>3. db \in Log /\ e \in Log /\ an \in HintType(db)
  BY LogContinues, HintsNow
<1>4. CASE UNCHANGED tracerVars
  BY <1>3, <1>4, NoInputSelf DEF tracerVars
<1> DEFINE q == StillOpen(ca[cr].lits)
           cid == ca[cr].cid
           u == UnitCidsOf(Selected(ca[cr].lits, IsFalse))
           a == AddUnitHints(AddHint(an, cid), u)
<1>5. CASE e = Replaced(db, a, cr, q)
  <2>1. cr \in DOMAIN ca /\ ca[cr].lits \in Seq(Lits) /\ q \in Seq(Lits)
    BY <1>1, <1>2, TakesUpShape
  <2>2. cid \in DOMAIN db /\ DOMAIN db \subseteq Nat
    BY <2>1, Shapes, ClauseTypes, LogContinues, ContinuesParts
  <2>3. u \in Seq(DOMAIN db)
    <3>1. pc \notin Assuming /\ viv.on
      BY <1>2 DEF BetweenClauses, QueueEmpty, Assuming
    <3>2. trail_lim = <<>>
      BY <1>2, <3>1, Shapes DEF ControlInv, BetweenClauses, QueueEmpty
    <3> QED
      BY <2>1, <3>1, <3>2, FalseUnits
  <2> HIDE DEF u
  <2>4. a \in HintType(db) /\ HasResolvents(a)
    BY <1>3, <2>2, <2>3, HintThere
  <2> HIDE DEF a
  <2>5. Resolvent(a, q, GetOrigin(a)) \in RecordType /\ ca[cr].cid \in Nat
    BY <2>1, <2>2, <2>4, RecordOf
  <2> HIDE DEF q, e
  <2>6. NoInput(db, e)
    BY <1>3, <1>5, <2>4, <2>5, ReplacedNoInput
  <2> QED
    BY <2>6 DEF e
<1> QED
  BY <1>1, <1>4, <1>5 DEF TakesUp, BeginHints

LEMMA VivifiedNoInput ==
    ASSUME IInv, db' \in Log, NEW c, NEW q, NEW a, Vivified(c, q, a)
    PROVE  NoInput(db, db')
<1> DEFINE e == db'
<1>1. db \in Log /\ e \in Log /\ a \in HintType(db) /\ HasResolvents(a) /\ q \in Seq(Lits)
  BY LogContinues DEF Vivified, CanReplace
<1>2. CASE UNCHANGED db
  BY <1>1, <1>2, NoInputSelf
<1>3. CASE e = Replaced(db, a, viv.cr, q)
  <2>1. viv.cr \in DOMAIN ca
    BY TakeBack, Shapes DEF Vivified, Walking
  <2>2. ca[viv.cr].cid \in Nat /\ DOMAIN db \subseteq Nat
    BY <2>1, Shapes, ClauseTypes, LogContinues, ContinuesParts
  <2>3. Resolvent(a, q, GetOrigin(a)) \in RecordType
    BY <1>1, <2>2, RecordOf
  <2> DEFINE cr == viv.cr
  <2>4. e = Replaced(db, a, cr, q) /\ ca[cr].cid \in Nat
    BY <1>3, <2>2
  <2> HIDE DEF e, cr
  <2>5. NoInput(db, e)
    BY <1>1, <2>3, <2>4, ReplacedNoInput
  <2> QED
    BY <2>5 DEF e
<1> QED
  BY <1>2, <1>3 DEF Vivified, ReplaceBy

LEMMA SimplifyAllNoInput ==
    ASSUME IInv, db' \in Log, simplifyAll, UNCHANGED inputFrame
    PROVE  NoInput(db, db')
<1>1. db \in Log
  BY LogContinues
<1>2. CASE UNCHANGED db
  BY <1>1, <1>2, NoInputSelf
<1>3. CASE simplifySatisfied
  BY <1>3, RemovalNoInput
<1>4. CASE simplifyBegin
  BY <1>4, BeginNoInput
<1>5. CASE simplifyConflict \/ simplifyNoConflict
  <2>1. \E c, q, a : Vivified(c, q, a)
    BY <1>5, ConflictVivified, NoConflictVivified
  <2> QED
    BY <2>1, VivifiedNoInput
<1>6. CASE simplifiedUnit
  <2>1. pc = "simplified" /\ Len(vivLits) = 1 /\ uncheckedEnqueue(vivLits[1], 0, CRef_Undef, db, an)
    BY <1>6 DEF simplifiedUnit
  <2>2. HasResolvents(an)
    BY <2>1, Shapes DEF VivInv
  <2>3. analyzeEnqueuePropagation(vivLits[1], 0, CRef_Undef, db, an)
    BY <2>1 DEF uncheckedEnqueue
  <2> QED
    BY <1>1, <2>2, <2>3, EnqueueNoInput
<1>7. simplifyAllDone \/ simplePropagateDone \/ literalFalse \/ literalTrue \/ simplifiedAttach
      \/ simplifiedUnitDone => UNCHANGED db
  BY DEF simplifyAllDone, simplePropagateDone, literalFalse, literalTrue, simplifiedAttach,
         simplifiedUnitDone, tracerVars
<1>8. assumeFalse => UNCHANGED db
  BY DEF assumeFalse, simpleUncheckEnqueue, tracerVars
<1> QED
  BY <1>2, <1>3, <1>4, <1>5, <1>6, <1>7, <1>8 DEF simplifyAll

LEMMA SearchNoInput ==
    ASSUME IInv, db' \in Log, search
    PROVE  NoInput(db, db')
<1>1. db \in Log
  BY LogContinues
<1>2. CASE UNCHANGED db
  BY <1>1, <1>2, NoInputSelf
<1>3. CASE simplify \/ reduceDB
  BY <1>3, RemovalNoInput
<1>4. restart \/ answerSat => UNCHANGED db
  BY DEF restart, answerSat, answerModel, tracerVars
<1>5. decide => UNCHANGED db
  <2> SUFFICES ASSUME decide PROVE UNCHANGED db
    OBVIOUS
  <2>1. PICK l : decideOn(l)
    BY DEF decide
  <2>2. analyzeEnqueuePropagation(l, decisionLevel + 1, CRef_Undef, db, an)
    BY <2>1 DEF decideOn, uncheckedEnqueue
  <2>3. decisionLevel + 1 # 0
    <3>1. trail_lim \in Seq(Nat)
      BY TrailShape
    <3>2. Len(trail_lim) \in Nat
      BY <3>1
    <3> QED
      BY <3>2 DEF decisionLevel
  <2> QED
    BY <2>2, <2>3 DEF analyzeEnqueuePropagation
<1> QED
  BY <1>2, <1>3, <1>4, <1>5 DEF search

(* Only parseClause reads on in the formula.                               *)
LEMMA OthersNoInput ==
    ASSUME IInv, db' \in Log, [Next]_vars, ~parseClause
    PROVE  NoInput(db, db') /\ UNCHANGED <<problem, next>>
<1>1. db \in Log
  BY LogContinues
<1>2. CASE UNCHANGED vars
  BY <1>1, <1>2, NoInputSelf DEF vars
<1>3. CASE addUnitDone \/ solve_
  BY <1>1, <1>3, NoInputSelf DEF addUnitDone, solve_, tracerVars, inputVars
<1>4. CASE search
  <2>1. UNCHANGED <<problem, next>>
    BY <1>4
       DEF search, restart, simplify, reduceDB, decide, decideOn, answerSat, answerModel, idleFrame,
           inputVars
  <2> QED
    BY <1>4, <2>1, SearchNoInput
<1>5. CASE propagate /\ UNCHANGED <<analysisVars, vivifyVars, inputFrame>>
  BY <1>5, PropagateNoInput DEF inputFrame, inputVars
<1>6. CASE conflictHandling /\ UNCHANGED <<vivifyVars, inputFrame>>
  BY <1>6, ConflictNoInput DEF inputFrame, inputVars
<1>7. CASE simplifyAll /\ UNCHANGED inputFrame
  BY <1>7, SimplifyAllNoInput DEF inputFrame, inputVars
<1> QED
  BY <1>2, <1>3, <1>4, <1>5, <1>6, <1>7 DEF Next, Step

LogTyped == db \in Log
Numbered == NumberedBy(db, formula, next)

LEMMA NumberedStep ==
    ASSUME IInv, db' \in Log, [Next]_vars, Numbered
    PROVE  NumberedBy(db', formula', next')
<1>1. CASE parseClause
  BY <1>1, LogContinues, NumberingOf, ParseNumbers DEF Numbered
<1>2. CASE ~parseClause
  <2> DEFINE e == db'
  <2>1. NoInput(db, e) /\ formula' = formula /\ next' = next
    BY <1>2, OthersNoInput DEF formula
  <2>2. NumberedBy(db, formula, next)
    BY DEF Numbered
  <2> HIDE DEF e
  <2>3. NumberedBy(e, formula, next)
    BY <2>1, <2>2, InputsKept
  <2> QED
    BY <2>1, <2>3 DEF e
<1> QED
  BY <1>1, <1>2

LEMMA NoneRead ==
    ASSUME Init
    PROVE  Numbered
<1>1. db = <<>> /\ next = 1
  BY DEF Init, StateInit
<1>2. db \in Log
  BY <1>1 DEF Log
<1>3. InputPlaces(db) = {}
  BY <1>1 DEF InputPlaces
<1> DEFINE D == InputPlaces(db)
<1>4. D \in SUBSET Nat /\ IsFiniteSet(D)
  BY <1>2, InputPlacesIn
<1>5. D = {} /\ Cardinality(D) = 0
  BY <1>3, FS_EmptySet
<1> HIDE DEF D
<1>6. Len(Ascending[D]) = 0
  BY <1>4, <1>5, AscendingOf
<1>7. Len(Inputs(db)) = 0
  BY <1>2, <1>6, InputsOf DEF D
<1>8. \A i \in 1 .. Len(Inputs(db)) : FALSE
  BY <1>7
<1> QED
  BY <1>1, <1>7, <1>8 DEF Numbered, NumberedBy

(* The records of type INITIAL are the clauses of the formula in their     *)
(* order, whatever addClause_ removes from them and whatever the search,   *)
(* vivification and clause removal record in between: what a proof checker *)
(* that numbers the clauses by the input file relies on.                   *)
THEOREM InputsStayNumbered == Spec => []InputNumbering
<1>1. Init => Numbered
  BY NoneRead
<1>2. IInv => LogTyped
  BY LogContinues DEF LogTyped
<1>3. IInv /\ LogTyped' /\ [Next]_vars /\ Numbered => Numbered'
  BY NumberedStep DEF Numbered, LogTyped
<1>4. LogTyped /\ Numbered => InputNumbering
  BY NumberingOf DEF Numbered, LogTyped
<1> QED
  BY <1>1, <1>2, <1>3, <1>4, Invariant, PTL DEF Spec
=============================================================================
