------------------------ MODULE ChronoSearch_proofs -------------------------
(***************************************************************************)
(* Proofs about ChronoSearch, first part: facts about the operators on the *)
(* data of the solver (literals, what a selection from a sequence is,      *)
(* trails, reasons, watcher lists), which speak of values, not of          *)
(* variables; clauses and their records; the inductive invariant of the    *)
(* solver, for every number of variables, every formula, every setting of  *)
(* the options and every choice of the heuristics; that propagation keeps  *)
(* it; and what a log has of the formula when it grows.                    *)
(***************************************************************************)
EXTENDS ChronoSearch, ProofLemmas

(* A literal and its negation are the two literals of a variable.          *)
LEMMA LitFacts ==
    /\ \A l \in Lits : /\ Var(l) \in Vars /\ -l \in Lits /\ Var(-l) = Var(l)
                       /\ -l # l /\ l # 0 /\ l \in Int /\ -(-l) = l
    /\ \A l, m \in Lits : Var(l) = Var(m) => l = m \/ l = -m
    /\ 0 \notin Lits /\ \A v \in Vars : v \in Lits /\ -v \in Lits /\ Var(v) = v /\ v # 0
<1>1. NumVars \in Nat
  BY NumVarsAssumption
<1> QED
  BY <1>1 DEF Lits, Var, Vars

(* The elements of a sequence.                                             *)
LEMMA Element ==
    ASSUME NEW X, NEW s \in Seq(X)
    PROVE  /\ \A x \in ToSet(s) : x \in X /\ \E i \in 1 .. Len(s) : s[i] = x
           /\ \A i \in 1 .. Len(s) : s[i] \in ToSet(s) /\ s[i] \in X
           /\ DOMAIN s = 1 .. Len(s) /\ Len(s) \in Nat
<1>1. DOMAIN s = 1 .. Len(s) /\ Len(s) \in Nat
  OBVIOUS
<1>2. \A i \in 1 .. Len(s) : s[i] \in X
  OBVIOUS
<1> QED
  BY <1>1, <1>2 DEF ToSet

LEMMA Joined ==
    ASSUME NEW X, NEW s \in Seq(X), NEW t \in Seq(X)
    PROVE  /\ s \o t \in Seq(X) /\ Len(s \o t) = Len(s) + Len(t)
           /\ \A i \in 1 .. Len(s) : (s \o t)[i] = s[i]
           /\ \A i \in 1 .. Len(t) : (s \o t)[Len(s) + i] = t[i]
           /\ \A x : x \in ToSet(s \o t) <=> x \in ToSet(s) \/ x \in ToSet(t)
<1> DEFINE st == s \o t
<1>1. st \in Seq(X) /\ Len(st) = Len(s) + Len(t) /\ Len(s) \in Nat /\ Len(t) \in Nat
  BY ConcatProperties, Element
<1>2. \A i \in 1 .. Len(s) : st[i] = s[i]
  OBVIOUS
<1>3. \A i \in 1 .. Len(t) : st[Len(s) + i] = t[i]
  OBVIOUS
<1> HIDE DEF st
<1>4. DOMAIN st = 1 .. Len(s) + Len(t) /\ DOMAIN s = 1 .. Len(s) /\ DOMAIN t = 1 .. Len(t)
  BY <1>1
<1>5. \A i \in 1 .. Len(s) + Len(t) : i \in 1 .. Len(s) \/ (i - Len(s) \in 1 .. Len(t) /\ Len(s) + (i - Len(s)) = i)
  BY <1>1
<1>6. \A i \in 1 .. Len(s) : i \in 1 .. Len(s) + Len(t)
  BY <1>1
<1>7. \A i \in 1 .. Len(t) : Len(s) + i \in 1 .. Len(s) + Len(t)
  BY <1>1
<1>8. ASSUME NEW x \in ToSet(st)
      PROVE  x \in ToSet(s) \/ x \in ToSet(t)
  <2>1. PICK i \in 1 .. Len(s) + Len(t) : x = st[i]
    BY <1>4 DEF ToSet
  <2>2. CASE i \in 1 .. Len(s)
    BY <1>2, <1>4, <2>1, <2>2 DEF ToSet
  <2>3. CASE i \notin 1 .. Len(s)
    <3> DEFINE k == i - Len(s)
    <3>1. k \in 1 .. Len(t) /\ Len(s) + k = i
      BY <1>5, <2>3
    <3> HIDE DEF k
    <3>2. x = t[k] /\ k \in DOMAIN t
      BY <1>3, <1>4, <2>1, <3>1
    <3> QED
      BY <3>2 DEF ToSet
  <2> QED
    BY <2>2, <2>3
<1>9. ASSUME NEW x, x \in ToSet(s) \/ x \in ToSet(t)
      PROVE  x \in ToSet(st)
  <2>1. CASE x \in ToSet(s)
    BY <1>2, <1>4, <1>6, <2>1 DEF ToSet
  <2>2. CASE x \in ToSet(t)
    BY <1>3, <1>4, <1>7, <2>2 DEF ToSet
  <2> QED
    BY <1>9, <2>1, <2>2
<1> QED
  BY <1>1, <1>2, <1>3, <1>8, <1>9 DEF st

-----------------------------------------------------------------------------
(* The numbers of a finite set in ascending order: the i-th has i - 1 of   *)
(* them before it.                                                         *)
Below(S, k) == {j \in S : j < k}

LEMMA BelowCount ==
    ASSUME NEW S \in SUBSET Nat, IsFiniteSet(S), NEW k \in S
    PROVE  /\ IsFiniteSet(Below(S, k))
           /\ Cardinality(Below(S, k)) \in 0 .. Cardinality(S) - 1
           /\ \A j \in S : j < k => Cardinality(Below(S, j)) < Cardinality(Below(S, k))
<1>1. IsFiniteSet(S \ {k}) /\ Cardinality(S \ {k}) = Cardinality(S) - 1 /\ Cardinality(S) \in Nat
  BY FS_RemoveElement, FS_CardinalityType
<1>2. Below(S, k) \in SUBSET (S \ {k})
  BY DEF Below
<1>3. /\ IsFiniteSet(Below(S, k)) /\ Cardinality(Below(S, k)) <= Cardinality(S \ {k})
      /\ Cardinality(Below(S, k)) \in Nat
  BY <1>1, <1>2, FS_Subset, FS_CardinalityType
<1>4. ASSUME NEW j \in S, j < k
      PROVE  Cardinality(Below(S, j)) < Cardinality(Below(S, k))
  <2>1. Below(S, j) \in SUBSET Below(S, k) /\ j \in Below(S, k) /\ j \notin Below(S, j)
    <3>1. \A i \in S : i < j => i < k
      BY <1>4
    <3>2. ~(j < j)
      OBVIOUS
    <3> QED
      BY <1>4, <3>1, <3>2 DEF Below
  <2>2. Below(S, j) \in SUBSET (Below(S, k) \ {j})
    BY <2>1
  <2>3. /\ IsFiniteSet(Below(S, k) \ {j})
        /\ Cardinality(Below(S, k) \ {j}) = Cardinality(Below(S, k)) - 1
    BY <1>3, <2>1, FS_RemoveElement
  <2>4. /\ Cardinality(Below(S, j)) <= Cardinality(Below(S, k) \ {j})
        /\ IsFiniteSet(Below(S, j))
    BY <2>2, <2>3, FS_Subset
  <2>5. Cardinality(Below(S, j)) \in Nat
    BY <2>4, FS_CardinalityType
  <2> QED
    BY <1>3, <2>3, <2>4, <2>5
<1> QED
  BY <1>1, <1>3, <1>4

LEMMA AscendingOf ==
    ASSUME NEW S \in SUBSET Nat, IsFiniteSet(S)
    PROVE  /\ Ascending[S] \in Seq(S) /\ Len(Ascending[S]) = Cardinality(S)
           /\ \A k \in S : \E i \in 1 .. Cardinality(S) : Ascending[S][i] = k
           /\ \A i, j \in 1 .. Cardinality(S) : i < j => Ascending[S][i] < Ascending[S][j]
<1> DEFINE n == Cardinality(S)
           Rank(k) == Cardinality(Below(S, k))
           f == [k \in S |-> Rank(k)]
<1>1. n \in Nat
  BY FS_CardinalityType
<1>2. \A k \in S : Rank(k) \in 0 .. n - 1
  BY BelowCount
<1>3. \A j, k \in S : Rank(j) = Rank(k) => j = k
  <2>1. \A j, k \in S : j < k => Rank(j) # Rank(k)
    <3> SUFFICES ASSUME NEW j \in S, NEW k \in S, j < k
                 PROVE  Rank(j) # Rank(k)
      OBVIOUS
    <3>1. Rank(j) < Rank(k)
      BY BelowCount
    <3>2. Rank(j) \in Int /\ Rank(k) \in Int
      BY <1>2
    <3> HIDE DEF Rank
    <3> QED
      BY <3>1, <3>2
  <2> HIDE DEF Rank
  <2>2. \A j, k \in S : j < k \/ k < j \/ j = k
    OBVIOUS
  <2> QED
    BY <2>1, <2>2
<1> HIDE DEF Rank
<1>4. f \in Injection(S, 0 .. n - 1)
  <2>1. f \in [S -> 0 .. n - 1]
    BY <1>2
  <2> QED
    BY <1>3, <2>1 DEF Injection, IsInjective
<1>5. IsFiniteSet(0 .. n - 1) /\ Cardinality(0 .. n - 1) = n
  <2> HIDE DEF n
  <2>1. Cardinality(0 .. n - 1) = IF 0 > n - 1 THEN 0 ELSE (n - 1) - 0 + 1
    BY <1>1, FS_Interval
  <2>2. IsFiniteSet(0 .. n - 1)
    BY <1>1, FS_Interval
  <2> QED
    BY <1>1, <2>1, <2>2
<1>6. f \in Surjection(S, 0 .. n - 1)
  BY <1>4, <1>5, FS_Injection
<1>7. \A r \in 0 .. n - 1 : \E k \in S : Rank(k) = r
  BY <1>6 DEF Surjection
<1>8. Ascending[S] = [i \in 1 .. n |-> CHOOSE k \in S : Rank(k) = i - 1]
  BY DEF Ascending, Rank, Below
<1> DEFINE a == [i \in 1 .. n |-> CHOOSE k \in S : Rank(k) = i - 1]
<1> HIDE DEF n, f
<1>9. \A i \in 1 .. n : a[i] \in S /\ Rank(a[i]) = i - 1
  <2> SUFFICES ASSUME NEW i \in 1 .. n
               PROVE  a[i] \in S /\ Rank(a[i]) = i - 1
    OBVIOUS
  <2>1. i - 1 \in 0 .. n - 1
    BY <1>1
  <2>2. \E k \in S : Rank(k) = i - 1
    BY <1>7, <2>1
  <2>3. a[i] = CHOOSE k \in S : Rank(k) = i - 1
    OBVIOUS
  <2> HIDE DEF a
  <2> QED
    BY <2>2, <2>3
<1>10. a \in Seq(S) /\ Len(a) = n
  <2>1. a \in [1 .. n -> S]
    BY <1>9
  <2> HIDE DEF a
  <2> QED
    BY <1>1, <2>1, SeqDef
<1>11. ASSUME NEW k \in S
       PROVE  \E i \in 1 .. n : a[i] = k
  <2> DEFINE i == Rank(k) + 1
  <2>1. i \in 1 .. n /\ i - 1 = Rank(k)
    BY <1>1, <1>2
  <2> HIDE DEF a, i
  <2>2. a[i] \in S /\ Rank(a[i]) = Rank(k)
    BY <1>9, <2>1
  <2> QED
    BY <1>3, <2>1, <2>2
<1> HIDE DEF a
<1>12. ASSUME NEW i \in 1 .. n, NEW j \in 1 .. n, i < j
       PROVE  a[i] < a[j]
  <2>1. a[i] \in S /\ a[j] \in S /\ Rank(a[i]) = i - 1 /\ Rank(a[j]) = j - 1
    BY <1>9
  <2>2. a[j] < a[i] => Rank(a[j]) < Rank(a[i])
    BY <2>1, BelowCount DEF Rank
  <2>3. a[i] \in Nat /\ a[j] \in Nat
    BY <2>1
  <2>4. i \in Int /\ j \in Int /\ i - 1 < j - 1 /\ ~(j - 1 < i - 1)
    BY <1>1, <1>12
  <2>5. ~(a[j] < a[i])
    BY <2>1, <2>2, <2>4
  <2>6. a[i] # a[j]
    BY <2>1, <2>4
  <2> QED
    BY <2>3, <2>5, <2>6
<1> QED
  BY <1>8, <1>10, <1>11, <1>12 DEF n, a


-----------------------------------------------------------------------------
(* The elements of a sequence at the places of D, in their order: what     *)
(* Selected returns.                                                       *)
PickAt(s, D) == [n \in DOMAIN Ascending[D] |-> s[Ascending[D][n]]]

LEMMA Picked ==
    ASSUME NEW X, NEW s \in Seq(X), NEW D \in SUBSET DOMAIN s
    PROVE  /\ PickAt(s, D) \in Seq(X) /\ Len(PickAt(s, D)) = Cardinality(D)
           /\ IsFiniteSet(D)
           /\ \A n \in 1 .. Len(PickAt(s, D)) : Ascending[D][n] \in D /\ PickAt(s, D)[n] = s[Ascending[D][n]]
           /\ \A k \in D : \E n \in 1 .. Len(PickAt(s, D)) : Ascending[D][n] = k
           /\ \A m, n \in 1 .. Len(PickAt(s, D)) : m < n => Ascending[D][m] < Ascending[D][n]
<1>1. DOMAIN s = 1 .. Len(s) /\ Len(s) \in Nat /\ D \in SUBSET Nat /\ D \in SUBSET (1 .. Len(s))
  OBVIOUS
<1>2. IsFiniteSet(1 .. Len(s))
  BY <1>1, FS_Interval
<1>3. IsFiniteSet(D) /\ Cardinality(D) \in Nat
  BY <1>1, <1>2, FS_Subset, FS_CardinalityType
<1> DEFINE a == Ascending[D]
<1>4. /\ a \in Seq(D) /\ Len(a) = Cardinality(D)
      /\ \A k \in D : \E i \in 1 .. Cardinality(D) : a[i] = k
      /\ \A i, j \in 1 .. Cardinality(D) : i < j => a[i] < a[j]
  BY <1>1, <1>3, AscendingOf
<1> HIDE DEF a
<1>5. DOMAIN a = 1 .. Cardinality(D) /\ \A n \in DOMAIN a : a[n] \in D
  BY <1>4
<1> DEFINE q == PickAt(s, D)
<1>6. q = [n \in 1 .. Cardinality(D) |-> s[a[n]]]
  BY <1>5 DEF PickAt, a
<1>7. \A n \in 1 .. Cardinality(D) : s[a[n]] \in X
  BY <1>1, <1>5
<1>8. q \in [1 .. Cardinality(D) -> X] /\ DOMAIN q = 1 .. Cardinality(D)
  BY <1>6, <1>7
<1>9. q \in Seq(X) /\ Len(q) = Cardinality(D)
  <2> HIDE DEF q
  <2>1. q \in Seq(X)
    BY <1>3, <1>8, SeqDef
  <2> QED
    BY <1>3, <1>8, <2>1
<1>10. \A n \in 1 .. Len(q) : a[n] \in D /\ q[n] = s[a[n]]
  BY <1>5, <1>6, <1>9
<1> HIDE DEF q
<1> QED
  BY <1>3, <1>4, <1>9, <1>10 DEF a, q

(* A part of a sequence without repeated variables has none either.        *)
AllDistinct(s) == \A i, j \in DOMAIN s : Var(s[i]) = Var(s[j]) => i = j

LEMMA PickedSet ==
    ASSUME NEW X, NEW s \in Seq(X), NEW D \in SUBSET DOMAIN s
    PROVE  /\ \A x : x \in ToSet(PickAt(s, D)) <=> \E k \in D : x = s[k]
           /\ AllDistinct(s) => AllDistinct(PickAt(s, D))
           /\ (\A k \in DOMAIN s : k \in D) => PickAt(s, D) = s
           /\ Len(PickAt(s, D)) <= Len(s)
           /\ Len(PickAt(s, D)) = Len(s) => D = DOMAIN s
<1> DEFINE q == PickAt(s, D)
           a == Ascending[D]
<1>1. /\ q \in Seq(X) /\ Len(q) = Cardinality(D) /\ IsFiniteSet(D)
      /\ \A n \in 1 .. Len(q) : a[n] \in D /\ q[n] = s[a[n]]
      /\ \A k \in D : \E n \in 1 .. Len(q) : a[n] = k
      /\ \A m, n \in 1 .. Len(q) : m < n => a[m] < a[n]
  BY Picked
<1> HIDE DEF q, a
<1>2. DOMAIN q = 1 .. Len(q) /\ Len(q) \in Nat
  BY <1>1
<1>3. DOMAIN s = 1 .. Len(s) /\ Len(s) \in Nat /\ \A k \in D : k \in 1 .. Len(s) /\ k \in Int
  OBVIOUS
<1>4. ASSUME NEW x
      PROVE  x \in ToSet(q) <=> \E k \in D : x = s[k]
  <2>1. x \in ToSet(q) <=> \E n \in 1 .. Len(q) : x = q[n]
    BY <1>2 DEF ToSet
  <2> QED
    BY <1>1, <2>1
<1>5. ASSUME AllDistinct(s)
      PROVE  AllDistinct(q)
  <2>1. ASSUME NEW i \in 1 .. Len(q), NEW j \in 1 .. Len(q), Var(q[i]) = Var(q[j])
        PROVE  i = j
    <3>1. a[i] = a[j]
      BY <1>1, <1>3, <1>5, <2>1 DEF AllDistinct
    <3>2. a[i] \in Int /\ (i < j \/ j < i \/ i = j)
      BY <1>1, <1>3
    <3>3. ~(a[i] < a[i])
      BY <3>1, <1>1, <1>3
    <3> QED
      BY <1>1, <3>1, <3>2, <3>3
  <2> QED
    BY <1>2, <2>1 DEF AllDistinct
<1>6. IsFiniteSet(DOMAIN s) /\ Cardinality(DOMAIN s) = Len(s)
  <2> DEFINE n == Len(s)
  <2>1. n \in Int /\ 1 \in Int /\ n \in Nat
    BY <1>3
  <2> HIDE DEF n
  <2>2. IsFiniteSet(1 .. n) /\ Cardinality(1 .. n) = IF 1 > n THEN 0 ELSE n - 1 + 1
    BY ONLY <2>1, FS_Interval
  <2>3. (IF 1 > n THEN 0 ELSE n - 1 + 1) = n
    BY ONLY <2>1
  <2> QED
    BY <1>3, <2>2, <2>3 DEF n
<1>7. Cardinality(D) <= Len(s) /\ (Cardinality(D) = Len(s) => D = DOMAIN s)
  BY <1>6, FS_Subset
<1>8. ASSUME \A k \in DOMAIN s : k \in D
      PROVE  q = s
  <2>1. D = DOMAIN s /\ Len(q) = Len(s)
    BY <1>1, <1>6, <1>8
  <2>2. a[0] = a[0] /\ \A i \in 1 .. Len(s) : a[i] \in 1 .. Len(s)
    BY <1>1, <1>3, <2>1
  <2> DEFINE Low == {i \in Nat : i \in 1 .. Len(s) => a[i] >= i}
             High == {d \in Nat : d \in 0 .. Len(s) - 1 => a[Len(s) - d] <= Len(s) - d}
  <2>3. \A i \in Nat : i \in Low
    <3>1. 0 \in Low
      OBVIOUS
    <3>2. ASSUME NEW i \in Nat, i \in Low
          PROVE  i + 1 \in Low
      <4> SUFFICES ASSUME i + 1 \in 1 .. Len(s)
                   PROVE  a[i + 1] >= i + 1
        OBVIOUS
      <4>1. a[i + 1] \in 1 .. Len(s)
        BY <2>2
      <4>2. CASE i = 0
        BY <4>1, <4>2
      <4>3. CASE i # 0
        <5>1. i \in 1 .. Len(s) /\ i < i + 1
          BY <4>3
        <5>2. a[i] < a[i + 1] /\ a[i] >= i /\ a[i] \in Int
          BY <1>1, <2>1, <2>2, <3>2, <5>1
        <5> QED
          BY <4>1, <5>2
      <4> QED
        BY <4>2, <4>3
    <3>3. Low \in SUBSET Nat
      OBVIOUS
    <3> HIDE DEF Low
    <3> QED
      BY <3>1, <3>2, <3>3, NatSetInduction
  <2>4. \A d \in Nat : d \in High
    <3>1. 0 \in High
      <4>1. 0 \in 0 .. Len(s) - 1 => Len(s) \in 1 .. Len(s) /\ Len(s) - 0 = Len(s)
        BY <1>3
      <4> QED
        BY <1>3, <2>2, <4>1
    <3>2. ASSUME NEW d \in Nat, d \in High
          PROVE  d + 1 \in High
      <4> SUFFICES ASSUME d + 1 \in 0 .. Len(s) - 1
                   PROVE  a[Len(s) - (d + 1)] <= Len(s) - (d + 1)
        OBVIOUS
      <4> DEFINE i == Len(s) - (d + 1)
                 j == Len(s) - d
      <4>1. /\ i \in 1 .. Len(s) /\ j \in 1 .. Len(s) /\ i < j /\ j = i + 1
            /\ i \in Int /\ d \in 0 .. Len(s) - 1
        BY <1>3
      <4>2. a[j] <= j
        BY <3>2, <4>1
      <4> HIDE DEF i, j
      <4>3. a[i] < a[j] /\ a[i] \in Int /\ a[j] \in Int
        BY <1>1, <2>1, <2>2, <4>1
      <4>4. a[i] <= i
        BY <4>1, <4>2, <4>3
      <4> QED
        BY <4>4 DEF i
    <3>3. High \in SUBSET Nat
      OBVIOUS
    <3> HIDE DEF High
    <3> QED
      BY <3>1, <3>2, <3>3, NatSetInduction
  <2>5. ASSUME NEW i \in 1 .. Len(s)
        PROVE  a[i] = i
    <3> DEFINE d == Len(s) - i
    <3>1. d \in Nat /\ d \in 0 .. Len(s) - 1 /\ Len(s) - d = i /\ i \in Nat
      BY <1>3
    <3>2. a[i] >= i
      BY <2>3, <3>1
    <3>3. a[i] <= i
      BY <2>4, <3>1
    <3>4. a[i] \in Int /\ i \in Int
      BY <2>2, <1>3
    <3> QED
      BY <3>2, <3>3, <3>4
  <2>6. \A i \in 1 .. Len(s) : q[i] = s[i]
    BY <1>1, <2>1, <2>5
  <2> QED
    BY <1>1, <2>1, <2>6
<1> QED
  BY <1>1, <1>4, <1>5, <1>7, <1>8 DEF q

-----------------------------------------------------------------------------
(* A trail and the memory of clauses, as values: as is assigns, vd         *)
(* vardata, tr trail, lim trail_lim, c ca.                                 *)
Lv(vd, l) == vd[Var(l)].level
Rs(vd, l) == vd[Var(l)].reason
OnTrail(tr, l, n) == \E i \in 1 .. n : tr[i] = l

(* The literals of level lv may stand at place i of the trail.             *)
Within(lim, lv, i) == lv <= Len(lim) /\ (lv = 0 \/ lim[lv] < i)

(* The trail lists the true literals, each once.                           *)
Assigned(as, tr) ==
    /\ AllDistinct(tr)
    /\ \A i \in DOMAIN tr : as[Var(tr[i])] = tr[i]
    /\ \A v \in Vars : as[v] # 0 => Var(as[v]) = v /\ \E i \in DOMAIN tr : tr[i] = as[v]

(* The first n literals of the trail: the levels begin with their          *)
(* decisions, at the places of lim, no literal stands before the decision  *)
(* of its level, and what has no reason is of level 0 or a decision.       *)
Levels(vd, tr, lim, n) ==
    /\ \A k \in DOMAIN lim : lim[k] < n
    /\ \A j, k \in DOMAIN lim : j < k => lim[j] < lim[k]
    /\ \A k \in DOMAIN lim :
         Lv(vd, tr[lim[k] + 1]) = k /\ Rs(vd, tr[lim[k] + 1]) = CRef_Undef
    /\ \A i \in 1 .. n : Within(lim, Lv(vd, tr[i]), i)
    /\ \A i \in 1 .. n : Rs(vd, tr[i]) = CRef_Undef =>
         Lv(vd, tr[i]) = 0 \/ i = lim[Lv(vd, tr[i])] + 1

(* The literals q are a reason of the literal at place i.                  *)
Forces(q, vd, tr, i) ==
    /\ Len(q) >= 2 /\ tr[i] \in ToSet(q)
    /\ Len(q) # 2 => q[1] = tr[i]
    /\ \A l \in ToSet(q) \ {tr[i]} : Lv(vd, l) <= Lv(vd, tr[i]) /\ OnTrail(tr, -l, i - 1)
    /\ \E l \in ToSet(q) \ {tr[i]} : Lv(vd, l) = Lv(vd, tr[i])

Reasons(c, vd, tr, n) ==
    \A i \in 1 .. n : Rs(vd, tr[i]) # CRef_Undef =>
        /\ Rs(vd, tr[i]) \in DOMAIN c /\ ~c[Rs(vd, tr[i])].freed
        /\ Forces(c[Rs(vd, tr[i])].lits, vd, tr, i)

(* Clause cr is no reason.                                                 *)
NoReason(vd, tr, cr) == \A i \in DOMAIN tr : Rs(vd, tr[i]) # cr

(* One of the first n literals of the trail makes q true, and it is of no  *)
(* higher level than place i.                                              *)
Covered(q, vd, tr, lim, n, i) ==
    \E b \in ToSet(q) : OnTrail(tr, b, n) /\ Within(lim, Lv(vd, b), i)

(* A watched literal that is false at one of the first P places stands in  *)
(* a clause that is true there.                                            *)
Complete(c, vd, tr, lim, hand, n, P) ==
    \A cr \in DOMAIN c : ~c[cr].freed /\ cr # hand =>
        \A j \in {1, 2} : \A i \in 1 .. P :
            tr[i] = -c[cr].lits[j] => Covered(c[cr].lits, vd, tr, lim, n, i)

(* The watchers before the m-th have been visited.                         *)
Visited(list, c, vd, tr, lim, n, m, i) ==
    \A k \in DOMAIN list : k < m => Covered(c[list[k].cref].lits, vd, tr, lim, n, i)

(* The unit records of the variables.                                      *)
UnitsOK(vd, u, d, tr, n) ==
    \A v \in Vars :
        /\ vd[v].level = 0 <=> u[v] # NoCid
        /\ u[v] # NoCid => \E i \in 1 .. n : Var(tr[i]) = v /\ d[u[v]].lits = <<tr[i]>>

HasLevels(vd) == \A v \in Vars : vd[v].level \in Nat

(* The literals of the clauses of c.                                       *)
HasLits(c) == \A cr \in DOMAIN c : c[cr].lits \in Seq(Lits)

-----------------------------------------------------------------------------
(* Two trails with the same first n literals, of the same levels and       *)
(* reasons.                                                                *)
Agree(vd, vd2, tr, tr2, n) ==
    \A i \in 1 .. n : tr2[i] = tr[i] /\ vd2[Var(tr[i])] = vd[Var(tr[i])]

LEMMA LevelsFrame ==
    ASSUME NEW vd, NEW vd2, NEW tr, NEW tr2, NEW lim \in Seq(Nat), NEW n \in Nat,
           Agree(vd, vd2, tr, tr2, n), Levels(vd, tr, lim, n)
    PROVE  Levels(vd2, tr2, lim, n)
<1>1. \A i \in 1 .. n : tr2[i] = tr[i] /\ Lv(vd2, tr2[i]) = Lv(vd, tr[i]) /\ Rs(vd2, tr2[i]) = Rs(vd, tr[i])
  BY DEF Agree, Lv, HasLevels, Rs
<1>2. \A k \in DOMAIN lim : lim[k] \in Nat /\ lim[k] < n
  BY DEF Levels
<1>3. \A k \in DOMAIN lim : lim[k] + 1 \in 1 .. n
  BY <1>2
<1> QED
  BY <1>1, <1>3 DEF Levels

LEMMA ForcesFrame ==
    ASSUME NEW vd, NEW vd2, NEW tr, NEW tr2, NEW n \in Nat, NEW i \in 1 .. n,
           NEW q \in Seq(Lits), Agree(vd, vd2, tr, tr2, n), Forces(q, vd, tr, i)
    PROVE  Forces(q, vd2, tr2, i)
<1>1. tr2[i] = tr[i] /\ Lv(vd2, tr[i]) = Lv(vd, tr[i])
  BY DEF Agree, Lv, HasLevels
<1>2. ASSUME NEW l \in ToSet(q) \ {tr[i]}
      PROVE  Lv(vd2, l) = Lv(vd, l) /\ OnTrail(tr2, -l, i - 1)
  <2>1. PICK j \in 1 .. i - 1 : tr[j] = -l
    BY DEF Forces, OnTrail
  <2>2. j \in 1 .. n /\ l \in Lits
    BY DEF ToSet
  <2>3. tr2[j] = -l /\ vd2[Var(tr[j])] = vd[Var(tr[j])] /\ Var(tr[j]) = Var(l)
    BY <2>1, <2>2, LitFacts DEF Agree
  <2> QED
    BY <2>3 DEF OnTrail, Lv, HasLevels
<1> QED
  BY <1>1, <1>2 DEF Forces

LEMMA ReasonsFrame ==
    ASSUME NEW vd, NEW vd2, NEW tr, NEW tr2, NEW n \in Nat, NEW c, HasLits(c),
           Agree(vd, vd2, tr, tr2, n), Reasons(c, vd, tr, n)
    PROVE  Reasons(c, vd2, tr2, n)
<1>1. \A i \in 1 .. n : Rs(vd2, tr2[i]) = Rs(vd, tr[i])
  BY DEF Agree, Rs
<1>2. \A i \in 1 .. n : Rs(vd, tr[i]) # CRef_Undef => c[Rs(vd, tr[i])].lits \in Seq(Lits)
  BY DEF HasLits, Reasons
<1>3. \A i \in 1 .. n : Rs(vd, tr[i]) # CRef_Undef => Forces(c[Rs(vd, tr[i])].lits, vd2, tr2, i)
  BY <1>2, ForcesFrame DEF Reasons
<1> QED
  BY <1>1, <1>3 DEF Reasons

LEMMA CoveredFrame ==
    ASSUME NEW vd, NEW vd2, NEW tr, NEW tr2, NEW n \in Nat, NEW n2 \in Nat, n <= n2,
           NEW lim, NEW i, NEW q, Agree(vd, vd2, tr, tr2, n), Covered(q, vd, tr, lim, n, i)
    PROVE  Covered(q, vd2, tr2, lim, n2, i)
<1>1. PICK b \in ToSet(q) : OnTrail(tr, b, n) /\ Within(lim, Lv(vd, b), i)
  BY DEF Covered
<1>2. PICK j \in 1 .. n : tr[j] = b
  BY <1>1 DEF OnTrail
<1>3. j \in 1 .. n2 /\ tr2[j] = b /\ Lv(vd2, b) = Lv(vd, b)
  BY <1>2 DEF Agree, Lv, HasLevels
<1> QED
  BY <1>1, <1>3 DEF Covered, OnTrail

LEMMA CompleteFrame ==
    ASSUME NEW vd, NEW vd2, NEW tr, NEW tr2, NEW n \in Nat, NEW n2 \in Nat, n <= n2,
           NEW lim, NEW hand, NEW c, NEW P \in Nat, P <= n,
           Agree(vd, vd2, tr, tr2, n), Complete(c, vd, tr, lim, hand, n, P)
    PROVE  Complete(c, vd2, tr2, lim, hand, n2, P)
<1>1. \A i \in 1 .. P : i \in 1 .. n /\ tr2[i] = tr[i]
  BY DEF Agree
<1>2. \A cr \in DOMAIN c : \A i \in 1 .. P :
        Covered(c[cr].lits, vd, tr, lim, n, i) => Covered(c[cr].lits, vd2, tr2, lim, n2, i)
  BY CoveredFrame
<1> QED
  BY <1>1, <1>2 DEF Complete

LEMMA VisitedFrame ==
    ASSUME NEW vd, NEW vd2, NEW tr, NEW tr2, NEW n \in Nat, NEW n2 \in Nat, n <= n2,
           NEW lim, NEW list, NEW c, NEW m, NEW i,
           Agree(vd, vd2, tr, tr2, n), Visited(list, c, vd, tr, lim, n, m, i)
    PROVE  Visited(list, c, vd2, tr2, lim, n2, m, i)
BY CoveredFrame DEF Visited

-----------------------------------------------------------------------------
(* A literal is enqueued.                                                  *)
Enqueued(as, vd, tr, p, r, lv, as2, vd2, tr2) ==
    /\ p \in Lits /\ as[Var(p)] = 0
    /\ as2 = [as EXCEPT ![Var(p)] = p]
    /\ vd2 = [vd EXCEPT ![Var(p)] = [reason |-> r, level |-> lv]]
    /\ tr2 = Append(tr, p)

(* A literal is true exactly if it is on the trail.                        *)
LEMMA TrueOnTrail ==
    ASSUME NEW as, NEW tr \in Seq(Lits), Assigned(as, tr), NEW l \in Lits
    PROVE  /\ as[Var(l)] = l <=> OnTrail(tr, l, Len(tr))
           /\ as[Var(l)] = 0 => ~OnTrail(tr, l, Len(tr))
<1>1. Var(l) \in Vars /\ l # 0
  BY LitFacts
<1>2. ASSUME as[Var(l)] = l
      PROVE  OnTrail(tr, l, Len(tr))
  <2>1. \E i \in DOMAIN tr : tr[i] = l
    BY <1>1, <1>2 DEF Assigned
  <2> QED
    BY <2>1, Element DEF OnTrail
<1>3. ASSUME OnTrail(tr, l, Len(tr))
      PROVE  as[Var(l)] = l
  <2>1. PICK i \in 1 .. Len(tr) : tr[i] = l
    BY <1>3 DEF OnTrail
  <2>2. i \in DOMAIN tr
    BY Element
  <2> QED
    BY <2>1, <2>2 DEF Assigned
<1> QED
  BY <1>1, <1>2, <1>3

CanAppend(as, tr, p, as2, tr2) ==
    /\ as \in [Vars -> Lits \cup {0}] /\ tr \in Seq(Lits) /\ p \in Lits
    /\ Assigned(as, tr) /\ as[Var(p)] = 0
    /\ as2 = [as EXCEPT ![Var(p)] = p] /\ tr2 = Append(tr, p)

Grown(tr, p, tr2) ==
    /\ tr2 \in Seq(Lits) /\ Len(tr2) = Len(tr) + 1
    /\ \A i \in 1 .. Len(tr) : tr2[i] = tr[i] /\ Var(tr[i]) # Var(p)
    /\ tr2[Len(tr) + 1] = p

LEMMA AppendAssigned ==
    ASSUME NEW as, NEW tr, NEW p, NEW as2, NEW tr2, CanAppend(as, tr, p, as2, tr2)
    PROVE  /\ Assigned(as2, tr2) /\ as2 \in [Vars -> Lits \cup {0}]
           /\ Grown(tr, p, tr2)
<1>0. /\ as \in [Vars -> Lits \cup {0}] /\ tr \in Seq(Lits) /\ p \in Lits
      /\ Assigned(as, tr) /\ as[Var(p)] = 0
      /\ as2 = [as EXCEPT ![Var(p)] = p] /\ tr2 = Append(tr, p)
  BY DEF CanAppend
<1>1. /\ tr2 \in Seq(Lits) /\ Len(tr2) = Len(tr) + 1 /\ tr2[Len(tr) + 1] = p
      /\ \A i \in 1 .. Len(tr) : tr2[i] = tr[i]
      /\ DOMAIN tr = 1 .. Len(tr) /\ DOMAIN tr2 = 1 .. Len(tr) + 1 /\ Len(tr) \in Nat
  BY <1>0
<1>2. Var(p) \in Vars /\ p # 0
  BY <1>0, LitFacts
<1>3. /\ as2 \in [Vars -> Lits \cup {0}] /\ as2[Var(p)] = p
      /\ \A v \in Vars : v # Var(p) => as2[v] = as[v]
  <2> DEFINE w == Var(p)
  <2>1. w \in Vars /\ as2 = [as EXCEPT ![w] = p]
    BY <1>0, <1>2
  <2> HIDE DEF w
  <2>2. as2 \in [Vars -> Lits \cup {0}] /\ as2[w] = p /\ \A v \in Vars : v # w => as2[v] = as[v]
    BY <1>0, <2>1
  <2> QED
    BY <2>2 DEF w
<1>4. \A i \in 1 .. Len(tr) : tr[i] \in Lits /\ as[Var(tr[i])] = tr[i] /\ Var(tr[i]) \in Vars /\ tr[i] # 0
  <2>1. \A i \in 1 .. Len(tr) : tr[i] \in Lits
    BY <1>0
  <2>2. \A i \in DOMAIN tr : as[Var(tr[i])] = tr[i]
    BY <1>0 DEF Assigned
  <2> QED
    BY <1>1, <2>1, <2>2, LitFacts
<1>5. \A i \in 1 .. Len(tr) : Var(tr[i]) # Var(p)
  BY <1>0, <1>4
<1>6. \A i \in 1 .. Len(tr) + 1 : i \in 1 .. Len(tr) \/ i = Len(tr) + 1
  BY <1>1
<1>7. AllDistinct(tr2)
  <2>1. \A i, j \in 1 .. Len(tr) : Var(tr[i]) = Var(tr[j]) => i = j
    BY <1>0, <1>1 DEF Assigned, AllDistinct
  <2> QED
    BY <1>1, <1>5, <1>6, <2>1 DEF AllDistinct
<1>8. \A i \in DOMAIN tr2 : as2[Var(tr2[i])] = tr2[i]
  BY <1>1, <1>3, <1>4, <1>5, <1>6
<1>9. \A v \in Vars : as2[v] # 0 => Var(as2[v]) = v /\ \E i \in DOMAIN tr2 : tr2[i] = as2[v]
  <2> SUFFICES ASSUME NEW v \in Vars, as2[v] # 0
               PROVE  Var(as2[v]) = v /\ \E i \in DOMAIN tr2 : tr2[i] = as2[v]
    OBVIOUS
  <2>1. CASE v = Var(p)
    BY <1>1, <1>3, <2>1
  <2>2. CASE v # Var(p)
    <3>1. as2[v] = as[v]
      BY <1>3, <2>2
    <3>2. Var(as[v]) = v /\ \E i \in DOMAIN tr : tr[i] = as[v]
      BY <1>0, <3>1 DEF Assigned
    <3>3. PICK i \in 1 .. Len(tr) : tr[i] = as[v]
      BY <1>1, <3>2
    <3>4. i \in DOMAIN tr2 /\ tr2[i] = tr[i]
      BY <1>1
    <3> QED
      BY <3>1, <3>2, <3>3, <3>4
  <2> QED
    BY <2>1, <2>2
<1> QED
  BY <1>1, <1>3, <1>5, <1>7, <1>8, <1>9 DEF Assigned, Grown

LEMMA LevelsMore ==
    ASSUME NEW vd, NEW vd2, NEW tr, NEW tr2, NEW lim \in Seq(Nat), NEW n \in Nat,
           Agree(vd, vd2, tr, tr2, n), Levels(vd, tr, lim, n),
           Within(lim, Lv(vd2, tr2[n + 1]), n + 1),
           Rs(vd2, tr2[n + 1]) = CRef_Undef => Lv(vd2, tr2[n + 1]) = 0
    PROVE  Levels(vd2, tr2, lim, n + 1)
<1>1. Levels(vd2, tr2, lim, n)
  BY LevelsFrame
<1>2. \A i \in 1 .. n + 1 : i \in 1 .. n \/ i = n + 1
  OBVIOUS
<1>3. \A k \in DOMAIN lim : lim[k] \in Nat /\ (lim[k] < n => lim[k] < n + 1)
  OBVIOUS
<1> QED
  BY <1>1, <1>2, <1>3 DEF Levels

LEMMA LevelsDecision ==
    ASSUME NEW vd, NEW vd2, NEW tr, NEW tr2, NEW lim \in Seq(Nat), NEW n \in Nat,
           HasLevels(vd), tr \in Seq(Lits), n = Len(tr),
           Agree(vd, vd2, tr, tr2, n), Levels(vd, tr, lim, n),
           Lv(vd2, tr2[n + 1]) = Len(lim) + 1, Rs(vd2, tr2[n + 1]) = CRef_Undef
    PROVE  /\ Levels(vd2, tr2, Append(lim, n), n + 1)
           /\ \A lv \in Nat, i \in Nat : Within(lim, lv, i) => Within(Append(lim, n), lv, i)
<1> DEFINE lim2 == Append(lim, n)
<1>1. Levels(vd2, tr2, lim, n)
  BY LevelsFrame
<1>2. /\ Len(lim2) = Len(lim) + 1 /\ DOMAIN lim = 1 .. Len(lim) /\ DOMAIN lim2 = 1 .. Len(lim) + 1
      /\ Len(lim) \in Nat /\ lim2[Len(lim) + 1] = n /\ \A k \in 1 .. Len(lim) : lim2[k] = lim[k]
      /\ \A k \in 1 .. Len(lim) : lim[k] \in Nat
  OBVIOUS
<1> HIDE DEF lim2
<1>3. \A k \in 1 .. Len(lim) + 1 : k \in 1 .. Len(lim) \/ k = Len(lim) + 1
  BY <1>2
<1>4. \A k \in 1 .. Len(lim) : lim2[k] < n
  BY <1>1, <1>2 DEF Levels
<1>5. ASSUME NEW lv \in Nat, NEW i \in Nat, Within(lim, lv, i)
      PROVE  Within(lim2, lv, i) /\ (lv # 0 => lv \in 1 .. Len(lim) /\ lim2[lv] = lim[lv])
  <2>1. lv # 0 => lv \in 1 .. Len(lim) /\ lim2[lv] = lim[lv]
    BY <1>2, <1>5 DEF Within
  <2>2. lv <= Len(lim2)
    BY <1>2, <1>5 DEF Within
  <2> QED
    BY <1>5, <2>1, <2>2 DEF Within
<1>6. \A i \in 1 .. n + 1 : i \in 1 .. n \/ i = n + 1
  OBVIOUS
<1>7. \A i \in 1 .. n : Within(lim, Lv(vd2, tr2[i]), i) /\ Lv(vd2, tr2[i]) \in Nat
  <2>1. \A i \in 1 .. n : tr2[i] = tr[i] /\ Lv(vd2, tr2[i]) = Lv(vd, tr[i]) /\ tr[i] \in Lits
    BY DEF Agree, Lv, HasLevels
  <2>2. \A i \in 1 .. n : Lv(vd, tr[i]) \in Nat
    BY <2>1, LitFacts DEF Lv, HasLevels
  <2>3. \A i \in 1 .. n : Within(lim, Lv(vd2, tr2[i]), i)
    BY <1>1 DEF Levels
  <2> QED
    BY <2>1, <2>2, <2>3
<1>8. \A k \in DOMAIN lim2 : lim2[k] < n + 1
  BY <1>2, <1>3, <1>4
<1>9. \A j, k \in DOMAIN lim2 : j < k => lim2[j] < lim2[k]
  <2> SUFFICES ASSUME NEW j \in DOMAIN lim2, NEW k \in DOMAIN lim2, j < k
               PROVE  lim2[j] < lim2[k]
    OBVIOUS
  <2>1. CASE k \in 1 .. Len(lim)
    <3>1. j \in 1 .. Len(lim)
      BY <1>2, <2>1
    <3> QED
      BY <1>1, <1>2, <2>1, <3>1 DEF Levels
  <2>2. CASE k = Len(lim) + 1
    <3>1. j \in 1 .. Len(lim)
      BY <1>2, <2>2
    <3> QED
      BY <1>2, <1>4, <2>2, <3>1
  <2> QED
    BY <1>2, <1>3, <2>1, <2>2
<1>10. \A k \in DOMAIN lim2 :
         Lv(vd2, tr2[lim2[k] + 1]) = k /\ Rs(vd2, tr2[lim2[k] + 1]) = CRef_Undef
  <2>1. ASSUME NEW k \in 1 .. Len(lim)
        PROVE  Lv(vd2, tr2[lim2[k] + 1]) = k /\ Rs(vd2, tr2[lim2[k] + 1]) = CRef_Undef
    <3>1. k \in DOMAIN lim /\ lim2[k] = lim[k]
      BY <1>2
    <3> QED
      BY <1>1, <3>1 DEF Levels
  <2> QED
    BY <1>2, <1>3, <2>1
<1>11. \A i \in 1 .. n + 1 : Within(lim2, Lv(vd2, tr2[i]), i)
  <2>1. \A i \in 1 .. n : Within(lim2, Lv(vd2, tr2[i]), i)
    BY <1>5, <1>7
  <2>2. Within(lim2, Len(lim) + 1, n + 1)
    BY <1>2 DEF Within
  <2> QED
    BY <1>6, <2>1, <2>2
<1>12. \A i \in 1 .. n + 1 : Rs(vd2, tr2[i]) = CRef_Undef =>
         Lv(vd2, tr2[i]) = 0 \/ i = lim2[Lv(vd2, tr2[i])] + 1
  <2>1. ASSUME NEW i \in 1 .. n, Rs(vd2, tr2[i]) = CRef_Undef
        PROVE  Lv(vd2, tr2[i]) = 0 \/ i = lim2[Lv(vd2, tr2[i])] + 1
    <3> DEFINE lv == Lv(vd2, tr2[i])
    <3>1. lv = 0 \/ i = lim[lv] + 1
      BY <1>1, <2>1 DEF Levels
    <3>2. Within(lim, lv, i) /\ lv \in Nat /\ i \in Nat
      BY <1>7
    <3> HIDE DEF lv
    <3>3. lv # 0 => lim2[lv] = lim[lv]
      BY <1>5, <3>2
    <3>4. lv = 0 \/ i = lim2[lv] + 1
      BY <3>1, <3>3
    <3> QED
      BY <3>4 DEF lv
  <2> QED
    BY <1>2, <1>6, <2>1
<1> QED
  BY <1>5, <1>8, <1>9, <1>10, <1>11, <1>12 DEF Levels, lim2

(* The literal enqueued last has a reason.                                 *)
LEMMA ReasonsMore ==
    ASSUME NEW vd, NEW vd2, NEW tr, NEW tr2, NEW n \in Nat, NEW c, HasLits(c),
           Agree(vd, vd2, tr, tr2, n), Reasons(c, vd, tr, n),
           Rs(vd2, tr2[n + 1]) # CRef_Undef =>
             /\ Rs(vd2, tr2[n + 1]) \in DOMAIN c /\ ~c[Rs(vd2, tr2[n + 1])].freed
             /\ Forces(c[Rs(vd2, tr2[n + 1])].lits, vd2, tr2, n + 1)
    PROVE  Reasons(c, vd2, tr2, n + 1)
<1>1. Reasons(c, vd2, tr2, n)
  BY ReasonsFrame
<1>2. \A i \in 1 .. n + 1 : i \in 1 .. n \/ i = n + 1
  OBVIOUS
<1> QED
  BY <1>1, <1>2 DEF Reasons

(* What a clause needs to be the reason of the literal p of level lv.      *)
Implies(q, as, vd, p, lv) ==
    /\ q \in Seq(Lits) /\ Len(q) >= 2 /\ p \in ToSet(q) /\ (Len(q) # 2 => q[1] = p)
    /\ \A l \in ToSet(q) \ {p} : as[Var(l)] = -l /\ Lv(vd, l) <= lv
    /\ \E l \in ToSet(q) \ {p} : Lv(vd, l) = lv
OneMore(as, vd, tr, p, lv, vd2, tr2) ==
    /\ tr \in Seq(Lits) /\ Assigned(as, tr) /\ p \in Lits /\ as[Var(p)] = 0
    /\ \A v \in Vars : v # Var(p) => vd2[v] = vd[v]
    /\ vd2[Var(p)].level = lv /\ tr2 = Append(tr, p)

(* A clause whose other literals are false forces the literal enqueued.    *)
LEMMA ForcesNew ==
    ASSUME NEW as, NEW vd, NEW tr, NEW p, NEW q, NEW lv, NEW vd2, NEW tr2,
           OneMore(as, vd, tr, p, lv, vd2, tr2), Implies(q, as, vd, p, lv)
    PROVE  Forces(q, vd2, tr2, Len(tr) + 1)
<1> USE DEF OneMore, Implies
<1> DEFINE n == Len(tr)
<1>1. tr2[n + 1] = p /\ n \in Nat /\ n + 1 - 1 = n /\ \A i \in 1 .. n : tr2[i] = tr[i]
  OBVIOUS
<1>2. ASSUME NEW l \in ToSet(q) \ {p}
      PROVE  l \in Lits /\ Lv(vd2, l) = Lv(vd, l) /\ OnTrail(tr2, -l, n)
  <2>1. l \in Lits
    BY Element
  <2>2. -l \in Lits /\ Var(l) \in Vars /\ -l # 0 /\ Var(-l) = Var(l)
    BY <2>1, LitFacts
  <2>3. as[Var(l)] = -l /\ Var(l) # Var(p)
    BY <2>2
  <2>4. OnTrail(tr, -l, n)
    BY <2>2, <2>3, TrueOnTrail
  <2> QED
    BY <1>1, <2>1, <2>2, <2>3, <2>4 DEF OnTrail, Lv, HasLevels
<1>3. Lv(vd2, p) = lv
  BY DEF Lv, HasLevels
<1> HIDE DEF n
<1>4. \A l \in ToSet(q) \ {p} : Lv(vd2, l) <= Lv(vd2, p) /\ OnTrail(tr2, -l, n)
  <2> SUFFICES ASSUME NEW l \in ToSet(q) \ {p}
               PROVE  Lv(vd2, l) <= Lv(vd2, p) /\ OnTrail(tr2, -l, n)
    OBVIOUS
  <2>1. Lv(vd2, l) = Lv(vd, l) /\ OnTrail(tr2, -l, n) /\ Lv(vd, l) <= lv
    BY <1>2
  <2> QED
    BY <1>3, <2>1
<1>5. \E l \in ToSet(q) \ {p} : Lv(vd2, l) = Lv(vd2, p)
  BY <1>2, <1>3
<1>6. Forces(q, vd2, tr2, n + 1)
  BY <1>1, <1>4, <1>5 DEF Forces
<1> QED
  BY <1>6 DEF n

-----------------------------------------------------------------------------
(* What cancelUntil(b) leaves: the literals of the levels up to b, in      *)
(* their order; the place of each before is given by g.                    *)
Survivors(vd, tr, lim, b, tr2, g) ==
    /\ lim[b + 1] \in 0 .. Len(tr2) /\ lim[b + 1] < Len(tr)
    /\ g \in [1 .. Len(tr2) -> 1 .. Len(tr)]
    /\ \A i \in 1 .. Len(tr2) : tr2[i] = tr[g[i]] /\ Lv(vd, tr2[i]) <= b
    /\ \A i, j \in 1 .. Len(tr2) : i < j => g[i] < g[j]
    /\ \A i \in 1 .. lim[b + 1] : g[i] = i
    /\ \A k \in 1 .. Len(tr) : Lv(vd, tr[k]) <= b => \E i \in 1 .. Len(tr2) : g[i] = k

Undone(vd, tr, lim, b) ==
    LET upper == SubSeq(tr, lim[b + 1] + 1, Len(tr))
    IN  {l \in ToSet(upper) : Lv(vd, l) > b}
LeftBy(vd, tr, lim, b) ==
    LET upper == SubSeq(tr, lim[b + 1] + 1, Len(tr))
    IN  SubSeq(tr, 1, lim[b + 1])
          \o Selected(upper, LAMBDA l : l \notin Undone(vd, tr, lim, b))

LimLeft(lim, b) == SubSeq(lim, 1, b)

(* Below the place where level b + 1 begins, there are only lower levels.  *)
LEMMA BelowLevel ==
    ASSUME NEW vd, NEW tr \in Seq(Lits), NEW lim \in Seq(Nat), NEW b \in Nat, b < Len(lim),
           HasLevels(vd), NEW n \in Nat, n <= Len(tr),
           Levels(vd, tr, lim, n)
    PROVE  /\ lim[b + 1] \in Nat /\ lim[b + 1] < n
           /\ \A lv \in Nat : \A i \in 1 .. lim[b + 1] : Within(lim, lv, i) => lv <= b
           /\ \A lv \in 1 .. b : lim[lv] < lim[b + 1]
           /\ \A i \in 1 .. lim[b + 1] : Lv(vd, tr[i]) <= b
<1>1. b + 1 \in DOMAIN lim /\ lim[b + 1] \in Nat /\ lim[b + 1] < n
  BY DEF Levels
<1>2. \A lv \in 1 .. Len(lim) : lv \in DOMAIN lim /\ lim[lv] \in Nat
  OBVIOUS
<1>3. \A lv \in 1 .. b : lim[lv] < lim[b + 1]
  <2>1. \A lv \in 1 .. b : lv \in DOMAIN lim /\ lv < b + 1
    OBVIOUS
  <2> QED
    BY <1>1, <2>1 DEF Levels
<1>4. ASSUME NEW lv \in Nat, NEW i \in 1 .. lim[b + 1], Within(lim, lv, i), lv > b
      PROVE  FALSE
  <2>1. lv \in 1 .. Len(lim) /\ lim[lv] < i
    BY <1>4 DEF Within
  <2>2. lim[lv] >= lim[b + 1]
    <3>1. CASE lv = b + 1
      BY <1>1, <3>1
    <3>2. CASE lv # b + 1
      <4>1. b + 1 < lv /\ lv \in DOMAIN lim
        BY <1>2, <1>4, <2>1, <3>2
      <4>2. lim[b + 1] < lim[lv]
        BY <1>1, <4>1 DEF Levels
      <4> QED
        BY <1>1, <1>2, <2>1, <4>2
    <3> QED
      BY <3>1, <3>2
  <2> QED
    BY <1>1, <1>2, <2>1, <2>2
<1>5. ASSUME NEW lv \in Nat, NEW i \in 1 .. lim[b + 1], Within(lim, lv, i)
      PROVE  lv <= b
  BY <1>4, <1>5
<1>6. ASSUME NEW i \in 1 .. lim[b + 1]
      PROVE  Lv(vd, tr[i]) <= b
  <2>1. i \in 1 .. n /\ i \in 1 .. Len(tr)
    BY <1>1
  <2>2. Within(lim, Lv(vd, tr[i]), i)
    BY <2>1 DEF Levels
  <2>3. Lv(vd, tr[i]) \in Nat
    BY <2>1, LitFacts, Element DEF Lv, HasLevels
  <2> QED
    BY <1>5, <2>2, <2>3
<1> QED
  BY <1>1, <1>3, <1>5, <1>6

LEMMA CutBelow ==
    ASSUME NEW S, NEW s \in Seq(S), NEW m \in Nat, m < Len(s)
    PROVE  /\ SubSeq(s, m + 1, Len(s)) \in Seq(S) /\ Len(SubSeq(s, m + 1, Len(s))) = Len(s) - m
           /\ DOMAIN SubSeq(s, m + 1, Len(s)) = 1 .. Len(s) - m
           /\ \A k \in 1 .. Len(s) - m : SubSeq(s, m + 1, Len(s))[k] = s[m + k]
  OBVIOUS

LEMMA Cancelled ==
    ASSUME NEW vd, NEW tr \in Seq(Lits), NEW lim \in Seq(Nat), NEW b \in Nat, b < Len(lim),
           HasLevels(vd), Levels(vd, tr, lim, Len(tr))
    PROVE  /\ LeftBy(vd, tr, lim, b) \in Seq(Lits)
           /\ \E g : Survivors(vd, tr, lim, b, LeftBy(vd, tr, lim, b), g)
           /\ \A k \in 1 .. Len(tr) : tr[k] \in Undone(vd, tr, lim, b) <=> Lv(vd, tr[k]) > b
           /\ \A l \in Undone(vd, tr, lim, b) : Lv(vd, l) > b
<1> DEFINE base == lim[b + 1]
           upper == SubSeq(tr, base + 1, Len(tr))
           gone == Undone(vd, tr, lim, b)
           D == {k \in DOMAIN upper : upper[k] \notin gone}
           q == PickAt(upper, D)
           tr2 == LeftBy(vd, tr, lim, b)
           a == Ascending[D]
<1>1. base \in Nat /\ base < Len(tr) /\ \A i \in 1 .. base : Lv(vd, tr[i]) <= b
  <2>1. Len(tr) \in Nat /\ Len(tr) <= Len(tr)
    BY Element
  <2> QED
    BY <2>1, BelowLevel
<1>2. /\ upper \in Seq(Lits) /\ Len(upper) = Len(tr) - base /\ DOMAIN upper = 1 .. Len(tr) - base
      /\ \A k \in 1 .. Len(tr) - base : upper[k] = tr[base + k]
  <2> DEFINE S == Lits
  <2> HIDE DEF base, S
  <2>1. tr \in Seq(S)
    BY DEF S
  <2> QED
    BY <1>1, <2>1, CutBelow DEF S
<1>3. tr2 = SubSeq(tr, 1, base) \o q
  BY DEF LeftBy, Selected, PickAt
<1>4. gone = {l \in ToSet(upper) : Lv(vd, l) > b}
  BY DEF Undone
<1>5. D \in SUBSET DOMAIN upper
  OBVIOUS
<1>6. \A k \in DOMAIN upper : k \in D <=> ~(Lv(vd, upper[k]) > b)
  BY <1>4 DEF ToSet
<1> HIDE DEF base, upper, gone, D, tr2
<1>7. /\ q \in Seq(Lits) /\ Len(q) = Cardinality(D) /\ IsFiniteSet(D)
      /\ \A n \in 1 .. Len(q) : a[n] \in D /\ q[n] = upper[a[n]]
      /\ \A k \in D : \E n \in 1 .. Len(q) : a[n] = k
      /\ \A m, n \in 1 .. Len(q) : m < n => a[m] < a[n]
  <2>1. upper \in Seq(Lits)
    BY <1>2
  <2> QED
    BY <1>5, <2>1, Picked
<1> HIDE DEF q, a
<1>8. /\ tr2 \in Seq(Lits) /\ Len(tr2) = base + Len(q) /\ Len(q) \in Nat
      /\ \A i \in 1 .. base : tr2[i] = tr[i]
      /\ \A i \in base + 1 .. base + Len(q) : tr2[i] = q[i - base]
  <2>1. SubSeq(tr, 1, base) \in Seq(Lits) /\ Len(SubSeq(tr, 1, base)) = base
        /\ \A i \in 1 .. base : SubSeq(tr, 1, base)[i] = tr[i]
    BY <1>1
  <2> DEFINE low == SubSeq(tr, 1, base)
  <2> HIDE DEF low
  <2>2. low \in Seq(Lits) /\ Len(low) = base /\ \A i \in 1 .. base : low[i] = tr[i]
    BY <2>1 DEF low
  <2>3. q \in Seq(Lits) /\ base \in Nat
    BY <1>1, <1>7
  <2>6. /\ low \o q \in Seq(Lits) /\ Len(low \o q) = Len(low) + Len(q)
        /\ \A i \in 1 .. Len(low) : (low \o q)[i] = low[i]
        /\ \A i \in 1 .. Len(q) : (low \o q)[Len(low) + i] = q[i]
        /\ \A x : x \in ToSet(low \o q) <=> x \in ToSet(low) \/ x \in ToSet(q)
    BY <2>2, <2>3, Joined
  <2>8. Len(q) \in Nat
    BY <2>3
  <2>7. \A i \in base + 1 .. base + Len(q) : (low \o q)[i] = q[i - base]
    <3> SUFFICES ASSUME NEW i \in base + 1 .. base + Len(q)
                 PROVE  (low \o q)[i] = q[i - base]
      OBVIOUS
    <3> DEFINE k == i - base
    <3>1. k \in 1 .. Len(q) /\ base + k = i
      BY <2>3, <2>8
    <3> HIDE DEF k
    <3>2. (low \o q)[i] = q[k]
      BY <2>2, <2>6, <3>1
    <3> QED
      BY <3>2 DEF k
  <2>4. /\ low \o q \in Seq(Lits) /\ Len(low \o q) = base + Len(q) /\ Len(q) \in Nat
        /\ \A i \in 1 .. base : (low \o q)[i] = low[i]
        /\ \A i \in base + 1 .. base + Len(q) : (low \o q)[i] = q[i - base]
    BY <2>2, <2>6, <2>7, <2>8
  <2>5. tr2 = low \o q
    BY <1>3 DEF low
  <2> QED
    BY <2>2, <2>4, <2>5
<1> DEFINE g == [i \in 1 .. Len(tr2) |-> IF i <= base THEN i ELSE base + a[i - base]]
<1>9. \A i \in 1 .. Len(tr2) : ~(i <= base) => i - base \in 1 .. Len(q) /\ i \in base + 1 .. base + Len(q)
  BY <1>1, <1>8
<1>10. \A n \in 1 .. Len(q) : a[n] \in 1 .. Len(tr) - base /\ a[n] \in Int
  BY <1>1, <1>2, <1>5, <1>7
<1>11. ASSUME NEW i \in 1 .. Len(tr2)
       PROVE  /\ g[i] \in 1 .. Len(tr) /\ tr2[i] = tr[g[i]] /\ Lv(vd, tr2[i]) <= b
              /\ i <= base => g[i] = i
              /\ ~(i <= base) => g[i] = base + a[i - base] /\ g[i] > base
  <2>1. CASE i <= base
    <3>1. g[i] = i /\ i \in 1 .. base
      BY <2>1
    <3> HIDE DEF g
    <3>2. i \in 1 .. Len(tr)
      BY <1>1, <2>1
    <3> QED
      BY <1>1, <1>8, <2>1, <3>1, <3>2
  <2>2. CASE ~(i <= base)
    <3>1. g[i] = base + a[i - base] /\ i - base \in 1 .. Len(q) /\ i \in base + 1 .. base + Len(q)
      BY <1>9, <2>2
    <3> HIDE DEF g
    <3> DEFINE k == a[i - base]
    <3>2. k \in 1 .. Len(tr) - base /\ k \in D /\ q[i - base] = upper[k]
      BY <1>7, <1>10, <3>1
    <3> HIDE DEF k
    <3>3. base + k \in 1 .. Len(tr) /\ base + k > base
      BY <1>1, <3>2
    <3>9. g[i] = base + k
      BY <3>1 DEF k
    <3>4. tr2[i] = tr[base + k]
      BY <1>2, <1>8, <3>1, <3>2
    <3>5. ~(Lv(vd, tr[base + k]) > b)
      BY <1>2, <1>6, <3>2
    <3>6. Lv(vd, tr[base + k]) \in Nat
      BY <3>3, LitFacts, Element DEF Lv, HasLevels
    <3>7. Lv(vd, tr2[i]) <= b
      BY <3>4, <3>5, <3>6
    <3> QED
      BY <2>2, <3>1, <3>3, <3>4, <3>7, <3>9
  <2> QED
    BY <2>1, <2>2
<1>12. g \in [1 .. Len(tr2) -> 1 .. Len(tr)]
  <2>1. \A i \in 1 .. Len(tr2) : g[i] \in 1 .. Len(tr)
    BY <1>11
  <2> QED
    BY <2>1
<1> HIDE DEF g
<1>13. ASSUME NEW i \in 1 .. Len(tr2), NEW j \in 1 .. Len(tr2), i < j
       PROVE  g[i] < g[j]
  <2>1. i \in Int /\ j \in Int /\ g[i] \in Int /\ g[j] \in Int
    <3>1. g[i] \in 1 .. Len(tr) /\ g[j] \in 1 .. Len(tr)
      BY <1>11
    <3> QED
      BY <3>1
  <2>2. CASE j <= base
    <3>1. i <= base
      BY <1>1, <1>13, <2>1, <2>2
    <3> QED
      BY <1>11, <1>13, <2>2, <3>1
  <2>3. CASE ~(j <= base) /\ i <= base
    <3>1. g[j] > base /\ g[i] = i
      BY <1>11, <2>3
    <3> QED
      BY <1>1, <2>1, <2>3, <3>1
  <2>4. CASE ~(j <= base) /\ ~(i <= base)
    <3>1. /\ g[j] = base + a[j - base] /\ g[i] = base + a[i - base]
          /\ i - base \in 1 .. Len(q) /\ j - base \in 1 .. Len(q)
      BY <1>9, <1>11, <2>4
    <3>2. i - base < j - base
      BY <1>1, <1>13, <2>1
    <3>3. a[i - base] < a[j - base] /\ a[i - base] \in Int /\ a[j - base] \in Int
      BY <1>7, <1>10, <3>1, <3>2
    <3> DEFINE x == a[i - base]
               y == a[j - base]
    <3>4. x \in Int /\ y \in Int /\ x < y /\ g[j] = base + y /\ g[i] = base + x /\ base \in Int
      BY <1>1, <3>1, <3>3
    <3> HIDE DEF x, y
    <3> QED
      BY <3>4
  <2> QED
    BY <2>2, <2>3, <2>4
<1>14. ASSUME NEW k \in 1 .. Len(tr), Lv(vd, tr[k]) <= b
       PROVE  \E i \in 1 .. Len(tr2) : g[i] = k
  <2>1. CASE k <= base
    <3>1. k \in 1 .. Len(tr2)
      BY <1>1, <1>8, <2>1
    <3> QED
      BY <1>11, <2>1, <3>1
  <2>2. CASE ~(k <= base)
    <3> DEFINE m == k - base
    <3>1. m \in 1 .. Len(tr) - base /\ base + m = k /\ k \in Int
      BY <1>1, <2>2
    <3> HIDE DEF m
    <3>2. upper[m] = tr[k] /\ m \in DOMAIN upper
      BY <1>2, <3>1
    <3>3. Lv(vd, tr[k]) \in Nat
      BY LitFacts, Element DEF Lv, HasLevels
    <3>4. ~(Lv(vd, upper[m]) > b)
      BY <1>14, <3>2, <3>3
    <3>5. m \in D
      BY <1>6, <3>2, <3>4
    <3>6. PICK n \in 1 .. Len(q) : a[n] = m
      BY <1>7, <3>5
    <3> DEFINE i == base + n
    <3>7. i \in 1 .. Len(tr2) /\ ~(i <= base) /\ i - base = n
      BY <1>1, <1>8
    <3> HIDE DEF i
    <3>8. g[i] = base + a[n]
      BY <1>11, <3>7
    <3> QED
      BY <3>1, <3>6, <3>7, <3>8
  <2> QED
    BY <2>1, <2>2
<1>15. base \in 0 .. Len(tr2)
  BY <1>1, <1>8
<1>16. \A i \in 1 .. base : g[i] = i
  <2>1. \A i \in 1 .. base : i \in 1 .. Len(tr2) /\ i <= base
    BY <1>1, <1>8
  <2> QED
    BY <1>11, <2>1
<1>17. Survivors(vd, tr, lim, b, tr2, g)
  BY <1>1, <1>11, <1>12, <1>13, <1>14, <1>15, <1>16 DEF Survivors, base
<1>18. ASSUME NEW k \in 1 .. Len(tr), Lv(vd, tr[k]) > b
       PROVE  tr[k] \in gone
  <2>1. ~(k <= base)
    <3>1. Lv(vd, tr[k]) \in Nat
      BY LitFacts, Element DEF Lv, HasLevels
    <3>2. k <= base => Lv(vd, tr[k]) <= b
      BY <1>1
    <3> QED
      BY <1>18, <3>1, <3>2
  <2> DEFINE m == k - base
  <2>2. m \in 1 .. Len(tr) - base /\ base + m = k
    BY <1>1, <2>1
  <2> HIDE DEF m
  <2>3. upper[m] = tr[k] /\ m \in DOMAIN upper
    BY <1>2, <2>2
  <2>4. tr[k] \in ToSet(upper)
    BY <2>3 DEF ToSet
  <2> QED
    BY <1>4, <1>18, <2>4
<1> QED
  BY <1>4, <1>8, <1>17, <1>18 DEF tr2, gone

(* A state in which cancelUntil(b) has something to undo.                  *)
CanUndo(as, vd, tr, lim, b) ==
    /\ as \in [Vars -> Lits \cup {0}] /\ tr \in Seq(Lits) /\ lim \in Seq(Nat)
    /\ HasLevels(vd)
    /\ b \in Nat /\ b < Len(lim)
    /\ Assigned(as, tr) /\ Levels(vd, tr, lim, Len(tr))

(* The assignments that are left.                                          *)
Lowered(as, vd, b, as2) ==
    \A v \in Vars : as2[v] = IF as[v] # 0 /\ vd[v].level > b THEN 0 ELSE as[v]

Gone(vd, tr, b, gone) == \A k \in 1 .. Len(tr) : tr[k] \in gone <=> Lv(vd, tr[k]) > b

Without(as, gone) == [v \in Vars |-> IF as[v] \in gone THEN 0 ELSE as[v]]

LEMMA SurvivorsAssigned ==
    ASSUME NEW as, NEW vd, NEW tr, NEW lim, NEW b, NEW tr2 \in Seq(Lits), NEW g, NEW gone,
           CanUndo(as, vd, tr, lim, b), Survivors(vd, tr, lim, b, tr2, g),
           Gone(vd, tr, b, gone)
    PROVE  /\ Without(as, gone) \in [Vars -> Lits \cup {0}] /\ Assigned(Without(as, gone), tr2)
           /\ Lowered(as, vd, b, Without(as, gone))
<1> DEFINE as2 == Without(as, gone)
<1>0. /\ as2 = [v \in Vars |-> IF as[v] \in gone THEN 0 ELSE as[v]]
      /\ as \in [Vars -> Lits \cup {0}] /\ tr \in Seq(Lits) /\ HasLevels(vd) /\ b \in Nat
      /\ Assigned(as, tr)
  BY DEF Without, CanUndo
<1> HIDE DEF as2
<1>1. DOMAIN tr = 1 .. Len(tr) /\ DOMAIN tr2 = 1 .. Len(tr2) /\ Len(tr) \in Nat /\ Len(tr2) \in Nat
  BY <1>0
<1>2. /\ \A i \in 1 .. Len(tr) : as[Var(tr[i])] = tr[i]
      /\ \A i \in 1 .. Len(tr) : tr[i] \in Lits /\ Var(tr[i]) \in Vars /\ tr[i] # 0
  <2>1. \A i \in 1 .. Len(tr) : tr[i] \in Lits
    BY <1>0, Element
  <2>2. \A i \in DOMAIN tr : as[Var(tr[i])] = tr[i]
    BY <1>0 DEF Assigned
  <2> QED
    BY <1>1, <2>1, <2>2, LitFacts
<1>3. ASSUME NEW v \in Vars, as[v] # 0
      PROVE  \E k \in 1 .. Len(tr) : tr[k] = as[v] /\ Var(tr[k]) = v /\ (as[v] \in gone <=> vd[v].level > b)
  <2>1. Var(as[v]) = v /\ \E i \in DOMAIN tr : tr[i] = as[v]
    BY <1>0, <1>3 DEF Assigned
  <2>2. PICK k \in 1 .. Len(tr) : tr[k] = as[v]
    BY <1>1, <2>1
  <2>3. Lv(vd, tr[k]) = vd[v].level
    BY <1>0, <2>1, <2>2 DEF Lv, HasLevels
  <2>4. as[v] \in gone <=> vd[v].level > b
    BY <2>2, <2>3 DEF Gone
  <2> QED
    BY <2>1, <2>2, <2>4
<1>4. as2 \in [Vars -> Lits \cup {0}]
  BY <1>0
<1>5. ASSUME NEW v \in Vars
      PROVE  as2[v] = IF as[v] # 0 /\ vd[v].level > b THEN 0 ELSE as[v]
  <2>1. as2[v] = IF as[v] \in gone THEN 0 ELSE as[v]
    BY <1>0
  <2> QED
    BY <1>0, <1>3, <2>1
<1>6. ASSUME NEW i \in 1 .. Len(tr2)
      PROVE  g[i] \in 1 .. Len(tr) /\ tr2[i] = tr[g[i]] /\ Lv(vd, tr2[i]) <= b
  BY DEF Survivors
<1>7. AllDistinct(tr2)
  <2>1. ASSUME NEW i \in 1 .. Len(tr2), NEW j \in 1 .. Len(tr2), Var(tr2[i]) = Var(tr2[j])
        PROVE  i = j
    <3>1. g[i] = g[j]
      BY <1>0, <1>1, <1>6, <2>1 DEF Assigned, AllDistinct
    <3>2. i < j => g[i] < g[j]
      BY DEF Survivors
    <3>3. j < i => g[j] < g[i]
      BY DEF Survivors
    <3>4. g[i] \in Int
      BY <1>6
    <3>5. ~(g[i] < g[i])
      BY <3>4
    <3>6. i < j \/ j < i \/ i = j
      OBVIOUS
    <3> QED
      BY <3>1, <3>2, <3>3, <3>5, <3>6
  <2> QED
    BY <1>1, <2>1 DEF AllDistinct
<1>8. ASSUME NEW i \in 1 .. Len(tr2)
      PROVE  as2[Var(tr2[i])] = tr2[i]
  <2>1. as[Var(tr2[i])] = tr2[i] /\ Var(tr2[i]) \in Vars
    BY <1>2, <1>6
  <2> DEFINE w == Var(tr2[i])
  <2>2. vd[w].level <= b /\ vd[w].level \in Nat /\ w \in Vars /\ as[w] = tr2[i]
    BY <1>0, <1>6, <2>1 DEF Lv, HasLevels
  <2> HIDE DEF w
  <2>3. as2[w] = IF as[w] # 0 /\ vd[w].level > b THEN 0 ELSE as[w]
    BY <1>0, <1>5, <2>2
  <2>5. ~(vd[w].level > b)
    BY <1>0, <2>2
  <2>4. as2[w] = tr2[i]
    BY ONLY <2>2, <2>3, <2>5
  <2> QED
    BY <2>4 DEF w
<1>9. ASSUME NEW v \in Vars, as2[v] # 0
      PROVE  Var(as2[v]) = v /\ \E i \in 1 .. Len(tr2) : tr2[i] = as2[v]
  <2>1. as2[v] = as[v] /\ as[v] # 0 /\ ~(vd[v].level > b)
    BY <1>5, <1>9
  <2>2. PICK k \in 1 .. Len(tr) : tr[k] = as[v] /\ Var(tr[k]) = v
    BY <1>3, <2>1
  <2>3. Lv(vd, tr[k]) <= b
    BY <1>0, <2>1, <2>2 DEF Lv, HasLevels
  <2>4. PICK i \in 1 .. Len(tr2) : g[i] = k
    BY <2>3 DEF Survivors
  <2>5. tr2[i] = as2[v]
    BY <1>6, <2>1, <2>2, <2>4
  <2> QED
    BY <2>1, <2>2, <2>5
<1> QED
  BY <1>1, <1>4, <1>5, <1>7, <1>8, <1>9 DEF Assigned, as2, Lowered

LEMMA SurvivorsLevels ==
    ASSUME NEW vd, NEW tr \in Seq(Lits), NEW lim \in Seq(Nat),
           NEW b \in Nat, b < Len(lim), NEW tr2 \in Seq(Lits), NEW g,
           HasLevels(vd),
           Levels(vd, tr, lim, Len(tr)), Survivors(vd, tr, lim, b, tr2, g)
    PROVE  /\ Levels(vd, tr2, LimLeft(lim, b), Len(tr2))
           /\ LimLeft(lim, b) \in Seq(Nat) /\ Len(LimLeft(lim, b)) = b
           /\ \A k \in 1 .. b : LimLeft(lim, b)[k] = lim[k]
           /\ \A lv \in 0 .. b : \A i : Within(lim, lv, i) <=> Within(LimLeft(lim, b), lv, i)
<1> DEFINE base == lim[b + 1]
           lim2 == LimLeft(lim, b)
<1>0. lim2 = SubSeq(lim, 1, b)
  BY DEF LimLeft
<1> HIDE DEF lim2
<1>1. /\ lim2 \in Seq(Nat) /\ Len(lim2) = b /\ DOMAIN lim2 = 1 .. b
      /\ \A k \in 1 .. b : lim2[k] = lim[k] /\ k \in DOMAIN lim /\ lim[k] \in Nat
  BY <1>0
<1>2. Len(tr) \in Nat /\ Len(tr) <= Len(tr) /\ Len(tr2) \in Nat
  OBVIOUS
<1>3. base \in Nat /\ \A lv \in 1 .. b : lim[lv] < base
  BY <1>2, BelowLevel
<1>4. base <= Len(tr2) /\ \A i \in 1 .. base : g[i] = i
  BY DEF Survivors
<1>5. ASSUME NEW i \in 1 .. Len(tr2)
      PROVE  /\ g[i] \in 1 .. Len(tr) /\ tr2[i] = tr[g[i]] /\ Lv(vd, tr2[i]) \in 0 .. b
             /\ i > base => g[i] > base
  <2>1. g[i] \in 1 .. Len(tr) /\ tr2[i] = tr[g[i]] /\ Lv(vd, tr2[i]) <= b
    BY DEF Survivors
  <2>2. Lv(vd, tr2[i]) \in Nat
    BY Element, LitFacts DEF Lv, HasLevels
  <2>3. ASSUME i > base
        PROVE  g[i] > base
    <3>1. CASE base = 0
      BY <2>1, <3>1
    <3>2. CASE base # 0
      <4>1. base \in 1 .. Len(tr2) /\ base < i /\ base \in 1 .. base
        BY <1>3, <1>4, <2>3, <3>2
      <4>2. g[base] < g[i] /\ g[base] = base
        BY <1>4, <4>1 DEF Survivors
      <4> QED
        BY <1>3, <2>1, <4>2
    <3> QED
      BY <3>1, <3>2
  <2> QED
    BY <2>1, <2>2, <2>3
<1>6. ASSUME NEW lv \in 0 .. b, NEW i
      PROVE  Within(lim, lv, i) <=> Within(lim2, lv, i)
  <2>1. lv <= Len(lim) /\ lv <= Len(lim2)
    BY <1>1
  <2>2. lv # 0 => lim2[lv] = lim[lv]
    BY <1>1
  <2> QED
    BY <2>1, <2>2 DEF Within
<1> HIDE DEF base
<1>7. \A k \in 1 .. b : lim2[k] < Len(tr2) /\ lim[k] + 1 \in 1 .. base
  <2>1. ASSUME NEW k \in 1 .. b
        PROVE  lim2[k] < Len(tr2) /\ lim[k] + 1 \in 1 .. base
    <3> DEFINE x == lim[k]
    <3>1. lim2[k] = x /\ x \in Nat /\ x < base
      BY <1>1, <1>3
    <3> HIDE DEF x
    <3>2. x < Len(tr2) /\ x + 1 \in 1 .. base
      BY <1>2, <1>3, <1>4, <3>1
    <3> QED
      BY <3>1, <3>2 DEF x
  <2> QED
    BY <2>1
<1>8. \A j, k \in DOMAIN lim2 : j < k => lim2[j] < lim2[k]
  BY <1>1 DEF Levels
<1>9. ASSUME NEW k \in 1 .. b
      PROVE  Lv(vd, tr2[lim2[k] + 1]) = k /\ Rs(vd, tr2[lim2[k] + 1]) = CRef_Undef
  <2>1. lim[k] + 1 \in 1 .. base /\ lim2[k] = lim[k] /\ k \in DOMAIN lim
    BY <1>1, <1>7
  <2>2. lim[k] + 1 \in 1 .. Len(tr2) /\ g[lim[k] + 1] = lim[k] + 1
    BY <1>3, <1>4, <2>1
  <2>3. tr2[lim2[k] + 1] = tr[lim[k] + 1]
    BY <1>5, <2>1, <2>2
  <2> QED
    BY <2>1, <2>3 DEF Levels
<1>10. ASSUME NEW i \in 1 .. Len(tr2)
       PROVE  Within(lim2, Lv(vd, tr2[i]), i)
  <2> DEFINE lv == Lv(vd, tr2[i])
  <2>1. lv \in 0 .. b
    BY <1>5
  <2>2. lv <= Len(lim2)
    BY <1>1, <2>1
  <2>3. ASSUME lv # 0
        PROVE  lim2[lv] < i
    <3>1. lv \in 1 .. b /\ lim2[lv] = lim[lv] /\ lim[lv] \in Nat /\ lim[lv] < base
      BY <1>1, <1>3, <2>1, <2>3
    <3>2. CASE i > base
      BY <1>3, <3>1, <3>2
    <3>3. CASE ~(i > base)
      <4>1. i \in 1 .. base
        BY <1>3, <3>3
      <4>2. g[i] = i /\ Within(lim, Lv(vd, tr[g[i]]), g[i])
        BY <1>4, <1>5, <4>1 DEF Levels
      <4>3. Within(lim, lv, i)
        BY <1>5, <4>2
      <4> QED
        BY <2>3, <3>1, <4>3 DEF Within
    <3> QED
      BY <3>2, <3>3
  <2> QED
    BY <2>2, <2>3 DEF Within
<1>11. ASSUME NEW i \in 1 .. Len(tr2), Rs(vd, tr2[i]) = CRef_Undef
       PROVE  Lv(vd, tr2[i]) = 0 \/ i = lim2[Lv(vd, tr2[i])] + 1
  <2> DEFINE lv == Lv(vd, tr2[i])
  <2>1. lv \in 0 .. b /\ g[i] \in 1 .. Len(tr) /\ tr2[i] = tr[g[i]]
    BY <1>5
  <2>2. lv = 0 \/ g[i] = lim[lv] + 1
    BY <1>11, <2>1 DEF Levels
  <2> HIDE DEF lv
  <2>3. ASSUME lv # 0
        PROVE  i = lim2[lv] + 1
    <3>0. lv \in 1 .. b
      BY <2>1, <2>3
    <3>1. lv \in 1 .. b /\ lim2[lv] = lim[lv] /\ lim[lv] \in Nat /\ lim[lv] + 1 <= base
      BY <1>1, <1>7, <3>0
    <3>2. ~(g[i] > base)
      BY <1>3, <2>2, <2>3, <3>1
    <3>3. i \in 1 .. base
      BY <1>3, <1>5, <3>2
    <3> QED
      BY <1>4, <2>2, <2>3, <3>1, <3>3
  <2> QED
    BY <2>3 DEF lv
<1>12. \A k \in DOMAIN lim2 : lim2[k] < Len(tr2)
  BY <1>1, <1>7
<1>13. \A k \in DOMAIN lim2 : Lv(vd, tr2[lim2[k] + 1]) = k /\ Rs(vd, tr2[lim2[k] + 1]) = CRef_Undef
  BY <1>1, <1>9
<1>14. Levels(vd, tr2, lim2, Len(tr2))
  BY <1>8, <1>10, <1>11, <1>12, <1>13 DEF Levels
<1> QED
  BY <1>1, <1>6, <1>14 DEF lim2

LEMMA SurvivorsReasons ==
    ASSUME NEW vd, NEW tr \in Seq(Lits), NEW lim,
           NEW b \in Nat, NEW tr2 \in Seq(Lits), NEW g, NEW c, HasLits(c),
           HasLevels(vd),
           Survivors(vd, tr, lim, b, tr2, g)
    PROVE  /\ Reasons(c, vd, tr, Len(tr)) => Reasons(c, vd, tr2, Len(tr2))
           /\ \A cr : NoReason(vd, tr, cr) => NoReason(vd, tr2, cr)
           /\ \A i \in DOMAIN tr2 : \E k \in DOMAIN tr : tr2[i] = tr[k]
<1>1. DOMAIN tr = 1 .. Len(tr) /\ DOMAIN tr2 = 1 .. Len(tr2) /\ Len(tr) \in Nat /\ Len(tr2) \in Nat
  OBVIOUS
<1>2. \A i \in 1 .. Len(tr2) : g[i] \in 1 .. Len(tr) /\ tr2[i] = tr[g[i]] /\ Lv(vd, tr2[i]) <= b
  BY DEF Survivors
<1>3. ASSUME Reasons(c, vd, tr, Len(tr)), NEW i \in 1 .. Len(tr2), Rs(vd, tr2[i]) # CRef_Undef
      PROVE  /\ Rs(vd, tr2[i]) \in DOMAIN c /\ ~c[Rs(vd, tr2[i])].freed
             /\ Forces(c[Rs(vd, tr2[i])].lits, vd, tr2, i)
  <2> DEFINE r == Rs(vd, tr2[i])
             q == c[r].lits
             k == g[i]
  <2>1. k \in 1 .. Len(tr) /\ tr2[i] = tr[k] /\ Lv(vd, tr2[i]) <= b
    BY <1>2
  <2>2. r \in DOMAIN c /\ ~c[r].freed /\ Forces(q, vd, tr, k)
    BY <1>3, <2>1 DEF Reasons
  <2>3. q \in Seq(Lits)
    BY <2>2 DEF HasLits
  <2> HIDE DEF q, k
  <2>4. ASSUME NEW l \in ToSet(q) \ {tr2[i]}
        PROVE  Lv(vd, l) <= Lv(vd, tr2[i]) /\ OnTrail(tr2, -l, i - 1)
    <3>1. Lv(vd, l) <= Lv(vd, tr[k]) /\ OnTrail(tr, -l, k - 1)
      BY <2>1, <2>2 DEF Forces
    <3>2. PICK m \in 1 .. k - 1 : tr[m] = -l
      BY <3>1 DEF OnTrail
    <3>3. m \in 1 .. Len(tr) /\ m < k
      BY <2>1
    <3>4. l \in Lits /\ Var(-l) = Var(l) /\ Var(l) \in Vars
      BY <2>3, Element, LitFacts
    <3>5. Lv(vd, tr[m]) = Lv(vd, l) /\ Lv(vd, l) \in Nat
      BY <3>2, <3>4 DEF Lv, HasLevels
    <3>6. Lv(vd, tr2[i]) \in Nat
      BY Element, LitFacts DEF Lv, HasLevels
    <3>7. Lv(vd, tr[m]) <= b
      BY <2>1, <3>1, <3>5, <3>6
    <3>8. PICK j \in 1 .. Len(tr2) : g[j] = m
      BY <3>3, <3>7 DEF Survivors
    <3>9. j < i
      <4>1. i < j => g[i] < g[j]
        BY DEF Survivors
      <4>2. ~(g[i] < g[j]) /\ g[i] # g[j]
        BY <2>1, <3>3, <3>8 DEF k
      <4> QED
        BY <4>1, <4>2
    <3>10. j \in 1 .. i - 1 /\ tr2[j] = -l
      BY <1>2, <3>2, <3>8, <3>9
    <3> QED
      BY <2>1, <3>1, <3>10 DEF OnTrail
  <2>5. Forces(q, vd, tr2, i)
    BY <2>1, <2>2, <2>4 DEF Forces
  <2> QED
    BY <2>2, <2>5 DEF q
<1>4. ASSUME NEW cr, NoReason(vd, tr, cr)
      PROVE  NoReason(vd, tr2, cr)
  BY <1>1, <1>2, <1>4 DEF NoReason
<1> QED
  BY <1>1, <1>2, <1>3, <1>4 DEF Reasons

LEMMA SurvivorsComplete ==
    ASSUME NEW vd, NEW tr \in Seq(Lits), NEW lim \in Seq(Nat),
           NEW b \in Nat, b < Len(lim), NEW tr2 \in Seq(Lits), NEW g, NEW c, HasLits(c),
           HasLevels(vd),
           Levels(vd, tr, lim, Len(tr)), Survivors(vd, tr, lim, b, tr2, g),
           NEW hand, NEW P \in Nat, lim[b + 1] <= P, P <= Len(tr),
           Complete(c, vd, tr, lim, hand, Len(tr), P)
    PROVE  Complete(c, vd, tr2, LimLeft(lim, b), hand, Len(tr2), lim[b + 1])
<1> DEFINE base == lim[b + 1]
           lim2 == LimLeft(lim, b)
<1>1. /\ base \in Nat /\ base <= Len(tr2)
      /\ \A i \in 1 .. base : g[i] = i
      /\ \A i \in 1 .. Len(tr2) : g[i] \in 1 .. Len(tr) /\ tr2[i] = tr[g[i]]
  <2>1. base \in 0 .. Len(tr2) /\ g \in [1 .. Len(tr2) -> 1 .. Len(tr)]
    BY DEF Survivors
  <2>2. \A i \in 1 .. Len(tr2) : g[i] \in 1 .. Len(tr)
    BY <2>1
  <2>3. \A i \in 1 .. base : g[i] = i
    BY DEF Survivors
  <2>4. \A i \in 1 .. Len(tr2) : tr2[i] = tr[g[i]]
    BY DEF Survivors
  <2> QED
    BY <2>1, <2>2, <2>3, <2>4
<1>2. \A lv \in 0 .. b : \A i : Within(lim, lv, i) <=> Within(lim2, lv, i)
  <2>1. /\ Levels(vd, tr2, LimLeft(lim, b), Len(tr2))
        /\ LimLeft(lim, b) \in Seq(Nat) /\ Len(LimLeft(lim, b)) = b
        /\ \A k \in 1 .. b : LimLeft(lim, b)[k] = lim[k]
        /\ \A lv \in 0 .. b : \A i : Within(lim, lv, i) <=> Within(LimLeft(lim, b), lv, i)
    BY SurvivorsLevels
  <2> QED
    BY <2>1
<1>3. \A lv \in Nat : \A i \in 1 .. base : Within(lim, lv, i) => lv <= b
  <2>1. Len(tr) \in Nat /\ Len(tr) <= Len(tr)
    OBVIOUS
  <2>2. /\ lim[b + 1] \in Nat /\ lim[b + 1] < Len(tr)
        /\ \A lv \in Nat : \A i \in 1 .. lim[b + 1] : Within(lim, lv, i) => lv <= b
        /\ \A lv \in 1 .. b : lim[lv] < lim[b + 1]
        /\ \A i \in 1 .. lim[b + 1] : Lv(vd, tr[i]) <= b
    BY <2>1, BelowLevel
  <2> QED
    BY <2>2
<1> HIDE DEF base, lim2
<1>4. ASSUME NEW cr \in DOMAIN c, NEW i \in 1 .. base,
             Covered(c[cr].lits, vd, tr, lim, Len(tr), i)
      PROVE  Covered(c[cr].lits, vd, tr2, lim2, Len(tr2), i)
  <2>1. PICK x \in ToSet(c[cr].lits) : OnTrail(tr, x, Len(tr)) /\ Within(lim, Lv(vd, x), i)
    BY <1>4 DEF Covered
  <2>2. x \in Lits
    BY <2>1, Element DEF HasLits
  <2>3. Lv(vd, x) \in Nat
    BY <2>2, LitFacts DEF Lv, HasLevels
  <2>4. Lv(vd, x) <= b
    BY <1>3, <2>1, <2>3
  <2>5. PICK k \in 1 .. Len(tr) : tr[k] = x
    BY <2>1 DEF OnTrail
  <2>6. PICK m \in 1 .. Len(tr2) : g[m] = k
    BY <2>4, <2>5 DEF Survivors
  <2>7. OnTrail(tr2, x, Len(tr2))
    BY <1>1, <2>5, <2>6 DEF OnTrail
  <2>8. Within(lim2, Lv(vd, x), i)
    BY <1>2, <2>1, <2>3, <2>4
  <2> QED
    BY <2>1, <2>7, <2>8 DEF Covered
<1>5. \A i \in 1 .. base : i \in 1 .. P /\ tr2[i] = tr[i]
  <2>1. \A i \in 1 .. base : i \in 1 .. P /\ i \in 1 .. Len(tr2) /\ g[i] = i
    BY <1>1, Element DEF base
  <2> QED
    BY <1>1, <2>1
<1> QED
  BY <1>4, <1>5 DEF Complete, base, lim2

LEMMA SurvivorsUnits ==
    ASSUME NEW vd, NEW tr \in Seq(Lits), NEW lim, NEW b \in Nat, NEW tr2 \in Seq(Lits), NEW g,
           NEW u, NEW d, Survivors(vd, tr, lim, b, tr2, g), UnitsOK(vd, u, d, tr, Len(tr))
    PROVE  UnitsOK(vd, u, d, tr2, Len(tr2))
<1>1. ASSUME NEW v \in Vars, u[v] # NoCid
      PROVE  \E i \in 1 .. Len(tr2) : Var(tr2[i]) = v /\ d[u[v]].lits = <<tr2[i]>>
  <2>1. PICK k \in 1 .. Len(tr) : Var(tr[k]) = v /\ d[u[v]].lits = <<tr[k]>>
    BY <1>1 DEF UnitsOK
  <2>2. Lv(vd, tr[k]) = 0
    BY <1>1, <2>1 DEF UnitsOK, Lv, HasLevels
  <2>3. PICK i \in 1 .. Len(tr2) : g[i] = k
    BY <2>2 DEF Survivors
  <2>4. tr2[i] = tr[k]
    BY <2>3 DEF Survivors
  <2> QED
    BY <2>1, <2>4
<1> QED
  BY <1>1 DEF UnitsOK

AsLeft(as, vd, tr, lim, b) == Without(as, Undone(vd, tr, lim, b))

(* What cancelUntil keeps.                                                 *)
LEMMA UndoneTrail ==
    ASSUME NEW as, NEW vd, NEW tr, NEW lim, NEW b, CanUndo(as, vd, tr, lim, b)
    PROVE  /\ AsLeft(as, vd, tr, lim, b) \in [Vars -> Lits \cup {0}]
           /\ LeftBy(vd, tr, lim, b) \in Seq(Lits)
           /\ Assigned(AsLeft(as, vd, tr, lim, b), LeftBy(vd, tr, lim, b))
           /\ Lowered(as, vd, b, AsLeft(as, vd, tr, lim, b))
           /\ LimLeft(lim, b) \in Seq(Nat) /\ Len(LimLeft(lim, b)) = b
           /\ \A k \in 1 .. b : LimLeft(lim, b)[k] = lim[k]
           /\ Levels(vd, LeftBy(vd, tr, lim, b), LimLeft(lim, b), Len(LeftBy(vd, tr, lim, b)))
           /\ lim[b + 1] \in 0 .. Len(LeftBy(vd, tr, lim, b)) /\ lim[b + 1] < Len(tr)
           /\ \A k \in 1 .. b : lim[k] <= lim[b + 1]
<1> DEFINE tr2 == LeftBy(vd, tr, lim, b)
           as2 == AsLeft(as, vd, tr, lim, b)
           gone == Undone(vd, tr, lim, b)
<1>1. /\ as \in [Vars -> Lits \cup {0}] /\ tr \in Seq(Lits) /\ lim \in Seq(Nat)
      /\ HasLevels(vd)
      /\ b \in Nat /\ b < Len(lim)
      /\ Assigned(as, tr) /\ Levels(vd, tr, lim, Len(tr))
  BY DEF CanUndo
<1> HIDE DEF tr2, as2, gone
<1>2. /\ tr2 \in Seq(Lits) /\ \E g : Survivors(vd, tr, lim, b, tr2, g)
      /\ Gone(vd, tr, b, gone)
  BY <1>1, Cancelled DEF tr2, gone, Gone
<1>3. PICK g : Survivors(vd, tr, lim, b, tr2, g)
  BY <1>2
<1>4. as2 = Without(as, gone)
  BY DEF as2, gone, AsLeft
<1>5. /\ as2 \in [Vars -> Lits \cup {0}] /\ Assigned(as2, tr2)
      /\ Lowered(as, vd, b, as2)
  <2>1. /\ Without(as, gone) \in [Vars -> Lits \cup {0}] /\ Assigned(Without(as, gone), tr2)
        /\ Lowered(as, vd, b, Without(as, gone))
    BY <1>1, <1>2, <1>3, SurvivorsAssigned
  <2> QED
    BY <1>4, <2>1
<1>6. /\ Levels(vd, tr2, LimLeft(lim, b), Len(tr2))
      /\ LimLeft(lim, b) \in Seq(Nat) /\ Len(LimLeft(lim, b)) = b
      /\ \A k \in 1 .. b : LimLeft(lim, b)[k] = lim[k]
  BY <1>1, <1>2, <1>3, SurvivorsLevels
<1>7. lim[b + 1] \in 0 .. Len(tr2) /\ lim[b + 1] < Len(tr)
  BY <1>3 DEF Survivors
<1>8. \A k \in 1 .. b : lim[k] <= lim[b + 1]
  <2>1. Len(tr) \in Nat /\ Len(tr) <= Len(tr)
    BY <1>1, Element
  <2>2. /\ lim[b + 1] \in Nat /\ lim[b + 1] < Len(tr)
        /\ \A lv \in Nat : \A i \in 1 .. lim[b + 1] : Within(lim, lv, i) => lv <= b
        /\ \A lv \in 1 .. b : lim[lv] < lim[b + 1]
        /\ \A i \in 1 .. lim[b + 1] : Lv(vd, tr[i]) <= b
    BY <1>1, <2>1, BelowLevel
  <2>3. \A k \in 1 .. b : lim[k] \in Nat
    BY <1>1, Element
  <2> QED
    BY <2>2, <2>3
<1> QED
  BY <1>2, <1>5, <1>6, <1>7, <1>8 DEF tr2, as2

LEMMA UndoneReasons ==
    ASSUME NEW as, NEW vd, NEW tr, NEW lim, NEW b, CanUndo(as, vd, tr, lim, b),
           NEW c, HasLits(c)
    PROVE  /\ Reasons(c, vd, tr, Len(tr)) =>
                Reasons(c, vd, LeftBy(vd, tr, lim, b), Len(LeftBy(vd, tr, lim, b)))
           /\ \A cr : NoReason(vd, tr, cr) => NoReason(vd, LeftBy(vd, tr, lim, b), cr)
<1>1. /\ as \in [Vars -> Lits \cup {0}] /\ tr \in Seq(Lits) /\ lim \in Seq(Nat)
      /\ HasLevels(vd)
      /\ b \in Nat /\ b < Len(lim)
      /\ Assigned(as, tr) /\ Levels(vd, tr, lim, Len(tr))
  BY DEF CanUndo
<1> DEFINE tr2 == LeftBy(vd, tr, lim, b)
<1> HIDE DEF tr2
<1>2. tr2 \in Seq(Lits) /\ \E g : Survivors(vd, tr, lim, b, tr2, g)
  BY <1>1, Cancelled DEF tr2
<1>3. PICK g : Survivors(vd, tr, lim, b, tr2, g)
  BY <1>2
<1>4. /\ Reasons(c, vd, tr, Len(tr)) => Reasons(c, vd, tr2, Len(tr2))
      /\ \A cr : NoReason(vd, tr, cr) => NoReason(vd, tr2, cr)
      /\ \A i \in DOMAIN tr2 : \E k \in DOMAIN tr : tr2[i] = tr[k]
  BY <1>1, <1>2, <1>3, SurvivorsReasons
<1> QED
  BY <1>4 DEF tr2

LEMMA UndoneComplete ==
    ASSUME NEW as, NEW vd, NEW tr, NEW lim, NEW b, CanUndo(as, vd, tr, lim, b),
           NEW c, HasLits(c), NEW hand, NEW P \in Nat, lim[b + 1] <= P, P <= Len(tr),
           Complete(c, vd, tr, lim, hand, Len(tr), P)
    PROVE  Complete(c, vd, LeftBy(vd, tr, lim, b), LimLeft(lim, b), hand,
                    Len(LeftBy(vd, tr, lim, b)), lim[b + 1])
<1>1. /\ as \in [Vars -> Lits \cup {0}] /\ tr \in Seq(Lits) /\ lim \in Seq(Nat)
      /\ HasLevels(vd)
      /\ b \in Nat /\ b < Len(lim)
      /\ Assigned(as, tr) /\ Levels(vd, tr, lim, Len(tr))
  BY DEF CanUndo
<1> DEFINE tr2 == LeftBy(vd, tr, lim, b)
<1> HIDE DEF tr2
<1>2. tr2 \in Seq(Lits) /\ \E g : Survivors(vd, tr, lim, b, tr2, g)
  BY <1>1, Cancelled DEF tr2
<1>3. PICK g : Survivors(vd, tr, lim, b, tr2, g)
  BY <1>2
<1>4. Complete(c, vd, tr2, LimLeft(lim, b), hand, Len(tr2), lim[b + 1])
  BY <1>1, <1>2, <1>3, SurvivorsComplete
<1> QED
  BY <1>4 DEF tr2

LEMMA UndoneUnits ==
    ASSUME NEW as, NEW vd, NEW tr, NEW lim, NEW b, CanUndo(as, vd, tr, lim, b),
           NEW u, NEW d, UnitsOK(vd, u, d, tr, Len(tr))
    PROVE  UnitsOK(vd, u, d, LeftBy(vd, tr, lim, b), Len(LeftBy(vd, tr, lim, b)))
<1>1. /\ as \in [Vars -> Lits \cup {0}] /\ tr \in Seq(Lits) /\ lim \in Seq(Nat)
      /\ HasLevels(vd)
      /\ b \in Nat /\ b < Len(lim)
      /\ Assigned(as, tr) /\ Levels(vd, tr, lim, Len(tr))
  BY DEF CanUndo
<1> DEFINE tr2 == LeftBy(vd, tr, lim, b)
<1> HIDE DEF tr2
<1>2. tr2 \in Seq(Lits) /\ \E g : Survivors(vd, tr, lim, b, tr2, g)
  BY <1>1, Cancelled DEF tr2
<1>3. PICK g : Survivors(vd, tr, lim, b, tr2, g)
  BY <1>2
<1>4. UnitsOK(vd, u, d, tr2, Len(tr2))
  BY <1>1, <1>2, <1>3, SurvivorsUnits
<1> QED
  BY <1>4 DEF tr2

-----------------------------------------------------------------------------
(* Other clauses, the same trail.  A reason may get its literals in        *)
(* another order; only of a binary one may the first be another.           *)
SameReason(x, y) ==
    /\ y.freed = x.freed /\ Len(y.lits) = Len(x.lits) /\ ToSet(y.lits) = ToSet(x.lits)
    /\ Len(x.lits) # 2 => y.lits[1] = x.lits[1]
KeepsReasons(c, c2, vd, tr, n) ==
    \A i \in 1 .. n : Rs(vd, tr[i]) # CRef_Undef /\ Rs(vd, tr[i]) \in DOMAIN c =>
        Rs(vd, tr[i]) \in DOMAIN c2 /\ SameReason(c[Rs(vd, tr[i])], c2[Rs(vd, tr[i])])

LEMMA ReasonsKept ==
    ASSUME NEW c, NEW c2, NEW vd, NEW tr, NEW n,
           Reasons(c, vd, tr, n), KeepsReasons(c, c2, vd, tr, n)
    PROVE  Reasons(c2, vd, tr, n)
<1>1. ASSUME NEW i \in 1 .. n, Rs(vd, tr[i]) # CRef_Undef
      PROVE  /\ Rs(vd, tr[i]) \in DOMAIN c2 /\ ~c2[Rs(vd, tr[i])].freed
             /\ Forces(c2[Rs(vd, tr[i])].lits, vd, tr, i)
  <2> DEFINE r == Rs(vd, tr[i])
  <2>1. r \in DOMAIN c /\ ~c[r].freed /\ Forces(c[r].lits, vd, tr, i)
    BY <1>1 DEF Reasons
  <2>2. r \in DOMAIN c2 /\ SameReason(c[r], c2[r])
    BY <1>1, <2>1 DEF KeepsReasons
  <2> HIDE DEF r
  <2>3. Forces(c2[r].lits, vd, tr, i)
    BY <2>1, <2>2 DEF Forces, SameReason
  <2> QED
    BY <2>1, <2>2, <2>3 DEF SameReason, r
<1> QED
  BY <1>1 DEF Reasons

(* Place by place, the clause q is covered where its j-th literal is false. *)
Guarded(q, j, vd, tr, lim, n, P) ==
    \A i \in 1 .. P : tr[i] = -q[j] => Covered(q, vd, tr, lim, n, i)

(* A watched literal was watched before, or the clause is covered there.   *)
KeepsComplete(c, c2, vd, tr, lim, hand, hand2, n, P) ==
    \A cr \in DOMAIN c2 : ~c2[cr].freed /\ cr # hand2 => \A j \in {1, 2} :
        \/ Guarded(c2[cr].lits, j, vd, tr, lim, n, P)
        \/ /\ cr \in DOMAIN c /\ ~c[cr].freed /\ cr # hand
           /\ ToSet(c2[cr].lits) = ToSet(c[cr].lits)
           /\ \E m \in {1, 2} : c2[cr].lits[j] = c[cr].lits[m]

LEMMA CompleteKept ==
    ASSUME NEW c, NEW c2, NEW vd, NEW tr, NEW lim, NEW hand, NEW hand2, NEW n, NEW P,
           Complete(c, vd, tr, lim, hand, n, P),
           KeepsComplete(c, c2, vd, tr, lim, hand, hand2, n, P)
    PROVE  Complete(c2, vd, tr, lim, hand2, n, P)
<1> SUFFICES ASSUME NEW cr \in DOMAIN c2, ~c2[cr].freed, cr # hand2, NEW j \in {1, 2},
                    NEW i \in 1 .. P, tr[i] = -c2[cr].lits[j]
             PROVE  Covered(c2[cr].lits, vd, tr, lim, n, i)
  BY DEF Complete
<1>1. CASE Guarded(c2[cr].lits, j, vd, tr, lim, n, P)
  BY <1>1 DEF Guarded
<1>2. CASE /\ cr \in DOMAIN c /\ ~c[cr].freed /\ cr # hand
           /\ ToSet(c2[cr].lits) = ToSet(c[cr].lits)
           /\ \E m \in {1, 2} : c2[cr].lits[j] = c[cr].lits[m]
  <2>1. Covered(c[cr].lits, vd, tr, lim, n, i)
    BY <1>2 DEF Complete
  <2> QED
    BY <1>2, <2>1 DEF Covered
<1> QED
  BY <1>1, <1>2 DEF KeepsComplete

LEMMA CompleteLess ==
    ASSUME NEW c, NEW vd, NEW tr, NEW lim, NEW hand, NEW n, NEW P \in Int, NEW P2 \in Int, P2 <= P,
           Complete(c, vd, tr, lim, hand, n, P)
    PROVE  Complete(c, vd, tr, lim, hand, n, P2)
<1>1. \A i \in 1 .. P2 : i \in 1 .. P
  OBVIOUS
<1> QED
  BY <1>1 DEF Complete

(* A literal that is not false guards its clause.                          *)
LEMMA NotFalseGuards ==
    ASSUME NEW as, NEW vd, NEW tr \in Seq(Lits), NEW lim, NEW n, NEW P \in Nat, P <= Len(tr),
           Assigned(as, tr), NEW q, NEW j, q[j] \in Lits, as[Var(q[j])] # -q[j]
    PROVE  Guarded(q, j, vd, tr, lim, n, P)
<1>1. ASSUME NEW i \in 1 .. P, tr[i] = -q[j]
      PROVE  FALSE
  <2>1. i \in DOMAIN tr /\ Var(-q[j]) = Var(q[j])
    BY LitFacts
  <2> QED
    BY <2>1, <1>1 DEF Assigned
<1> QED
  BY <1>1 DEF Guarded

(* A new decision: what was covered before stays covered.                  *)
LEMMA CompleteDecision ==
    ASSUME NEW vd, NEW vd2, NEW tr \in Seq(Lits), NEW tr2, NEW lim \in Seq(Nat), NEW lim2,
           NEW hand, NEW c, NEW P \in Nat, P <= Len(tr), NEW n \in Nat, n = Len(tr), HasLevels(vd),
           HasLits(c),
           \A lv \in Nat, i \in Nat : Within(lim, lv, i) => Within(lim2, lv, i),
           Agree(vd, vd2, tr, tr2, n), Complete(c, vd, tr, lim, hand, n, P)
    PROVE  Complete(c, vd2, tr2, lim2, hand, n + 1, P)
<1> SUFFICES ASSUME NEW cr \in DOMAIN c, ~c[cr].freed, cr # hand, NEW j \in {1, 2},
                    NEW i \in 1 .. P, tr2[i] = -c[cr].lits[j]
             PROVE  Covered(c[cr].lits, vd2, tr2, lim2, n + 1, i)
  BY DEF Complete
<1>1. i \in 1 .. n /\ i \in Nat
  OBVIOUS
<1>2. Covered(c[cr].lits, vd, tr, lim, n, i)
  BY <1>1 DEF Complete, Agree
<1>3. PICK b \in ToSet(c[cr].lits) : OnTrail(tr, b, n) /\ Within(lim, Lv(vd, b), i)
  BY <1>2 DEF Covered
<1>4. PICK k \in 1 .. n : tr[k] = b
  BY <1>3 DEF OnTrail
<1>5. tr2[k] = b /\ vd2[Var(b)] = vd[Var(b)] /\ k \in 1 .. n + 1
  BY <1>4 DEF Agree
<1>6. b \in Lits /\ Lv(vd, b) \in Nat
  BY <1>4, LitFacts, Element DEF HasLevels, Lv
<1>7. Within(lim2, Lv(vd2, b), i)
  BY <1>1, <1>3, <1>5, <1>6 DEF Lv
<1> QED
  BY <1>3, <1>5, <1>7 DEF Covered, OnTrail

-----------------------------------------------------------------------------
(* Vivification takes its assumptions back: the first n literals stay.     *)
CanTakeBack(as, tr, n, as2, tr2) ==
    /\ as \in [Vars -> Lits \cup {0}] /\ tr \in Seq(Lits) /\ n \in Nat /\ n <= Len(tr)
    /\ Assigned(as, tr)
    /\ as2 = [v \in Vars |-> IF v \in VarsOf(SubSeq(tr, n + 1, Len(tr))) THEN 0 ELSE as[v]]
    /\ tr2 = SubSeq(tr, 1, n)
TakenBack(as, tr, n, as2, tr2) ==
    /\ as2 \in [Vars -> Lits \cup {0}] /\ Assigned(as2, tr2)
    /\ tr2 \in Seq(Lits) /\ Len(tr2) = n /\ \A i \in 1 .. n : tr2[i] = tr[i]
    /\ \A vd : Agree(vd, vd, tr, tr2, n)
    /\ \A v \in Vars :
         as2[v] = IF \E i \in n + 1 .. Len(tr) : Var(tr[i]) = v THEN 0 ELSE as[v]

LEMMA FirstTrail ==
    ASSUME NEW as, NEW tr, NEW n, NEW as2, NEW tr2, CanTakeBack(as, tr, n, as2, tr2)
    PROVE  TakenBack(as, tr, n, as2, tr2)
<1> DEFINE gone == VarsOf(SubSeq(tr, n + 1, Len(tr)))
<1>0. /\ as \in [Vars -> Lits \cup {0}] /\ tr \in Seq(Lits) /\ n \in Nat /\ n <= Len(tr)
      /\ Assigned(as, tr) /\ as2 = [v \in Vars |-> IF v \in gone THEN 0 ELSE as[v]]
      /\ tr2 = SubSeq(tr, 1, n)
  BY DEF CanTakeBack
<1>g. \A v : v \in gone <=> \E i \in n + 1 .. Len(tr) : Var(tr[i]) = v
  <2> DEFINE up == SubSeq(tr, n + 1, Len(tr))
  <2>1. /\ DOMAIN up = 1 .. Len(tr) - n
        /\ \A k \in 1 .. Len(tr) - n : up[k] = tr[n + k]
    BY <1>0
  <2>2. \A v : v \in gone <=> \E k \in DOMAIN up : v = Var(up[k])
    BY DEF VarsOf
  <2> HIDE DEF up, gone
  <2>3. ASSUME NEW v, v \in gone
        PROVE  \E i \in n + 1 .. Len(tr) : Var(tr[i]) = v
    <3>1. PICK k \in 1 .. Len(tr) - n : v = Var(tr[n + k])
      BY <2>1, <2>2, <2>3
    <3>2. n + k \in n + 1 .. Len(tr)
      BY <1>0
    <3> QED
      BY <3>1, <3>2
  <2>4. ASSUME NEW i \in n + 1 .. Len(tr)
        PROVE  Var(tr[i]) \in gone
    <3>1. i - n \in 1 .. Len(tr) - n /\ n + (i - n) = i
      BY <1>0
    <3> QED
      BY <3>1, <2>1, <2>2
  <2> QED
    BY <2>3, <2>4
<1> HIDE DEF gone
<1>1. tr2 \in Seq(Lits) /\ Len(tr2) = n /\ \A i \in 1 .. n : tr2[i] = tr[i]
  BY <1>0, FirstOf
<1>2. as2 \in [Vars -> Lits \cup {0}] /\ \A v \in Vars : as2[v] = IF v \in gone THEN 0 ELSE as[v]
  BY <1>0
<1>3. DOMAIN tr = 1 .. Len(tr) /\ DOMAIN tr2 = 1 .. n
  BY <1>0, <1>1
<1>4. AllDistinct(tr2)
  BY <1>0, <1>1, <1>3 DEF AllDistinct, Assigned
<1>5. ASSUME NEW i \in 1 .. n
      PROVE  as2[Var(tr2[i])] = tr2[i]
  <2>1. i \in 1 .. Len(tr) /\ tr[i] \in Lits /\ Var(tr[i]) \in Vars
    BY <1>0, Element, LitFacts
  <2>2. Var(tr[i]) \notin gone
    <3>1. ASSUME NEW k \in n + 1 .. Len(tr), Var(tr[k]) = Var(tr[i])
          PROVE  FALSE
      <4>1. k \in DOMAIN tr /\ i \in DOMAIN tr /\ k # i
        BY <1>0, <1>3
      <4> QED
        BY <1>0, <4>1, <3>1 DEF Assigned, AllDistinct
    <3> QED
      BY <3>1, <1>g
  <2>3. as[Var(tr[i])] = tr[i]
    BY <1>0, <2>1, <1>3 DEF Assigned
  <2> QED
    BY <2>1, <2>2, <2>3, <1>1, <1>2
<1>6. ASSUME NEW v \in Vars, as2[v] # 0
      PROVE  Var(as2[v]) = v /\ \E i \in 1 .. n : tr2[i] = as2[v]
  <2>1. v \notin gone /\ as2[v] = as[v] /\ as[v] # 0
    BY <1>2, <1>6
  <2>2. Var(as[v]) = v /\ \E i \in DOMAIN tr : tr[i] = as[v]
    BY <1>0, <2>1 DEF Assigned
  <2>3. PICK i \in 1 .. Len(tr) : tr[i] = as[v]
    BY <2>2, <1>3
  <2>4. ~(i \in n + 1 .. Len(tr))
    BY <1>g, <2>1, <2>2, <2>3
  <2>5. i \in 1 .. n
    BY <1>0, <2>4
  <2> QED
    BY <2>1, <2>2, <2>3, <2>5, <1>1
<1>7. Assigned(as2, tr2)
  BY <1>3, <1>4, <1>5, <1>6 DEF Assigned
<1>8. \A v \in Vars :
        as2[v] = IF \E i \in n + 1 .. Len(tr) : Var(tr[i]) = v THEN 0 ELSE as[v]
  BY <1>g, <1>2
<1> QED
  BY <1>1, <1>2, <1>7, <1>8 DEF TakenBack, Agree

-----------------------------------------------------------------------------
(* Unit records.                                                           *)
LEMMA UnitsFrame ==
    ASSUME NEW vd, NEW vd2, NEW u, NEW d, NEW d2, NEW tr, NEW tr2, NEW n \in Nat, NEW n2 \in Nat,
           n <= n2, UnitsOK(vd, u, d, tr, n),
           \A i \in 1 .. n : tr2[i] = tr[i],
           \A v \in Vars : vd2[v].level = vd[v].level,
           \A v \in Vars : u[v] # NoCid => d2[u[v]] = d[u[v]]
    PROVE  UnitsOK(vd2, u, d2, tr2, n2)
<1> SUFFICES ASSUME NEW v \in Vars
             PROVE  /\ vd2[v].level = 0 <=> u[v] # NoCid
                    /\ u[v] # NoCid => \E i \in 1 .. n2 : Var(tr2[i]) = v /\ d2[u[v]].lits = <<tr2[i]>>
  BY DEF UnitsOK
<1>1. vd2[v].level = 0 <=> u[v] # NoCid
  BY DEF UnitsOK
<1>2. ASSUME u[v] # NoCid
      PROVE  \E i \in 1 .. n2 : Var(tr2[i]) = v /\ d2[u[v]].lits = <<tr2[i]>>
  <2>1. PICK i \in 1 .. n : Var(tr[i]) = v /\ d[u[v]].lits = <<tr[i]>>
    BY <1>2 DEF UnitsOK
  <2>2. i \in 1 .. n2
    OBVIOUS
  <2> QED
    BY <2>1, <2>2, <1>2
<1> QED
  BY <1>1, <1>2

(* A literal of a level lv is enqueued; at level 0 with a record of its    *)
(* own.                                                                    *)
SameUnits(u, d, d2) == \A v \in Vars : u[v] # NoCid => d2[u[v]] = d[u[v]]
UnitAdded(u, d, u2, d2, p, lv) ==
    /\ u2 \in [Vars -> Nat] /\ SameUnits(u, d, d2)
    /\ \A v \in Vars : v # Var(p) => u2[v] = u[v]
    /\ lv = 0 => u2[Var(p)] # NoCid /\ d2[u2[Var(p)]].lits = <<p>>
    /\ lv # 0 => u2[Var(p)] = u[Var(p)]
Longer(vd, tr, n, p, lv, vd2, tr2) ==
    /\ n \in Nat /\ p \in Lits
    /\ \A i \in 1 .. n : tr2[i] = tr[i] /\ Var(tr[i]) # Var(p)
    /\ tr2[n + 1] = p /\ vd2[Var(p)].level = lv
    /\ \A v \in Vars : v # Var(p) => vd2[v] = vd[v]

LEMMA UnitsEnqueue ==
    ASSUME NEW vd, NEW vd2, NEW u, NEW u2, NEW d, NEW d2, NEW tr, NEW tr2, NEW n, NEW p, NEW lv,
           UnitsOK(vd, u, d, tr, n), Longer(vd, tr, n, p, lv, vd2, tr2),
           UnitAdded(u, d, u2, d2, p, lv)
    PROVE  UnitsOK(vd2, u2, d2, tr2, n + 1)
<1> USE DEF Longer, UnitAdded, SameUnits
<1> SUFFICES ASSUME NEW v \in Vars
             PROVE  /\ vd2[v].level = 0 <=> u2[v] # NoCid
                    /\ u2[v] # NoCid => \E i \in 1 .. n + 1 : Var(tr2[i]) = v /\ d2[u2[v]].lits = <<tr2[i]>>
  BY DEF UnitsOK
<1>1. CASE v # Var(p)
  <2>1. vd2[v].level = 0 <=> u2[v] # NoCid
    BY <1>1 DEF UnitsOK
  <2>2. ASSUME u2[v] # NoCid
        PROVE  \E i \in 1 .. n + 1 : Var(tr2[i]) = v /\ d2[u2[v]].lits = <<tr2[i]>>
    <3>1. PICK i \in 1 .. n : Var(tr[i]) = v /\ d[u[v]].lits = <<tr[i]>>
      BY <2>2, <1>1 DEF UnitsOK
    <3>2. i \in 1 .. n + 1
      OBVIOUS
    <3> QED
      BY <3>1, <3>2, <2>2, <1>1
  <2> QED
    BY <2>1, <2>2
<1>2. CASE v = Var(p)
  <2>1. u[Var(p)] = NoCid
    BY LitFacts DEF UnitsOK
  <2>2. CASE lv = 0
    <3>1. n + 1 \in 1 .. n + 1
      OBVIOUS
    <3> QED
      BY <3>1, <2>2, <1>2
  <2>3. CASE lv # 0
    BY <2>1, <2>3, <1>2
  <2> QED
    BY <2>2, <2>3
<1> QED
  BY <1>1, <1>2

-----------------------------------------------------------------------------
(* Watcher lists.  A clause has no watcher in a list, or just one.         *)
Absent(list, cr) == \A i \in DOMAIN list : list[i].cref # cr
Single(list, cr) ==
    \E i \in DOMAIN list :
        list[i].cref = cr /\ \A j \in DOMAIN list : list[j].cref = cr => j = i

(* The other clauses have in list2 the watchers they have in list.         *)
OthersSame(list, list2, cr) ==
    \A k : k # cr => /\ Absent(list, k) => Absent(list2, k)
                     /\ Single(list, k) => Single(list2, k)

LEMMA ListAppend ==
    ASSUME NEW X, NEW list \in Seq(X), NEW w \in X
    PROVE  /\ Append(list, w) \in Seq(X) /\ OthersSame(list, Append(list, w), w.cref)
           /\ Absent(list, w.cref) => Single(Append(list, w), w.cref)
           /\ ToSet(Append(list, w)) = ToSet(list) \cup {w}
<1> DEFINE n == Len(list)
           s == Append(list, w)
<1>1. n \in Nat /\ DOMAIN list = 1 .. n /\ s \in Seq(X) /\ DOMAIN s = 1 .. n + 1
      /\ s[n + 1] = w /\ \A i \in 1 .. n : s[i] = list[i]
  OBVIOUS
<1> HIDE DEF n, s
<1>2. \A i \in 1 .. n + 1 : i \in 1 .. n \/ i = n + 1
  BY <1>1
<1>3. \A i \in 1 .. n : i \in 1 .. n + 1 /\ i # n + 1
  BY <1>1
<1>4. n + 1 \in 1 .. n + 1
  BY <1>1
<1>5. ASSUME NEW k, k # w.cref
      PROVE  /\ Absent(list, k) => Absent(s, k)
             /\ Single(list, k) => Single(s, k)
  <2>1. Absent(list, k) => Absent(s, k)
    BY <1>1, <1>2, <1>5 DEF Absent
  <2>2. ASSUME Single(list, k)
        PROVE  Single(s, k)
    <3>1. PICK i \in 1 .. n : list[i].cref = k /\ \A j \in 1 .. n : list[j].cref = k => j = i
      BY <2>2, <1>1 DEF Single
    <3>2. i \in DOMAIN s /\ s[i].cref = k
      BY <3>1, <1>1, <1>3
    <3>3. \A j \in DOMAIN s : s[j].cref = k => j = i
      BY <3>1, <1>1, <1>2, <1>5
    <3> QED
      BY <3>2, <3>3 DEF Single
  <2> QED
    BY <2>1, <2>2
<1>6. Absent(list, w.cref) => Single(s, w.cref)
  BY <1>1, <1>2, <1>4 DEF Single, Absent
<1>7. ToSet(s) = ToSet(list) \cup {w}
  <2>1. \A x : x \in ToSet(s) <=> \E i \in 1 .. n + 1 : x = s[i]
    BY <1>1 DEF ToSet
  <2>2. \A x : x \in ToSet(list) <=> \E i \in 1 .. n : x = list[i]
    BY <1>1 DEF ToSet
  <2> QED
    BY <2>1, <2>2, <1>1, <1>2, <1>3, <1>4
<1> QED
  BY <1>1, <1>5, <1>6, <1>7 DEF OthersSame, s

(* A watcher gets another blocker.                                         *)
LEMMA ListPut ==
    ASSUME NEW X, NEW list \in Seq(X), NEW w \in X, NEW i \in DOMAIN list, list[i].cref = w.cref
    PROVE  LET s == [list EXCEPT ![i] = w]
           IN  /\ s \in Seq(X)
               /\ \A k : /\ Absent(list, k) => Absent(s, k)
                         /\ Single(list, k) => Single(s, k)
               /\ ToSet(s) \subseteq ToSet(list) \cup {w}
               /\ Len(s) = Len(list) /\ s[i] = w /\ \A j \in DOMAIN list : j # i => s[j] = list[j]
<1> DEFINE s == [list EXCEPT ![i] = w]
<1>1. s \in Seq(X) /\ DOMAIN s = DOMAIN list /\ s[i] = w /\ \A j \in DOMAIN list : j # i => s[j] = list[j]
  OBVIOUS
<1>2. Len(s) = Len(list)
  OBVIOUS
<1> HIDE DEF s
<1>3. \A j \in DOMAIN list : s[j].cref = list[j].cref
  BY <1>1
<1>4. \A k : Absent(list, k) => Absent(s, k)
  BY <1>1, <1>3 DEF Absent
<1>5. \A k : Single(list, k) => Single(s, k)
  BY <1>1, <1>3 DEF Single
<1>6. ToSet(s) \subseteq ToSet(list) \cup {w}
  BY <1>1 DEF ToSet
<1> QED
  BY <1>1, <1>2, <1>4, <1>5, <1>6 DEF s, OthersSame

LEMMA WithoutPlace ==
    ASSUME NEW X, NEW s \in Seq(X), NEW i \in 1 .. Len(s)
    PROVE  /\ RemoveAt(s, i) \in Seq(X) /\ Len(RemoveAt(s, i)) = Len(s) - 1
           /\ \A k \in 1 .. i - 1 : RemoveAt(s, i)[k] = s[k]
           /\ \A k \in i .. Len(s) - 1 : RemoveAt(s, i)[k] = s[k + 1]
<1> DEFINE a == SubSeq(s, 1, i - 1)
           b == SubSeq(s, i + 1, Len(s))
<1>1. Len(s) \in Nat /\ i \in Nat /\ i >= 1 /\ i <= Len(s)
  OBVIOUS
<1>2. a \in Seq(X) /\ Len(a) = i - 1 /\ \A k \in 1 .. i - 1 : a[k] = s[k]
  <2> DEFINE m == i - 1
  <2>1. m \in Nat /\ m <= Len(s)
    OBVIOUS
  <2> HIDE DEF m
  <2>2. SubSeq(s, 1, m) \in Seq(X) /\ Len(SubSeq(s, 1, m)) = m
        /\ \A k \in 1 .. m : SubSeq(s, 1, m)[k] = s[k]
    BY <2>1, FirstOf
  <2> QED
    BY <2>2 DEF m
<1>3. b \in Seq(X) /\ Len(b) = Len(s) - i /\ \A k \in 1 .. Len(s) - i : b[k] = s[i + k]
  OBVIOUS
<1> HIDE DEF a, b
<1>4. a \o b \in Seq(X) /\ Len(a \o b) = Len(s) - 1
  BY <1>1, <1>2, <1>3
<1>5. \A k \in 1 .. i - 1 : (a \o b)[k] = s[k]
  BY <1>1, <1>2, <1>3
<1>6. ASSUME NEW k \in i .. Len(s) - 1
      PROVE  (a \o b)[k] = s[k + 1]
  <2> DEFINE m == k - (i - 1)
  <2>1. m \in 1 .. Len(b) /\ k = Len(a) + m /\ i + m = k + 1
    BY <1>1, <1>2, <1>3
  <2> HIDE DEF m
  <2>2. (a \o b)[Len(a) + m] = b[m]
    BY <2>1, <1>2, <1>3, Joined
  <2> QED
    BY <2>1, <2>2, <1>3
<1> QED
  BY <1>4, <1>5, <1>6 DEF RemoveAt, a, b

(* The only watcher of a clause leaves the list.                           *)
LEMMA ListDrop ==
    ASSUME NEW X, NEW list \in Seq(X), NEW i \in 1 .. Len(list), Single(list, list[i].cref)
    PROVE  /\ RemoveAt(list, i) \in Seq(X) /\ OthersSame(list, RemoveAt(list, i), list[i].cref)
           /\ Absent(RemoveAt(list, i), list[i].cref)
           /\ ToSet(RemoveAt(list, i)) \subseteq ToSet(list)
<1> DEFINE s == RemoveAt(list, i)
           n == Len(list)
           F(p) == IF p < i THEN p ELSE p + 1
<1>1. n \in Nat /\ DOMAIN list = 1 .. n /\ i \in 1 .. n
  OBVIOUS
<1>2. /\ s \in Seq(X) /\ Len(s) = n - 1
      /\ \A k \in 1 .. i - 1 : s[k] = list[k]
      /\ \A k \in i .. n - 1 : s[k] = list[k + 1]
  BY WithoutPlace
<1> HIDE DEF s, n
<1>3. DOMAIN s = 1 .. n - 1
  BY <1>1, <1>2
<1>4. \A k \in 1 .. n - 1 : F(k) \in 1 .. n /\ F(k) # i /\ s[k] = list[F(k)]
  <2> SUFFICES ASSUME NEW k \in 1 .. n - 1
               PROVE  F(k) \in 1 .. n /\ F(k) # i /\ s[k] = list[F(k)]
    OBVIOUS
  <2>1. CASE k < i
    <3>1. k \in 1 .. i - 1 /\ F(k) = k
      BY <1>1, <2>1
    <3> QED
      BY <3>1, <1>1, <1>2
  <2>2. CASE ~(k < i)
    <3>1. k \in i .. n - 1 /\ F(k) = k + 1
      BY <1>1, <2>2
    <3> QED
      BY <3>1, <1>1, <1>2
  <2> QED
    BY <2>1, <2>2
<1>5. \A j, k \in 1 .. n - 1 : F(j) = F(k) => j = k
  BY <1>1
<1>6. \A m \in 1 .. n : m # i => \E k \in 1 .. n - 1 : F(k) = m
  <2> SUFFICES ASSUME NEW m \in 1 .. n, m # i
               PROVE  \E k \in 1 .. n - 1 : F(k) = m
    OBVIOUS
  <2>1. CASE m < i
    <3>1. m \in 1 .. n - 1 /\ F(m) = m
      BY <1>1, <2>1
    <3> QED
      BY <3>1
  <2>2. CASE m > i
    <3>1. m - 1 \in 1 .. n - 1 /\ F(m - 1) = m
      BY <1>1, <2>2
    <3> QED
      BY <3>1
  <2> QED
    BY <1>1, <2>1, <2>2
<1> HIDE DEF F
<1>7. \A j \in 1 .. n : list[j].cref = list[i].cref => j = i
  BY <1>1 DEF Single
<1>8. Absent(s, list[i].cref)
  BY <1>3, <1>4, <1>7 DEF Absent
<1>9. ASSUME NEW c, c # list[i].cref
      PROVE  /\ Absent(list, c) => Absent(s, c)
             /\ Single(list, c) => Single(s, c)
  <2>1. Absent(list, c) => Absent(s, c)
    BY <1>1, <1>3, <1>4 DEF Absent
  <2>2. ASSUME Single(list, c)
        PROVE  Single(s, c)
    <3>1. PICK m \in 1 .. n : list[m].cref = c /\ \A j \in 1 .. n : list[j].cref = c => j = m
      BY <2>2, <1>1 DEF Single
    <3>2. PICK k \in 1 .. n - 1 : F(k) = m
      BY <3>1, <1>6, <1>9
    <3>3. s[k].cref = c
      BY <3>1, <3>2, <1>4
    <3>4. \A j \in 1 .. n - 1 : s[j].cref = c => j = k
      BY <3>1, <3>2, <1>4, <1>5
    <3> QED
      BY <3>3, <3>4, <1>3 DEF Single
  <2> QED
    BY <2>1, <2>2
<1>10. ToSet(s) \subseteq ToSet(list)
  BY <1>1, <1>3, <1>4 DEF ToSet
<1> QED
  BY <1>2, <1>8, <1>9, <1>10 DEF OthersSame, s

(* The same, by the first watcher of the clause.                           *)
WithoutFirst(list, cr) == RemoveFirstMatch(list, LAMBDA u : u.cref = cr)

LEMMA FirstMatchDrop ==
    ASSUME NEW X, NEW list \in Seq(X), NEW cr, Single(list, cr)
    PROVE  /\ WithoutFirst(list, cr) \in Seq(X) /\ OthersSame(list, WithoutFirst(list, cr), cr)
           /\ Absent(WithoutFirst(list, cr), cr) /\ ToSet(WithoutFirst(list, cr)) \subseteq ToSet(list)
<1> DEFINE s == WithoutFirst(list, cr)
           I == {i \in 1 .. Len(list) : list[i].cref = cr}
<1>1. PICK i \in 1 .. Len(list) : list[i].cref = cr /\ \A j \in 1 .. Len(list) : list[j].cref = cr => j = i
  BY DEF Single
<1>2. I = {i}
  BY <1>1
<1>3. Min(I) = i
  <2>1. i \in Nat
    OBVIOUS
  <2> HIDE DEF I
  <2>2. Min({i}) = i
    BY <2>1 DEF Min
  <2> QED
    BY <2>2, <1>2
<1>4. s = RemoveAt(list, i)
  <2>1. SelectInSeq(list, LAMBDA u : u.cref = cr) = Min(I)
    BY <1>2 DEF SelectInSeq
  <2> QED
    BY <1>1, <1>3, <2>1 DEF RemoveFirstMatch, WithoutFirst
<1> HIDE DEF s
<1>5. /\ RemoveAt(list, i) \in Seq(X) /\ OthersSame(list, RemoveAt(list, i), list[i].cref)
      /\ Absent(RemoveAt(list, i), list[i].cref)
      /\ ToSet(RemoveAt(list, i)) \subseteq ToSet(list)
  BY <1>1, ListDrop
<1> QED
  BY <1>1, <1>4, <1>5 DEF s

(* Some clauses lose all their watchers.                                   *)
LEMMA ListPick ==
    ASSUME NEW X, NEW list \in Seq(X), NEW D \in SUBSET DOMAIN list
    PROVE  /\ PickAt(list, D) \in Seq(X) /\ ToSet(PickAt(list, D)) \subseteq ToSet(list)
           /\ \A c : /\ Absent(list, c) => Absent(PickAt(list, D), c)
                     /\ (\A i \in DOMAIN list : list[i].cref = c => i \in D)
                          /\ Single(list, c) => Single(PickAt(list, D), c)
                     /\ (\A i \in D : list[i].cref # c) => Absent(PickAt(list, D), c)
<1> DEFINE s == PickAt(list, D)
           a == Ascending[D]
           n == Len(s)
<1>1. /\ s \in Seq(X) /\ n = Cardinality(D)
      /\ IsFiniteSet(D)
      /\ \A i \in 1 .. n : a[i] \in D /\ s[i] = list[a[i]]
      /\ \A k \in D : \E i \in 1 .. n : a[i] = k
      /\ \A i, j \in 1 .. n : i < j => a[i] < a[j]
  BY Picked
<1>2. DOMAIN s = 1 .. n /\ n \in Nat
  BY <1>1
<1>3. \A i, j \in 1 .. n : a[i] = a[j] => i = j
  <2>1. D \subseteq Int
    OBVIOUS
  <2> HIDE DEF s, a, n
  <2>2. \A i \in 1 .. n : a[i] \in Int /\ ~(a[i] < a[i])
    BY <2>1, <1>1
  <2> QED
    BY <1>1, <1>2, <2>2
<1> HIDE DEF s, a, n
<1>4. ToSet(s) \subseteq ToSet(list)
  BY <1>1, <1>2 DEF ToSet
<1>5. ASSUME NEW c
      PROVE  /\ Absent(list, c) => Absent(s, c)
             /\ (\A i \in DOMAIN list : list[i].cref = c => i \in D)
                          /\ Single(list, c) => Single(s, c)
             /\ (\A i \in D : list[i].cref # c) => Absent(s, c)
  <2>1. (\A i \in D : list[i].cref # c) => Absent(s, c)
    BY <1>1, <1>2 DEF Absent
  <2>2. Absent(list, c) => Absent(s, c)
    BY <2>1 DEF Absent
  <2>3. ASSUME \A i \in DOMAIN list : list[i].cref = c => i \in D, Single(list, c)
        PROVE  Single(s, c)
    <3>1. PICK m \in DOMAIN list : list[m].cref = c /\ \A j \in DOMAIN list : list[j].cref = c => j = m
      BY <2>3 DEF Single
    <3>2. PICK k \in 1 .. n : a[k] = m
      BY <3>1, <2>3, <1>1
    <3>3. \A j \in 1 .. n : s[j].cref = c => j = k
      BY <3>1, <3>2, <1>1, <1>3
    <3>4. k \in DOMAIN s /\ s[k].cref = c
      BY <3>1, <3>2, <1>1, <1>2
    <3>5. \A j \in DOMAIN s : s[j].cref = c => j = k
      BY <3>3, <1>2
    <3> QED
      BY <3>4, <3>5 DEF Single
  <2> QED
    BY <2>1, <2>2, <2>3
<1> QED
  BY <1>1, <1>4, <1>5 DEF s

-----------------------------------------------------------------------------
(* The memory and the watcher lists: c the clauses, w the lists, dr the    *)
(* smudged ones, hand the clause that vivification has taken out of them.  *)
(* No clause has a variable twice, and only the one in hand, or a freed    *)
(* one, has fewer than two literals.                                       *)
Memory(c, hand) ==
    \A cr \in DOMAIN c :
       /\ AllDistinct(c[cr].lits)
       /\ cr # hand => Len(c[cr].lits) >= 1
       /\ Len(c[cr].lits) < 2 => cr = hand \/ c[cr].freed

WatcherLists(c) ==
    [{"bin", "long"} -> [Lits -> Seq([cref : DOMAIN c, blocker : Lits])]]

(* The literals q are watched through the lists of kind and l.             *)
Watches(q, kind, l) == kind = Kind(q) /\ -l \in {q[1], q[2]}

(* How often clause cr, which is x, is in the list of kind and l.          *)
Listed(list, cr, x, kind, l, dr, hand) ==
    IF cr = hand \/ Len(x.lits) < 2 THEN Absent(list, cr)
    ELSE IF x.freed THEN l \notin dr => Absent(list, cr)
    ELSE IF Watches(x.lits, kind, l) THEN Single(list, cr)
    ELSE Absent(list, cr)
Blocked(list, c, l) ==
    \A x \in ToSet(list) : x.blocker \in ToSet(c[x.cref].lits) \ {-l}
Watching(c, w, dr, hand) ==
    \A kind \in {"bin", "long"} : \A l \in Lits :
       /\ \A cr \in DOMAIN c : Listed(w[kind][l], cr, c[cr], kind, l, dr[kind], hand)
       /\ Blocked(w[kind][l], c, l)

LEMMA ListTypes ==
    ASSUME NEW c, NEW w \in WatcherLists(c), NEW kind \in {"bin", "long"}, NEW l \in Lits
    PROVE  /\ w[kind][l] \in Seq([cref : DOMAIN c, blocker : Lits])
           /\ \A x \in ToSet(w[kind][l]) : x.cref \in DOMAIN c /\ x.blocker \in Lits
           /\ \A i \in DOMAIN w[kind][l] :
                w[kind][l][i].cref \in DOMAIN c /\ w[kind][l][i] \in ToSet(w[kind][l])
<1> DEFINE s == w[kind][l]
<1>1. s \in Seq([cref : DOMAIN c, blocker : Lits])
  BY DEF WatcherLists
<1> HIDE DEF s
<1>2. /\ \A x \in ToSet(s) : x \in [cref : DOMAIN c, blocker : Lits]
      /\ \A i \in 1 .. Len(s) : s[i] \in ToSet(s) /\ s[i] \in [cref : DOMAIN c, blocker : Lits]
      /\ DOMAIN s = 1 .. Len(s)
  BY <1>1, Element
<1> QED
  BY <1>1, <1>2 DEF s

(* One clause changes, or its watchers do.                                 *)
OneClause(c, c2, w, w2, dr, hand, hand2, cr) ==
    /\ \A k \in DOMAIN c2 : k # cr =>
         k \in DOMAIN c /\ c2[k] = c[k] /\ (k = hand <=> k = hand2)
    /\ \A kind \in {"bin", "long"}, l \in Lits :
         /\ OthersSame(w[kind][l], w2[kind][l], cr)
         /\ cr \in DOMAIN c2 => Listed(w2[kind][l], cr, c2[cr], kind, l, dr[kind], hand2)
         /\ \A x \in ToSet(w2[kind][l]) :
              \/ x \in ToSet(w[kind][l]) /\ x.cref # cr /\ x.cref \in DOMAIN c2
              \/ x.cref = cr /\ x.blocker \in ToSet(c2[cr].lits) \ {-l}

LEMMA WatchOne ==
    ASSUME NEW c, NEW c2, NEW w, NEW w2, NEW dr, NEW hand, NEW hand2, NEW cr,
           Watching(c, w, dr, hand), OneClause(c, c2, w, w2, dr, hand, hand2, cr)
    PROVE  Watching(c2, w2, dr, hand2)
<1> SUFFICES ASSUME NEW kind \in {"bin", "long"}, NEW l \in Lits
             PROVE  /\ \A k \in DOMAIN c2 : Listed(w2[kind][l], k, c2[k], kind, l, dr[kind], hand2)
                    /\ Blocked(w2[kind][l], c2, l)
  BY DEF Watching
<1>1. ASSUME NEW k \in DOMAIN c2
      PROVE  Listed(w2[kind][l], k, c2[k], kind, l, dr[kind], hand2)
  <2>1. CASE k = cr
    BY <2>1 DEF OneClause
  <2>2. CASE k # cr
    <3>1. k \in DOMAIN c /\ c2[k] = c[k] /\ (k = hand <=> k = hand2)
      BY <2>2 DEF OneClause
    <3>2. Listed(w[kind][l], k, c[k], kind, l, dr[kind], hand)
      BY <3>1 DEF Watching
    <3>3. /\ Absent(w[kind][l], k) => Absent(w2[kind][l], k)
          /\ Single(w[kind][l], k) => Single(w2[kind][l], k)
      BY <2>2 DEF OneClause, OthersSame
    <3> QED
      BY <3>1, <3>2, <3>3 DEF Listed
  <2> QED
    BY <2>1, <2>2
<1>2. ASSUME NEW x \in ToSet(w2[kind][l])
      PROVE  x.blocker \in ToSet(c2[x.cref].lits) \ {-l}
  <2>1. CASE x \in ToSet(w[kind][l]) /\ x.cref # cr /\ x.cref \in DOMAIN c2
    <3>1. c2[x.cref] = c[x.cref]
      BY <2>1 DEF OneClause
    <3>2. x.blocker \in ToSet(c[x.cref].lits) \ {-l}
      BY <2>1 DEF Watching, Blocked
    <3> QED
      BY <3>1, <3>2
  <2>2. CASE x.cref = cr /\ x.blocker \in ToSet(c2[cr].lits) \ {-l}
    BY <2>2
  <2> QED
    BY <2>1, <2>2 DEF OneClause
<1> QED
  BY <1>1, <1>2 DEF Blocked

(* The literals are put in another order, which leaves the watched ones.   *)
SamePair(x, y) ==
    /\ y.freed = x.freed /\ Len(y.lits) = Len(x.lits) /\ ToSet(y.lits) = ToSet(x.lits)
    /\ {y.lits[1], y.lits[2]} = {x.lits[1], x.lits[2]}
SamePairs(c, c2) == DOMAIN c2 = DOMAIN c /\ \A cr \in DOMAIN c : c2[cr] = c[cr] \/ SamePair(c[cr], c2[cr])

LEMMA WatchPairs ==
    ASSUME NEW c, NEW c2, NEW w \in WatcherLists(c), NEW dr, NEW hand,
           Watching(c, w, dr, hand), SamePairs(c, c2)
    PROVE  Watching(c2, w, dr, hand)
<1> SUFFICES ASSUME NEW kind \in {"bin", "long"}, NEW l \in Lits
             PROVE  /\ \A k \in DOMAIN c2 : Listed(w[kind][l], k, c2[k], kind, l, dr[kind], hand)
                    /\ Blocked(w[kind][l], c2, l)
  BY DEF Watching
<1>1. ASSUME NEW k \in DOMAIN c2
      PROVE  Listed(w[kind][l], k, c2[k], kind, l, dr[kind], hand)
  <2>1. k \in DOMAIN c /\ (c2[k] = c[k] \/ SamePair(c[k], c2[k]))
    BY DEF SamePairs
  <2>2. Listed(w[kind][l], k, c[k], kind, l, dr[kind], hand)
    BY <2>1 DEF Watching
  <2>3. Watches(c2[k].lits, kind, l) <=> Watches(c[k].lits, kind, l)
    BY <2>1 DEF Watches, Kind, SamePair
  <2>4. c2[k].freed = c[k].freed /\ Len(c2[k].lits) = Len(c[k].lits)
    BY <2>1 DEF SamePair
  <2> QED
    BY <2>2, <2>3, <2>4 DEF Listed
<1>2. ASSUME NEW x \in ToSet(w[kind][l])
      PROVE  x.blocker \in ToSet(c2[x.cref].lits) \ {-l}
  <2>1. x.cref \in DOMAIN c
    BY ListTypes
  <2>2. ToSet(c2[x.cref].lits) = ToSet(c[x.cref].lits)
    BY <2>1 DEF SamePairs, SamePair
  <2>3. x.blocker \in ToSet(c[x.cref].lits) \ {-l}
    BY DEF Watching, Blocked
  <2> QED
    BY <2>2, <2>3
<1> QED
  BY <1>1, <1>2 DEF Blocked

LEMMA MemoryPairs ==
    ASSUME NEW c, NEW c2, NEW hand, HasLits(c), HasLits(c2), Memory(c, hand),
           DOMAIN c2 = DOMAIN c,
           \A cr \in DOMAIN c : /\ c2[cr].freed = c[cr].freed /\ Len(c2[cr].lits) = Len(c[cr].lits)
                                /\ AllDistinct(c[cr].lits) => AllDistinct(c2[cr].lits)
    PROVE  Memory(c2, hand)
BY DEF Memory

(* Clauses are freed and their lists smudged.                              *)
FreedAll(c, c2, crs) ==
    /\ DOMAIN c2 = DOMAIN c
    /\ \A cr \in DOMAIN c : /\ c2[cr].lits = c[cr].lits
                            /\ c2[cr].freed <=> c[cr].freed \/ cr \in crs
SmudgedAll(c, dr, dr2, crs) ==
    \A kind \in {"bin", "long"}, l \in Lits :
        /\ l \in dr[kind] => l \in dr2[kind]
        /\ \A cr \in crs : Watches(c[cr].lits, kind, l) => l \in dr2[kind]

LEMMA WatchFreed ==
    ASSUME NEW c, NEW c2, NEW w \in WatcherLists(c), NEW dr, NEW dr2, NEW hand, NEW crs,
           Watching(c, w, dr, hand), FreedAll(c, c2, crs), SmudgedAll(c, dr, dr2, crs),
           Memory(c, hand), HasLits(c)
    PROVE  Watching(c2, w, dr2, hand) /\ Memory(c2, hand)
<1>1. ASSUME NEW kind \in {"bin", "long"}, NEW l \in Lits
      PROVE  /\ \A k \in DOMAIN c2 : Listed(w[kind][l], k, c2[k], kind, l, dr2[kind], hand)
             /\ Blocked(w[kind][l], c2, l)
  <2>1. ASSUME NEW k \in DOMAIN c2
        PROVE  Listed(w[kind][l], k, c2[k], kind, l, dr2[kind], hand)
    <3>1. k \in DOMAIN c /\ c2[k].lits = c[k].lits /\ (c2[k].freed <=> c[k].freed \/ k \in crs)
      BY DEF FreedAll
    <3>2. Listed(w[kind][l], k, c[k], kind, l, dr[kind], hand)
      BY <3>1 DEF Watching
    <3>3. /\ l \in dr[kind] => l \in dr2[kind]
          /\ k \in crs /\ Watches(c[k].lits, kind, l) => l \in dr2[kind]
      BY DEF SmudgedAll
    <3> QED
      BY <3>1, <3>2, <3>3 DEF Listed
  <2>2. ASSUME NEW x \in ToSet(w[kind][l])
        PROVE  x.blocker \in ToSet(c2[x.cref].lits) \ {-l}
    <3>1. x.cref \in DOMAIN c
      BY ListTypes
    <3>2. c2[x.cref].lits = c[x.cref].lits
      BY <3>1 DEF FreedAll
    <3>3. x.blocker \in ToSet(c[x.cref].lits) \ {-l}
      BY DEF Watching, Blocked
    <3> QED
      BY <3>2, <3>3
  <2> QED
    BY <2>1, <2>2 DEF Blocked
<1>2. Memory(c2, hand)
  <2> SUFFICES ASSUME NEW k \in DOMAIN c2
               PROVE  /\ AllDistinct(c2[k].lits)
                      /\ k # hand => Len(c2[k].lits) >= 1
                      /\ Len(c2[k].lits) < 2 => k = hand \/ c2[k].freed
    BY DEF Memory
  <2>1. k \in DOMAIN c /\ c2[k].lits = c[k].lits /\ (c[k].freed => c2[k].freed)
    BY DEF FreedAll
  <2> QED
    BY <2>1 DEF Memory
<1> QED
  BY <1>1, <1>2 DEF Watching

(* The smudged lists lose the watchers of the freed clauses.               *)
CleanedAll(c, w, w2, dr) ==
    \A kind \in {"bin", "long"}, l \in Lits :
        w2[kind][l] = IF l \in dr[kind]
                        THEN PickAt(w[kind][l], {i \in DOMAIN w[kind][l] : ~c[w[kind][l][i].cref].freed})
                        ELSE w[kind][l]

LEMMA WatchCleaned ==
    ASSUME NEW c, NEW w \in WatcherLists(c), NEW w2, NEW dr, NEW dr2, NEW hand,
           Watching(c, w, dr, hand), CleanedAll(c, w, w2, dr),
           \A kind \in {"bin", "long"} : dr2[kind] = {}, hand \in DOMAIN c => ~c[hand].freed
    PROVE  /\ \A kind \in {"bin", "long"}, l \in Lits : w2[kind][l] \in Seq([cref : DOMAIN c, blocker : Lits])
           /\ Watching(c, w2, dr2, hand)
<1> SUFFICES ASSUME NEW kind \in {"bin", "long"}, NEW l \in Lits
             PROVE  /\ w2[kind][l] \in Seq([cref : DOMAIN c, blocker : Lits])
                    /\ \A k \in DOMAIN c : Listed(w2[kind][l], k, c[k], kind, l, dr2[kind], hand)
                    /\ Blocked(w2[kind][l], c, l)
  BY DEF Watching
<1> DEFINE s == w[kind][l]
           D == {i \in DOMAIN s : ~c[s[i].cref].freed}
           t == w2[kind][l]
<1>1. s \in Seq([cref : DOMAIN c, blocker : Lits]) /\ D \in SUBSET DOMAIN s
  BY ListTypes
<1>2. t = IF l \in dr[kind] THEN PickAt(s, D) ELSE s
  BY DEF CleanedAll
<1>3. /\ \A k \in DOMAIN c : Listed(s, k, c[k], kind, l, dr[kind], hand)
      /\ Blocked(s, c, l)
  BY DEF Watching
<1>4. dr2[kind] = {}
  OBVIOUS
<1>5. \A i \in DOMAIN s : (i \in D <=> ~c[s[i].cref].freed)
  OBVIOUS
<1> HIDE DEF s, t, D
<1>6. CASE l \notin dr[kind]
  <2>1. t = s
    BY <1>2, <1>6
  <2>2. \A k \in DOMAIN c : Listed(s, k, c[k], kind, l, dr2[kind], hand)
    BY <1>3, <1>4, <1>6 DEF Listed
  <2> QED
    BY <1>1, <1>3, <2>1, <2>2 DEF t
<1>7. CASE l \in dr[kind]
  <2>1. t = PickAt(s, D)
    BY <1>2, <1>7
  <2>2. /\ t \in Seq([cref : DOMAIN c, blocker : Lits]) /\ ToSet(t) \subseteq ToSet(s)
        /\ \A k : /\ Absent(s, k) => Absent(t, k)
                  /\ (\A i \in DOMAIN s : s[i].cref = k => i \in D) /\ Single(s, k) => Single(t, k)
                  /\ (\A i \in D : s[i].cref # k) => Absent(t, k)
    BY <2>1, <1>1, ListPick
  <2>3. Blocked(t, c, l)
    BY <2>2, <1>3 DEF Blocked
  <2>4. ASSUME NEW k \in DOMAIN c
        PROVE  Listed(t, k, c[k], kind, l, dr2[kind], hand)
    <3>1. Listed(s, k, c[k], kind, l, dr[kind], hand)
      BY <1>3
    <3>2. CASE c[k].freed
      <4>1. \A i \in D : s[i].cref # k
        BY <3>2, <1>1, <1>5
      <4> QED
        BY <4>1, <2>2, <3>2 DEF Listed
    <3>3. CASE ~c[k].freed
      <4>1. \A i \in DOMAIN s : s[i].cref = k => i \in D
        BY <3>3, <1>5
      <4> QED
        BY <4>1, <2>2, <3>1, <3>3 DEF Listed
    <3> QED
      BY <3>2, <3>3
  <2> QED
    BY <2>2, <2>3, <2>4 DEF t
<1> QED
  BY <1>6, <1>7

-----------------------------------------------------------------------------
(* What the operations do with the lists of one clause.                    *)

(* A watcher stays and gets another blocker of its clause.                 *)
LEMMA WatchPut ==
    ASSUME NEW c, NEW w \in WatcherLists(c), NEW dr, NEW hand, NEW l \in Lits,
           Watching(c, w, dr, hand), NEW i \in DOMAIN w["long"][l], NEW b \in Lits,
           b \in ToSet(c[w["long"][l][i].cref].lits) \ {-l}
    PROVE  LET w2 == [w EXCEPT !["long"][l][i] = Watcher(w["long"][l][i].cref, b)]
           IN  w2 \in WatcherLists(c) /\ Watching(c, w2, dr, hand)
<1> DEFINE s == w["long"][l]
           cr == s[i].cref
           x == Watcher(cr, b)
           t == [s EXCEPT ![i] = x]
           w2 == [w EXCEPT !["long"][l][i] = x]
           X == [cref : DOMAIN c, blocker : Lits]
<1>1. s \in Seq(X) /\ cr \in DOMAIN c /\ i \in DOMAIN s
  BY ListTypes
<1>2. x \in X /\ x.cref = cr /\ x.blocker = b
  BY <1>1 DEF Watcher
<1>3. \A kind \in {"bin", "long"}, m \in Lits :
         w2[kind][m] = IF kind = "long" /\ m = l THEN t ELSE w[kind][m]
  BY DEF WatcherLists
<1>4. w2 = [w EXCEPT !["long"] = [w["long"] EXCEPT ![l] = t]]
  OBVIOUS
<1> HIDE DEF s, cr, x, w2, X
<1>5. /\ t \in Seq(X)
      /\ \A k : /\ Absent(s, k) => Absent(t, k)
                /\ Single(s, k) => Single(t, k)
      /\ ToSet(t) \subseteq ToSet(s) \cup {x}
  BY <1>1, <1>2, ListPut DEF cr
<1> HIDE DEF t
<1>6. w2 \in WatcherLists(c)
  BY <1>4, <1>5 DEF WatcherLists, X
<1>7. ASSUME NEW kind \in {"bin", "long"}, NEW m \in Lits
      PROVE  /\ \A k \in DOMAIN c : Listed(w2[kind][m], k, c[k], kind, m, dr[kind], hand)
             /\ Blocked(w2[kind][m], c, m)
  <2>1. /\ \A k \in DOMAIN c : Listed(w[kind][m], k, c[k], kind, m, dr[kind], hand)
        /\ Blocked(w[kind][m], c, m)
    BY DEF Watching
  <2>2. CASE kind = "long" /\ m = l
    <3>1. w2[kind][m] = t /\ w[kind][m] = s
      BY <1>3, <2>2 DEF s
    <3>2. \A k \in DOMAIN c : Listed(t, k, c[k], kind, m, dr[kind], hand)
      BY <2>1, <3>1, <1>5 DEF Listed
    <3>3. Blocked(t, c, m)
      BY <2>1, <3>1, <1>2, <1>5, <2>2 DEF Blocked, cr, s
    <3> QED
      BY <3>1, <3>2, <3>3
  <2>3. CASE ~(kind = "long" /\ m = l)
    BY <2>1, <2>3, <1>3
  <2> QED
    BY <2>2, <2>3
<1>8. Watching(c, w2, dr, hand)
  BY <1>7 DEF Watching
<1> QED
  BY <1>6, <1>8 DEF w2, x, cr, s

LEMMA SameLists ==
    ASSUME NEW list, NEW cr
    PROVE  OthersSame(list, list, cr)
BY DEF OthersSame

(* Two lists of one kind are replaced.                                     *)
PutTwo(w, kind, l, l2, t, t2) == [w EXCEPT ![kind][l] = t, ![kind][l2] = t2]
CanPut(Y, w, kind, l, l2, t, t2) ==
    /\ w \in [{"bin", "long"} -> [Lits -> Y]] /\ kind \in {"bin", "long"}
    /\ l \in Lits /\ l2 \in Lits /\ l # l2 /\ t \in Y /\ t2 \in Y

LEMMA TwoLists ==
    ASSUME NEW Y, NEW w, NEW kind, NEW l, NEW l2, NEW t, NEW t2, CanPut(Y, w, kind, l, l2, t, t2)
    PROVE  /\ PutTwo(w, kind, l, l2, t, t2) \in [{"bin", "long"} -> [Lits -> Y]]
           /\ \A k \in {"bin", "long"}, m \in Lits :
                PutTwo(w, kind, l, l2, t, t2)[k][m] =
                  IF k = kind /\ m = l THEN t ELSE IF k = kind /\ m = l2 THEN t2 ELSE w[k][m]
<1> DEFINE u == [w EXCEPT ![kind][l] = t]
           w2 == [u EXCEPT ![kind][l2] = t2]
<1>1. /\ u \in [{"bin", "long"} -> [Lits -> Y]]
      /\ \A k \in {"bin", "long"}, m \in Lits : u[k][m] = IF k = kind /\ m = l THEN t ELSE w[k][m]
  BY DEF CanPut
<1> HIDE DEF u
<1>2. /\ w2 \in [{"bin", "long"} -> [Lits -> Y]]
      /\ \A k \in {"bin", "long"}, m \in Lits : w2[k][m] = IF k = kind /\ m = l2 THEN t2 ELSE u[k][m]
  BY <1>1 DEF CanPut
<1>3. PutTwo(w, kind, l, l2, t, t2) = w2
  BY DEF u, PutTwo
<1> HIDE DEF w2
<1> QED
  BY <1>1, <1>2, <1>3 DEF CanPut

(* The clause that is watched through the literal of l is watched through  *)
(* another one from now on: it leaves list l and enters list l2.           *)
Rewatch(c, c2, kind, cr, l, l2, b, hand) ==
    /\ cr \in DOMAIN c /\ ~c[cr].freed /\ cr # hand
    /\ DOMAIN c2 = DOMAIN c /\ \A k \in DOMAIN c : k # cr => c2[k] = c[k]
    /\ ~c2[cr].freed /\ Len(c2[cr].lits) = Len(c[cr].lits) /\ ToSet(c2[cr].lits) = ToSet(c[cr].lits)
    /\ kind = Kind(c[cr].lits) /\ Len(c[cr].lits) >= 2
    /\ l \in Lits /\ l2 \in Lits /\ l # l2
    /\ \A m \in Lits : Watches(c2[cr].lits, kind, m) <=> (Watches(c[cr].lits, kind, m) /\ m # l) \/ m = l2
    /\ Watches(c[cr].lits, kind, l) /\ ~Watches(c[cr].lits, kind, l2)
    /\ b \in Lits /\ b \in ToSet(c2[cr].lits) \ {-l2}

LEMMA WatchMove ==
    ASSUME NEW c, NEW c2, NEW w \in WatcherLists(c), NEW dr, NEW hand, NEW kind \in {"bin", "long"},
           NEW cr, NEW l, NEW l2, NEW b, NEW t,
           Watching(c, w, dr, hand), Rewatch(c, c2, kind, cr, l, l2, b, hand),
           t \in Seq([cref : DOMAIN c, blocker : Lits]), OthersSame(w[kind][l], t, cr),
           Absent(t, cr), ToSet(t) \subseteq ToSet(w[kind][l])
    PROVE  LET w2 == PutTwo(w, kind, l, l2, t, Append(w[kind][l2], Watcher(cr, b)))
           IN  w2 \in WatcherLists(c2) /\ Watching(c2, w2, dr, hand)
<1> DEFINE x == Watcher(cr, b)
           s2 == w[kind][l2]
           t2 == Append(s2, x)
           w2 == PutTwo(w, kind, l, l2, t, t2)
           X == [cref : DOMAIN c, blocker : Lits]
<1>1. s2 \in Seq(X) /\ l \in Lits /\ l2 \in Lits /\ l # l2 /\ cr \in DOMAIN c /\ b \in Lits
      /\ DOMAIN c2 = DOMAIN c /\ cr \in DOMAIN c2
  BY ListTypes DEF Rewatch
<1>2. x \in X /\ x.cref = cr /\ x.blocker = b
  BY <1>1 DEF Watcher
<1> HIDE DEF s2, x, X
<1>4. /\ t2 \in Seq(X) /\ OthersSame(s2, t2, cr)
      /\ Absent(s2, cr) => Single(t2, cr)
      /\ ToSet(t2) = ToSet(s2) \cup {x}
  <2>1. /\ t2 \in Seq(X) /\ OthersSame(s2, t2, x.cref)
        /\ Absent(s2, x.cref) => Single(t2, x.cref)
        /\ ToSet(t2) = ToSet(s2) \cup {x}
    BY <1>1, <1>2, ListAppend
  <2> QED
    BY <2>1, <1>2
<1> HIDE DEF t2
<1>5. /\ w2 \in [{"bin", "long"} -> [Lits -> Seq(X)]]
      /\ \A k \in {"bin", "long"}, m \in Lits :
           w2[k][m] = IF k = kind /\ m = l THEN t
                      ELSE IF k = kind /\ m = l2 THEN t2 ELSE w[k][m]
  <2>1. t \in Seq(X) /\ t2 \in Seq(X) /\ w \in [{"bin", "long"} -> [Lits -> Seq(X)]]
    BY <1>4 DEF X, WatcherLists
  <2>2. w2 = PutTwo(w, kind, l, l2, t, t2)
    BY DEF PutTwo
  <2>3. CanPut(Seq(X), w, kind, l, l2, t, t2)
    BY <2>1, <1>1 DEF CanPut
  <2> HIDE DEF w2
  <2>4. /\ PutTwo(w, kind, l, l2, t, t2) \in [{"bin", "long"} -> [Lits -> Seq(X)]]
        /\ \A k \in {"bin", "long"}, m \in Lits :
             PutTwo(w, kind, l, l2, t, t2)[k][m] =
               IF k = kind /\ m = l THEN t ELSE IF k = kind /\ m = l2 THEN t2 ELSE w[k][m]
    BY ONLY <2>3, TwoLists
  <2> QED
    BY <2>2, <2>4
<1>3. /\ w2 \in WatcherLists(c2)
      /\ \A k2 \in {"bin", "long"}, m \in Lits :
           w2[k2][m] = IF k2 = kind /\ m = l THEN t ELSE IF k2 = kind /\ m = l2 THEN t2 ELSE w[k2][m]
  BY <1>1, <1>5 DEF WatcherLists, X
<1> HIDE DEF w2, X
<1>6. Kind(c2[cr].lits) = kind /\ Kind(c[cr].lits) = kind /\ ~(Len(c2[cr].lits) < 2) /\ ~(Len(c[cr].lits) < 2)
  BY DEF Rewatch, Kind
<1>7. ASSUME NEW k2 \in {"bin", "long"}, NEW m \in Lits
      PROVE  /\ OthersSame(w[k2][m], w2[k2][m], cr)
             /\ Listed(w2[k2][m], cr, c2[cr], k2, m, dr[k2], hand)
             /\ \A y \in ToSet(w2[k2][m]) :
                  \/ y \in ToSet(w[k2][m]) /\ y.cref # cr /\ y.cref \in DOMAIN c2
                  \/ y.cref = cr /\ y.blocker \in ToSet(c2[cr].lits) \ {-m}
  <2>1. /\ Listed(w[k2][m], cr, c[cr], k2, m, dr[k2], hand)
        /\ Blocked(w[k2][m], c, m)
        /\ \A y \in ToSet(w[k2][m]) : y.cref \in DOMAIN c2
    BY <1>1, ListTypes DEF Watching
  <2>2. \A y \in ToSet(w[k2][m]) : y.cref = cr => y.blocker \in ToSet(c2[cr].lits) \ {-m}
    BY <2>1 DEF Blocked, Rewatch
  <2>3. CASE k2 = kind /\ m = l
    <3>1. w2[k2][m] = t
      BY <2>3, <1>3
    <3>2. ~Watches(c2[cr].lits, k2, m)
      BY <2>3, <1>1 DEF Rewatch
    <3>3. Listed(t, cr, c2[cr], k2, m, dr[k2], hand)
      BY <3>2, <1>6 DEF Listed, Rewatch
    <3> QED
      BY <3>1, <3>3, <2>1, <2>2, <2>3
  <2>4. CASE k2 = kind /\ m = l2
    <3>1. w2[k2][m] = t2 /\ w[k2][m] = s2
      BY <2>4, <1>1, <1>3 DEF s2
    <3>2. Watches(c2[cr].lits, k2, m) /\ ~Watches(c[cr].lits, k2, m)
      BY <2>4, <1>1 DEF Rewatch
    <3>3. Absent(s2, cr)
      BY <2>1, <3>1, <3>2, <1>6 DEF Listed, Rewatch
    <3>4. Listed(t2, cr, c2[cr], k2, m, dr[k2], hand)
      BY <3>2, <3>3, <1>4, <1>6 DEF Listed, Rewatch
    <3>5. x.blocker \in ToSet(c2[cr].lits) \ {-m}
      BY <1>2, <2>4 DEF Rewatch
    <3> QED
      BY <3>1, <3>4, <3>5, <2>1, <2>2, <1>2, <1>4
  <2>5. CASE ~(k2 = kind /\ m = l) /\ ~(k2 = kind /\ m = l2)
    <3>1. w2[k2][m] = w[k2][m]
      BY <2>5, <1>3
    <3>2. Watches(c2[cr].lits, k2, m) <=> Watches(c[cr].lits, k2, m)
      BY <2>5, <1>6 DEF Rewatch, Watches
    <3>3. Listed(w[k2][m], cr, c2[cr], k2, m, dr[k2], hand)
      BY <2>1, <3>2, <1>6 DEF Listed, Rewatch
    <3> QED
      BY <3>1, <3>3, <2>1, <2>2, SameLists
  <2> QED
    BY <2>3, <2>4, <2>5
<1>8. OneClause(c, c2, w, w2, dr, hand, hand, cr)
  BY <1>1, <1>7 DEF OneClause, Rewatch
<1>9. Watching(c2, w2, dr, hand)
  BY <1>8, WatchOne
<1> QED
  BY <1>3, <1>9 DEF w2, t2, x, s2

(* A clause that is in no list is attached: a new one, or the one in hand. *)
Attach(c, c2, cr, hand, hand2) ==
    /\ DOMAIN c2 = DOMAIN c \cup {cr} /\ \A k \in DOMAIN c : k # cr => c2[k] = c[k]
    /\ \A k \in DOMAIN c : k # cr => (k = hand <=> k = hand2)
    /\ cr \in DOMAIN c => cr = hand
    /\ ~c2[cr].freed /\ cr # hand2
    /\ c2[cr].lits \in Seq(Lits) /\ Len(c2[cr].lits) >= 2 /\ AllDistinct(c2[cr].lits)

LEMMA WatchAttach ==
    ASSUME NEW c, NEW c2, NEW w \in WatcherLists(c), NEW dr, NEW hand, NEW hand2, NEW cr,
           Watching(c, w, dr, hand), Attach(c, c2, cr, hand, hand2)
    PROVE  /\ Attached(w, cr, c2[cr].lits) \in WatcherLists(c2)
           /\ Watching(c2, Attached(w, cr, c2[cr].lits), dr, hand2)
<1> DEFINE q == c2[cr].lits
           kind == Kind(q)
           l == -q[1]
           l2 == -q[2]
           x == Watcher(cr, q[2])
           x2 == Watcher(cr, q[1])
           t == Append(w[kind][l], x)
           t2 == Append(w[kind][l2], x2)
           w2 == Attached(w, cr, q)
           X == [cref : DOMAIN c2, blocker : Lits]
<1>1. q \in Seq(Lits) /\ Len(q) >= 2 /\ AllDistinct(q)
  BY DEF Attach
<1>2. 1 \in DOMAIN q /\ 2 \in DOMAIN q
  BY <1>1
<1>3. q[1] \in Lits /\ q[2] \in Lits /\ Var(q[1]) # Var(q[2]) /\ q[1] \in ToSet(q) /\ q[2] \in ToSet(q)
  <2>1. 1 # 2
    OBVIOUS
  <2> QED
    BY <1>1, <1>2, <2>1, Element DEF AllDistinct
<1>4. l \in Lits /\ l2 \in Lits /\ l # l2 /\ -l = q[1] /\ -l2 = q[2] /\ q[1] # q[2]
  <2> HIDE DEF q
  <2>1. \A m \in Lits : -(-m) = m /\ -m \in Lits
    BY LitFacts
  <2> QED
    BY <1>3, <2>1
<1>5. kind \in {"bin", "long"} /\ cr \in DOMAIN c2 /\ DOMAIN c \subseteq DOMAIN c2
  BY DEF Kind, Attach
<1>6. x \in X /\ x2 \in X /\ x.cref = cr /\ x2.cref = cr /\ x.blocker = q[2] /\ x2.blocker = q[1]
  BY <1>3, <1>5 DEF Watcher
<1> HIDE DEF q
<1>7. w2 = [w EXCEPT ![kind][l] = t, ![kind][l2] = t2]
  BY <1>4 DEF Attached, WatcherLists
<1>9. \A k2 \in {"bin", "long"}, m \in Lits : w[k2][m] \in Seq(X)
  <2> SUFFICES ASSUME NEW k2 \in {"bin", "long"}, NEW m \in Lits
               PROVE  w[k2][m] \in Seq(X)
    OBVIOUS
  <2>1. w[k2][m] \in Seq([cref : DOMAIN c, blocker : Lits])
    BY ListTypes
  <2> DEFINE s == w[k2][m]
             A == [cref : DOMAIN c, blocker : Lits]
  <2>2. \A y \in A : y \in X
    BY <1>5
  <2> HIDE DEF X, A
  <2>3. s \in Seq(A)
    BY <2>1 DEF A
  <2> HIDE DEF s
  <2>4. Len(s) \in Nat /\ s \in [1 .. Len(s) -> A]
    BY <2>3
  <2>5. s \in [1 .. Len(s) -> X]
    BY <2>2, <2>4
  <2>6. s \in Seq(X)
    BY <2>4, <2>5, SeqDef
  <2> QED
    BY <2>6 DEF s
<1> HIDE DEF kind, l, l2, x, x2, X
<1>10. /\ t \in Seq(X) /\ OthersSame(w[kind][l], t, cr)
       /\ Absent(w[kind][l], cr) => Single(t, cr)
       /\ ToSet(t) = ToSet(w[kind][l]) \cup {x}
  BY <1>4, <1>5, <1>6, <1>9, ListAppend
<1>11. /\ t2 \in Seq(X) /\ OthersSame(w[kind][l2], t2, cr)
       /\ Absent(w[kind][l2], cr) => Single(t2, cr)
       /\ ToSet(t2) = ToSet(w[kind][l2]) \cup {x2}
  BY <1>4, <1>5, <1>6, <1>9, ListAppend
<1> HIDE DEF t, t2, w2
<1>12. /\ w2 \in WatcherLists(c2)
       /\ \A k2 \in {"bin", "long"}, m \in Lits :
            w2[k2][m] = IF k2 = kind /\ m = l THEN t ELSE IF k2 = kind /\ m = l2 THEN t2 ELSE w[k2][m]
  <2>1. t \in Seq(X) /\ t2 \in Seq(X)
    BY <1>10, <1>11
  <2>2. w \in [{"bin", "long"} -> [Lits -> Seq(X)]]
    <3>1. w \in [{"bin", "long"} -> [Lits -> Seq([cref : DOMAIN c, blocker : Lits])]]
      BY DEF WatcherLists
    <3> QED
      BY <3>1, <1>9
  <2>3. w2 = PutTwo(w, kind, l, l2, t, t2) /\ CanPut(Seq(X), w, kind, l, l2, t, t2)
    BY <2>1, <2>2, <1>4, <1>5, <1>7 DEF PutTwo, CanPut
  <2>4. /\ w2 \in [{"bin", "long"} -> [Lits -> Seq(X)]]
        /\ \A k \in {"bin", "long"}, m \in Lits :
             w2[k][m] = IF k = kind /\ m = l THEN t
                        ELSE IF k = kind /\ m = l2 THEN t2 ELSE w[k][m]
    BY <2>3, TwoLists
  <2> QED
    BY <2>4 DEF WatcherLists, X
<1>13. \A k2 \in {"bin", "long"}, m \in Lits : Absent(w[k2][m], cr)
  <2> SUFFICES ASSUME NEW k2 \in {"bin", "long"}, NEW m \in Lits
               PROVE  Absent(w[k2][m], cr)
    OBVIOUS
  <2>1. CASE cr \in DOMAIN c
    <3>1. Listed(w[k2][m], cr, c[cr], k2, m, dr[k2], hand) /\ cr = hand
      BY <2>1 DEF Watching, Attach
    <3> QED
      BY <3>1 DEF Listed
  <2>2. CASE cr \notin DOMAIN c
    <3>1. \A i \in DOMAIN w[k2][m] : w[k2][m][i].cref \in DOMAIN c
      BY ListTypes
    <3> QED
      BY <2>2, <3>1 DEF Absent
  <2> QED
    BY <2>1, <2>2
<1>14. Kind(q) = kind /\ ~(Len(q) < 2)
  BY <1>1 DEF kind
<1>15. \A k2 \in {"bin", "long"}, m \in Lits : Watches(q, k2, m) <=> k2 = kind /\ (m = l \/ m = l2)
  <2>1. \A m \in Lits : (-m = q[1] => m = l) /\ (-m = q[2] => m = l2)
    <3> SUFFICES ASSUME NEW m \in Lits
                 PROVE  (-m = q[1] => m = l) /\ (-m = q[2] => m = l2)
      OBVIOUS
    <3>1. -(-m) = m
      BY LitFacts
    <3> QED
      BY <3>1 DEF l, l2
  <2> QED
    BY <2>1, <1>4, <1>14 DEF Watches
<1>16. ASSUME NEW k2 \in {"bin", "long"}, NEW m \in Lits
      PROVE  /\ OthersSame(w[k2][m], w2[k2][m], cr)
             /\ Listed(w2[k2][m], cr, c2[cr], k2, m, dr[k2], hand2)
             /\ \A y \in ToSet(w2[k2][m]) :
                  \/ y \in ToSet(w[k2][m]) /\ y.cref # cr /\ y.cref \in DOMAIN c2
                  \/ y.cref = cr /\ y.blocker \in ToSet(c2[cr].lits) \ {-m}
  <2>1. Absent(w[k2][m], cr)
    BY <1>13
  <2>2. \A y \in ToSet(w[k2][m]) : y.cref # cr /\ y.cref \in DOMAIN c2
    <3>1. \A y \in ToSet(w[k2][m]) : y.cref \in DOMAIN c2
      BY <1>5, ListTypes
    <3>2. \A y \in ToSet(w[k2][m]) : y.cref # cr
      BY <2>1 DEF Absent, ToSet
    <3> QED
      BY <3>1, <3>2
  <2>3. ~c2[cr].freed /\ cr # hand2 /\ c2[cr].lits = q
    BY DEF Attach, q
  <2>4. CASE k2 = kind /\ m = l
    <3>1. w2[k2][m] = t
      BY <2>4, <1>12
    <3>2. Listed(t, cr, c2[cr], k2, m, dr[k2], hand2)
      BY <2>1, <2>3, <2>4, <1>10, <1>14, <1>15 DEF Listed
    <3>3. x.blocker \in ToSet(q) \ {-m} /\ x.cref = cr
      BY <1>3, <1>4, <1>6, <2>4
    <3> QED
      BY <3>1, <3>2, <3>3, <2>2, <2>3, <2>4, <1>10
  <2>5. CASE k2 = kind /\ m = l2
    <3>1. w2[k2][m] = t2
      BY <2>5, <1>4, <1>12
    <3>2. Listed(t2, cr, c2[cr], k2, m, dr[k2], hand2)
      BY <2>1, <2>3, <2>5, <1>11, <1>14, <1>15 DEF Listed
    <3>3. x2.blocker \in ToSet(q) \ {-m} /\ x2.cref = cr
      BY <1>3, <1>4, <1>6, <2>5
    <3> QED
      BY <3>1, <3>2, <3>3, <2>2, <2>3, <2>5, <1>11
  <2>6. CASE ~(k2 = kind /\ m = l) /\ ~(k2 = kind /\ m = l2)
    <3>1. w2[k2][m] = w[k2][m]
      BY <2>6, <1>12
    <3>2. Listed(w[k2][m], cr, c2[cr], k2, m, dr[k2], hand2)
      BY <2>1, <2>3, <2>6, <1>14, <1>15 DEF Listed
    <3> QED
      BY <3>1, <3>2, <2>2, SameLists
  <2> QED
    BY <2>4, <2>5, <2>6
<1>17. OneClause(c, c2, w, w2, dr, hand, hand2, cr)
  <2>1. \A k \in DOMAIN c2 : k # cr => k \in DOMAIN c /\ c2[k] = c[k] /\ (k = hand <=> k = hand2)
    BY DEF Attach
  <2> QED
    BY <2>1, <1>16 DEF OneClause
<1>18. Watching(c2, w2, dr, hand2)
  BY <1>17, WatchOne
<1> QED
  BY <1>12, <1>18 DEF w2, q

(* A clause that is in its two lists leaves them, and is in hand then; its *)
(* literals may become others.                                             *)
Detach(c, c2, cr) ==
    /\ cr \in DOMAIN c /\ ~c[cr].freed /\ cr # CRef_Undef
    /\ c[cr].lits \in Seq(Lits) /\ Len(c[cr].lits) >= 2 /\ AllDistinct(c[cr].lits)
    /\ DOMAIN c2 = DOMAIN c /\ \A k \in DOMAIN c : k # cr => c2[k] = c[k]
    /\ CRef_Undef \notin DOMAIN c

Remaining(list, cr) == Selected(list, LAMBDA u : u.cref # cr)

LEMMA ListWithout ==
    ASSUME NEW X, NEW list \in Seq(X), NEW cr
    PROVE  /\ Remaining(list, cr) \in Seq(X) /\ OthersSame(list, Remaining(list, cr), cr)
           /\ Absent(Remaining(list, cr), cr) /\ ToSet(Remaining(list, cr)) \subseteq ToSet(list)
<1> DEFINE D == {k \in DOMAIN list : list[k].cref # cr}
<1>1. Remaining(list, cr) = PickAt(list, D)
  BY DEF Remaining, Selected, PickAt
<1>2. D \in SUBSET DOMAIN list
  OBVIOUS
<1>3. /\ PickAt(list, D) \in Seq(X) /\ ToSet(PickAt(list, D)) \subseteq ToSet(list)
      /\ \A c : /\ Absent(list, c) => Absent(PickAt(list, D), c)
                /\ (\A i \in DOMAIN list : list[i].cref = c => i \in D)
                     /\ Single(list, c) => Single(PickAt(list, D), c)
                /\ (\A i \in D : list[i].cref # c) => Absent(PickAt(list, D), c)
  BY <1>2, ListPick
<1>4. \A k : k # cr => \A i \in DOMAIN list : list[i].cref = k => i \in D
  OBVIOUS
<1>5. \A i \in D : list[i].cref # cr
  OBVIOUS
<1> HIDE DEF D
<1> QED
  BY <1>1, <1>3, <1>4, <1>5 DEF OthersSame

LEMMA WatchDetach ==
    ASSUME NEW c, NEW c2, NEW w \in WatcherLists(c), NEW dr, NEW cr,
           Watching(c, w, dr, CRef_Undef), Detach(c, c2, cr)
    PROVE  /\ Detached(w, cr, c[cr].lits) \in WatcherLists(c2)
           /\ Watching(c2, Detached(w, cr, c[cr].lits), dr, cr)
<1> DEFINE q == c[cr].lits
           kind == Kind(q)
           l == -q[1]
           l2 == -q[2]
           t == Remaining(w[kind][l], cr)
           t2 == Remaining(w[kind][l2], cr)
           w2 == Detached(w, cr, q)
           X == [cref : DOMAIN c, blocker : Lits]
<1>1. q \in Seq(Lits) /\ Len(q) >= 2 /\ AllDistinct(q)
  BY DEF Detach
<1>2. 1 \in DOMAIN q /\ 2 \in DOMAIN q
  BY <1>1
<1>3. q[1] \in Lits /\ q[2] \in Lits /\ Var(q[1]) # Var(q[2])
  <2>1. 1 # 2
    OBVIOUS
  <2> QED
    BY <1>1, <1>2, <2>1, Element DEF AllDistinct
<1>4. l \in Lits /\ l2 \in Lits /\ l # l2 /\ -l = q[1] /\ -l2 = q[2]
  <2> HIDE DEF q
  <2>1. \A m \in Lits : -(-m) = m /\ -m \in Lits
    BY LitFacts
  <2> QED
    BY <1>3, <2>1
<1>5. kind \in {"bin", "long"} /\ DOMAIN c2 = DOMAIN c
  BY DEF Kind, Detach
<1> HIDE DEF q
<1>7. w2 = [w EXCEPT ![kind][l] = t, ![kind][l2] = t2]
  BY <1>4 DEF Detached, WatcherLists, Remaining
<1>9. \A k2 \in {"bin", "long"}, m \in Lits : w[k2][m] \in Seq(X)
  BY ListTypes
<1> HIDE DEF kind, l, l2, X, t, t2, w2
<1>10. /\ t \in Seq(X) /\ OthersSame(w[kind][l], t, cr)
       /\ Absent(t, cr) /\ ToSet(t) \subseteq ToSet(w[kind][l])
  BY <1>4, <1>5, <1>9, ListWithout DEF t
<1>11. /\ t2 \in Seq(X) /\ OthersSame(w[kind][l2], t2, cr)
       /\ Absent(t2, cr) /\ ToSet(t2) \subseteq ToSet(w[kind][l2])
  BY <1>4, <1>5, <1>9, ListWithout DEF t2
<1>12. /\ w2 \in WatcherLists(c2)
       /\ \A k2 \in {"bin", "long"}, m \in Lits :
            w2[k2][m] = IF k2 = kind /\ m = l THEN t ELSE IF k2 = kind /\ m = l2 THEN t2 ELSE w[k2][m]
  <2>1. t \in Seq(X) /\ t2 \in Seq(X) /\ w \in [{"bin", "long"} -> [Lits -> Seq(X)]]
    BY <1>10, <1>11 DEF WatcherLists, X
  <2>3. w2 = PutTwo(w, kind, l, l2, t, t2) /\ CanPut(Seq(X), w, kind, l, l2, t, t2)
    BY <2>1, <1>4, <1>5, <1>7 DEF PutTwo, CanPut
  <2>4. /\ PutTwo(w, kind, l, l2, t, t2) \in [{"bin", "long"} -> [Lits -> Seq(X)]]
        /\ \A k \in {"bin", "long"}, m \in Lits :
             PutTwo(w, kind, l, l2, t, t2)[k][m] =
               IF k = kind /\ m = l THEN t ELSE IF k = kind /\ m = l2 THEN t2 ELSE w[k][m]
    BY ONLY <2>3, TwoLists
  <2> QED
    BY <2>3, <2>4, <1>5 DEF WatcherLists, X
<1>14. Kind(q) = kind /\ ~(Len(q) < 2) /\ cr # CRef_Undef /\ cr \in DOMAIN c /\ ~c[cr].freed
  BY <1>1 DEF kind, Detach
<1>15. \A k2 \in {"bin", "long"}, m \in Lits : Watches(q, k2, m) => k2 = kind /\ (m = l \/ m = l2)
  <2>1. \A m \in Lits : (-m = q[1] => m = l) /\ (-m = q[2] => m = l2)
    <3> SUFFICES ASSUME NEW m \in Lits
                 PROVE  (-m = q[1] => m = l) /\ (-m = q[2] => m = l2)
      OBVIOUS
    <3>1. -(-m) = m
      BY LitFacts
    <3> QED
      BY <3>1 DEF l, l2
  <2> QED
    BY <2>1, <1>14 DEF Watches
<1>16. ASSUME NEW k2 \in {"bin", "long"}, NEW m \in Lits
       PROVE  /\ OthersSame(w[k2][m], w2[k2][m], cr)
              /\ Absent(w2[k2][m], cr) /\ ToSet(w2[k2][m]) \subseteq ToSet(w[k2][m])
  <2>1. Listed(w[k2][m], cr, c[cr], k2, m, dr[k2], CRef_Undef)
    BY <1>14 DEF Watching
  <2>4. CASE k2 = kind /\ m = l
    BY <2>4, <1>10, <1>12
  <2>5. CASE k2 = kind /\ m = l2
    BY <2>5, <1>4, <1>11, <1>12
  <2>6. CASE ~(k2 = kind /\ m = l) /\ ~(k2 = kind /\ m = l2)
    <3>1. w2[k2][m] = w[k2][m]
      BY <2>6, <1>12
    <3>2. Absent(w[k2][m], cr)
      BY <2>1, <2>6, <1>14, <1>15 DEF Listed, q
    <3> QED
      BY <3>1, <3>2, SameLists
  <2> QED
    BY <2>4, <2>5, <2>6
<1>17. OneClause(c, c2, w, w2, dr, CRef_Undef, cr, cr)
  <2>1. \A k \in DOMAIN c2 : k # cr => k \in DOMAIN c /\ c2[k] = c[k] /\ (k = CRef_Undef <=> k = cr)
    BY DEF Detach
  <2>2. \A k2 \in {"bin", "long"}, m \in Lits :
          /\ OthersSame(w[k2][m], w2[k2][m], cr)
          /\ Listed(w2[k2][m], cr, c2[cr], k2, m, dr[k2], cr)
          /\ \A y \in ToSet(w2[k2][m]) : y \in ToSet(w[k2][m]) /\ y.cref # cr /\ y.cref \in DOMAIN c2
    <3> SUFFICES ASSUME NEW k2 \in {"bin", "long"}, NEW m \in Lits
                 PROVE  /\ OthersSame(w[k2][m], w2[k2][m], cr)
                        /\ Listed(w2[k2][m], cr, c2[cr], k2, m, dr[k2], cr)
                        /\ \A y \in ToSet(w2[k2][m]) : y \in ToSet(w[k2][m]) /\ y.cref # cr /\ y.cref \in DOMAIN c2
      OBVIOUS
    <3>1. \A y \in ToSet(w[k2][m]) : y.cref \in DOMAIN c2
      BY <1>5, ListTypes
    <3>2. \A y \in ToSet(w2[k2][m]) : y.cref # cr
      BY <1>16 DEF Absent, ToSet
    <3> QED
      BY <3>1, <3>2, <1>16 DEF Listed
  <2> QED
    BY <2>1, <2>2 DEF OneClause
<1>18. Watching(c2, w2, dr, cr)
  BY <1>17, WatchOne
<1> QED
  BY <1>12, <1>18 DEF w2, q

(* The literals of the clause in hand change.                              *)
LEMMA WatchHand ==
    ASSUME NEW c, NEW c2, NEW w \in WatcherLists(c), NEW dr, NEW hand,
           Watching(c, w, dr, hand), DOMAIN c2 = DOMAIN c, \A k \in DOMAIN c : k # hand => c2[k] = c[k]
    PROVE  Watching(c2, w, dr, hand)
<1> SUFFICES ASSUME NEW kind \in {"bin", "long"}, NEW l \in Lits
             PROVE  /\ \A cr \in DOMAIN c : Listed(w[kind][l], cr, c2[cr], kind, l, dr[kind], hand)
                    /\ Blocked(w[kind][l], c2, l)
  BY DEF Watching
<1>1. /\ \A cr \in DOMAIN c : Listed(w[kind][l], cr, c[cr], kind, l, dr[kind], hand)
      /\ Blocked(w[kind][l], c, l)
  BY DEF Watching
<1>2. ASSUME NEW cr \in DOMAIN c
      PROVE  Listed(w[kind][l], cr, c2[cr], kind, l, dr[kind], hand)
  <2>1. CASE cr = hand
    BY <2>1, <1>1 DEF Listed
  <2>2. CASE cr # hand
    BY <2>2, <1>1
  <2> QED
    BY <2>1, <2>2
<1>3. ASSUME NEW x \in ToSet(w[kind][l])
      PROVE  x.cref \in DOMAIN c /\ x.cref # hand
  <2>1. x.cref \in DOMAIN c
    BY ListTypes
  <2>2. PICK i \in DOMAIN w[kind][l] : x = w[kind][l][i]
    BY DEF ToSet
  <2>3. Listed(w[kind][l], x.cref, c[x.cref], kind, l, dr[kind], hand)
    BY <2>1, <1>1
  <2> QED
    BY <2>1, <2>2, <2>3 DEF Listed, Absent
<1> QED
  BY <1>1, <1>2, <1>3 DEF Blocked

(* The clause in hand is freed; it is in no list, being a unit.            *)
LEMMA WatchDrop ==
    ASSUME NEW c, NEW c2, NEW w \in WatcherLists(c), NEW dr, NEW hand \in DOMAIN c, CRef_Undef \notin DOMAIN c,
           Watching(c, w, dr, hand), DOMAIN c2 = DOMAIN c, \A k \in DOMAIN c : c2[k].lits = c[k].lits,
           \A k \in DOMAIN c : k # hand => c2[k] = c[k], Len(c2[hand].lits) < 2
    PROVE  Watching(c2, w, dr, CRef_Undef)
<1>1. Watching(c2, w, dr, hand)
  BY WatchHand
<1> QED
  BY <1>1 DEF Watching, Listed

-----------------------------------------------------------------------------
(* The trail with the clauses c: what holds of the first n literals of it, *)
(* and of the first P, which have been propagated.  hand is the clause in  *)
(* hand, u are the unit records in the log d.                              *)
OnVars(vd) == vd = [v \in Vars |-> [reason |-> vd[v].reason, level |-> vd[v].level]]
Trailing(c, hand, as, vd, tr, lim, n, P, u, d) ==
    /\ HasLits(c) /\ as \in [Vars -> Lits \cup {0}] /\ tr \in Seq(Lits) /\ lim \in Seq(Nat)
    /\ OnVars(vd) /\ HasLevels(vd) /\ u \in [Vars -> Nat]
    /\ n \in Nat /\ P \in Nat /\ P <= n /\ n <= Len(tr)
    /\ Assigned(as, tr)
    /\ Levels(vd, tr, lim, n)
    /\ Reasons(c, vd, tr, n)
    /\ hand # CRef_Undef => NoReason(vd, tr, hand)
    /\ UnitsOK(vd, u, d, tr, n)
    /\ Complete(c, vd, tr, lim, hand, n, P)

(* The clauses change, or which of them is in hand.                        *)
LEMMA TrailingMemory ==
    ASSUME NEW c, NEW hand, NEW as, NEW vd, NEW tr, NEW lim, NEW n, NEW P, NEW u, NEW d,
           Trailing(c, hand, as, vd, tr, lim, n, P, u, d), NEW c2, NEW hand2,
           HasLits(c2), KeepsReasons(c, c2, vd, tr, n),
           KeepsComplete(c, c2, vd, tr, lim, hand, hand2, n, P),
           hand2 # CRef_Undef => NoReason(vd, tr, hand2)
    PROVE  Trailing(c2, hand2, as, vd, tr, lim, n, P, u, d)
<1>1. Reasons(c2, vd, tr, n)
  BY ReasonsKept DEF Trailing
<1>2. Complete(c2, vd, tr, lim, hand2, n, P)
  BY CompleteKept DEF Trailing
<1> QED
  BY <1>1, <1>2 DEF Trailing

LEMMA TrailingLess ==
    ASSUME NEW c, NEW hand, NEW as, NEW vd, NEW tr, NEW lim, NEW n, NEW P, NEW u, NEW d,
           Trailing(c, hand, as, vd, tr, lim, n, P, u, d), NEW P2 \in Nat, P2 <= P
    PROVE  Trailing(c, hand, as, vd, tr, lim, n, P2, u, d)
<1>1. Complete(c, vd, tr, lim, hand, n, P2) /\ P2 <= n
  BY CompleteLess DEF Trailing
<1> QED
  BY <1>1 DEF Trailing

(* The log grows.                                                          *)
LEMMA TrailingLog ==
    ASSUME NEW c, NEW hand, NEW as, NEW vd, NEW tr, NEW lim, NEW n, NEW P, NEW u, NEW d,
           Trailing(c, hand, as, vd, tr, lim, n, P, u, d), NEW d2, SameUnits(u, d, d2)
    PROVE  Trailing(c, hand, as, vd, tr, lim, n, P, u, d2)
<1>1. UnitsOK(vd, u, d2, tr, n)
  BY DEF Trailing, UnitsOK, SameUnits
<1> QED
  BY <1>1 DEF Trailing

(* An assignment with a level and, at level 0, a unit record.              *)
CanEnqueue(c, hand, as, vd, tr, lim, p, r, lv) ==
    /\ lv \in Nat /\ Within(lim, lv, Len(tr) + 1)
    /\ r = CRef_Undef => lv = 0
    /\ hand # CRef_Undef => r # hand
    /\ r # CRef_Undef => r \in DOMAIN c /\ ~c[r].freed /\ Implies(c[r].lits, as, vd, p, lv)

(* Enqueueing leaves what is on the trail.                                 *)
CanExtend(as, vd, tr, p, r, lv, as2, vd2, tr2) ==
    /\ as \in [Vars -> Lits \cup {0}] /\ tr \in Seq(Lits)
    /\ Assigned(as, tr) /\ HasLevels(vd) /\ OnVars(vd)
    /\ Enqueued(as, vd, tr, p, r, lv, as2, vd2, tr2) /\ lv \in Nat
Extension(vd, tr, p, r, lv, as2, vd2, tr2) ==
    /\ \A i \in 1 .. Len(tr) : tr2[i] = tr[i] /\ Var(tr[i]) # Var(p) /\ Var(tr[i]) \in Vars
    /\ tr2[Len(tr) + 1] = p /\ tr2 \in Seq(Lits) /\ Len(tr2) = Len(tr) + 1
    /\ \A v \in Vars : v # Var(p) => vd2[v] = vd[v]
    /\ vd2[Var(p)] = [reason |-> r, level |-> lv] /\ HasLevels(vd2)
    /\ Agree(vd, vd2, tr, tr2, Len(tr))
    /\ as2 \in [Vars -> Lits \cup {0}] /\ Assigned(as2, tr2)
    /\ Lv(vd2, p) = lv /\ Rs(vd2, p) = r /\ OnVars(vd2)

LEMMA EnqueueAgrees ==
    ASSUME NEW as, NEW vd, NEW tr, NEW p, NEW r, NEW lv, NEW as2, NEW vd2, NEW tr2,
           CanExtend(as, vd, tr, p, r, lv, as2, vd2, tr2)
    PROVE  Extension(vd, tr, p, r, lv, as2, vd2, tr2)
<1> USE DEF CanExtend
<1>1. p \in Lits /\ as[Var(p)] = 0 /\ tr2 = Append(tr, p) /\ as2 = [as EXCEPT ![Var(p)] = p]
      /\ vd2 = [vd EXCEPT ![Var(p)] = [reason |-> r, level |-> lv]]
  BY DEF Enqueued
<1>2. Var(p) \in Vars
  BY <1>1, LitFacts
<1>3. DOMAIN vd = Vars
  BY DEF OnVars
<1>4. /\ Assigned(as2, tr2) /\ as2 \in [Vars -> Lits \cup {0}]
      /\ tr2 \in Seq(Lits) /\ Len(tr2) = Len(tr) + 1
      /\ \A i \in 1 .. Len(tr) : tr2[i] = tr[i] /\ Var(tr[i]) # Var(p)
      /\ tr2[Len(tr) + 1] = p
  <2>1. CanAppend(as, tr, p, as2, tr2)
    BY <1>1 DEF CanAppend
  <2>2. Assigned(as2, tr2) /\ as2 \in [Vars -> Lits \cup {0}] /\ Grown(tr, p, tr2)
    BY <2>1, AppendAssigned
  <2> QED
    BY <2>2 DEF Grown
<1>5. \A i \in 1 .. Len(tr) : Var(tr[i]) \in Vars
  BY LitFacts, Element
<1>6. /\ \A v \in Vars : v # Var(p) => vd2[v] = vd[v]
      /\ vd2[Var(p)] = [reason |-> r, level |-> lv] /\ OnVars(vd2)
  BY <1>1, <1>2, <1>3 DEF OnVars
<1>7. HasLevels(vd2)
  BY <1>6 DEF HasLevels
<1>8. Agree(vd, vd2, tr, tr2, Len(tr))
  BY <1>4, <1>5, <1>6 DEF Agree
<1> QED
  BY <1>4, <1>5, <1>6, <1>7, <1>8 DEF Lv, Rs, Extension

LEMMA TrailingEnqueue ==
    ASSUME NEW c, NEW hand, NEW as, NEW vd, NEW tr, NEW lim, NEW n, NEW P, NEW u, NEW d,
           Trailing(c, hand, as, vd, tr, lim, n, P, u, d), n = Len(tr),
           NEW p, NEW r, NEW lv, NEW as2, NEW vd2, NEW tr2, NEW u2, NEW d2,
           Enqueued(as, vd, tr, p, r, lv, as2, vd2, tr2),
           CanEnqueue(c, hand, as, vd, tr, lim, p, r, lv), UnitAdded(u, d, u2, d2, p, lv)
    PROVE  Trailing(c, hand, as2, vd2, tr2, lim, n + 1, P, u2, d2)
<1>1. /\ HasLits(c) /\ as \in [Vars -> Lits \cup {0}] /\ tr \in Seq(Lits) /\ lim \in Seq(Nat)
      /\ OnVars(vd) /\ HasLevels(vd) /\ u \in [Vars -> Nat] /\ n \in Nat /\ P \in Nat /\ P <= n
      /\ Assigned(as, tr) /\ Levels(vd, tr, lim, n) /\ Reasons(c, vd, tr, n)
      /\ hand # CRef_Undef => NoReason(vd, tr, hand)
      /\ UnitsOK(vd, u, d, tr, n) /\ Complete(c, vd, tr, lim, hand, n, P)
  BY DEF Trailing
<1>2. /\ \A i \in 1 .. Len(tr) : tr2[i] = tr[i] /\ Var(tr[i]) # Var(p) /\ Var(tr[i]) \in Vars
      /\ tr2[Len(tr) + 1] = p /\ tr2 \in Seq(Lits) /\ Len(tr2) = Len(tr) + 1
      /\ \A v \in Vars : v # Var(p) => vd2[v] = vd[v]
      /\ vd2[Var(p)] = [reason |-> r, level |-> lv] /\ HasLevels(vd2)
      /\ Agree(vd, vd2, tr, tr2, Len(tr))
      /\ as2 \in [Vars -> Lits \cup {0}] /\ Assigned(as2, tr2)
      /\ Lv(vd2, p) = lv /\ Rs(vd2, p) = r /\ OnVars(vd2)
  <2>1. CanExtend(as, vd, tr, p, r, lv, as2, vd2, tr2)
    BY <1>1 DEF CanEnqueue, CanExtend
  <2>2. Extension(vd, tr, p, r, lv, as2, vd2, tr2)
    BY <2>1, EnqueueAgrees
  <2> QED
    BY <2>2 DEF Extension
<1>3. p \in Lits /\ as[Var(p)] = 0 /\ tr2 = Append(tr, p)
  BY DEF Enqueued
<1>4. Levels(vd2, tr2, lim, n + 1)
  BY <1>1, <1>2, LevelsMore DEF CanEnqueue
<1>5. r # CRef_Undef => r \in DOMAIN c /\ ~c[r].freed /\ Forces(c[r].lits, vd2, tr2, n + 1)
  <2> SUFFICES ASSUME r # CRef_Undef
               PROVE  r \in DOMAIN c /\ ~c[r].freed /\ Forces(c[r].lits, vd2, tr2, n + 1)
    OBVIOUS
  <2> DEFINE q == c[r].lits
  <2>1. r \in DOMAIN c /\ ~c[r].freed /\ Implies(q, as, vd, p, lv)
    BY DEF CanEnqueue
  <2>2. OneMore(as, vd, tr, p, lv, vd2, tr2)
    BY <1>1, <1>2, <1>3 DEF OneMore
  <2> HIDE DEF q
  <2>3. Forces(q, vd2, tr2, Len(tr) + 1)
    BY <2>1, <2>2, ForcesNew
  <2> QED
    BY <2>1, <2>3 DEF q
<1>6. Reasons(c, vd2, tr2, n + 1)
  BY <1>1, <1>2, <1>5, ReasonsMore
<1>7. ASSUME hand # CRef_Undef PROVE NoReason(vd2, tr2, hand)
  <2>0. \A i \in 1 .. n : i \in DOMAIN tr
    BY <1>1
  <2>1. \A i \in 1 .. n : Rs(vd2, tr2[i]) # hand
    <3> SUFFICES ASSUME NEW i \in 1 .. n
                 PROVE  Rs(vd2, tr2[i]) # hand
      OBVIOUS
    <3>1. Rs(vd, tr[i]) # hand
      BY <2>0, <1>1, <1>7 DEF NoReason
    <3>2. tr2[i] = tr[i] /\ vd2[Var(tr[i])] = vd[Var(tr[i])]
      BY <1>2 DEF Agree
    <3> QED
      BY <3>1, <3>2 DEF Rs
  <2>2. Rs(vd2, tr2[n + 1]) # hand
    BY <1>2, <1>7 DEF CanEnqueue
  <2>3. \A i \in DOMAIN tr2 : i \in 1 .. n \/ i = n + 1
    BY <1>1, <1>2
  <2> QED
    BY <2>1, <2>2, <2>3 DEF NoReason
<1>8. UnitsOK(vd2, u2, d2, tr2, n + 1)
  <2>1. Longer(vd, tr, n, p, lv, vd2, tr2)
    BY <1>1, <1>2, <1>3 DEF Longer
  <2> QED
    BY <2>1, <1>1, UnitsEnqueue
<1>9. Complete(c, vd2, tr2, lim, hand, n + 1, P)
  <2>1. n <= n + 1 /\ n + 1 \in Nat
    BY <1>1
  <2> QED
    BY <2>1, <1>1, <1>2, CompleteFrame
<1> QED
  BY <1>1, <1>2, <1>4, <1>6, <1>7, <1>8, <1>9 DEF Trailing, UnitAdded

(* The facts about the parts, one by one.                                  *)
LEMMA TrailingParts ==
    ASSUME NEW c, NEW hand, NEW as, NEW vd, NEW tr, NEW lim, NEW n, NEW P, NEW u, NEW d,
           Trailing(c, hand, as, vd, tr, lim, n, P, u, d)
    PROVE  /\ HasLits(c) /\ as \in [Vars -> Lits \cup {0}] /\ tr \in Seq(Lits) /\ lim \in Seq(Nat)
           /\ OnVars(vd) /\ HasLevels(vd) /\ u \in [Vars -> Nat] /\ n \in Nat /\ P \in Nat /\ P <= n /\ n <= Len(tr)
           /\ Assigned(as, tr) /\ Levels(vd, tr, lim, n) /\ Reasons(c, vd, tr, n)
           /\ hand # CRef_Undef => NoReason(vd, tr, hand)
           /\ UnitsOK(vd, u, d, tr, n) /\ Complete(c, vd, tr, lim, hand, n, P)
BY DEF Trailing

(* A decision.                                                             *)
LEMMA TrailingDecide ==
    ASSUME NEW c, NEW hand, NEW as, NEW vd, NEW tr, NEW lim, NEW n, NEW P, NEW u, NEW d,
           Trailing(c, hand, as, vd, tr, lim, n, P, u, d), n = Len(tr), hand = CRef_Undef,
           NEW p, NEW as2, NEW vd2, NEW tr2,
           Enqueued(as, vd, tr, p, CRef_Undef, Len(lim) + 1, as2, vd2, tr2)
    PROVE  Trailing(c, hand, as2, vd2, tr2, Append(lim, n), n + 1, P, u, d)
<1>1. /\ HasLits(c) /\ as \in [Vars -> Lits \cup {0}] /\ tr \in Seq(Lits) /\ lim \in Seq(Nat)
      /\ OnVars(vd) /\ HasLevels(vd) /\ u \in [Vars -> Nat] /\ n \in Nat /\ P \in Nat /\ P <= n
      /\ Assigned(as, tr) /\ Levels(vd, tr, lim, n) /\ Reasons(c, vd, tr, n)
      /\ UnitsOK(vd, u, d, tr, n) /\ Complete(c, vd, tr, lim, hand, n, P)
  BY DEF Trailing
<1> DEFINE lv == Len(lim) + 1
           lim2 == Append(lim, n)
<1>2. lv \in Nat /\ lv # 0 /\ lim2 \in Seq(Nat)
  BY <1>1
<1>3. Enqueued(as, vd, tr, p, CRef_Undef, lv, as2, vd2, tr2) /\ lv = Len(lim) + 1
  OBVIOUS
<1> HIDE DEF lv
<1>4. /\ \A i \in 1 .. Len(tr) : tr2[i] = tr[i] /\ Var(tr[i]) # Var(p) /\ Var(tr[i]) \in Vars
      /\ tr2[Len(tr) + 1] = p /\ tr2 \in Seq(Lits) /\ Len(tr2) = Len(tr) + 1
      /\ \A v \in Vars : v # Var(p) => vd2[v] = vd[v]
      /\ vd2[Var(p)] = [reason |-> CRef_Undef, level |-> lv] /\ HasLevels(vd2)
      /\ Agree(vd, vd2, tr, tr2, Len(tr))
      /\ as2 \in [Vars -> Lits \cup {0}] /\ Assigned(as2, tr2)
      /\ Lv(vd2, p) = lv /\ Rs(vd2, p) = CRef_Undef /\ OnVars(vd2)
  <2>1. CanExtend(as, vd, tr, p, CRef_Undef, lv, as2, vd2, tr2)
    BY <1>1, <1>2, <1>3 DEF CanExtend
  <2>2. Extension(vd, tr, p, CRef_Undef, lv, as2, vd2, tr2)
    BY <2>1, EnqueueAgrees
  <2> QED
    BY <2>2 DEF Extension
<1>5. p \in Lits
  BY DEF Enqueued
<1>6. /\ Levels(vd2, tr2, lim2, n + 1)
      /\ \A l \in Nat, i \in Nat : Within(lim, l, i) => Within(lim2, l, i)
  <2>1. Lv(vd2, tr2[n + 1]) = Len(lim) + 1 /\ Rs(vd2, tr2[n + 1]) = CRef_Undef /\ Agree(vd, vd2, tr, tr2, n)
    BY <1>3, <1>4
  <2> QED
    BY <2>1, <1>1, LevelsDecision
<1>7. Reasons(c, vd2, tr2, n + 1)
  <2>1. Rs(vd2, tr2[n + 1]) = CRef_Undef /\ Agree(vd, vd2, tr, tr2, n)
    BY <1>4
  <2> QED
    BY <2>1, <1>1, ReasonsMore
<1>8. UnitsOK(vd2, u, d, tr2, n + 1)
  <2>1. Longer(vd, tr, n, p, lv, vd2, tr2)
    BY <1>1, <1>4, <1>5 DEF Longer
  <2>2. UnitAdded(u, d, u, d, p, lv)
    BY <1>1, <1>2 DEF UnitAdded, SameUnits
  <2> QED
    BY <2>1, <2>2, <1>1, UnitsEnqueue
<1> HIDE DEF lim2
<1>9. Complete(c, vd2, tr2, lim2, hand, n + 1, P)
  <2>1. Agree(vd, vd2, tr, tr2, n)
    BY <1>4
  <2> QED
    BY <2>1, <1>1, <1>6, CompleteDecision
<1>10. n + 1 \in Nat /\ P <= n + 1 /\ n + 1 <= Len(tr2)
  BY <1>1, <1>4
<1> QED
  BY <1>1, <1>2, <1>4, <1>6, <1>7, <1>8, <1>9, <1>10 DEF Trailing, lim2

(* An assumption of vivification, or what follows from it: it has no level *)
(* of its own and is not settled.                                          *)
Assumed(as, vd, tr, p, r, as2, vd2, tr2) ==
    /\ p \in Lits /\ as[Var(p)] = 0
    /\ as2 = [as EXCEPT ![Var(p)] = p]
    /\ vd2 = [vd EXCEPT ![Var(p)].reason = r]
    /\ tr2 = Append(tr, p)

LEMMA TrailingAssume ==
    ASSUME NEW c, NEW hand, NEW as, NEW vd, NEW tr, NEW lim, NEW n, NEW P, NEW u, NEW d,
           Trailing(c, hand, as, vd, tr, lim, n, P, u, d),
           NEW p, NEW r, NEW as2, NEW vd2, NEW tr2,
           Assumed(as, vd, tr, p, r, as2, vd2, tr2), hand # CRef_Undef => r # hand
    PROVE  Trailing(c, hand, as2, vd2, tr2, lim, n, P, u, d)
<1>1. /\ HasLits(c) /\ as \in [Vars -> Lits \cup {0}] /\ tr \in Seq(Lits) /\ lim \in Seq(Nat)
      /\ OnVars(vd) /\ HasLevels(vd) /\ u \in [Vars -> Nat] /\ n \in Nat /\ P \in Nat /\ P <= n /\ n <= Len(tr)
      /\ Assigned(as, tr) /\ Levels(vd, tr, lim, n) /\ Reasons(c, vd, tr, n)
      /\ hand # CRef_Undef => NoReason(vd, tr, hand)
      /\ UnitsOK(vd, u, d, tr, n) /\ Complete(c, vd, tr, lim, hand, n, P)
  BY DEF Trailing
<1>2. /\ p \in Lits /\ as[Var(p)] = 0 /\ as2 = [as EXCEPT ![Var(p)] = p] /\ tr2 = Append(tr, p)
      /\ vd2 = [vd EXCEPT ![Var(p)].reason = r] /\ Var(p) \in Vars
  BY LitFacts DEF Assumed
<1>3. Assigned(as2, tr2) /\ as2 \in [Vars -> Lits \cup {0}] /\ Grown(tr, p, tr2)
  <2>1. CanAppend(as, tr, p, as2, tr2)
    BY <1>1, <1>2 DEF CanAppend
  <2> QED
    BY <2>1, AppendAssigned
<1>4. /\ tr2 \in Seq(Lits) /\ Len(tr2) = Len(tr) + 1 /\ tr2[Len(tr) + 1] = p
      /\ \A i \in 1 .. Len(tr) : tr2[i] = tr[i] /\ Var(tr[i]) # Var(p)
  BY <1>3 DEF Grown
<1>5. /\ \A v \in Vars : v # Var(p) => vd2[v] = vd[v]
      /\ \A v \in Vars : vd2[v].level = vd[v].level
      /\ OnVars(vd2) /\ HasLevels(vd2) /\ vd2[Var(p)].reason = r
  <2> DEFINE w == Var(p)
  <2>1. w \in Vars /\ DOMAIN vd = Vars /\ vd2 = [vd EXCEPT ![w].reason = r]
    BY <1>1, <1>2 DEF OnVars
  <2>2. \A v \in Vars : vd[v] = [reason |-> vd[v].reason, level |-> vd[v].level]
    BY <1>1 DEF OnVars
  <2> HIDE DEF w
  <2>3. DOMAIN vd2 = Vars /\ \A v \in Vars : v # w => vd2[v] = vd[v]
    BY <2>1
  <2>4. vd2[w] = [vd[w] EXCEPT !.reason = r]
    BY <2>1
  <2>5. vd2[w] = [reason |-> r, level |-> vd[w].level]
    BY <2>1, <2>2, <2>4
  <2>6. \A v \in Vars : vd2[v].level = vd[v].level
    BY <2>3, <2>5
  <2>7. \A v \in Vars : vd2[v] = [reason |-> vd2[v].reason, level |-> vd2[v].level]
    BY <2>2, <2>3, <2>5
  <2>8. OnVars(vd2)
    <3>1. vd2 = [v \in Vars |-> vd2[v]]
      BY <2>1
    <3> QED
      BY <3>1, <2>7 DEF OnVars
  <2>9. HasLevels(vd2)
    BY <2>6, <1>1 DEF HasLevels
  <2> QED
    BY <2>3, <2>5, <2>6, <2>8, <2>9 DEF w
<1>6. Agree(vd, vd2, tr, tr2, n)
  <2> SUFFICES ASSUME NEW i \in 1 .. n
               PROVE  tr2[i] = tr[i] /\ vd2[Var(tr[i])] = vd[Var(tr[i])]
    BY DEF Agree
  <2>1. i \in 1 .. Len(tr)
    BY <1>1
  <2>2. tr[i] \in Lits
    BY <2>1, <1>1
  <2> QED
    BY <2>1, <2>2, <1>4, <1>5, LitFacts
<1>7. Levels(vd2, tr2, lim, n) /\ Reasons(c, vd2, tr2, n)
  BY <1>1, <1>6, LevelsFrame, ReasonsFrame
<1>8. Complete(c, vd2, tr2, lim, hand, n, P)
  BY <1>1, <1>6, CompleteFrame
<1>9. ASSUME hand # CRef_Undef PROVE NoReason(vd2, tr2, hand)
  <2> SUFFICES ASSUME NEW i \in DOMAIN tr2
               PROVE  Rs(vd2, tr2[i]) # hand
    BY DEF NoReason
  <2>1. CASE i = Len(tr) + 1
    BY <2>1, <1>4, <1>5, <1>9 DEF Rs
  <2>2. CASE i # Len(tr) + 1
    <3>1. i \in 1 .. Len(tr)
      BY <2>2, <1>1, <1>4
    <3>2. tr[i] \in Lits /\ i \in DOMAIN tr
      BY <3>1, <1>1
    <3>3. vd2[Var(tr[i])] = vd[Var(tr[i])] /\ tr2[i] = tr[i]
      BY <3>1, <3>2, <1>4, <1>5, LitFacts
    <3>4. Rs(vd, tr[i]) # hand
      BY <3>2, <1>1, <1>9 DEF NoReason
    <3> QED
      BY <3>3, <3>4 DEF Rs
  <2> QED
    BY <2>1, <2>2
<1>10. UnitsOK(vd2, u, d, tr2, n)
  <2>1. \A i \in 1 .. n : tr2[i] = tr[i]
    BY <1>6 DEF Agree
  <2>2. n <= n
    BY <1>1
  <2>3. \A v \in Vars : u[v] # NoCid => d[u[v]] = d[u[v]]
    OBVIOUS
  <2> QED
    BY <2>1, <2>2, <2>3, <1>1, <1>5, UnitsFrame
<1>11. n <= Len(tr2)
  BY <1>1, <1>4
<1> QED
  BY <1>1, <1>3, <1>4, <1>5, <1>7, <1>8, <1>9, <1>10, <1>11 DEF Trailing

(* cancelUntil.                                                            *)
LEMMA TrailingUndo ==
    ASSUME NEW c, NEW hand, NEW as, NEW vd, NEW tr, NEW lim, NEW n, NEW P, NEW u, NEW d,
           Trailing(c, hand, as, vd, tr, lim, n, P, u, d), n = Len(tr),
           NEW b \in Nat, b < Len(lim), lim[b + 1] <= P
    PROVE  /\ Trailing(c, hand, AsLeft(as, vd, tr, lim, b), vd, LeftBy(vd, tr, lim, b),
                       LimLeft(lim, b), Len(LeftBy(vd, tr, lim, b)), lim[b + 1], u, d)
           /\ Lowered(as, vd, b, AsLeft(as, vd, tr, lim, b))
<1>1. /\ HasLits(c) /\ as \in [Vars -> Lits \cup {0}] /\ tr \in Seq(Lits) /\ lim \in Seq(Nat)
      /\ OnVars(vd) /\ HasLevels(vd) /\ u \in [Vars -> Nat] /\ n \in Nat /\ P \in Nat /\ P <= n
      /\ Assigned(as, tr) /\ Levels(vd, tr, lim, Len(tr)) /\ Reasons(c, vd, tr, Len(tr))
      /\ hand # CRef_Undef => NoReason(vd, tr, hand)
      /\ UnitsOK(vd, u, d, tr, Len(tr)) /\ Complete(c, vd, tr, lim, hand, Len(tr), P)
  BY DEF Trailing
<1>2. CanUndo(as, vd, tr, lim, b)
  BY <1>1 DEF CanUndo
<1>3. /\ AsLeft(as, vd, tr, lim, b) \in [Vars -> Lits \cup {0}]
      /\ LeftBy(vd, tr, lim, b) \in Seq(Lits)
      /\ Assigned(AsLeft(as, vd, tr, lim, b), LeftBy(vd, tr, lim, b))
      /\ Lowered(as, vd, b, AsLeft(as, vd, tr, lim, b))
      /\ LimLeft(lim, b) \in Seq(Nat)
      /\ Levels(vd, LeftBy(vd, tr, lim, b), LimLeft(lim, b), Len(LeftBy(vd, tr, lim, b)))
      /\ lim[b + 1] \in 0 .. Len(LeftBy(vd, tr, lim, b))
  BY <1>2, UndoneTrail
<1>4. /\ Reasons(c, vd, tr, Len(tr)) =>
           Reasons(c, vd, LeftBy(vd, tr, lim, b), Len(LeftBy(vd, tr, lim, b)))
      /\ \A cr : NoReason(vd, tr, cr) => NoReason(vd, LeftBy(vd, tr, lim, b), cr)
  BY <1>1, <1>2, UndoneReasons
<1>5. P <= Len(tr)
  BY <1>1
<1>6. Complete(c, vd, LeftBy(vd, tr, lim, b), LimLeft(lim, b), hand,
               Len(LeftBy(vd, tr, lim, b)), lim[b + 1])
  BY <1>1, <1>2, <1>5, UndoneComplete
<1>7. UnitsOK(vd, u, d, LeftBy(vd, tr, lim, b), Len(LeftBy(vd, tr, lim, b)))
  BY <1>1, <1>2, UndoneUnits
<1> DEFINE tr2 == LeftBy(vd, tr, lim, b)
           m == lim[b + 1]
<1>8. tr2 \in Seq(Lits) /\ m \in 0 .. Len(tr2)
  BY <1>3
<1> HIDE DEF tr2, m
<1>9. Len(tr2) \in Nat /\ m \in Nat /\ m <= Len(tr2) /\ Len(tr2) <= Len(tr2)
  BY <1>8
<1> QED
  BY <1>1, <1>3, <1>4, <1>6, <1>7, <1>9 DEF Trailing, tr2, m

(* Vivification takes its assumptions back.                                *)
LEMMA TrailingFirst ==
    ASSUME NEW c, NEW hand, NEW as, NEW vd, NEW tr, NEW lim, NEW n, NEW P, NEW u, NEW d,
           Trailing(c, hand, as, vd, tr, lim, n, P, u, d), NEW as2, NEW tr2,
           CanTakeBack(as, tr, n, as2, tr2)
    PROVE  Trailing(c, hand, as2, vd, tr2, lim, n, P, u, d) /\ TakenBack(as, tr, n, as2, tr2)
<1>1. /\ HasLits(c) /\ as \in [Vars -> Lits \cup {0}] /\ tr \in Seq(Lits) /\ lim \in Seq(Nat)
      /\ OnVars(vd) /\ HasLevels(vd) /\ u \in [Vars -> Nat] /\ n \in Nat /\ P \in Nat /\ P <= n /\ n <= Len(tr)
      /\ Assigned(as, tr) /\ Levels(vd, tr, lim, n) /\ Reasons(c, vd, tr, n)
      /\ hand # CRef_Undef => NoReason(vd, tr, hand)
      /\ UnitsOK(vd, u, d, tr, n) /\ Complete(c, vd, tr, lim, hand, n, P)
  BY DEF Trailing
<1>a. TakenBack(as, tr, n, as2, tr2)
  BY FirstTrail
<1>2. /\ as2 \in [Vars -> Lits \cup {0}] /\ Assigned(as2, tr2)
      /\ tr2 \in Seq(Lits) /\ Len(tr2) = n /\ \A i \in 1 .. n : tr2[i] = tr[i]
      /\ Agree(vd, vd, tr, tr2, n)
  BY <1>a DEF TakenBack
<1>3. Levels(vd, tr2, lim, n) /\ Reasons(c, vd, tr2, n)
  BY <1>1, <1>2, LevelsFrame, ReasonsFrame
<1>4. n <= n /\ DOMAIN tr2 = 1 .. n /\ \A i \in 1 .. n : i \in DOMAIN tr
  BY <1>1, <1>2
<1>5. Complete(c, vd, tr2, lim, hand, n, P)
  BY <1>1, <1>2, <1>4, CompleteFrame
<1>6. hand # CRef_Undef => NoReason(vd, tr2, hand)
  BY <1>1, <1>2, <1>4 DEF NoReason, Rs
<1>7. UnitsOK(vd, u, d, tr2, n)
  <2>1. /\ \A i \in 1 .. n : tr2[i] = tr[i]
        /\ \A v \in Vars : vd[v].level = vd[v].level
        /\ \A v \in Vars : u[v] # NoCid => d[u[v]] = d[u[v]]
    BY <1>2
  <2> QED
    BY <1>1, <1>4, <2>1, UnitsFrame
<1> QED
  BY <1>a, <1>1, <1>2, <1>3, <1>4, <1>5, <1>6, <1>7 DEF Trailing

(* Clauses are freed: the assignments of level 0 lose them as reasons.     *)
Unreasoned(c, c2, vd, vd2, crs, tr, n) ==
    /\ FreedAll(c, c2, crs) /\ OnVars(vd2)
    /\ \A v \in Vars : vd2[v].level = vd[v].level
    /\ \A i \in 1 .. n :
         \/ Rs(vd2, tr[i]) = CRef_Undef /\ Lv(vd, tr[i]) = 0
         \/ Rs(vd2, tr[i]) = Rs(vd, tr[i]) /\ Rs(vd, tr[i]) \notin crs
    /\ \A v \in Vars : vd2[v].reason \in {CRef_Undef, vd[v].reason}

LEMMA TrailingFreed ==
    ASSUME NEW c, NEW hand, NEW as, NEW vd, NEW tr, NEW lim, NEW n, NEW P, NEW u, NEW d,
           Trailing(c, hand, as, vd, tr, lim, n, P, u, d), NEW c2, NEW vd2, NEW crs,
           Unreasoned(c, c2, vd, vd2, crs, tr, n)
    PROVE  Trailing(c2, hand, as, vd2, tr, lim, n, P, u, d)
<1>1. /\ HasLits(c) /\ as \in [Vars -> Lits \cup {0}] /\ tr \in Seq(Lits) /\ lim \in Seq(Nat)
      /\ OnVars(vd) /\ HasLevels(vd) /\ u \in [Vars -> Nat] /\ n \in Nat /\ P \in Nat /\ P <= n /\ n <= Len(tr)
      /\ Assigned(as, tr) /\ Levels(vd, tr, lim, n) /\ Reasons(c, vd, tr, n)
      /\ hand # CRef_Undef => NoReason(vd, tr, hand)
      /\ UnitsOK(vd, u, d, tr, n) /\ Complete(c, vd, tr, lim, hand, n, P)
  BY DEF Trailing
<1>2. /\ DOMAIN c2 = DOMAIN c /\ \A cr \in DOMAIN c : c2[cr].lits = c[cr].lits
      /\ \A cr \in DOMAIN c : c2[cr].freed <=> c[cr].freed \/ cr \in crs
  BY DEF Unreasoned, FreedAll
<1>3. HasLits(c2)
  BY <1>1, <1>2 DEF HasLits
<1>4. HasLevels(vd2) /\ \A v \in Vars : vd2[v].level = vd[v].level
  BY <1>1 DEF HasLevels, Unreasoned
<1>5. \A l \in Lits : Lv(vd2, l) = Lv(vd, l)
  BY <1>4, LitFacts DEF Lv
<1>6. \A i \in 1 .. Len(tr) : tr[i] \in Lits
  BY <1>1
<1>7. \A i \in 1 .. n : tr[i] \in Lits /\ Lv(vd2, tr[i]) = Lv(vd, tr[i]) /\ i \in DOMAIN tr
  BY <1>1, <1>5, <1>6
<1>8. Levels(vd2, tr, lim, n)
  <2>1. /\ \A k \in DOMAIN lim : lim[k] < n
        /\ \A j, k \in DOMAIN lim : j < k => lim[j] < lim[k]
        /\ \A k \in DOMAIN lim :
             Lv(vd, tr[lim[k] + 1]) = k /\ Rs(vd, tr[lim[k] + 1]) = CRef_Undef
        /\ \A i \in 1 .. n : Within(lim, Lv(vd, tr[i]), i)
        /\ \A i \in 1 .. n : Rs(vd, tr[i]) = CRef_Undef =>
             Lv(vd, tr[i]) = 0 \/ i = lim[Lv(vd, tr[i])] + 1
    BY <1>1 DEF Levels
  <2>2. \A k \in DOMAIN lim : lim[k] + 1 \in 1 .. n
    BY <2>1, <1>1
  <2>3. \A i \in 1 .. n : Rs(vd2, tr[i]) # Rs(vd, tr[i]) => Rs(vd2, tr[i]) = CRef_Undef /\ Lv(vd, tr[i]) = 0
    BY DEF Unreasoned
  <2>4. \A k \in DOMAIN lim : Lv(vd2, tr[lim[k] + 1]) = k /\ Rs(vd2, tr[lim[k] + 1]) = CRef_Undef
    BY <2>1, <2>2, <2>3, <1>7
  <2>5. \A i \in 1 .. n : Within(lim, Lv(vd2, tr[i]), i)
    BY <2>1, <1>7
  <2>6. \A i \in 1 .. n : Rs(vd2, tr[i]) = CRef_Undef =>
             Lv(vd2, tr[i]) = 0 \/ i = lim[Lv(vd2, tr[i])] + 1
    BY <2>1, <2>3, <1>7
  <2> QED
    BY <2>1, <2>4, <2>5, <2>6 DEF Levels
<1>9. Reasons(c2, vd2, tr, n)
  <2> SUFFICES ASSUME NEW i \in 1 .. n, Rs(vd2, tr[i]) # CRef_Undef
               PROVE  /\ Rs(vd2, tr[i]) \in DOMAIN c2 /\ ~c2[Rs(vd2, tr[i])].freed
                      /\ Forces(c2[Rs(vd2, tr[i])].lits, vd2, tr, i)
    BY DEF Reasons
  <2> DEFINE r == Rs(vd, tr[i])
  <2>1. Rs(vd2, tr[i]) = r /\ r \notin crs
    BY DEF Unreasoned
  <2>2. r \in DOMAIN c /\ ~c[r].freed /\ Forces(c[r].lits, vd, tr, i)
    BY <2>1, <1>1 DEF Reasons
  <2> DEFINE q == c[r].lits
  <2>3. q \in Seq(Lits) /\ Forces(q, vd, tr, i)
    BY <2>2, <1>1 DEF HasLits
  <2> HIDE DEF q
  <2>4. \A l \in ToSet(q) : Lv(vd2, l) = Lv(vd, l)
    BY <2>3, <1>5, Element
  <2>5. Forces(q, vd2, tr, i)
    BY <2>3, <2>4, <1>7 DEF Forces
  <2> QED
    BY <2>1, <2>2, <2>5, <1>2 DEF q
<1>10. Complete(c2, vd2, tr, lim, hand, n, P)
  <2> SUFFICES ASSUME NEW cr \in DOMAIN c, ~c2[cr].freed, cr # hand, NEW j \in {1, 2}, NEW i \in 1 .. P,
                      tr[i] = -c[cr].lits[j]
               PROVE  Covered(c[cr].lits, vd2, tr, lim, n, i)
    BY <1>2 DEF Complete
  <2> DEFINE q == c[cr].lits
  <2>1. Covered(q, vd, tr, lim, n, i) /\ q \in Seq(Lits)
    BY <1>1, <1>2 DEF Complete, HasLits
  <2> HIDE DEF q
  <2>2. \A l \in ToSet(q) : Lv(vd2, l) = Lv(vd, l)
    BY <2>1, <1>5, Element
  <2>3. Covered(q, vd2, tr, lim, n, i)
    BY <2>1, <2>2 DEF Covered
  <2> QED
    BY <2>3 DEF q
<1>11. UnitsOK(vd2, u, d, tr, n)
  BY <1>1, <1>4 DEF UnitsOK
<1>12. ASSUME hand # CRef_Undef PROVE NoReason(vd2, tr, hand)
  <2> SUFFICES ASSUME NEW i \in DOMAIN tr
               PROVE  Rs(vd2, tr[i]) # hand
    BY DEF NoReason
  <2>1. Var(tr[i]) \in Vars
    BY <1>1, LitFacts
  <2>2. Rs(vd2, tr[i]) \in {CRef_Undef, Rs(vd, tr[i])}
    BY <2>1 DEF Rs, Unreasoned
  <2> QED
    BY <2>2, <1>1, <1>12 DEF NoReason
<1>13. OnVars(vd2)
  BY DEF Unreasoned
<1> QED
  BY <1>1, <1>3, <1>4, <1>8, <1>9, <1>10, <1>11, <1>12, <1>13 DEF Trailing
-----------------------------------------------------------------------------
(* The clauses, the lists and which of them are smudged, together.         *)
Watchful(c, w, dr, hand) ==
    /\ HasLits(c) /\ w \in WatcherLists(c) /\ dr \in [{"bin", "long"} -> SUBSET Lits]
    /\ Memory(c, hand) /\ Watching(c, w, dr, hand)

LEMMA WatchfulParts ==
    ASSUME NEW c, NEW w, NEW dr, NEW hand, Watchful(c, w, dr, hand)
    PROVE  /\ HasLits(c) /\ w \in WatcherLists(c) /\ dr \in [{"bin", "long"} -> SUBSET Lits]
           /\ Memory(c, hand) /\ Watching(c, w, dr, hand)
BY DEF Watchful

(* Clauses get their literals in another order.                            *)
Reordered(c, c2) ==
    /\ HasLits(c2) /\ SamePairs(c, c2)
    /\ \A cr \in DOMAIN c : AllDistinct(c[cr].lits) => AllDistinct(c2[cr].lits)

LEMMA ReorderedParts ==
    ASSUME NEW c, NEW c2, Reordered(c, c2)
    PROVE  /\ DOMAIN c2 = DOMAIN c
           /\ \A cr \in DOMAIN c : /\ c2[cr].freed = c[cr].freed /\ Len(c2[cr].lits) = Len(c[cr].lits)
                                   /\ ToSet(c2[cr].lits) = ToSet(c[cr].lits)
                                   /\ AllDistinct(c[cr].lits) => AllDistinct(c2[cr].lits)
BY DEF Reordered, SamePairs, SamePair

LEMMA ReorderedLists ==
    ASSUME NEW c, NEW c2, DOMAIN c2 = DOMAIN c, NEW w \in WatcherLists(c)
    PROVE  w \in WatcherLists(c2)
BY DEF WatcherLists

LEMMA WatchfulReordered ==
    ASSUME NEW c, NEW w, NEW dr, NEW hand, Watchful(c, w, dr, hand), NEW c2, Reordered(c, c2)
    PROVE  Watchful(c2, w, dr, hand)
<1>1. /\ HasLits(c) /\ w \in WatcherLists(c) /\ dr \in [{"bin", "long"} -> SUBSET Lits]
      /\ Memory(c, hand) /\ Watching(c, w, dr, hand)
  BY WatchfulParts
<1>2. /\ DOMAIN c2 = DOMAIN c
      /\ \A cr \in DOMAIN c : /\ c2[cr].freed = c[cr].freed /\ Len(c2[cr].lits) = Len(c[cr].lits)
                              /\ AllDistinct(c[cr].lits) => AllDistinct(c2[cr].lits)
  BY ReorderedParts
<1>3. HasLits(c2) /\ SamePairs(c, c2)
  BY DEF Reordered
<1>4. Memory(c2, hand)
  BY <1>1, <1>2, <1>3, MemoryPairs
<1>5. Watching(c2, w, dr, hand)
  BY <1>1, <1>3, WatchPairs
<1>6. w \in WatcherLists(c2)
  BY <1>1, <1>2, ReorderedLists
<1> QED
  BY <1>1, <1>3, <1>4, <1>5, <1>6 DEF Watchful

(* A watcher of list l gets another blocker of its clause.                 *)
Refreshed(c, w, w2, l, i, b) ==
    /\ l \in Lits /\ i \in DOMAIN w["long"][l] /\ b \in Lits
    /\ b \in ToSet(c[w["long"][l][i].cref].lits) \ {-l}
    /\ w2 = [w EXCEPT !["long"][l][i] = Watcher(w["long"][l][i].cref, b)]

LEMMA WatchfulRefreshed ==
    ASSUME NEW c, NEW w, NEW dr, NEW hand, Watchful(c, w, dr, hand), NEW w2, NEW l, NEW i, NEW b,
           Refreshed(c, w, w2, l, i, b)
    PROVE  Watchful(c, w2, dr, hand)
<1>1. /\ HasLits(c) /\ w \in WatcherLists(c) /\ dr \in [{"bin", "long"} -> SUBSET Lits]
      /\ Memory(c, hand) /\ Watching(c, w, dr, hand)
  BY WatchfulParts
<1>2. w2 \in WatcherLists(c) /\ Watching(c, w2, dr, hand)
  BY <1>1, WatchPut DEF Refreshed
<1> QED
  BY <1>1, <1>2 DEF Watchful

(* A watcher leaves a list for another.                                    *)
Moved(c, c2, w, w2, kind, cr, l, l2, b, t, hand) ==
    /\ kind \in {"bin", "long"} /\ Rewatch(c, c2, kind, cr, l, l2, b, hand)
    /\ t \in Seq([cref : DOMAIN c, blocker : Lits]) /\ OthersSame(w[kind][l], t, cr)
    /\ Absent(t, cr) /\ ToSet(t) \subseteq ToSet(w[kind][l])
    /\ HasLits(c2) /\ AllDistinct(c2[cr].lits)
    /\ w2 = PutTwo(w, kind, l, l2, t, Append(w[kind][l2], Watcher(cr, b)))

LEMMA WatchfulMoved ==
    ASSUME NEW c, NEW w, NEW dr, NEW hand, Watchful(c, w, dr, hand), NEW c2, NEW w2, NEW kind,
           NEW cr, NEW l, NEW l2, NEW b, NEW t, Moved(c, c2, w, w2, kind, cr, l, l2, b, t, hand)
    PROVE  Watchful(c2, w2, dr, hand)
<1>1. /\ HasLits(c) /\ w \in WatcherLists(c) /\ dr \in [{"bin", "long"} -> SUBSET Lits]
      /\ Memory(c, hand) /\ Watching(c, w, dr, hand)
  BY WatchfulParts
<1>2. w2 \in WatcherLists(c2) /\ Watching(c2, w2, dr, hand)
  BY <1>1, WatchMove DEF Moved
<1>3. Memory(c2, hand)
  BY <1>1 DEF Memory, Moved, Rewatch
<1> QED
  BY <1>1, <1>2, <1>3 DEF Watchful, Moved

(* The only watcher of a clause that watches a literal.                    *)
LEMMA OneWatcher ==
    ASSUME NEW c, NEW w, NEW dr, NEW hand, Watchful(c, w, dr, hand), NEW kind \in {"bin", "long"},
           NEW l \in Lits, NEW cr \in DOMAIN c, ~c[cr].freed, cr # hand,
           Watches(c[cr].lits, kind, l)
    PROVE  Single(w[kind][l], cr) /\ Len(c[cr].lits) >= 2
<1>1. Memory(c, hand) /\ Watching(c, w, dr, hand) /\ HasLits(c)
  BY WatchfulParts
<1>2. Len(c[cr].lits) \in Nat
  BY <1>1 DEF HasLits
<1>3. ~(Len(c[cr].lits) < 2)
  BY <1>1 DEF Memory
<1>4. Listed(w[kind][l], cr, c[cr], kind, l, dr[kind], hand)
  BY <1>1 DEF Watching
<1> QED
  BY <1>2, <1>3, <1>4 DEF Listed

(* What is known of a watcher x in a list that is clean: cr is its clause. *)
IsWatcher(w, dr, kind, l, x, cr) ==
    /\ kind \in {"bin", "long"} /\ l \in Lits /\ l \notin dr[kind]
    /\ x \in ToSet(w[kind][l]) /\ cr = x.cref
WatcherOf(c, hand, kind, l, x, cr) ==
    /\ cr \in DOMAIN c /\ ~c[cr].freed /\ cr # hand
    /\ Len(c[cr].lits) >= 2 /\ Watches(c[cr].lits, kind, l)
    /\ x.blocker \in ToSet(c[cr].lits) \ {-l} /\ x.blocker \in Lits
    /\ AllDistinct(c[cr].lits) /\ c[cr].lits \in Seq(Lits)

LEMMA WatcherFacts ==
    ASSUME NEW c, NEW w, NEW dr, NEW hand, Watchful(c, w, dr, hand), NEW kind, NEW l, NEW x, NEW cr,
           IsWatcher(w, dr, kind, l, x, cr)
    PROVE  WatcherOf(c, hand, kind, l, x, cr) /\ Single(w[kind][l], cr)
<1>1. Memory(c, hand) /\ Watching(c, w, dr, hand) /\ HasLits(c) /\ w \in WatcherLists(c)
  BY WatchfulParts
<1> kind \in {"bin", "long"} /\ l \in Lits /\ l \notin dr[kind]
  BY DEF IsWatcher
<1>2. x \in ToSet(w[kind][l]) /\ cr = x.cref
  BY DEF IsWatcher
<1>3. cr \in DOMAIN c /\ x.blocker \in Lits
  BY <1>1, <1>2, ListTypes
<1>4. ~Absent(w[kind][l], cr)
  BY <1>2 DEF Absent, ToSet
<1>5. Listed(w[kind][l], cr, c[cr], kind, l, dr[kind], hand)
  BY <1>1, <1>3 DEF Watching
<1>6. /\ cr # hand /\ ~(Len(c[cr].lits) < 2) /\ ~c[cr].freed
      /\ Watches(c[cr].lits, kind, l) /\ Single(w[kind][l], cr)
  BY <1>4, <1>5 DEF Listed
<1>7. x.blocker \in ToSet(c[cr].lits) \ {-l}
  BY <1>1, <1>2 DEF Watching, Blocked
<1>8. c[cr].lits \in Seq(Lits) /\ Len(c[cr].lits) \in Nat /\ AllDistinct(c[cr].lits)
  BY <1>1, <1>3 DEF HasLits, Memory
<1>9. Len(c[cr].lits) >= 2
  <2>1. \A n \in Nat : ~(n < 2) => n >= 2
    OBVIOUS
  <2> QED
    BY <2>1, <1>6, <1>8
<1> QED
  BY <1>3, <1>6, <1>7, <1>8, <1>9 DEF WatcherOf

(* A clause that is in no list is attached.                                *)
LEMMA WatchfulAttached ==
    ASSUME NEW c, NEW w, NEW dr, NEW hand, Watchful(c, w, dr, hand), NEW c2, NEW w2, NEW cr,
           NEW hand2, Attach(c, c2, cr, hand, hand2), w2 = Attached(w, cr, c2[cr].lits)
    PROVE  Watchful(c2, w2, dr, hand2)
<1>1. /\ HasLits(c) /\ w \in WatcherLists(c) /\ dr \in [{"bin", "long"} -> SUBSET Lits]
      /\ Memory(c, hand) /\ Watching(c, w, dr, hand)
  BY WatchfulParts
<1>2. w2 \in WatcherLists(c2) /\ Watching(c2, w2, dr, hand2)
  BY <1>1, WatchAttach
<1>3. ASSUME NEW k \in DOMAIN c2
      PROVE  /\ c2[k].lits \in Seq(Lits) /\ AllDistinct(c2[k].lits)
             /\ k # hand2 => Len(c2[k].lits) >= 1
             /\ Len(c2[k].lits) < 2 => k = hand2 \/ c2[k].freed
  <2>1. CASE k = cr
    <3>1. c2[k].lits \in Seq(Lits) /\ Len(c2[k].lits) >= 2 /\ AllDistinct(c2[k].lits)
      BY <2>1 DEF Attach
    <3>2. Len(c2[k].lits) \in Nat
      BY <3>1
    <3> QED
      BY <3>1, <3>2
  <2>2. CASE k # cr
    <3>1. k \in DOMAIN c /\ c2[k] = c[k] /\ (k = hand <=> k = hand2)
      BY <2>2 DEF Attach
    <3> QED
      BY <3>1, <1>1 DEF HasLits, Memory
  <2> QED
    BY <2>1, <2>2
<1> QED
  BY <1>1, <1>2, <1>3 DEF Watchful, HasLits, Memory

(* A clause leaves its lists and is in hand.                               *)
LEMMA WatchfulDetached ==
    ASSUME NEW c, NEW w, NEW dr, Watchful(c, w, dr, CRef_Undef), NEW c2, NEW w2, NEW cr,
           Detach(c, c2, cr), w2 = Detached(w, cr, c[cr].lits),
           c2[cr].lits \in Seq(Lits), AllDistinct(c2[cr].lits)
    PROVE  Watchful(c2, w2, dr, cr)
<1>1. /\ HasLits(c) /\ w \in WatcherLists(c) /\ dr \in [{"bin", "long"} -> SUBSET Lits]
      /\ Memory(c, CRef_Undef) /\ Watching(c, w, dr, CRef_Undef)
  BY WatchfulParts
<1>2. w2 \in WatcherLists(c2) /\ Watching(c2, w2, dr, cr)
  BY <1>1, WatchDetach
<1>3. HasLits(c2) /\ Memory(c2, cr)
  BY <1>1 DEF HasLits, Memory, Detach
<1> QED
  BY <1>1, <1>2, <1>3 DEF Watchful

(* The clause in hand gets other literals.                                 *)
OnlyHand(c, c2, hand) ==
    /\ DOMAIN c2 = DOMAIN c /\ \A k \in DOMAIN c : k # hand => c2[k] = c[k]
    /\ hand \in DOMAIN c => c2[hand].lits \in Seq(Lits) /\ AllDistinct(c2[hand].lits)

LEMMA WatchfulHand ==
    ASSUME NEW c, NEW w, NEW dr, NEW hand, Watchful(c, w, dr, hand), NEW c2, OnlyHand(c, c2, hand)
    PROVE  Watchful(c2, w, dr, hand)
<1>1. /\ HasLits(c) /\ w \in WatcherLists(c) /\ dr \in [{"bin", "long"} -> SUBSET Lits]
      /\ Memory(c, hand) /\ Watching(c, w, dr, hand)
  BY WatchfulParts
<1>2. Watching(c2, w, dr, hand)
  BY <1>1, WatchHand DEF OnlyHand
<1>3. HasLits(c2) /\ Memory(c2, hand)
  BY <1>1 DEF HasLits, Memory, OnlyHand
<1>4. w \in WatcherLists(c2)
  BY <1>1, ReorderedLists DEF OnlyHand
<1> QED
  BY <1>1, <1>2, <1>3, <1>4 DEF Watchful

(* The clause in hand is freed.                                            *)
Dropped(c, c2, hand) ==
    /\ hand \in DOMAIN c /\ CRef_Undef \notin DOMAIN c
    /\ DOMAIN c2 = DOMAIN c /\ \A k \in DOMAIN c : c2[k].lits = c[k].lits
    /\ \A k \in DOMAIN c : k # hand => c2[k] = c[k]
    /\ Len(c2[hand].lits) = 1 /\ c2[hand].freed

LEMMA WatchfulDropped ==
    ASSUME NEW c, NEW w, NEW dr, NEW hand, Watchful(c, w, dr, hand), NEW c2, Dropped(c, c2, hand)
    PROVE  Watchful(c2, w, dr, CRef_Undef)
<1>1. /\ HasLits(c) /\ w \in WatcherLists(c) /\ dr \in [{"bin", "long"} -> SUBSET Lits]
      /\ Memory(c, hand) /\ Watching(c, w, dr, hand)
  BY WatchfulParts
<1>2. Watching(c2, w, dr, CRef_Undef)
  <2>1. Len(c2[hand].lits) < 2
    BY DEF Dropped
  <2> QED
    BY <1>1, <2>1, WatchDrop DEF Dropped
<1>3. ASSUME NEW k \in DOMAIN c
      PROVE  /\ c2[k].lits \in Seq(Lits) /\ AllDistinct(c2[k].lits)
             /\ Len(c2[k].lits) >= 1
             /\ Len(c2[k].lits) < 2 => c2[k].freed
  <2>1. CASE k = hand
    <3>1. Len(c2[k].lits) = 1 /\ c2[k].freed /\ c2[k].lits = c[k].lits
      BY <2>1 DEF Dropped
    <3>2. c[k].lits \in Seq(Lits) /\ AllDistinct(c[k].lits)
      BY <1>1 DEF HasLits, Memory
    <3> QED
      BY <3>1, <3>2
  <2>2. CASE k # hand
    BY <2>2, <1>1 DEF HasLits, Memory, Dropped
  <2> QED
    BY <2>1, <2>2
<1>4. w \in WatcherLists(c2)
  BY <1>1, ReorderedLists DEF Dropped
<1> QED
  <2>1. DOMAIN c2 = DOMAIN c
    BY DEF Dropped
  <2>2. HasLits(c2)
    BY <2>1, <1>3 DEF HasLits
  <2>3. Memory(c2, CRef_Undef)
    BY <2>1, <1>3 DEF Memory
  <2> QED
    BY <1>1, <1>2, <1>4, <2>2, <2>3 DEF Watchful

(* Clauses are freed.                                                      *)
LEMMA WatchfulFreed ==
    ASSUME NEW c, NEW w, NEW dr, NEW hand, Watchful(c, w, dr, hand), NEW c2, NEW dr2, NEW crs,
           FreedAll(c, c2, crs), SmudgedAll(c, dr, dr2, crs),
           dr2 \in [{"bin", "long"} -> SUBSET Lits]
    PROVE  Watchful(c2, w, dr2, hand)
<1>1. /\ HasLits(c) /\ w \in WatcherLists(c)
      /\ Memory(c, hand) /\ Watching(c, w, dr, hand)
  BY WatchfulParts
<1>2. Watching(c2, w, dr2, hand) /\ Memory(c2, hand)
  BY <1>1, WatchFreed
<1>3. HasLits(c2) /\ w \in WatcherLists(c2)
  BY <1>1, ReorderedLists DEF HasLits, FreedAll
<1> QED
  BY <1>2, <1>3 DEF Watchful

(* The smudged lists are cleaned.                                          *)
LEMMA WatchfulCleaned ==
    ASSUME NEW c, NEW w, NEW dr, NEW hand, Watchful(c, w, dr, hand), NEW w2, NEW dr2,
           CleanedAll(c, w, w2, dr), w2 = [k \in {"bin", "long"} |-> [l \in Lits |-> w2[k][l]]],
           dr2 = [k \in {"bin", "long"} |-> {}], hand \in DOMAIN c => ~c[hand].freed
    PROVE  Watchful(c, w2, dr2, hand)
<1>1. /\ HasLits(c) /\ w \in WatcherLists(c)
      /\ Memory(c, hand) /\ Watching(c, w, dr, hand)
  BY WatchfulParts
<1>2. \A kind \in {"bin", "long"} : dr2[kind] = {}
  OBVIOUS
<1>3. /\ \A kind \in {"bin", "long"}, l \in Lits : w2[kind][l] \in Seq([cref : DOMAIN c, blocker : Lits])
      /\ Watching(c, w2, dr2, hand)
  BY <1>1, <1>2, WatchCleaned
<1>4. w2 \in WatcherLists(c)
  BY <1>3 DEF WatcherLists
<1>5. dr2 \in [{"bin", "long"} -> SUBSET Lits]
  OBVIOUS
<1> QED
  BY <1>1, <1>3, <1>4, <1>5 DEF Watchful

-----------------------------------------------------------------------------
(* All watchers of the literal at place P + 1 have been visited.           *)
LEMMA CompleteNext ==
    ASSUME NEW c, NEW w, NEW dr, NEW hand, Watchful(c, w, dr, hand), NEW vd, NEW tr, NEW lim, NEW n,
           NEW P \in Nat, Complete(c, vd, tr, lim, hand, n, P), NEW l \in Lits, tr[P + 1] = l,
           NEW m \in Nat, NEW m2 \in Nat, m > Len(w["bin"][l]), m2 > Len(w["long"][l]),
           Visited(w["bin"][l], c, vd, tr, lim, n, m, P + 1),
           Visited(w["long"][l], c, vd, tr, lim, n, m2, P + 1)
    PROVE  Complete(c, vd, tr, lim, hand, n, P + 1)
<1>1. HasLits(c) /\ w \in WatcherLists(c) /\ Memory(c, hand)
  BY WatchfulParts
<1>2. ASSUME NEW kind \in {"bin", "long"}, NEW k \in DOMAIN w[kind][l]
      PROVE  Covered(c[w[kind][l][k].cref].lits, vd, tr, lim, n, P + 1)
  <2>1. w[kind][l] \in Seq([cref : DOMAIN c, blocker : Lits])
    BY <1>1, ListTypes
  <2>2. k \in 1 .. Len(w[kind][l])
    BY <2>1
  <2>3. k < m \/ k < m2
    BY <2>2, <2>1
  <2>4. CASE kind = "bin"
    <3>1. k < m
      BY <2>4, <2>2, <2>1
    <3> QED
      BY <2>4, <3>1 DEF Visited
  <2>5. CASE kind = "long"
    <3>1. k < m2
      BY <2>5, <2>2, <2>1
    <3> QED
      BY <2>5, <3>1 DEF Visited
  <2> QED
    BY <2>4, <2>5
<1>3. ASSUME NEW cr \in DOMAIN c, ~c[cr].freed, cr # hand, NEW j \in {1, 2},
             tr[P + 1] = -c[cr].lits[j]
      PROVE  Covered(c[cr].lits, vd, tr, lim, n, P + 1)
  <2>1. c[cr].lits \in Seq(Lits) /\ ~(Len(c[cr].lits) < 2)
    BY <1>1, <1>3 DEF HasLits, Memory
  <2>2. j \in 1 .. Len(c[cr].lits)
    BY <2>1
  <2>3. c[cr].lits[j] \in Lits
    BY <2>1, <2>2, Element
  <2>4. -l = c[cr].lits[j]
    BY <2>3, <1>3, LitFacts
  <2>5. Kind(c[cr].lits) \in {"bin", "long"} /\ Watches(c[cr].lits, Kind(c[cr].lits), l)
    BY <2>4 DEF Watches, Kind
  <2>a. Single(w[Kind(c[cr].lits)][l], cr)
    BY <2>5, <1>3, OneWatcher
  <2>6. PICK k \in DOMAIN w[Kind(c[cr].lits)][l] : w[Kind(c[cr].lits)][l][k].cref = cr
    BY <2>a DEF Single
  <2> QED
    BY <1>2, <2>5, <2>6
<1>4. ASSUME NEW cr \in DOMAIN c, ~c[cr].freed, cr # hand, NEW j \in {1, 2}, NEW i \in 1 .. P + 1,
             tr[i] = -c[cr].lits[j]
      PROVE  Covered(c[cr].lits, vd, tr, lim, n, i)
  <2>1. CASE i = P + 1
    BY <2>1, <1>4, <1>3
  <2>2. CASE i # P + 1
    <3>1. i \in 1 .. P
      BY <2>2
    <3> QED
      BY <3>1, <1>4 DEF Complete
  <2> QED
    BY <2>1, <2>2
<1> QED
  BY <1>4 DEF Complete

(* The watchers before the m-th are of clauses with the same literals.     *)
LEMMA VisitedKept ==
    ASSUME NEW list, NEW list2, NEW c, NEW c2, NEW vd, NEW tr, NEW lim, NEW n, NEW m, NEW i,
           Visited(list, c, vd, tr, lim, n, m, i),
           \A k \in DOMAIN list2 : k < m =>
               /\ k \in DOMAIN list
               /\ ToSet(c2[list2[k].cref].lits) = ToSet(c[list[k].cref].lits)
    PROVE  Visited(list2, c2, vd, tr, lim, n, m, i)
BY DEF Visited, Covered

(* One more watcher has been visited.                                      *)
LEMMA VisitedMore ==
    ASSUME NEW X, NEW list \in Seq(X), NEW c, NEW vd, NEW tr, NEW lim, NEW n, NEW m \in Nat, NEW i,
           Visited(list, c, vd, tr, lim, n, m, i),
           Covered(c[list[m].cref].lits, vd, tr, lim, n, i)
    PROVE  Visited(list, c, vd, tr, lim, n, m + 1, i)
<1>1. \A k \in DOMAIN list : k \in Nat
  OBVIOUS
<1>2. ASSUME NEW k \in DOMAIN list, k < m + 1
      PROVE  Covered(c[list[k].cref].lits, vd, tr, lim, n, i)
  <2>1. k = m \/ k < m
    BY <1>1, <1>2
  <2> QED
    BY <2>1 DEF Visited
<1> QED
  BY <1>2 DEF Visited

-----------------------------------------------------------------------------
(* A clause with two of its places exchanged.                              *)
CanSwap(X, q, i, j) == q \in Seq(X) /\ i \in 1 .. Len(q) /\ j \in 1 .. Len(q)
Swapped(X, q, i, j, s) ==
    /\ s \in Seq(X) /\ Len(s) = Len(q) /\ DOMAIN s = DOMAIN q
    /\ \A k \in 1 .. Len(q) : s[k] = IF k = j THEN q[i] ELSE IF k = i THEN q[j] ELSE q[k]
    /\ ToSet(s) = ToSet(q)
    /\ AllDistinct(q) => AllDistinct(s)

LEMMA SwapFacts ==
    ASSUME NEW X, NEW q, NEW i, NEW j, CanSwap(X, q, i, j)
    PROVE  Swapped(X, q, i, j, SwapAt(q, i, j))
<1> DEFINE s == SwapAt(q, i, j)
           at(k) == IF k = j THEN i ELSE IF k = i THEN j ELSE k
<1>0. q \in Seq(X) /\ i \in 1 .. Len(q) /\ j \in 1 .. Len(q)
  BY DEF CanSwap
<1>1. q \in [1 .. Len(q) -> X] /\ Len(q) \in Nat /\ DOMAIN q = 1 .. Len(q)
  BY <1>0
<1>2. q[i] \in X /\ q[j] \in X
  BY <1>0, <1>1
<1>3. s \in [1 .. Len(q) -> X]
  BY <1>1, <1>2 DEF SwapAt
<1>4. s \in Seq(X)
  BY <1>3, <1>1
<1>5. DOMAIN s = 1 .. Len(q)
  BY <1>3
<1>6. Len(s) = Len(q)
  BY <1>4, <1>5, <1>1
<1>7. ASSUME NEW k \in 1 .. Len(q)
      PROVE  s[k] = IF k = j THEN q[i] ELSE IF k = i THEN q[j] ELSE q[k]
  BY <1>1 DEF SwapAt
<1> HIDE DEF s
<1>8. ASSUME NEW k \in 1 .. Len(q)
      PROVE  s[k] = q[at(k)] /\ at(k) \in 1 .. Len(q) /\ at(at(k)) = k
  BY <1>0, <1>7
<1> HIDE DEF at
<1>9. ToSet(s) = ToSet(q)
  <2>1. ASSUME NEW x, x \in ToSet(s) PROVE x \in ToSet(q)
    BY <2>1, <1>1, <1>5, <1>8 DEF ToSet
  <2>2. ASSUME NEW x, x \in ToSet(q) PROVE x \in ToSet(s)
    <3>1. PICK k \in 1 .. Len(q) : q[k] = x
      BY <2>2, <1>1 DEF ToSet
    <3>2. s[at(k)] = x /\ at(k) \in DOMAIN s
      BY <3>1, <1>5, <1>8
    <3> QED
      BY <3>2 DEF ToSet
  <2> QED
    BY <2>1, <2>2
<1>10. ASSUME AllDistinct(q) PROVE AllDistinct(s)
  <2>1. ASSUME NEW a \in DOMAIN s, NEW b \in DOMAIN s, Var(s[a]) = Var(s[b]) PROVE a = b
    <3>1. at(a) = at(b)
      BY <2>1, <1>1, <1>5, <1>8, <1>10 DEF AllDistinct
    <3> QED
      BY <3>1, <2>1, <1>5, <1>8
  <2> QED
    BY <2>1 DEF AllDistinct
<1> QED
  BY <1>1, <1>4, <1>5, <1>6, <1>7, <1>9, <1>10 DEF Swapped, s

-----------------------------------------------------------------------------
(* What the steps do to the clauses, seen from the trail.                  *)
LEMMA NotReason ==
    ASSUME NEW c, NEW hand, NEW as, NEW vd, NEW tr, NEW lim, NEW n, NEW P, NEW u, NEW d,
           Trailing(c, hand, as, vd, tr, lim, n, P, u, d), NEW cr, cr # CRef_Undef,
           \A l \in ToSet(c[cr].lits) : as[Var(l)] # l
    PROVE  \A i \in 1 .. n : Rs(vd, tr[i]) # cr
<1>1. /\ Assigned(as, tr) /\ Reasons(c, vd, tr, n) /\ n \in Nat /\ n <= Len(tr) /\ tr \in Seq(Lits)
  BY TrailingParts
<1>2. ASSUME NEW i \in 1 .. n, Rs(vd, tr[i]) = cr
      PROVE  FALSE
  <2>1. tr[i] \in ToSet(c[cr].lits)
    BY <1>1, <1>2 DEF Reasons, Forces
  <2>2. i \in DOMAIN tr
    BY <1>1
  <2> QED
    BY <1>1, <2>1, <2>2 DEF Assigned
<1> QED
  BY <1>2

(* The literals of clause cr are put in the order q: the same two are      *)
(* watched, and the first is another one only if it is not true, or if     *)
(* there are just two.                                                     *)
Exchanged(c, c2, cr, q, as) ==
    /\ cr \in DOMAIN c /\ DOMAIN c2 = DOMAIN c /\ \A k \in DOMAIN c : k # cr => c2[k] = c[k]
    /\ c2[cr].freed = c[cr].freed /\ c2[cr].lits = q /\ q \in Seq(Lits)
    /\ Len(q) = Len(c[cr].lits) /\ ToSet(q) = ToSet(c[cr].lits)
    /\ AllDistinct(c[cr].lits) => AllDistinct(q)
    /\ {q[1], q[2]} = {c[cr].lits[1], c[cr].lits[2]}
    /\ \/ Len(q) = 2
       \/ q[1] = c[cr].lits[1]
       \/ as[Var(c[cr].lits[1])] # c[cr].lits[1]

LEMMA ExchangedReordered ==
    ASSUME NEW c, HasLits(c), NEW c2, NEW cr, NEW q, NEW as, Exchanged(c, c2, cr, q, as)
    PROVE  Reordered(c, c2)
<1>1. HasLits(c2)
  BY DEF Exchanged, HasLits
<1>2. SamePairs(c, c2)
  BY DEF SamePairs, SamePair, Exchanged
<1>3. \A k \in DOMAIN c : AllDistinct(c[k].lits) => AllDistinct(c2[k].lits)
  BY DEF Exchanged
<1> QED
  BY <1>1, <1>2, <1>3 DEF Reordered

LEMMA TrailingExchanged ==
    ASSUME NEW c, NEW hand, NEW as, NEW vd, NEW tr, NEW lim, NEW n, NEW P, NEW u, NEW d,
           Trailing(c, hand, as, vd, tr, lim, n, P, u, d), NEW c2, NEW cr, NEW q,
           Exchanged(c, c2, cr, q, as)
    PROVE  Trailing(c2, hand, as, vd, tr, lim, n, P, u, d)
<1>1. /\ Assigned(as, tr) /\ Reasons(c, vd, tr, n) /\ n \in Nat /\ n <= Len(tr) /\ tr \in Seq(Lits)
      /\ HasLits(c) /\ (hand # CRef_Undef => NoReason(vd, tr, hand))
  BY TrailingParts
<1>2. HasLits(c2)
  BY <1>1, ExchangedReordered DEF Reordered
<1>3. ASSUME NEW i \in 1 .. n, Rs(vd, tr[i]) # CRef_Undef, Rs(vd, tr[i]) \in DOMAIN c
      PROVE  Rs(vd, tr[i]) \in DOMAIN c2 /\ SameReason(c[Rs(vd, tr[i])], c2[Rs(vd, tr[i])])
  <2>1. CASE Rs(vd, tr[i]) # cr
    BY <2>1, <1>3 DEF Exchanged, SameReason
  <2>2. CASE Rs(vd, tr[i]) = cr
    <3>1. Forces(c[cr].lits, vd, tr, i) /\ i \in DOMAIN tr
      BY <1>1, <1>3, <2>2 DEF Reasons
    <3>2. as[Var(tr[i])] = tr[i]
      BY <1>1, <3>1 DEF Assigned
    <3>3. Len(c[cr].lits) # 2 => c[cr].lits[1] = tr[i]
      BY <3>1 DEF Forces
    <3>4. Len(c[cr].lits) # 2 => q[1] = c[cr].lits[1]
      BY <3>2, <3>3 DEF Exchanged
    <3> QED
      BY <2>2, <3>4 DEF SameReason, Exchanged
  <2> QED
    BY <2>1, <2>2
<1>4. KeepsReasons(c, c2, vd, tr, n)
  BY <1>3 DEF KeepsReasons
<1>5. ASSUME NEW k \in DOMAIN c2, ~c2[k].freed, k # hand, NEW j \in {1, 2}
      PROVE  /\ k \in DOMAIN c /\ ~c[k].freed /\ k # hand
             /\ ToSet(c2[k].lits) = ToSet(c[k].lits)
             /\ \E m \in {1, 2} : c2[k].lits[j] = c[k].lits[m]
  <2>1. CASE k # cr
    BY <2>1, <1>5 DEF Exchanged
  <2>2. CASE k = cr
    <3>1. c2[cr].lits[j] \in {c[cr].lits[1], c[cr].lits[2]}
      BY DEF Exchanged
    <3> QED
      BY <2>2, <3>1, <1>5 DEF Exchanged
  <2> QED
    BY <2>1, <2>2
<1>6. KeepsComplete(c, c2, vd, tr, lim, hand, hand, n, P)
  BY <1>5 DEF KeepsComplete
<1> QED
  BY <1>1, <1>2, <1>4, <1>6, TrailingMemory

(* Clause cr is watched through another second literal from now on.        *)
Rewatched(c, c2, cr, q, vd, tr, lim, n, P) ==
    /\ cr \in DOMAIN c /\ DOMAIN c2 = DOMAIN c /\ \A k \in DOMAIN c : k # cr => c2[k] = c[k]
    /\ c2[cr].freed = c[cr].freed /\ c2[cr].lits = q /\ q \in Seq(Lits)
    /\ Len(q) = Len(c[cr].lits) /\ ToSet(q) = ToSet(c[cr].lits)
    /\ q[1] = c[cr].lits[1] /\ Guarded(q, 2, vd, tr, lim, n, P)

LEMMA TrailingRewatched ==
    ASSUME NEW c, NEW hand, NEW as, NEW vd, NEW tr, NEW lim, NEW n, NEW P, NEW u, NEW d,
           Trailing(c, hand, as, vd, tr, lim, n, P, u, d), NEW c2, NEW cr, NEW q,
           Rewatched(c, c2, cr, q, vd, tr, lim, n, P)
    PROVE  Trailing(c2, hand, as, vd, tr, lim, n, P, u, d)
<1>1. HasLits(c) /\ (hand # CRef_Undef => NoReason(vd, tr, hand))
  BY TrailingParts
<1>2. HasLits(c2)
  BY <1>1 DEF Rewatched, HasLits
<1>3. KeepsReasons(c, c2, vd, tr, n)
  BY DEF KeepsReasons, Rewatched, SameReason
<1>4. ASSUME NEW k \in DOMAIN c2, ~c2[k].freed, k # hand, NEW j \in {1, 2}
      PROVE  \/ Guarded(c2[k].lits, j, vd, tr, lim, n, P)
             \/ /\ k \in DOMAIN c /\ ~c[k].freed /\ k # hand
                /\ ToSet(c2[k].lits) = ToSet(c[k].lits)
                /\ \E m \in {1, 2} : c2[k].lits[j] = c[k].lits[m]
  <2>1. CASE k # cr
    BY <2>1, <1>4 DEF Rewatched
  <2>2. CASE k = cr /\ j = 1
    BY <2>2, <1>4 DEF Rewatched
  <2>3. CASE k = cr /\ j = 2
    BY <2>3 DEF Rewatched
  <2> QED
    BY <2>1, <2>2, <2>3
<1>5. KeepsComplete(c, c2, vd, tr, lim, hand, hand, n, P)
  BY <1>4 DEF KeepsComplete
<1> QED
  BY <1>1, <1>2, <1>3, <1>5, TrailingMemory

(* More of the trail has been propagated.                                  *)
LEMMA TrailingRaise ==
    ASSUME NEW c, NEW hand, NEW as, NEW vd, NEW tr, NEW lim, NEW n, NEW P, NEW u, NEW d,
           Trailing(c, hand, as, vd, tr, lim, n, P, u, d), NEW P2 \in Nat, P2 <= n,
           Complete(c, vd, tr, lim, hand, n, P2)
    PROVE  Trailing(c, hand, as, vd, tr, lim, n, P2, u, d)
BY DEF Trailing

(* A clause is added that was in no list.                                  *)
TwoGuards(q, vd, tr, lim, n, P) ==
    Guarded(q, 1, vd, tr, lim, n, P) /\ Guarded(q, 2, vd, tr, lim, n, P)

LEMMA TrailingAttached ==
    ASSUME NEW c, NEW hand, NEW as, NEW vd, NEW tr, NEW lim, NEW n, NEW P, NEW u, NEW d,
           Trailing(c, hand, as, vd, tr, lim, n, P, u, d), NEW c2, NEW cr,
           Attach(c, c2, cr, hand, CRef_Undef), TwoGuards(c2[cr].lits, vd, tr, lim, n, P)
    PROVE  Trailing(c2, CRef_Undef, as, vd, tr, lim, n, P, u, d)
<1>1. /\ HasLits(c) /\ (hand # CRef_Undef => NoReason(vd, tr, hand)) /\ n \in Nat /\ n <= Len(tr)
      /\ tr \in Seq(Lits)
  BY TrailingParts
<1>2. HasLits(c2)
  BY <1>1 DEF Attach, HasLits
<1>3. ASSUME NEW i \in 1 .. n, Rs(vd, tr[i]) # CRef_Undef, Rs(vd, tr[i]) \in DOMAIN c
      PROVE  Rs(vd, tr[i]) \in DOMAIN c2 /\ SameReason(c[Rs(vd, tr[i])], c2[Rs(vd, tr[i])])
  <2>1. i \in DOMAIN tr
    BY <1>1
  <2>2. Rs(vd, tr[i]) # cr
    BY <2>1, <1>1, <1>3 DEF Attach, NoReason
  <2> QED
    BY <2>2, <1>3 DEF Attach, SameReason
<1>4. KeepsReasons(c, c2, vd, tr, n)
  BY <1>3 DEF KeepsReasons
<1>5. ASSUME NEW k \in DOMAIN c2, ~c2[k].freed, k # CRef_Undef, NEW j \in {1, 2}
      PROVE  \/ Guarded(c2[k].lits, j, vd, tr, lim, n, P)
             \/ /\ k \in DOMAIN c /\ ~c[k].freed /\ k # hand
                /\ ToSet(c2[k].lits) = ToSet(c[k].lits)
                /\ \E m \in {1, 2} : c2[k].lits[j] = c[k].lits[m]
  <2>1. CASE k # cr
    BY <2>1, <1>5 DEF Attach
  <2>2. CASE k = cr
    BY <2>2 DEF TwoGuards
  <2> QED
    BY <2>1, <2>2
<1>6. KeepsComplete(c, c2, vd, tr, lim, hand, CRef_Undef, n, P)
  BY <1>5 DEF KeepsComplete
<1> QED
  BY <1>2, <1>4, <1>6, TrailingMemory

(* The clause in hand gets other literals.                                 *)
LEMMA TrailingHand ==
    ASSUME NEW c, NEW hand, NEW as, NEW vd, NEW tr, NEW lim, NEW n, NEW P, NEW u, NEW d,
           Trailing(c, hand, as, vd, tr, lim, n, P, u, d), NEW c2, OnlyHand(c, c2, hand),
           hand # CRef_Undef
    PROVE  Trailing(c2, hand, as, vd, tr, lim, n, P, u, d)
<1>1. HasLits(c) /\ NoReason(vd, tr, hand) /\ n \in Nat /\ n <= Len(tr) /\ tr \in Seq(Lits)
  BY TrailingParts
<1>2. HasLits(c2)
  BY <1>1 DEF OnlyHand, HasLits
<1>3. ASSUME NEW i \in 1 .. n, Rs(vd, tr[i]) # CRef_Undef, Rs(vd, tr[i]) \in DOMAIN c
      PROVE  Rs(vd, tr[i]) \in DOMAIN c2 /\ SameReason(c[Rs(vd, tr[i])], c2[Rs(vd, tr[i])])
  <2>1. i \in DOMAIN tr
    BY <1>1
  <2>2. Rs(vd, tr[i]) # hand
    BY <2>1, <1>1 DEF NoReason
  <2> QED
    BY <2>2, <1>3 DEF OnlyHand, SameReason
<1>4. KeepsReasons(c, c2, vd, tr, n)
  BY <1>3 DEF KeepsReasons
<1>5. KeepsComplete(c, c2, vd, tr, lim, hand, hand, n, P)
  BY DEF KeepsComplete, OnlyHand
<1> QED
  BY <1>1, <1>2, <1>4, <1>5, TrailingMemory

(* A clause that is no reason is taken in hand.                            *)
LEMMA TrailingTaken ==
    ASSUME NEW c, NEW as, NEW vd, NEW tr, NEW lim, NEW n, NEW P, NEW u, NEW d,
           Trailing(c, CRef_Undef, as, vd, tr, lim, n, P, u, d), NEW c2, NEW cr,
           OnlyHand(c, c2, cr), NoReason(vd, tr, cr), CRef_Undef \notin DOMAIN c
    PROVE  Trailing(c2, cr, as, vd, tr, lim, n, P, u, d)
<1>1. HasLits(c) /\ n \in Nat /\ n <= Len(tr) /\ tr \in Seq(Lits)
  BY TrailingParts
<1>2. HasLits(c2)
  BY <1>1 DEF OnlyHand, HasLits
<1>3. ASSUME NEW i \in 1 .. n, Rs(vd, tr[i]) # CRef_Undef, Rs(vd, tr[i]) \in DOMAIN c
      PROVE  Rs(vd, tr[i]) \in DOMAIN c2 /\ SameReason(c[Rs(vd, tr[i])], c2[Rs(vd, tr[i])])
  <2>1. i \in DOMAIN tr
    BY <1>1
  <2>2. Rs(vd, tr[i]) # cr
    BY <2>1 DEF NoReason
  <2> QED
    BY <2>2, <1>3 DEF OnlyHand, SameReason
<1>4. KeepsReasons(c, c2, vd, tr, n)
  BY <1>3 DEF KeepsReasons
<1>5. KeepsComplete(c, c2, vd, tr, lim, CRef_Undef, cr, n, P)
  BY DEF KeepsComplete, OnlyHand
<1> QED
  BY <1>2, <1>4, <1>5, TrailingMemory

(* The clause in hand is freed.                                            *)
LEMMA TrailingDropped ==
    ASSUME NEW c, NEW hand, NEW as, NEW vd, NEW tr, NEW lim, NEW n, NEW P, NEW u, NEW d,
           Trailing(c, hand, as, vd, tr, lim, n, P, u, d), NEW c2, Dropped(c, c2, hand),
           hand # CRef_Undef
    PROVE  Trailing(c2, CRef_Undef, as, vd, tr, lim, n, P, u, d)
<1>1. HasLits(c) /\ NoReason(vd, tr, hand) /\ n \in Nat /\ n <= Len(tr) /\ tr \in Seq(Lits)
  BY TrailingParts
<1>2. HasLits(c2)
  BY <1>1 DEF Dropped, HasLits
<1>3. ASSUME NEW i \in 1 .. n, Rs(vd, tr[i]) # CRef_Undef, Rs(vd, tr[i]) \in DOMAIN c
      PROVE  Rs(vd, tr[i]) \in DOMAIN c2 /\ SameReason(c[Rs(vd, tr[i])], c2[Rs(vd, tr[i])])
  <2>1. i \in DOMAIN tr
    BY <1>1
  <2>2. Rs(vd, tr[i]) # hand
    BY <2>1, <1>1 DEF NoReason
  <2> QED
    BY <2>2, <1>3 DEF Dropped, SameReason
<1>4. KeepsReasons(c, c2, vd, tr, n)
  BY <1>3 DEF KeepsReasons
<1>5. KeepsComplete(c, c2, vd, tr, lim, hand, CRef_Undef, n, P)
  BY DEF KeepsComplete, Dropped
<1> QED
  BY <1>2, <1>4, <1>5, TrailingMemory

-----------------------------------------------------------------------------
(* Records and clauses.                                                    *)
Log == Seq(RecordType)
ClauseRecord(d) == [lits : LitSeq, learnt : BOOLEAN, cid : DOMAIN d, simplified : BOOLEAN,
                    freed : BOOLEAN]
Clauses(d) == Seq(ClauseRecord(d))

(* d2 continues d with records of clauses.                                 *)
Derived(d, d2) ==
    /\ Len(d) <= Len(d2)
    /\ \A i \in 1 .. Len(d) : d2[i] = d[i]
    /\ \A i \in Len(d) + 1 .. Len(d2) : ~IsDelete(d2[i])

(* The literals of a clause are put in another order; of a clause with     *)
(* fewer than two only the number is known to stay.                        *)
Permuted(s, q) == Len(q) = Len(s) /\ (Len(s) > 1 => ToSet(q) = ToSet(s))

SameClauses(c, c2) ==
    /\ DOMAIN c2 = DOMAIN c
    /\ \A cr \in DOMAIN c : /\ c2[cr].cid = c[cr].cid /\ c2[cr].freed = c[cr].freed
                            /\ Permuted(c[cr].lits, c2[cr].lits)

(* The cids name records of clauses, each of one clause; the record of a   *)
(* freed clause is deleted, and of no other.                               *)
Coherent(c, d) ==
    /\ DeletedCids(d) \subseteq DOMAIN d
    /\ \A cr \in DOMAIN c : ~IsDelete(d[c[cr].cid])
    /\ \A a, b \in DOMAIN c : c[a].cid = c[b].cid => a = b
    /\ \A cr \in DOMAIN c : c[cr].cid \in DeletedCids(d) => c[cr].freed
    /\ \A cr \in DOMAIN c : Len(c[cr].lits) > 1 =>
          /\ ToSet(d[c[cr].cid].lits) = ToSet(c[cr].lits)
          /\ c[cr].freed => c[cr].cid \in DeletedCids(d)

(* d2 is d after the record r and the deletion of the record with number x. *)
Superseded(d, d2, r, x) == d2 = d \o <<r, DeleteRecord(x)>>

(* c2 is c after the clause at cr got the literals q and the number n.      *)
Renumbered(c, c2, cr, q, n) == c2 = [c EXCEPT ![cr].lits = q, ![cr].cid = n]

(* The clauses crs are freed and their records deleted.                    *)
Removed(c, c2, d, d2, crs) ==
    /\ d2 = d \o [i \in DOMAIN crs |-> DeleteRecord(c[crs[i]].cid)]
    /\ c2 = [cr \in DOMAIN c |-> [c[cr] EXCEPT !.freed = @ \/ cr \in ToSet(crs)]]

LEMMA LogTypes ==
    ASSUME NEW d \in Log
    PROVE  Len(d) \in Nat /\ DOMAIN d = 1 .. Len(d)
BY DEF Log

LEMMA ClauseTypes ==
    ASSUME NEW d \in Log, NEW c \in Clauses(d)
    PROVE  /\ Len(c) \in Nat /\ DOMAIN c = 1 .. Len(c)
           /\ \A cr \in DOMAIN c : /\ c[cr].cid \in 1 .. Len(d) /\ c[cr].lits \in LitSeq
                                   /\ c[cr].freed \in BOOLEAN /\ Len(c[cr].lits) \in Nat
                                   /\ c[cr] \in ClauseRecord(d)
<1>1. DOMAIN d = 1 .. Len(d)
  BY LogTypes
<1>3. \A x \in ClauseRecord(d) : x.cid \in 1 .. Len(d) /\ x.lits \in LitSeq /\ x.freed \in BOOLEAN
  BY <1>1 DEF ClauseRecord
<1>4. Len(c) \in Nat /\ DOMAIN c = 1 .. Len(c) /\ \A cr \in DOMAIN c : c[cr] \in ClauseRecord(d)
  BY DEF Clauses
<1>5. \A s \in LitSeq : Len(s) \in Nat
  BY DEF LitSeq
<1> QED
  BY <1>3, <1>4, <1>5

LEMMA DerivedDeleted ==
    ASSUME NEW d \in Log, NEW d2 \in Log, Derived(d, d2)
    PROVE  DeletedCids(d2) = DeletedCids(d)
<1>1. /\ Len(d) \in Nat /\ Len(d2) \in Nat /\ DOMAIN d = 1 .. Len(d) /\ DOMAIN d2 = 1 .. Len(d2)
      /\ Len(d) <= Len(d2)
  BY LogTypes DEF Derived
<1>2. \A i \in 1 .. Len(d) : i \in 1 .. Len(d2) /\ d2[i] = d[i]
  BY <1>1 DEF Derived
<1>3. \A i \in 1 .. Len(d2) : i \in 1 .. Len(d) \/ i \in Len(d) + 1 .. Len(d2)
  BY <1>1
<1>4. \A i \in 1 .. Len(d2) : IsDelete(d2[i]) => i \in 1 .. Len(d)
  BY <1>3 DEF Derived
<1> QED
  BY <1>1, <1>2, <1>4 DEF DeletedCids

(* Clauses in another order of literals, and new records of clauses.       *)
LEMMA SameStep ==
    ASSUME NEW d \in Log, NEW d2 \in Log, NEW c \in Clauses(d), NEW c2,
           Coherent(c, d), SameClauses(c, c2), Derived(d, d2)
    PROVE  Coherent(c2, d2)
<1>1. DeletedCids(d2) = DeletedCids(d)
  BY DerivedDeleted
<1>2. /\ DOMAIN c2 = DOMAIN c
      /\ \A cr \in DOMAIN c :
            /\ c2[cr].cid = c[cr].cid /\ c2[cr].freed = c[cr].freed
            /\ Permuted(c[cr].lits, c2[cr].lits) /\ d2[c[cr].cid] = d[c[cr].cid]
  BY ClauseTypes DEF SameClauses, Derived
<1>3. DeletedCids(d2) \subseteq DOMAIN d2
  BY <1>1, LogTypes DEF Coherent, Derived
<1> QED
  BY <1>1, <1>2, <1>3 DEF Coherent, Permuted

LEMMA DerivedSelf == ASSUME NEW d \in Log PROVE Derived(d, d)
<1>1. Len(d) \in Nat
  BY LogTypes
<1>2. Len(d) + 1 .. Len(d) = {}
  BY <1>1
<1> QED
  BY <1>1, <1>2 DEF Derived

LEMMA SameSelf == ASSUME NEW c PROVE SameClauses(c, c)
BY DEF SameClauses, Permuted

(* A record of a clause is added.                                          *)
LEMMA DerivedAppend ==
    ASSUME NEW d \in Log, NEW r \in RecordType, ~IsDelete(r)
    PROVE  /\ Append(d, r) \in Log /\ Derived(d, Append(d, r))
           /\ Len(Append(d, r)) = Len(d) + 1 /\ Append(d, r)[Len(d) + 1] = r
<1> DEFINE d2 == Append(d, r)
<1>1. /\ Len(d) \in Nat /\ d2 \in Log /\ Len(d2) = Len(d) + 1 /\ d2[Len(d) + 1] = r
      /\ \A i \in 1 .. Len(d) : d2[i] = d[i]
  BY AppendProperties, LogTypes DEF Log
<1> HIDE DEF d2
<1>2. \A i \in Len(d) + 1 .. Len(d2) : i = Len(d) + 1
  BY <1>1
<1>3. Derived(d, d2)
  BY <1>1, <1>2 DEF Derived
<1> QED
  BY <1>1, <1>3 DEF d2

LEMMA DerivedTrans ==
    ASSUME NEW a \in Log, NEW b \in Log, NEW c \in Log, Derived(a, b), Derived(b, c)
    PROVE  Derived(a, c)
<1>1. /\ Len(a) \in Nat /\ Len(b) \in Nat /\ Len(c) \in Nat
      /\ Len(a) <= Len(b) /\ Len(b) <= Len(c)
  BY LogTypes DEF Derived
<1>2. \A i \in 1 .. Len(a) : i \in 1 .. Len(b) /\ c[i] = a[i]
  BY <1>1 DEF Derived
<1>3. ASSUME NEW i \in Len(a) + 1 .. Len(c)
      PROVE  ~IsDelete(c[i])
  <2>1. CASE i \in 1 .. Len(b)
    <3>1. i \in Len(a) + 1 .. Len(b) /\ c[i] = b[i]
      BY <1>1, <2>1 DEF Derived
    <3> QED
      BY <3>1 DEF Derived
  <2>2. CASE i \in Len(b) + 1 .. Len(c)
    BY <2>2 DEF Derived
  <2> QED
    BY <1>1, <2>1, <2>2
<1> QED
  BY <1>1, <1>2, <1>3 DEF Derived

(* A clause is added with a record of its own.                             *)
LEMMA NewStep ==
    ASSUME NEW d \in Log, NEW d2 \in Log, NEW c \in Clauses(d), NEW c2 \in Clauses(d2), NEW e,
           Coherent(c, d), Derived(d, d2), c2 = Append(c, e),
           e.cid \in Len(d) + 1 .. Len(d2), ~e.freed, ToSet(d2[e.cid].lits) = ToSet(e.lits)
    PROVE  Coherent(c2, d2)
<1> DEFINE n == Len(c)
<1>1. /\ n \in Nat /\ DOMAIN c = 1 .. n /\ DOMAIN c2 = 1 .. n + 1
      /\ \A cr \in 1 .. n : c2[cr] = c[cr]
      /\ c2[n + 1] = e
  BY ClauseTypes DEF Clauses
<1>2. /\ Len(d) \in Nat /\ Len(d2) \in Nat
      /\ \A cr \in 1 .. n : c[cr].cid \in 1 .. Len(d) /\ d2[c[cr].cid] = d[c[cr].cid]
  BY ClauseTypes, LogTypes, <1>1 DEF Derived
<1>3. DeletedCids(d2) = DeletedCids(d)
  BY DerivedDeleted
<1>4. e.cid \notin DeletedCids(d)
  <2>1. \A x \in DeletedCids(d) : x \in 1 .. Len(d)
    BY LogTypes DEF Coherent
  <2>2. e.cid \notin 1 .. Len(d)
    BY <1>2
  <2> QED
    BY <2>1, <2>2
<1>5. ~IsDelete(d2[e.cid])
  BY DEF Derived
<1>6. \A cr \in 1 .. n : c[cr].cid # e.cid
  BY <1>2
<1>7. \A cr \in 1 .. n + 1 : cr \in 1 .. n \/ cr = n + 1
  BY <1>1
<1>8. \A cr \in DOMAIN c2 : ~IsDelete(d2[c2[cr].cid])
  BY <1>1, <1>2, <1>5, <1>7 DEF Coherent
<1>9. \A a, b \in DOMAIN c2 : c2[a].cid = c2[b].cid => a = b
  BY <1>1, <1>6, <1>7 DEF Coherent
<1>10. \A cr \in DOMAIN c2 : c2[cr].cid \in DeletedCids(d2) => c2[cr].freed
  BY <1>1, <1>3, <1>4, <1>7 DEF Coherent
<1>11. \A cr \in DOMAIN c2 : Len(c2[cr].lits) > 1 =>
          /\ ToSet(d2[c2[cr].cid].lits) = ToSet(c2[cr].lits)
          /\ c2[cr].freed => c2[cr].cid \in DeletedCids(d2)
  <2> SUFFICES ASSUME NEW cr \in DOMAIN c2, Len(c2[cr].lits) > 1
               PROVE  /\ ToSet(d2[c2[cr].cid].lits) = ToSet(c2[cr].lits)
                      /\ c2[cr].freed => c2[cr].cid \in DeletedCids(d2)
    OBVIOUS
  <2>1. CASE cr \in 1 .. n
    BY <1>1, <1>2, <1>3, <2>1 DEF Coherent
  <2>2. CASE cr = n + 1
    BY <1>1, <2>2
  <2> QED
    BY <1>1, <1>7, <2>1, <2>2
<1>12. DeletedCids(d2) \subseteq DOMAIN d2
  BY <1>2, <1>3, LogTypes DEF Coherent, Derived
<1> QED
  BY <1>8, <1>9, <1>10, <1>11, <1>12 DEF Coherent

LEMMA ConcatDeleted ==
    ASSUME NEW d \in Log, NEW e \in Log
    PROVE  /\ DeletedCids(d \o e) = DeletedCids(d) \cup DeletedCids(e)
           /\ d \o e \in Log /\ Len(d \o e) = Len(d) + Len(e)
           /\ \A i \in 1 .. Len(d) : (d \o e)[i] = d[i]
           /\ \A i \in 1 .. Len(e) : (d \o e)[Len(d) + i] = e[i]
<1> DEFINE f == d \o e
           m == Len(d)
           n == Len(e)
<1>1. /\ f \in Log /\ m \in Nat /\ n \in Nat /\ DOMAIN f = 1 .. m + n /\ Len(f) = m + n
      /\ DOMAIN d = 1 .. m /\ DOMAIN e = 1 .. n
      /\ \A i \in 1 .. m + n : f[i] = IF i <= m THEN d[i] ELSE e[i - m]
  BY ConcatProperties, LogTypes DEF Log
<1> HIDE DEF f, m, n
<1>2. \A i \in 1 .. m : i \in 1 .. m + n /\ f[i] = d[i]
  BY <1>1
<1>3. \A i \in 1 .. n : m + i \in 1 .. m + n /\ f[m + i] = e[i]
  <2> SUFFICES ASSUME NEW i \in 1 .. n
               PROVE  m + i \in 1 .. m + n /\ f[m + i] = e[i]
    OBVIOUS
  <2>1. m + i \in 1 .. m + n /\ ~(m + i <= m) /\ m + i - m = i
    BY <1>1
  <2> QED
    BY <1>1, <2>1
<1>4. \A i \in 1 .. m + n : i \in 1 .. m \/ \E k \in 1 .. n : i = m + k
  <2> SUFFICES ASSUME NEW i \in 1 .. m + n, i \notin 1 .. m
               PROVE  \E k \in 1 .. n : i = m + k
    OBVIOUS
  <2>1. i - m \in 1 .. n /\ i = m + (i - m)
    BY <1>1
  <2> QED
    BY <2>1
<1>5. \A g \in Log : \A x : x \in DeletedCids(g) <=>
          \E i \in 1 .. Len(g) : IsDelete(g[i]) /\ x = g[i].hints[1]
  BY LogTypes DEF DeletedCids
<1>6. ASSUME NEW x \in DeletedCids(f)
      PROVE  x \in DeletedCids(d) \cup DeletedCids(e)
  <2>1. PICK i \in 1 .. m + n : IsDelete(f[i]) /\ x = f[i].hints[1]
    BY <1>1, <1>5
  <2>2. CASE i \in 1 .. m
    <3>1. IsDelete(d[i]) /\ x = d[i].hints[1]
      BY <1>2, <2>1, <2>2
    <3> QED
      BY <1>5, <2>2, <3>1 DEF m
  <2>3. ASSUME NEW k \in 1 .. n, i = m + k
        PROVE  x \in DeletedCids(e)
    <3>1. IsDelete(e[k]) /\ x = e[k].hints[1]
      BY <1>3, <2>1, <2>3
    <3> QED
      BY <1>5, <3>1 DEF n
  <2> QED
    BY <1>4, <2>2, <2>3
<1>7. ASSUME NEW x \in DeletedCids(d)
      PROVE  x \in DeletedCids(f)
  <2>1. PICK i \in 1 .. m : IsDelete(d[i]) /\ x = d[i].hints[1]
    BY <1>5 DEF m
  <2>2. i \in 1 .. Len(f) /\ IsDelete(f[i]) /\ x = f[i].hints[1]
    BY <1>1, <1>2, <2>1
  <2> QED
    BY <1>1, <1>5, <2>2
<1>8. ASSUME NEW x \in DeletedCids(e)
      PROVE  x \in DeletedCids(f)
  <2>1. PICK i \in 1 .. n : IsDelete(e[i]) /\ x = e[i].hints[1]
    BY <1>5 DEF n
  <2>2. m + i \in 1 .. Len(f) /\ IsDelete(f[m + i]) /\ x = f[m + i].hints[1]
    BY <1>1, <1>3, <2>1
  <2> QED
    BY <1>1, <1>5, <2>2
<1>9. DeletedCids(f) = DeletedCids(d) \cup DeletedCids(e)
  BY <1>6, <1>7, <1>8
<1> QED
  BY <1>1, <1>2, <1>3, <1>9 DEF f, m, n

(* Clauses are removed: their records are deleted.                         *)
LEMMA RemovalStep ==
    ASSUME NEW d \in Log, NEW c \in Clauses(d), Coherent(c, d), NEW crs \in Seq(DOMAIN c),
           NEW d2, NEW c2, Removed(c, c2, d, d2, crs)
    PROVE  Coherent(c2, d2)
<1> DEFINE n == Len(crs)
           e == [i \in DOMAIN crs |-> DeleteRecord(c[crs[i]].cid)]
<1>1. n \in Nat /\ DOMAIN crs = 1 .. n /\ \A i \in 1 .. n : crs[i] \in DOMAIN c
  OBVIOUS
<1>2. \A x \in Nat : /\ DeleteRecord(x) \in RecordType /\ IsDelete(DeleteRecord(x))
                     /\ DeleteRecord(x).hints[1] = x
  BY DEF DeleteRecord, RecordType, IsDelete, ClauseOrigin, LitSeq
<1>3. \A cr \in DOMAIN c : c[cr].cid \in Nat /\ c[cr].cid \in 1 .. Len(d)
  BY ClauseTypes, LogTypes
<1>4. /\ e \in Log /\ DOMAIN e = 1 .. n
      /\ \A i \in 1 .. n : IsDelete(e[i]) /\ e[i].hints[1] = c[crs[i]].cid
  <2>1. \A i \in 1 .. n : e[i] = DeleteRecord(c[crs[i]].cid)
    BY <1>1
  <2>2. e \in [1 .. n -> RecordType]
    BY <1>1, <1>2, <1>3
  <2>3. e \in Seq(RecordType)
    BY <1>1, <2>2, SeqDef
  <2> QED
    BY <1>1, <1>2, <1>3, <2>1, <2>3 DEF Log
<1> HIDE DEF e
<1>5. DeletedCids(e) = {c[crs[i]].cid : i \in 1 .. n}
  <2>1. DeletedCids(e) = {e[i].hints[1] : i \in {j \in 1 .. n : IsDelete(e[j])}}
    BY ONLY <1>4 DEF DeletedCids
  <2>2. {j \in 1 .. n : IsDelete(e[j])} = 1 .. n
    BY ONLY <1>4
  <2> QED
    BY ONLY <1>4, <2>1, <2>2
<1>6. /\ DeletedCids(d2) = DeletedCids(d) \cup {c[crs[i]].cid : i \in 1 .. n}
      /\ d2 \in Log /\ Len(d2) = Len(d) + Len(e)
      /\ \A i \in 1 .. Len(d) : d2[i] = d[i]
  BY <1>4, <1>5, ConcatDeleted DEF e, Removed
<1>7. /\ DOMAIN c2 = DOMAIN c
      /\ \A cr \in DOMAIN c : /\ c2[cr].cid = c[cr].cid /\ c2[cr].lits = c[cr].lits
                              /\ c2[cr].freed <=> c[cr].freed \/ cr \in ToSet(crs)
  <2>1. ASSUME NEW x \in ClauseRecord(d), NEW b, NEW y, y = [x EXCEPT !.freed = @ \/ b]
        PROVE  y.cid = x.cid /\ y.lits = x.lits /\ (y.freed <=> x.freed \/ b)
    BY ONLY <2>1 DEF ClauseRecord
  <2>2. \A cr \in DOMAIN c : c[cr] \in ClauseRecord(d)
    BY ClauseTypes
  <2>3. DOMAIN c2 = DOMAIN c /\ \A cr \in DOMAIN c : c2[cr] = [c[cr] EXCEPT !.freed = @ \/ cr \in ToSet(crs)]
    BY DEF Removed
  <2> QED
    BY ONLY <2>1, <2>2, <2>3
<1>8. ToSet(crs) = {crs[i] : i \in 1 .. n}
  BY <1>1 DEF ToSet
<1>9. \A cr \in DOMAIN c : c[cr].cid \in {c[crs[i]].cid : i \in 1 .. n} => cr \in ToSet(crs)
  BY <1>1, <1>8 DEF Coherent
<1>10. \A cr \in ToSet(crs) : c[cr].cid \in {c[crs[i]].cid : i \in 1 .. n}
  BY <1>8
<1>11. DeletedCids(d2) \subseteq DOMAIN d2
  <2>1. \A x \in DeletedCids(d2) : x \in 1 .. Len(d)
    <3>1. DeletedCids(d) \subseteq 1 .. Len(d)
      BY LogTypes DEF Coherent
    <3>2. {c[crs[i]].cid : i \in 1 .. n} \subseteq 1 .. Len(d)
      BY ONLY <1>1, <1>3
    <3> QED
      BY ONLY <1>6, <3>1, <3>2
  <2>2. 1 .. Len(d) \subseteq 1 .. Len(d2)
    BY <1>4, <1>6, LogTypes
  <2> QED
    BY <1>6, <2>1, <2>2, LogTypes
<1> HIDE DEF n
<1>16. \A cr \in DOMAIN c : /\ c2[cr].cid = c[cr].cid /\ c2[cr].lits = c[cr].lits
                             /\ d2[c[cr].cid] = d[c[cr].cid]
  BY ONLY <1>3, <1>6, <1>7
<1>17. DOMAIN c2 = DOMAIN c
  BY <1>7
<1>12. \A cr \in DOMAIN c2 : ~IsDelete(d2[c2[cr].cid])
  BY <1>16, <1>17 DEF Coherent
<1>18. \A x, y \in DOMAIN c : c[x].cid = c[y].cid => x = y
  BY DEF Coherent
<1>13. \A a, b \in DOMAIN c2 : c2[a].cid = c2[b].cid => a = b
  BY ONLY <1>16, <1>17, <1>18
<1>14. \A cr \in DOMAIN c2 : c2[cr].cid \in DeletedCids(d2) => c2[cr].freed
  BY <1>6, <1>7, <1>9 DEF Coherent
<1>15. \A cr \in DOMAIN c2 : Len(c2[cr].lits) > 1 =>
          /\ ToSet(d2[c2[cr].cid].lits) = ToSet(c2[cr].lits)
          /\ c2[cr].freed => c2[cr].cid \in DeletedCids(d2)
  <2> SUFFICES ASSUME NEW cr \in DOMAIN c, Len(c2[cr].lits) > 1
               PROVE  /\ ToSet(d2[c2[cr].cid].lits) = ToSet(c2[cr].lits)
                      /\ c2[cr].freed => c2[cr].cid \in DeletedCids(d2)
    BY <1>17
  <2>1. /\ c2[cr].cid = c[cr].cid /\ c2[cr].lits = c[cr].lits
        /\ d2[c[cr].cid] = d[c[cr].cid] /\ Len(c[cr].lits) > 1
    BY <1>16
  <2>2. /\ ToSet(d[c[cr].cid].lits) = ToSet(c[cr].lits)
        /\ c[cr].freed => c[cr].cid \in DeletedCids(d)
    BY <2>1 DEF Coherent
  <2>3. c2[cr].freed => c[cr].cid \in DeletedCids(d2)
    BY <1>6, <1>7, <1>10, <2>2
  <2> QED
    BY <2>1, <2>2, <2>3
<1> QED
  BY <1>11, <1>12, <1>13, <1>14, <1>15 DEF Coherent

(* The record of a new clause is followed by the deletion of an older one. *)
LEMMA DeletionStep ==
    ASSUME NEW d \in Log, NEW d2 \in Log, NEW r, ~IsDelete(r), NEW x, Superseded(d, d2, r, x)
    PROVE  /\ DeletedCids(d2) = DeletedCids(d) \cup {x} /\ Len(d2) = Len(d) + 2
           /\ \A i \in 1 .. Len(d) : d2[i] = d[i]
           /\ d2[Len(d) + 1] = r
<1> DEFINE e == <<r, DeleteRecord(x)>>
<1> USE DEF Superseded
<1>1. Len(e) = 2 /\ DOMAIN e = {1, 2} /\ e[1] = r /\ e[2] = DeleteRecord(x)
  OBVIOUS
<1>2. /\ Len(d) \in Nat /\ Len(d2) \in Nat /\ DOMAIN d2 = 1 .. Len(d2)
  BY LogTypes
<1>3. /\ Len(d2) = Len(d) + 2
      /\ \A i \in 1 .. Len(d) : d2[i] = d[i]
      /\ d2[Len(d) + 1] = r /\ d2[Len(d) + 2] = DeleteRecord(x)
  <2> DEFINE S == RecordType \cup {r, DeleteRecord(x)}
  <2>1. d \in Seq(S) /\ e \in Seq(S)
    BY DEF Log
  <2> HIDE DEF S, e
  <2>2. /\ Len(d \o e) = Len(d) + Len(e)
        /\ \A i \in 1 .. Len(d) + Len(e) : (d \o e)[i] = IF i <= Len(d) THEN d[i] ELSE e[i - Len(d)]
    BY <2>1, ConcatProperties
  <2>3. /\ \A i \in 1 .. Len(d) : d2[i] = d[i]
        /\ d2[Len(d) + 1] = e[Len(d) + 1 - Len(d)] /\ d2[Len(d) + 2] = e[Len(d) + 2 - Len(d)]
    BY <1>1, <1>2, <2>2 DEF e
  <2>4. Len(d) + 1 - Len(d) = 1 /\ Len(d) + 2 - Len(d) = 2
    BY <1>2
  <2>5. Len(d2) = Len(d) + 2
    BY <1>1, <2>2 DEF e
  <2> QED
    BY <1>1, <2>3, <2>4, <2>5
<1>4. IsDelete(DeleteRecord(x)) /\ DeleteRecord(x).hints[1] = x
  BY DEF IsDelete, DeleteRecord
<1>5. DeletedCids(d) = {d[i].hints[1] : i \in {j \in 1 .. Len(d) : IsDelete(d[j])}}
  BY LogTypes DEF DeletedCids
<1>6. DeletedCids(d2) = {d2[i].hints[1] : i \in {j \in 1 .. Len(d) + 2 : IsDelete(d2[j])}}
  BY <1>2, <1>3 DEF DeletedCids
<1>7. \A i \in 1 .. Len(d) + 2 : i \in 1 .. Len(d) \/ i = Len(d) + 1 \/ i = Len(d) + 2
  BY <1>2
<1>8. \A i \in 1 .. Len(d) : i \in 1 .. Len(d) + 2
  BY <1>2
<1>9. Len(d) + 2 \in 1 .. Len(d) + 2
  BY <1>2
<1>10. ASSUME NEW y \in DeletedCids(d2)
       PROVE  y \in DeletedCids(d) \cup {x}
  <2>1. PICK i \in 1 .. Len(d) + 2 : IsDelete(d2[i]) /\ y = d2[i].hints[1]
    BY <1>6
  <2>2. CASE i \in 1 .. Len(d)
    BY <1>3, <1>5, <2>1, <2>2
  <2>3. CASE i = Len(d) + 1
    BY <1>3, <2>1, <2>3
  <2>4. CASE i = Len(d) + 2
    BY <1>3, <1>4, <2>1, <2>4
  <2> QED
    BY <1>7, <2>2, <2>3, <2>4
<1>11. ASSUME NEW y \in DeletedCids(d)
       PROVE  y \in DeletedCids(d2)
  <2>1. PICK i \in 1 .. Len(d) : IsDelete(d[i]) /\ y = d[i].hints[1]
    BY ONLY <1>5, <1>11
  <2>2. i \in 1 .. Len(d) + 2 /\ d2[i] = d[i]
    BY <1>3, <1>8
  <2> QED
    BY ONLY <1>6, <2>1, <2>2
<1>12. x \in DeletedCids(d2)
  <2>1. d2[Len(d) + 2] = DeleteRecord(x)
    BY <1>3
  <2> QED
    BY ONLY <1>4, <1>6, <1>9, <2>1
<1> QED
  BY <1>3, <1>10, <1>11, <1>12

(* A clause gets other literals with a record of their own, and its old    *)
(* record is deleted.                                                      *)
LEMMA ReplaceStep ==
    ASSUME NEW d \in Log, NEW d2 \in Log, NEW c \in Clauses(d), NEW c2, Coherent(c, d),
           NEW cr \in DOMAIN c, ~c[cr].freed, NEW r, ~IsDelete(r),
           Superseded(d, d2, r, c[cr].cid), DOMAIN c2 = DOMAIN c,
           \A k \in DOMAIN c : k # cr => c2[k] = c[k],
           c2[cr].cid = Len(d) + 1, c2[cr].lits = r.lits, ~c2[cr].freed
    PROVE  Coherent(c2, d2)
<1>1. /\ DeletedCids(d2) = DeletedCids(d) \cup {c[cr].cid}
      /\ Len(d) \in Nat /\ Len(d2) = Len(d) + 2
      /\ \A i \in 1 .. Len(d) : d2[i] = d[i]
      /\ d2[Len(d) + 1] = r
      /\ DOMAIN d = 1 .. Len(d) /\ DOMAIN d2 = 1 .. Len(d2)
  <2> DEFINE x == c[cr].cid
  <2>1. Superseded(d, d2, r, x)
    BY DEF Superseded
  <2> HIDE DEF x
  <2>2. /\ DeletedCids(d2) = DeletedCids(d) \cup {x} /\ Len(d2) = Len(d) + 2
        /\ \A i \in 1 .. Len(d) : d2[i] = d[i]
    BY ONLY <2>1, DeletionStep, d \in Log, d2 \in Log, ~IsDelete(r)
  <2>3. d2[Len(d) + 1] = r
    BY ONLY <2>1, DeletionStep, d \in Log, d2 \in Log, ~IsDelete(r)
  <2> QED
    BY <2>2, <2>3, LogTypes DEF x
<1>2. \A k \in DOMAIN c : c[k].cid \in 1 .. Len(d) /\ d2[c[k].cid] = d[c[k].cid]
  BY <1>1, ClauseTypes
<1>3. Len(d) + 1 \notin 1 .. Len(d)
  BY <1>1
<1>4. DeletedCids(d2) \subseteq 1 .. Len(d)
  BY <1>1, <1>2 DEF Coherent
<1>5. DeletedCids(d2) \subseteq DOMAIN d2
  <2>1. \A i \in 1 .. Len(d) : i \in 1 .. Len(d2)
    BY <1>1
  <2> QED
    BY <1>1, <1>4, <2>1
<1>6. ASSUME NEW k \in DOMAIN c
      PROVE  ~IsDelete(d2[c2[k].cid])
  <2>1. CASE k = cr
    BY <1>1, <2>1
  <2>2. CASE k # cr
    BY <1>2, <2>2 DEF Coherent
  <2> QED
    BY <2>1, <2>2
<1>7. \A a, b \in DOMAIN c : c2[a].cid = c2[b].cid => a = b
  <2> SUFFICES ASSUME NEW a \in DOMAIN c, NEW b \in DOMAIN c, c2[a].cid = c2[b].cid
               PROVE  a = b
    OBVIOUS
  <2>1. CASE a # cr /\ b # cr
    BY <2>1 DEF Coherent
  <2>2. CASE a = cr \/ b = cr
    BY <1>2, <1>3, <2>2
  <2> QED
    BY <2>1, <2>2
<1>8. \A k \in DOMAIN c : c2[k].cid \in DeletedCids(d2) => c2[k].freed
  <2> SUFFICES ASSUME NEW k \in DOMAIN c, c2[k].cid \in DeletedCids(d2)
               PROVE  c2[k].freed
    OBVIOUS
  <2>1. k # cr
    BY <1>3, <1>4
  <2>2. c2[k] = c[k] /\ c[k].cid # c[cr].cid
    BY <2>1 DEF Coherent
  <2>3. c[k].cid \in DeletedCids(d)
    BY <1>1, <2>2
  <2> QED
    BY <2>2, <2>3 DEF Coherent
<1>9. \A k \in DOMAIN c : Len(c2[k].lits) > 1 =>
          /\ ToSet(d2[c2[k].cid].lits) = ToSet(c2[k].lits)
          /\ c2[k].freed => c2[k].cid \in DeletedCids(d2)
  <2> SUFFICES ASSUME NEW k \in DOMAIN c, Len(c2[k].lits) > 1
               PROVE  /\ ToSet(d2[c2[k].cid].lits) = ToSet(c2[k].lits)
                      /\ c2[k].freed => c2[k].cid \in DeletedCids(d2)
    OBVIOUS
  <2>1. CASE k = cr
    BY <1>1, <2>1
  <2>2. CASE k # cr
    <3>1. c2[k] = c[k]
      BY <2>2
    <3>2. /\ ToSet(d[c[k].cid].lits) = ToSet(c[k].lits)
          /\ c[k].freed => c[k].cid \in DeletedCids(d)
      BY <3>1 DEF Coherent
    <3> QED
      BY <1>1, <1>2, <3>1, <3>2
  <2> QED
    BY <2>1, <2>2
<1> QED
  BY <1>5, <1>6, <1>7, <1>8, <1>9 DEF Coherent

(* A clause is cut to at most one literal, or freed when it has no more.   *)
LEMMA ShortStep ==
    ASSUME NEW d \in Log, NEW c \in Clauses(d), NEW c2, Coherent(c, d),
           NEW cr \in DOMAIN c, DOMAIN c2 = DOMAIN c,
           \A k \in DOMAIN c : k # cr => c2[k] = c[k],
           c2[cr].cid = c[cr].cid, ~(Len(c2[cr].lits) > 1), c[cr].freed => c2[cr].freed
    PROVE  Coherent(c2, d)
BY DEF Coherent

(* A clause that is recorded and deleted at once.                          *)
LEMMA UnusedStep ==
    ASSUME NEW d \in Log, NEW d2 \in Log, NEW c \in Clauses(d), Coherent(c, d), NEW r, ~IsDelete(r),
           d2 = d \o <<r, DeleteRecord(Len(d) + 1)>>
    PROVE  Coherent(c, d2)
<1>1. /\ DeletedCids(d2) = DeletedCids(d) \cup {Len(d) + 1}
      /\ Len(d) \in Nat /\ Len(d2) = Len(d) + 2
      /\ \A i \in 1 .. Len(d) : d2[i] = d[i]
      /\ DOMAIN d = 1 .. Len(d) /\ DOMAIN d2 = 1 .. Len(d2)
  <2> DEFINE x == Len(d) + 1
  <2>1. Superseded(d, d2, r, x)
    BY DEF Superseded
  <2> HIDE DEF x
  <2>2. /\ DeletedCids(d2) = DeletedCids(d) \cup {x} /\ Len(d2) = Len(d) + 2
        /\ \A i \in 1 .. Len(d) : d2[i] = d[i]
    BY ONLY <2>1, DeletionStep, d \in Log, d2 \in Log, ~IsDelete(r)
  <2> QED
    BY <2>2, LogTypes DEF x
<1>2. \A k \in DOMAIN c : c[k].cid \in 1 .. Len(d) /\ d2[c[k].cid] = d[c[k].cid]
  BY <1>1, ClauseTypes
<1>3. Len(d) + 1 \notin 1 .. Len(d)
  BY <1>1
<1>4. DeletedCids(d2) \subseteq DOMAIN d2
  <2>1. \A i \in 1 .. Len(d) + 1 : i \in 1 .. Len(d2)
    BY <1>1
  <2>2. \A i \in 1 .. Len(d) : i \in 1 .. Len(d) + 1
    BY <1>1
  <2>3. Len(d) + 1 \in 1 .. Len(d) + 1
    BY <1>1
  <2> QED
    BY <1>1, <2>1, <2>2, <2>3 DEF Coherent
<1>5. \A k \in DOMAIN c : c[k].cid \in DeletedCids(d2) <=> c[k].cid \in DeletedCids(d)
  BY <1>1, <1>2, <1>3
<1> QED
  BY <1>2, <1>4, <1>5 DEF Coherent

-----------------------------------------------------------------------------
(* The orders the literals of a clause are put in.                         *)
IsSeq(s) == \E T : s \in Seq(T)

LEMMA SwapPermuted ==
    ASSUME NEW s, IsSeq(s), NEW i, NEW j,
           Len(s) > 1 => i \in 1 .. Len(s) /\ j \in 1 .. Len(s)
    PROVE  Permuted(s, SwapAt(s, i, j)) /\ IsSeq(SwapAt(s, i, j))
<1> DEFINE n == Len(s)
           q == [s EXCEPT ![i] = s[j], ![j] = s[i]]
           T == {q[k] : k \in 1 .. n}
<1>1. n \in Nat /\ DOMAIN s = 1 .. n
  BY DEF IsSeq
<1>2. DOMAIN q = 1 .. n
  BY <1>1
<1>3. Len(q) = n /\ IsSeq(q)
  <2>1. q \in [1 .. n -> T]
    BY <1>2
  <2> HIDE DEF q, T
  <2>2. q \in Seq(T)
    BY <1>1, <2>1, SeqDef
  <2> QED
    BY <1>1, <1>2, <2>2 DEF IsSeq
<1>4. ASSUME n > 1
      PROVE  ToSet(q) = ToSet(s)
  <2>1. i \in 1 .. n /\ j \in 1 .. n
    BY <1>4
  <2>2. \A k \in 1 .. n : q[k] = IF k = j THEN s[i] ELSE IF k = i THEN s[j] ELSE s[k]
    BY <1>1, <2>1
  <2> HIDE DEF q
  <2> QED
    BY <1>1, <1>2, <2>1, <2>2 DEF ToSet
<1> QED
  BY <1>3, <1>4 DEF Permuted, SwapAt

LEMMA PermutedTrans ==
    ASSUME NEW s, NEW q, NEW r, Permuted(s, q), Permuted(q, r)
    PROVE  Permuted(s, r)
BY DEF Permuted

LEMMA LeastOf ==
    ASSUME NEW S \in SUBSET Nat, S # {}
    PROVE  Min(S) \in S /\ \A y \in S : Min(S) <= y
<1>1. \E x \in S : \A y \in S : x <= y
  BY LeastNumber
<1> QED
  BY <1>1 DEF Min

LEMMA GreatestOf ==
    ASSUME NEW S \in SUBSET Nat, S # {}, IsFiniteSet(S)
    PROVE  Max(S) \in S /\ \A y \in S : y <= Max(S)
<1>1. ASSUME NEW k \in S, \A y \in S : k >= y
      PROVE  Max(S) \in S /\ \A y \in S : y <= Max(S)
  <2>1. Max(S) \in S /\ \A y \in S : Max(S) >= y
    BY <1>1 DEF Max
  <2> QED
    BY <2>1
<1> SUFFICES ASSUME \A k \in S : \E y \in S : ~(k >= y)
             PROVE  FALSE
  BY <1>1
<1> DEFINE N == Cardinality(S)
           A == Ascending[S]
<1>2. /\ N \in Nat /\ \A k \in S : Cardinality(Below(S, k)) \in 0 .. N - 1
      /\ \A j, k \in S : j < k => Cardinality(Below(S, j)) < Cardinality(Below(S, k))
  BY FS_CardinalityType, BelowCount
<1> DEFINE Room(k) == N - Cardinality(Below(S, k))
           R == {Room(k) : k \in S}
<1>3. \A j, k \in S : Room(k) \in Nat /\ (j < k => Room(k) < Room(j))
  <2> SUFFICES ASSUME NEW j \in S, NEW k \in S
               PROVE  Room(k) \in Nat /\ (j < k => Room(k) < Room(j))
    OBVIOUS
  <2> DEFINE cj == Cardinality(Below(S, j))
             ck == Cardinality(Below(S, k))
  <2>1. N \in Nat /\ cj \in 0 .. N - 1 /\ ck \in 0 .. N - 1 /\ (j < k => cj < ck)
    BY <1>2
  <2> HIDE DEF cj, ck, N
  <2> QED
    BY <2>1 DEF cj, ck
<1> HIDE DEF Room
<1>4. R \in SUBSET Nat /\ R # {}
  BY <1>3
<1>5. PICK m \in R : \A x \in R : m <= x
  BY <1>4, LeastNumber
<1>6. PICK k \in S : m = Room(k)
  BY <1>5
<1>7. PICK y \in S : ~(k >= y)
  OBVIOUS
<1>8. k < y
  BY <1>7
<1>9. Room(y) < Room(k) /\ Room(y) \in R /\ Room(y) \in Nat /\ Room(k) \in Nat
  BY <1>3, <1>8
<1> QED
  BY <1>5, <1>6, <1>9

-----------------------------------------------------------------------------
(* The invariant.  Vivification has one clause in hand, which stays        *)
(* allocated; outside the phases that shorten it, it is a unit about to be *)
(* freed; and nothing else removes clauses meanwhile.                      *)
VivPhases == {"simplifyLearnt", "simplePropagate", "simpleAnalyze", "simplified"}

InHandOK ==
    /\ viv.cr # CRef_Undef => viv.on /\ ~ca[viv.cr].freed
    /\ viv.on => ~searching
    /\ pc = "parse" => ~viv.on
    /\ pc \in VivPhases => viv.cr # CRef_Undef
    /\ viv.cr # CRef_Undef /\ pc \notin VivPhases => ~(Len(ca[viv.cr].lits) > 1)

CidInv == Coherent(ca, db) /\ InHandOK

LEMMA Types ==
    ASSUME TypeOK
    PROVE  /\ ca \in Clauses(db) /\ db \in Log
           /\ viv.cr \in DOMAIN ca \cup {CRef_Undef} /\ viv.on \in BOOLEAN /\ searching \in BOOLEAN
           /\ CRefs = DOMAIN ca /\ DOMAIN ca = 1 .. Len(ca) /\ Len(ca) \in Nat
           /\ CRef_Undef \notin CRefs
           /\ confl \in DOMAIN ca \cup {CRef_Undef}
<1>1. ca \in Clauses(db) /\ db \in Log
  BY DEF TypeOK, Clauses, ClauseRecord, Log
<1>2. viv.cr \in DOMAIN ca \cup {CRef_Undef} /\ viv.on \in BOOLEAN
  BY DEF TypeOK, CRefs
<1>3. searching \in BOOLEAN
  BY DEF TypeOK
<1>4. DOMAIN ca = 1 .. Len(ca) /\ Len(ca) \in Nat
  BY <1>1, ClauseTypes
<1>5. CRef_Undef \notin CRefs
  BY <1>4 DEF CRefs, CRef_Undef
<1>6. confl \in DOMAIN ca \cup {CRef_Undef}
  BY DEF TypeOK, CRefs
<1> QED
  BY <1>1, <1>2, <1>3, <1>4, <1>5, <1>6 DEF CRefs

LEMMA TypesAfter ==
    ASSUME TypeOK'
    PROVE  ca' \in Clauses(db') /\ db' \in Log
BY DEF TypeOK, Clauses, ClauseRecord, Log

(* A step that removes no clause and leaves vivification its clause.       *)
LEMMA QuietStep ==
    ASSUME TypeOK, TypeOK', CidInv,
           SameClauses(ca, ca'), Derived(db, db'),
           viv'.cr = viv.cr, viv'.on = viv.on, searching' = searching,
           pc' = "parse" => ~viv.on,
           pc' \in VivPhases <=> pc \in VivPhases
    PROVE  CidInv'
<1>1. /\ ca \in Clauses(db) /\ db \in Log /\ ca' \in Clauses(db') /\ db' \in Log
      /\ viv.cr # CRef_Undef => viv.cr \in DOMAIN ca
  BY Types, TypesAfter
<1>2. Coherent(ca', db')
  BY <1>1, SameStep DEF CidInv
<1>3. viv.cr # CRef_Undef =>
         ca'[viv.cr].freed = ca[viv.cr].freed /\ Len(ca'[viv.cr].lits) = Len(ca[viv.cr].lits)
  BY <1>1 DEF SameClauses, Permuted
<1>4. InHandOK'
  BY <1>3 DEF InHandOK, CidInv, CRef_Undef
<1> QED
  BY <1>2, <1>4 DEF CidInv

LEMMA LogSame == ASSUME TypeOK PROVE Derived(db, db) /\ SameClauses(ca, ca)
BY Types, DerivedSelf, SameSelf

(* Other literals are stored for one clause.                               *)
LEMMA StoreSame ==
    ASSUME NEW d \in Log, NEW c \in Clauses(d), NEW cr, NEW q,
           cr \in DOMAIN c => Permuted(c[cr].lits, q)
    PROVE  SameClauses(c, [c EXCEPT ![cr].lits = q])
<1> DEFINE c2 == [c EXCEPT ![cr].lits = q]
<1>1. \A k \in DOMAIN c : c[k] \in ClauseRecord(d)
  BY ClauseTypes
<1>2. \A x \in ClauseRecord(d) : LET y == [x EXCEPT !.lits = q]
                                 IN  y.cid = x.cid /\ y.freed = x.freed /\ y.lits = q
  BY DEF ClauseRecord
<1>3. DOMAIN c2 = DOMAIN c
  OBVIOUS
<1>4. ASSUME NEW k \in DOMAIN c
      PROVE  /\ c2[k].cid = c[k].cid /\ c2[k].freed = c[k].freed
             /\ Permuted(c[k].lits, c2[k].lits)
  <2>1. CASE k = cr
    <3>1. c2[k] = [c[k] EXCEPT !.lits = q]
      BY <2>1
    <3> HIDE DEF c2
    <3> QED
      BY <1>1, <1>2, <2>1, <3>1
  <2>2. CASE k # cr
    BY <2>2 DEF Permuted
  <2> QED
    BY <2>1, <2>2
<1> QED
  BY <1>3, <1>4 DEF SameClauses

(* The origin of a clause is never a deletion.                             *)
LEMMA NotDeletion ==
    ASSUME NEW a, NEW lits
    PROVE  /\ ~IsDelete(Resolvent(a, lits, GetOrigin(a)))
           /\ ~IsDelete(Resolvent(a, lits, "REDUNDANT"))
           /\ \A o : Resolvent(a, lits, o).lits = lits
BY DEF IsDelete, Resolvent, GetOrigin

(* What the log gets in one step, seen from its end.                       *)
LEMMA DerivedOne ==
    ASSUME NEW d \in Log, NEW r, ~IsDelete(r), NEW d2 \in Log, d2 = Append(d, r)
    PROVE  Derived(d, d2) /\ Len(d2) = Len(d) + 1 /\ d2[Len(d) + 1] = r
<1>1. Len(d) \in Nat
  BY LogTypes
<1>2. d \in Seq(RecordType \cup {r})
  BY DEF Log
<1>3. Len(d2) = Len(d) + 1 /\ d2[Len(d) + 1] = r /\ \A i \in 1 .. Len(d) : d2[i] = d[i]
  BY <1>2, AppendProperties
<1>4. \A i \in Len(d) + 1 .. Len(d2) : i = Len(d) + 1
  BY <1>1, <1>3
<1> QED
  BY <1>1, <1>3, <1>4 DEF Derived

(* uncheckedEnqueue adds at most the record of a unit.                     *)
LEMMA EnqueueDerived ==
    ASSUME NEW d \in Log, NEW p, NEW lvl, NEW from, NEW a, db' \in Log,
           analyzeEnqueuePropagation(p, lvl, from, d, a)
    PROVE  Derived(d, db')
<1>1. CASE db' = d
  BY <1>1, DerivedSelf
<1>2. ASSUME NEW r, ~IsDelete(r), db' = Append(d, r)
      PROVE  Derived(d, db')
  BY <1>2, DerivedOne
<1>3. db' = d \/ \E r : ~IsDelete(r) /\ db' = Append(d, r)
  BY NotDeletion DEF analyzeEnqueuePropagation
<1> QED
  BY <1>1, <1>2, <1>3

-----------------------------------------------------------------------------
(* The place of the first literal of the highest level.                    *)
LEMMA TopPlace ==
    ASSUME NEW I \in SUBSET Nat, I # {}, IsFiniteSet(I), NEW f \in [I -> Nat]
    PROVE  LET top == Max({f[j] : j \in I})
               m == Min({k \in I : f[k] = top})
           IN  m \in I /\ f[m] = top /\ \A j \in I : f[j] <= top
<1> DEFINE S == {f[j] : j \in I}
           K == {k \in I : f[k] = Max(S)}
<1>1. S \in SUBSET Nat /\ S # {}
  OBVIOUS
<1>2. IsFiniteSet(S)
  <2>1. f \in Surjection(I, S)
    BY DEF Surjection
  <2> HIDE DEF S
  <2> QED
    BY <2>1, FS_Surjection
<1>3. Max(S) \in S /\ \A y \in S : y <= Max(S)
  <2> HIDE DEF S
  <2> QED
    BY <1>1, <1>2, GreatestOf
<1>4. K \in SUBSET Nat /\ K # {}
  BY <1>3
<1>5. Min(K) \in K
  <2> HIDE DEF K
  <2> QED
    BY <1>4, LeastOf
<1> QED
  BY <1>3, <1>5

LEMMA LevelType == ASSUME TypeOK, NEW l \in Lits PROVE level(l) \in Nat
<1>1. NumVars \in Nat
  BY NumVarsAssumption
<1>2. Var(l) \in Vars
  BY <1>1 DEF Lits, Var, Vars
<1>3. vardata \in [Vars -> [reason : CRefs \cup {CRef_Undef}, level : Nat]]
  BY DEF TypeOK
<1> QED
  BY <1>2, <1>3 DEF level

LEMMA TopLevelPlace ==
    ASSUME TypeOK, NEW q, IsSeq(q), ToSet(q) \subseteq Lits,
           NEW I \in SUBSET (1 .. Len(q)), I # {}
    PROVE  LET top == Max({level(q[j]) : j \in I})
               m == Min({k \in I : level(q[k]) = top})
           IN  m \in I /\ level(q[m]) = top /\ \A j \in I : level(q[j]) <= top
<1>1. Len(q) \in Nat /\ DOMAIN q = 1 .. Len(q)
  BY DEF IsSeq
<1>2. I \in SUBSET Nat /\ IsFiniteSet(I)
  <2>1. IsFiniteSet(1 .. Len(q))
    BY <1>1, FS_Interval
  <2>2. IsFiniteSet(I)
    BY <2>1, FS_Subset
  <2> QED
    BY <1>1, <2>2
<1>3. \A k \in I : q[k] \in Lits
  BY <1>1 DEF ToSet
<1> DEFINE f == [k \in I |-> level(q[k])]
<1>4. f \in [I -> Nat]
  BY <1>3, LevelType
<1>5. \A k \in I : f[k] = level(q[k])
  OBVIOUS
<1> HIDE DEF f
<1> DEFINE top == Max({f[j] : j \in I})
           m == Min({k \in I : f[k] = top})
<1>6. m \in I /\ f[m] = top /\ \A j \in I : f[j] <= top
  BY <1>2, <1>4, TopPlace
<1>7. {f[j] : j \in I} = {level(q[j]) : j \in I}
  BY <1>5
<1>8. {k \in I : f[k] = Max({f[j] : j \in I})} = {k \in I : level(q[k]) = Max({level(q[j]) : j \in I})}
  BY <1>5, <1>7
<1> QED
  BY <1>5, <1>6, <1>7, <1>8

-----------------------------------------------------------------------------
(* propagate.                                                              *)
LEMMA ImplyDerived ==
    ASSUME TypeOK, TypeOK', NEW p, NEW lvl, NEW from, Imply(p, lvl, from)
    PROVE  Derived(db, db')
<1>1. CASE Simple
  BY <1>1, LogSame DEF Imply, simpleUncheckEnqueue, tracerVars
<1>2. CASE ~Simple
  BY <1>2, Types, TypesAfter, EnqueueDerived DEF Imply, uncheckedEnqueue
<1> QED
  BY <1>1, <1>2

LEMMA ClauseSeq ==
    ASSUME TypeOK, NEW cr \in DOMAIN ca
    PROVE  IsSeq(ca[cr].lits) /\ ToSet(ca[cr].lits) \subseteq Lits /\ ca[cr].lits \in LitSeq
<1>1. ca[cr].lits \in Seq(Lits)
  BY Types, ClauseTypes DEF LitSeq
<1> QED
  BY <1>1 DEF IsSeq, ToSet, LitSeq

LEMMA NormalizedPermuted ==
    ASSUME TypeOK, longWatcher.cref \in DOMAIN ca
    PROVE  Permuted(ca[longWatcher.cref].lits, normalized) /\ IsSeq(normalized)
<1> DEFINE c == ca[longWatcher.cref].lits
<1>1. IsSeq(c) /\ Len(c) \in Nat
  BY ClauseSeq DEF LitSeq
<1>2. normalized = IF c[1] = -prop.lit THEN SwapAt(c, 1, 2) ELSE c
  BY DEF normalized
<1> HIDE DEF c
<1>3. Permuted(c, SwapAt(c, 1, 2)) /\ IsSeq(SwapAt(c, 1, 2))
  <2>1. Len(c) > 1 => 1 \in 1 .. Len(c) /\ 2 \in 1 .. Len(c)
    BY <1>1
  <2> QED
    BY <1>1, <2>1, SwapPermuted
<1>4. Permuted(c, c)
  BY DEF Permuted
<1> QED
  BY <1>1, <1>2, <1>3, <1>4 DEF c

LEMMA StoreLitsSame ==
    ASSUME TypeOK, NEW q, StoreLits(q),
           longWatcher.cref \in DOMAIN ca => Permuted(ca[longWatcher.cref].lits, q)
    PROVE  SameClauses(ca, ca')
BY Types, StoreSame DEF StoreLits

LEMMA NewWatchPermuted ==
    ASSUME TypeOK, longWatcher.cref \in DOMAIN ca, NewWatches # {}
    PROVE  Permuted(ca[longWatcher.cref].lits, SwapAt(normalized, 2, Min(NewWatches)))
<1>1. Permuted(ca[longWatcher.cref].lits, normalized) /\ IsSeq(normalized)
  BY NormalizedPermuted
<1>2. Len(normalized) \in Nat
  BY <1>1 DEF IsSeq
<1>3. NewWatches \in SUBSET Nat /\ NewWatches \subseteq 3 .. Len(normalized)
  BY <1>2 DEF NewWatches
<1>4. Min(NewWatches) \in 3 .. Len(normalized)
  BY <1>3, LeastOf
<1>5. 2 \in 1 .. Len(normalized) /\ Min(NewWatches) \in 1 .. Len(normalized)
  BY <1>2, <1>4
<1> QED
  BY <1>1, <1>5, SwapPermuted, PermutedTrans

LEMMA MaxLevelPermuted ==
    ASSUME TypeOK, longWatcher.cref \in DOMAIN ca
    PROVE  LET others == 2 .. Len(normalized)
               maxLevel == Max({level(normalized[k]) : k \in others})
               maxInd == Min({k \in others : level(normalized[k]) = maxLevel})
           IN  Permuted(ca[longWatcher.cref].lits, SwapAt(normalized, 2, maxInd))
<1> DEFINE others == 2 .. Len(normalized)
           maxLevel == Max({level(normalized[k]) : k \in others})
           maxInd == Min({k \in others : level(normalized[k]) = maxLevel})
           n == Len(normalized)
<1>1. Permuted(ca[longWatcher.cref].lits, normalized) /\ IsSeq(normalized)
  BY NormalizedPermuted
<1>2. n \in Nat
  BY <1>1 DEF IsSeq
<1>3. ASSUME n > 1
      PROVE  2 \in 1 .. n /\ maxInd \in 1 .. n
  <2>1. others \in SUBSET (1 .. n) /\ 2 \in others
    BY <1>2, <1>3
  <2>2. ToSet(normalized) \subseteq Lits
    BY <1>1, <1>3, ClauseSeq DEF Permuted
  <2>3. maxInd \in others
    <3> HIDE DEF others
    <3> QED
      BY <1>1, <2>1, <2>2, TopLevelPlace
  <2> HIDE DEF maxInd
  <2> QED
    BY <2>1, <2>3
<1> HIDE DEF maxInd
<1>4. Permuted(normalized, SwapAt(normalized, 2, maxInd))
  BY <1>1, <1>3, SwapPermuted
<1>5. Permuted(ca[longWatcher.cref].lits, SwapAt(normalized, 2, maxInd))
  BY <1>1, <1>4, PermutedTrans
<1> QED
  BY <1>5 DEF maxInd

LEMMA PropagateCid ==
    ASSUME TypeOK, TypeOK', CidInv, propagate, UNCHANGED analysisVars, UNCHANGED vivifyVars
    PROVE  CidInv'
<1> USE DEF vivifyVars, analysisVars, clauseVars, tracerVars
<1>1. CASE propagateBegin
  BY <1>1, LogSame, QuietStep DEF propagateBegin, VivPhases
<1>2. CASE propagateDequeue
  BY <1>2, LogSame, QuietStep DEF propagateDequeue, Propagating, Simple, VivPhases
<1>3. CASE propagateNext
  BY <1>3, LogSame, QuietStep DEF propagateNext, Scanning, Propagating, Simple, VivPhases
<1>4. CASE binarySatisfied
  BY <1>4, LogSame, QuietStep
     DEF binarySatisfied, ScanningBinary, Scanning, Propagating, Simple, VivPhases
<1>5. CASE binaryConflict
  BY <1>5, LogSame, QuietStep
     DEF binaryConflict, ReturnConflict, ScanningBinary, Scanning, Propagating, Simple, VivPhases
<1>6. CASE binaryImplies
  <2>1. Derived(db, db')
    BY <1>6, ImplyDerived DEF binaryImplies
  <2> QED
    BY <1>6, <2>1, LogSame, QuietStep
       DEF binaryImplies, ScanningBinary, Scanning, Propagating, Simple, VivPhases
<1>7. CASE blockerTrue
  BY <1>7, LogSame, QuietStep
     DEF blockerTrue, ScanningLong, Scanning, Propagating, Simple, VivPhases
<1>8. CASE firstTrue
  <2>1. SameClauses(ca, ca')
    BY <1>8, NormalizedPermuted, StoreLitsSame DEF firstTrue
  <2> QED
    BY <1>8, <2>1, LogSame, QuietStep
       DEF firstTrue, ScanningLong, Scanning, Propagating, Simple, VivPhases
<1>9. CASE newWatch
  <2>1. SameClauses(ca, ca')
    BY <1>9, NewWatchPermuted, StoreLitsSame DEF newWatch
  <2> QED
    BY <1>9, <2>1, LogSame, QuietStep
       DEF newWatch, Unresolved, ScanningLong, Scanning, Propagating, Simple, VivPhases
<1>10. CASE longConflict
  <2>1. SameClauses(ca, ca')
    BY <1>10, NormalizedPermuted, StoreLitsSame DEF longConflict
  <2> QED
    BY <1>10, <2>1, LogSame, QuietStep
       DEF longConflict, ReturnConflict, Unresolved, ScanningLong, Scanning, Propagating,
           Simple, VivPhases
<1>11. CASE unitAtDecisionLevel
  <2>1. SameClauses(ca, ca')
    BY <1>11, NormalizedPermuted, StoreLitsSame DEF unitAtDecisionLevel
  <2>2. Derived(db, db')
    BY <1>11, ImplyDerived DEF unitAtDecisionLevel
  <2> QED
    BY <1>11, <2>1, <2>2, QuietStep
       DEF unitAtDecisionLevel, Unit, Unresolved, ScanningLong, Scanning, Propagating,
           Simple, VivPhases
<1>12. CASE unitBelowDecisionLevel
  <2>1. SameClauses(ca, ca')
    BY <1>12, MaxLevelPermuted, StoreLitsSame DEF unitBelowDecisionLevel
  <2>2. Derived(db, db')
    BY <1>12, Types, TypesAfter, EnqueueDerived DEF unitBelowDecisionLevel, uncheckedEnqueue
  <2> QED
    BY <1>12, <2>1, <2>2, QuietStep
       DEF unitBelowDecisionLevel, Unit, Unresolved, ScanningLong, Scanning, Propagating,
           Simple, VivPhases
<1> QED
  BY <1>1, <1>2, <1>3, <1>4, <1>5, <1>6, <1>7, <1>8, <1>9, <1>10, <1>11, <1>12 DEF propagate

-----------------------------------------------------------------------------
(* Conflicts.                                                              *)
LEMMA ImpliedFirstPermuted ==
    ASSUME TypeOK, NEW cr \in DOMAIN ca
    PROVE  Permuted(ca[cr].lits, ImpliedFirst(ca[cr].lits))
<1> DEFINE s == ca[cr].lits
<1>1. IsSeq(s)
  BY ClauseSeq
<1>2. Permuted(s, s)
  BY DEF Permuted
<1> HIDE DEF s
<1>3. ASSUME Len(s) = 2
      PROVE  Permuted(s, SwapAt(s, 1, 2))
  <2>1. 1 \in 1 .. Len(s) /\ 2 \in 1 .. Len(s)
    BY <1>3
  <2> QED
    BY <1>1, <2>1, SwapPermuted
<1>4. Permuted(s, ImpliedFirst(s))
  BY <1>2, <1>3 DEF ImpliedFirst
<1> QED
  BY <1>4 DEF s

LEMMA HighestPermuted ==
    ASSUME TypeOK, confl \in DOMAIN ca, ~BothAtDecisionLevel
    PROVE  Permuted(conflLits, SwapAt(conflLits, 1, highestId))
<1> DEFINE q == conflLits
           n == Len(q)
           I == 1 .. n
<1>1. IsSeq(q) /\ ToSet(q) \subseteq Lits
  BY ClauseSeq DEF conflLits
<1>2. highestId = Min({k \in DOMAIN q : level(q[k]) = Max({level(l) : l \in ToSet(q)})})
  BY DEF highestId, nHighestLevel, MaxLevelOf
<1> HIDE DEF q
<1>3. n \in Nat /\ DOMAIN q = I
  BY <1>1 DEF IsSeq
<1>4. {level(l) : l \in ToSet(q)} = {level(q[j]) : j \in I}
  BY <1>3 DEF ToSet
<1>5. highestId = Min({k \in I : level(q[k]) = Max({level(q[j]) : j \in I})})
  BY <1>2, <1>3, <1>4
<1>6. ASSUME n > 1
      PROVE  1 \in I /\ highestId \in I
  <2>1. 1 \in I /\ I \in SUBSET (1 .. Len(q))
    BY <1>3, <1>6
  <2> HIDE DEF I
  <2>2. highestId \in I
    BY <1>1, <1>5, <2>1, TopLevelPlace
  <2> QED
    BY <2>1, <2>2
<1>7. Permuted(q, SwapAt(q, 1, highestId))
  <2>1. Len(q) > 1 => 1 \in 1 .. Len(q) /\ highestId \in 1 .. Len(q)
    BY <1>6
  <2> QED
    BY <1>1, <2>1, SwapPermuted
<1> QED
  BY <1>7 DEF q

LEMMA HighestFirstSame ==
    ASSUME TypeOK, HighestFirst
    PROVE  SameClauses(ca, ca')
<1>1. CASE BothAtDecisionLevel
  BY <1>1, LogSame DEF HighestFirst
<1>2. CASE ~BothAtDecisionLevel
  <2>1. ca' = [ca EXCEPT ![confl].lits = SwapAt(conflLits, 1, highestId)]
    BY <1>2 DEF HighestFirst
  <2>2. confl \in DOMAIN ca => Permuted(ca[confl].lits, SwapAt(conflLits, 1, highestId))
    BY <1>2, HighestPermuted DEF conflLits
  <2> QED
    BY <2>1, <2>2, StoreSame, Types
<1> QED
  BY <1>1, <1>2

LEMMA AnswerDerived ==
    ASSUME TypeOK, TypeOK', AnswerUnsat
    PROVE  Derived(db, db')
BY Types, TypesAfter, NotDeletion, DerivedOne DEF AnswerUnsat

LEMMA RedundantSame ==
    ASSUME TypeOK, StoreRedundant
    PROVE  SameClauses(ca, ca')
BY Types, ImpliedFirstPermuted, StoreSame DEF StoreRedundant, redundantLits

(* The clause in hand, when the clauses there were stay as they are.       *)
LEMMA InHandStep ==
    ASSUME TypeOK, InHandOK,
           \A k \in DOMAIN ca : ca'[k] = ca[k],
           viv'.cr = viv.cr, viv'.on = viv.on, searching' = searching,
           pc' = "parse" => ~viv.on,
           pc' \in VivPhases <=> pc \in VivPhases
    PROVE  InHandOK'
<1>1. viv.cr # CRef_Undef => ca'[viv.cr] = ca[viv.cr]
  BY Types
<1> QED
  BY <1>1 DEF InHandOK, CRef_Undef

LEMMA AppendClause ==
    ASSUME NEW d \in Log, NEW c \in Clauses(d), NEW e
    PROVE  \A k \in DOMAIN c : Append(c, e)[k] = c[k]
<1>1. c \in Seq(ClauseRecord(d) \cup {e})
  BY DEF Clauses
<1> QED
  BY <1>1

LEMMA LearnClauseCid ==
    ASSUME TypeOK, TypeOK', CidInv, learnClause, UNCHANGED vivifyVars
    PROVE  CidInv'
<1> DEFINE r == Resolvent(an, learnt, GetOrigin(an))
           d == Append(db, r)
           e == NewClause(learnt, TRUE, Len(db) + 1)
<1>1. /\ ca \in Clauses(db) /\ db \in Log /\ ca' \in Clauses(db') /\ db' \in Log
      /\ Len(ca) \in Nat
  BY Types, TypesAfter
<1>2. ca' = Append(ca, e)
  BY DEF learnClause
<1>3. e.lits = learnt /\ e.cid = Len(db) + 1 /\ e.freed = FALSE
  BY DEF NewClause
<1>4. learnt \in LitSeq
  <2>1. ca' \in Seq(ClauseRecord(db'))
    BY <1>1 DEF Clauses
  <2>2. Len(ca') = Len(ca) + 1 /\ ca'[Len(ca) + 1] = e
    <3> HIDE DEF e
    <3>1. ca \in Seq(ClauseRecord(db) \cup {e})
      BY <1>1 DEF Clauses
    <3> QED
      BY <1>2, <3>1
  <2>3. e \in ClauseRecord(db')
    <3> HIDE DEF e
    <3> QED
      BY <1>1, <2>1, <2>2
  <2> QED
    BY <1>3, <2>3 DEF ClauseRecord
<1>5. r \in RecordType /\ ~IsDelete(r) /\ r.lits = learnt
  <2>1. an.hints \in Seq(Nat) /\ an.units \in Seq(Nat)
    <3>1. an.hints \in Seq(DOMAIN db) /\ an.units \in Seq(DOMAIN db)
      BY DEF TypeOK
    <3>2. DOMAIN db \subseteq Nat
      BY <1>1, LogTypes
    <3> QED
      BY <3>1, <3>2
  <2>2. an.hints \o an.units \in Seq(Nat)
    BY <2>1, ConcatProperties
  <2>3. GetOrigin(an) \in ClauseOrigin
    BY DEF GetOrigin, ClauseOrigin
  <2> QED
    BY <1>4, <2>2, <2>3, NotDeletion DEF Resolvent, RecordType
<1> HIDE DEF r, e
<1>6. d \in Log /\ Derived(db, d) /\ Len(d) = Len(db) + 1 /\ d[Len(db) + 1] = r
  BY <1>1, <1>5, DerivedAppend
<1>7. Derived(d, db')
  <2>1. analyzeEnqueuePropagation(learnt[1], ana.btlevel, Len(ca) + 1, d, NoHints)
    BY DEF learnClause, uncheckedEnqueue, r
  <2> HIDE DEF d
  <2> QED
    BY <1>1, <1>6, <2>1, EnqueueDerived
<1> HIDE DEF d
<1>8. Derived(db, db')
  BY <1>1, <1>6, <1>7, DerivedTrans
<1>9. Len(db) + 1 \in Len(db) + 1 .. Len(db') /\ db'[Len(db) + 1] = r
  <2>1. Len(db) \in Nat /\ Len(db') \in Nat /\ Len(d) <= Len(db')
    BY <1>1, <1>7, LogTypes DEF Derived
  <2> QED
    BY <1>6, <1>7, <2>1 DEF Derived
<1>10. Coherent(ca', db')
  <2>1. ToSet(db'[e.cid].lits) = ToSet(e.lits)
    BY <1>3, <1>5, <1>9
  <2>2. e.cid \in Len(db) + 1 .. Len(db') /\ ~e.freed
    BY <1>3, <1>9
  <2> QED
    BY <1>1, <1>2, <1>8, <2>1, <2>2, NewStep DEF CidInv
<1>11. InHandOK'
  <2>1. \A k \in DOMAIN ca : ca'[k] = ca[k]
    BY <1>1, <1>2, AppendClause
  <2> QED
    BY <2>1, InHandStep DEF learnClause, learnFrame, vivifyVars, CidInv, VivPhases
<1> QED
  BY <1>10, <1>11 DEF CidInv

LEMMA ConflictCid ==
    ASSUME TypeOK, TypeOK', CidInv, conflictHandling, UNCHANGED vivifyVars
    PROVE  CidInv'
<1> USE DEF vivifyVars, clauseVars, tracerVars, VivPhases
<1>1. CASE levelZeroConflict
  <2>1. Derived(db, db')
    BY <1>1, AnswerDerived DEF levelZeroConflict
  <2> QED
    BY <1>1, <2>1, LogSame, QuietStep DEF levelZeroConflict, AnswerUnsat
<1>2. CASE searchLevelZeroConflict
  <2>1. Derived(db, db') /\ SameClauses(ca, ca')
    BY <1>2, AnswerDerived, HighestFirstSame DEF searchLevelZeroConflict
  <2> QED
    BY <1>2, <2>1, QuietStep DEF searchLevelZeroConflict, AnswerUnsat
<1>3. CASE singleHighest
  <2>1. SameClauses(ca, ca')
    BY <1>3, HighestFirstSame DEF singleHighest
  <2> QED
    BY <1>3, <2>1, LogSame, QuietStep DEF singleHighest
<1>4. CASE analyzeBegin
  <2>1. SameClauses(ca, ca')
    BY <1>4, HighestFirstSame DEF analyzeBegin
  <2> QED
    BY <1>4, <2>1, LogSame, QuietStep DEF analyzeBegin
<1>5. CASE analyzeResolve
  <2> DEFINE c == IF ana.p = 0 THEN conflLits ELSE ImpliedFirst(conflLits)
  <2>1. ca' = [ca EXCEPT ![confl].lits = c] /\ db' = db /\ searching' = searching
    BY <1>5 DEF analyzeResolve
  <2>2. pc = "analyze" /\ pc' \in {"analyze", "minimize"}
    BY <1>5 DEF analyzeResolve
  <2>3. confl \in DOMAIN ca => Permuted(ca[confl].lits, c)
    BY ImpliedFirstPermuted DEF conflLits, Permuted
  <2> HIDE DEF c
  <2>4. SameClauses(ca, ca')
    BY <2>1, <2>3, StoreSame, Types
  <2> QED
    BY <2>1, <2>2, <2>4, LogSame, QuietStep
<1>6. CASE minimizeKeep
  BY <1>6, LogSame, QuietStep DEF minimizeKeep, minimizeFrame, Minimizing
<1>7. CASE litRedundantBegin
  BY <1>7, LogSame, QuietStep DEF litRedundantBegin, minimizeFrame, Minimizing
<1>8. CASE litRedundantStep
  <2>1. SameClauses(ca, ca')
    BY <1>8, RedundantSame DEF litRedundantStep
  <2> QED
    BY <1>8, <2>1, LogSame, QuietStep DEF litRedundantStep, minimizeFrame
<1>9. CASE litRedundantTrue
  BY <1>9, LogSame, QuietStep DEF litRedundantTrue, minimizeFrame
<1>10. CASE litRedundantFalse
  <2>1. SameClauses(ca, ca')
    BY <1>10, RedundantSame DEF litRedundantFalse
  <2> QED
    BY <1>10, <2>1, LogSame, QuietStep DEF litRedundantFalse, minimizeFrame
<1>11. CASE minimizeBasic
  BY <1>11, LogSame, QuietStep DEF minimizeBasic, minimizeFrame, Minimizing
<1>12. CASE analyzeEnd
  BY <1>12, LogSame, QuietStep DEF analyzeEnd, minimizeFrame
<1>13. CASE backtrack
  BY <1>13, LogSame, QuietStep DEF backtrack, analysisVars
<1>14. CASE learnUnit
  <2>1. Derived(db, db')
    BY <1>14, Types, TypesAfter, EnqueueDerived DEF learnUnit, uncheckedEnqueue
  <2> QED
    BY <1>14, <2>1, LogSame, QuietStep DEF learnUnit, learnFrame
<1>15. CASE learnClause
  BY <1>15, LearnClauseCid
<1> QED
  BY <1>1, <1>2, <1>3, <1>4, <1>5, <1>6, <1>7, <1>8, <1>9, <1>10, <1>11, <1>12, <1>13, <1>14, <1>15
     DEF conflictHandling

-----------------------------------------------------------------------------
(* Removed clauses.                                                        *)
LEMMA RemoveCid ==
    ASSUME TypeOK, TypeOK', CidInv, NEW crs \in Seq(CRefs), removeClauses(crs),
           viv.cr = CRef_Undef, viv'.cr = viv.cr, viv'.on = viv.on, searching' = searching, pc' = pc
    PROVE  CidInv'
<1>1. Coherent(ca', db')
  <2> DEFINE c2 == ca'
             d2 == db'
  <2>1. db' = db \o [i \in DOMAIN crs |-> DeleteRecord(ca[crs[i]].cid)]
    BY DEF removeClauses, Deletions
  <2>2. ca' = [cr \in DOMAIN ca |-> [ca[cr] EXCEPT !.freed = @ \/ cr \in ToSet(crs)]]
    BY DEF removeClauses, Freed, CRefs
  <2>3. Removed(ca, c2, db, d2, crs)
    BY <2>1, <2>2 DEF Removed
  <2>4. /\ crs \in Seq(DOMAIN ca) /\ Coherent(ca, db)
        /\ db \in Log /\ ca \in Clauses(db)
    BY Types DEF CRefs, CidInv
  <2> HIDE DEF c2, d2
  <2>5. Coherent(c2, d2)
    BY ONLY <2>3, <2>4, RemovalStep
  <2> QED
    BY <2>5 DEF c2, d2
<1>2. InHandOK'
  BY DEF InHandOK, CidInv, CRef_Undef
<1> QED
  BY <1>1, <1>2 DEF CidInv

(* Vivification: a clause is given other literals, and another record.     *)
Changed(c, c2, cr, q, n) ==
    /\ DOMAIN c2 = DOMAIN c /\ \A k \in DOMAIN c : k # cr => c2[k] = c[k]
    /\ c2[cr].lits = q /\ c2[cr].cid = n /\ c2[cr].freed = c[cr].freed

LEMMA ExceptLits ==
    ASSUME NEW d \in Log, NEW c \in Clauses(d), NEW cr \in DOMAIN c, NEW q,
           NEW c2, c2 = [c EXCEPT ![cr].lits = q]
    PROVE  Changed(c, c2, cr, q, c[cr].cid)
<1> DEFINE x == c[cr]
           y == [x EXCEPT !.lits = q]
<1>1. x \in ClauseRecord(d)
  BY ClauseTypes
<1>2. y.lits = q /\ y.cid = x.cid /\ y.freed = x.freed
  <2> HIDE DEF x
  <2> QED
    BY <1>1 DEF ClauseRecord
<1>3. /\ DOMAIN c2 = DOMAIN c /\ c2[cr] = y /\ \A k \in DOMAIN c : k # cr => c2[k] = c[k]
  OBVIOUS
<1> HIDE DEF y
<1> QED
  BY <1>2, <1>3 DEF Changed

LEMMA ExceptLitsCid ==
    ASSUME NEW d \in Log, NEW c \in Clauses(d), NEW cr \in DOMAIN c, NEW q, NEW n,
           NEW c2, c2 = [c EXCEPT ![cr].lits = q, ![cr].cid = n]
    PROVE  Changed(c, c2, cr, q, n)
<1> DEFINE x == c[cr]
           y == [x EXCEPT !.lits = q]
           z == [y EXCEPT !.cid = n]
<1>1. x \in ClauseRecord(d)
  BY ClauseTypes
<1>2. z.lits = q /\ z.cid = n /\ z.freed = x.freed
  <2> HIDE DEF x
  <2> QED
    BY <1>1 DEF ClauseRecord
<1>3. /\ DOMAIN c2 = DOMAIN c /\ c2[cr] = z /\ \A k \in DOMAIN c : k # cr => c2[k] = c[k]
  OBVIOUS
<1> HIDE DEF z
<1> QED
  BY <1>2, <1>3 DEF Changed

LEMMA ReplaceFields ==
    ASSUME NEW d \in Log, NEW d2 \in Log, NEW c \in Clauses(d), Coherent(c, d),
           NEW cr \in DOMAIN c, ~c[cr].freed, NEW r, ~IsDelete(r), NEW q, r.lits = q,
           Superseded(d, d2, r, c[cr].cid),
           NEW c2, Renumbered(c, c2, cr, q, Len(d) + 1)
    PROVE  Coherent(c2, d2) /\ ~c2[cr].freed
<1>1. Changed(c, c2, cr, q, Len(d) + 1)
  BY ExceptLitsCid DEF Renumbered
<1>2. /\ DOMAIN c2 = DOMAIN c /\ \A k \in DOMAIN c : k # cr => c2[k] = c[k]
      /\ c2[cr].lits = r.lits /\ c2[cr].cid = Len(d) + 1 /\ ~c2[cr].freed
  BY <1>1 DEF Changed
<1>3. Coherent(c2, d2)
  BY ONLY <1>2, ReplaceStep, d \in Log, d2 \in Log, c \in Clauses(d), Coherent(c, d),
          cr \in DOMAIN c, ~c[cr].freed, ~IsDelete(r), Superseded(d, d2, r, c[cr].cid)
<1> QED
  BY <1>2, <1>3

LEMMA ShortenFields ==
    ASSUME NEW d \in Log, NEW c \in Clauses(d), Coherent(c, d),
           NEW cr \in DOMAIN c, ~c[cr].freed, NEW q, ~(Len(q) > 1),
           NEW c2, c2 = [c EXCEPT ![cr].lits = q]
    PROVE  Coherent(c2, d) /\ ~c2[cr].freed /\ c2[cr].lits = q
<1>1. Changed(c, c2, cr, q, c[cr].cid)
  BY ExceptLits
<1>2. Coherent(c2, d)
  BY <1>1, ShortStep DEF Changed
<1> QED
  BY <1>1, <1>2 DEF Changed

LEMMA SimplifyBeginCid ==
    ASSUME TypeOK, TypeOK', CidInv, simplifyBegin
    PROVE  CidInv'
<1> DEFINE Open(cr) == Selected(ca[cr].lits, LAMBDA l : ~IsFalse(l))
           Hints(cr) == AddUnitHints(AddHint(an, ca[cr].cid),
                                     UnitCidsOf(Selected(ca[cr].lits, IsFalse)))
<1>1. PICK cr \in Unsimplified :
         /\ IF Open(cr) = ca[cr].lits THEN UNCHANGED <<ca, tracerVars>>
            ELSE /\ db' = Replaced(db, Hints(cr), cr, Open(cr))
                 /\ ca' = [ca EXCEPT ![cr].lits = Open(cr), ![cr].cid = Len(db) + 1]
         /\ viv' = [viv EXCEPT !.cr = cr, !.trailRecord = Len(trail)]
  BY DEF simplifyBegin
<1> DEFINE open == Open(cr)
           r == Resolvent(Hints(cr), open, GetOrigin(Hints(cr)))
<1>2. cr \in DOMAIN ca /\ ~ca[cr].freed /\ cr # CRef_Undef
  BY Types DEF Unsimplified
<1>3. ca \in Clauses(db) /\ db \in Log /\ db' \in Log
  BY Types, TypesAfter
<1>4. viv'.cr = cr /\ viv'.on = viv.on
  BY <1>1 DEF TypeOK
<1>5. viv.on /\ viv.cr = CRef_Undef /\ pc' = "simplifyLearnt" /\ searching' = searching
  BY DEF simplifyBegin, BetweenClauses
<1>6. ~IsDelete(r) /\ r.lits = open
  <2> HIDE DEF Hints, open
  <2> QED
    BY NotDeletion
<1>7. open = ca[cr].lits \/
         (db' = db \o <<r, DeleteRecord(ca[cr].cid)>>
            /\ ca' = [ca EXCEPT ![cr].lits = open, ![cr].cid = Len(db) + 1])
  BY <1>1 DEF Replaced
<1>8. open = ca[cr].lits => ca' = ca /\ db' = db
  BY <1>1 DEF tracerVars
<1> HIDE DEF Open, Hints, open, r
<1>9. Coherent(ca', db') /\ ~ca'[cr].freed
  <2>1. CASE ca' = ca /\ db' = db
    BY <1>2, <2>1 DEF CidInv
  <2>2. CASE db' = db \o <<r, DeleteRecord(ca[cr].cid)>>
             /\ ca' = [ca EXCEPT ![cr].lits = open, ![cr].cid = Len(db) + 1]
    <3> DEFINE c2 == ca'
               d2 == db'
    <3>1. Coherent(ca, db)
      BY DEF CidInv
    <3>2. Renumbered(ca, c2, cr, open, Len(db) + 1) /\ Superseded(db, d2, r, ca[cr].cid)
      BY <2>2 DEF Renumbered, Superseded
    <3>3. d2 \in Log
      BY <1>3
    <3> HIDE DEF c2, d2
    <3>4. Coherent(c2, d2) /\ ~c2[cr].freed
      BY ONLY <1>2, <1>3, <1>6, <3>1, <3>2, <3>3, ReplaceFields
    <3> QED
      BY <3>4 DEF c2, d2
  <2> QED
    BY <1>7, <1>8, <2>1, <2>2
<1>10. InHandOK'
  BY <1>2, <1>4, <1>5, <1>9 DEF InHandOK, CidInv, VivPhases, CRef_Undef
<1> QED
  BY <1>9, <1>10 DEF CidInv

(* What a conflict or the false literals leave of the clause in hand.      *)
LEMMA ReplaceByCid ==
    ASSUME TypeOK, TypeOK', NEW lits, NEW a, NEW clauses, clauses \in Clauses(db),
           Coherent(clauses, db), viv.cr \in DOMAIN clauses, ~clauses[viv.cr].freed,
           clauses[viv.cr].cid = ca[viv.cr].cid, ReplaceBy(lits, a, clauses)
    PROVE  Coherent(ca', db') /\ ~ca'[viv.cr].freed
<1> DEFINE r == Resolvent(a, lits, GetOrigin(a))
<1>1. db \in Log /\ db' \in Log
  BY Types, TypesAfter
<1>2. CASE Len(lits) > 1
  <2>1. ca' = [clauses EXCEPT ![viv.cr].lits = lits, ![viv.cr].cid = Len(db) + 1]
    BY <1>2 DEF ReplaceBy
  <2>2. db' = db \o <<r, DeleteRecord(clauses[viv.cr].cid)>>
    BY <1>2 DEF ReplaceBy, Replaced
  <2>3. ~IsDelete(r) /\ r.lits = lits
    BY NotDeletion
  <2> DEFINE cr == viv.cr
             c2 == ca'
             d2 == db'
  <2>4. Renumbered(clauses, c2, cr, lits, Len(db) + 1)
    BY <2>1 DEF Renumbered
  <2>5. Superseded(db, d2, r, clauses[cr].cid) /\ d2 \in Log
    BY <1>1, <2>2 DEF Superseded
  <2>6. cr \in DOMAIN clauses /\ ~clauses[cr].freed
    OBVIOUS
  <2> HIDE DEF r, cr, c2, d2
  <2>7. Coherent(c2, d2) /\ ~c2[cr].freed
    BY ONLY <1>1, <2>3, <2>4, <2>5, <2>6, ReplaceFields, clauses \in Clauses(db), Coherent(clauses, db)
  <2> QED
    BY <2>7 DEF cr, c2, d2
<1>3. CASE ~(Len(lits) > 1)
  <2>1. ca' = [clauses EXCEPT ![viv.cr].lits = lits] /\ db' = db
    BY <1>3 DEF ReplaceBy
  <2> DEFINE cr == viv.cr
             c2 == ca'
  <2>2. c2 = [clauses EXCEPT ![cr].lits = lits]
    BY <2>1
  <2>3. cr \in DOMAIN clauses /\ ~clauses[cr].freed
    OBVIOUS
  <2> HIDE DEF cr, c2
  <2>4. Coherent(c2, db) /\ ~c2[cr].freed
    BY ONLY <1>1, <1>3, <2>2, <2>3, ShortenFields, clauses \in Clauses(db), Coherent(clauses, db)
  <2> QED
    BY <2>1, <2>4 DEF cr, c2
<1> QED
  BY <1>2, <1>3

LEMMA NormalizedClauses ==
    ASSUME TypeOK, NEW w
    PROVE  Normalized(w) \in Clauses(db) /\ SameClauses(ca, Normalized(w))
<1> DEFINE N == Normalized(w)
           Put(cr) == [ca[cr] EXCEPT !.lits = ImpliedFirst(ca[cr].lits)]
<1>1. /\ ca \in Clauses(db) /\ CRefs = DOMAIN ca /\ DOMAIN ca = 1 .. Len(ca) /\ Len(ca) \in Nat
      /\ \A cr \in DOMAIN ca : ca[cr] \in ClauseRecord(db)
  BY Types, ClauseTypes
<1>2. DOMAIN N = DOMAIN ca /\ \A cr \in DOMAIN ca : N[cr] = Put(cr) \/ N[cr] = ca[cr]
  BY <1>1 DEF Normalized
<1>3. ASSUME NEW cr \in DOMAIN ca
      PROVE  ImpliedFirst(ca[cr].lits) \in LitSeq /\ Permuted(ca[cr].lits, ImpliedFirst(ca[cr].lits))
  <2> DEFINE s == ca[cr].lits
  <2>1. s \in Seq(Lits)
    BY ClauseSeq DEF LitSeq
  <2> HIDE DEF s
  <2>2. ASSUME Len(s) = 2
        PROVE  SwapAt(s, 1, 2) \in Seq(Lits)
    <3>1. s \in [1 .. 2 -> Lits]
      <4>1. s \in [1 .. Len(s) -> Lits]
        BY <2>1, LenProperties
      <4> QED
        BY <2>2, <4>1
    <3>2. SwapAt(s, 1, 2) \in [1 .. 2 -> Lits]
      BY <3>1 DEF SwapAt
    <3>3. \A n \in Nat : \A q : q \in [1 .. n -> Lits] => q \in Seq(Lits)
      BY SeqDef
    <3>4. 2 \in Nat
      OBVIOUS
    <3> QED
      BY ONLY <3>2, <3>3, <3>4
  <2>3. ImpliedFirst(s) \in LitSeq
    BY <2>1, <2>2 DEF ImpliedFirst, LitSeq
  <2> QED
    BY <2>3, ImpliedFirstPermuted DEF s
<1>4. ASSUME NEW cr \in DOMAIN ca
      PROVE  /\ Put(cr) \in ClauseRecord(db) /\ Put(cr).cid = ca[cr].cid
             /\ Put(cr).freed = ca[cr].freed /\ Put(cr).lits = ImpliedFirst(ca[cr].lits)
  <2>1. \A x \in ClauseRecord(db), q \in LitSeq :
           LET y == [x EXCEPT !.lits = q]
           IN  y \in ClauseRecord(db) /\ y.cid = x.cid /\ y.freed = x.freed /\ y.lits = q
    BY DEF ClauseRecord
  <2> QED
    BY <1>1, <1>3, <2>1
<1> HIDE DEF N, Put
<1>5. N \in Clauses(db)
  <2>1. \A cr \in 1 .. Len(ca) : N[cr] \in ClauseRecord(db)
    BY <1>1, <1>2, <1>4
  <2>2. N \in [1 .. Len(ca) -> ClauseRecord(db)]
    <3>1. N = [cr \in CRefs |-> N[cr]]
      BY DEF N, Normalized
    <3> QED
      BY <1>1, <2>1, <3>1
  <2> QED
    BY <1>1, <2>2, SeqDef DEF Clauses
<1>6. SameClauses(ca, N)
  <2>1. \A cr \in DOMAIN ca : Permuted(ca[cr].lits, ca[cr].lits)
    BY DEF Permuted
  <2> QED
    BY <1>2, <1>3, <1>4, <2>1 DEF SameClauses
<1> QED
  BY <1>5, <1>6 DEF N

LEMMA SimplifyConflictCid ==
    ASSUME TypeOK, TypeOK', CidInv, simplifyConflict
    PROVE  CidInv'
<1>1. PICK lits, a, w : ReplaceBy(lits, a, Normalized(w))
  BY DEF simplifyConflict
<1>2. Normalized(w) \in Clauses(db) /\ SameClauses(ca, Normalized(w))
  BY NormalizedClauses
<1>3. viv.cr \in DOMAIN ca /\ ~ca[viv.cr].freed /\ viv.on /\ ~searching
  BY Types DEF CidInv, InHandOK, simplifyConflict, VivPhases
<1>4. Coherent(Normalized(w), db)
  BY <1>2, SameStep, Types, LogSame DEF CidInv
<1> DEFINE N == Normalized(w)
<1>5. viv.cr \in DOMAIN N /\ ~N[viv.cr].freed /\ N[viv.cr].cid = ca[viv.cr].cid
  <2> HIDE DEF N
  <2> QED
    BY <1>2, <1>3 DEF SameClauses, N
<1>6. Coherent(ca', db') /\ ~ca'[viv.cr].freed
  BY <1>1, <1>2, <1>4, <1>5, ReplaceByCid
<1>7. pc' = "simplified" /\ viv' = viv /\ searching' = searching
  BY DEF simplifyConflict, shrinkFrame, vivifyVars
<1>8. InHandOK'
  BY <1>3, <1>6, <1>7 DEF InHandOK, VivPhases, CidInv, CRef_Undef, simplifyConflict
<1> QED
  BY <1>6, <1>8 DEF CidInv

LEMMA SimplifyNoConflictCid ==
    ASSUME TypeOK, TypeOK', CidInv, simplifyNoConflict
    PROVE  CidInv'
<1>1. viv.cr \in DOMAIN ca /\ ~ca[viv.cr].freed /\ viv.on /\ ~searching
  BY Types DEF CidInv, InHandOK, simplifyNoConflict, VivPhases
<1>2. pc' = "simplified" /\ viv' = viv /\ searching' = searching
  BY DEF simplifyNoConflict, shrinkFrame, vivifyVars
<1>3. Coherent(ca', db') /\ ~ca'[viv.cr].freed
  <2>1. CASE viv.falseLit = <<>>
    BY <1>1, <2>1 DEF simplifyNoConflict, CidInv
  <2>2. CASE viv.falseLit # <<>>
    <3>1. ReplaceBy(viv.kept, analyzeFalseLits.hints, ca)
      BY <2>2 DEF simplifyNoConflict
    <3> QED
      BY <1>1, <3>1, Types, ReplaceByCid DEF CidInv
  <2> QED
    BY <2>1, <2>2
<1>4. InHandOK'
  BY ONLY <1>1, <1>2, <1>3, Types, TypeOK DEF InHandOK, VivPhases
<1> QED
  BY <1>3, <1>4 DEF CidInv

LEMMA VivifyCid ==
    ASSUME TypeOK, TypeOK', CidInv, simplifyAll
    PROVE  CidInv'
<1> USE DEF clauseVars, trailVars, tracerVars, vivifyVars, vivifyFrame
<1>1. CASE simplifySatisfied
  <2>1. PICK cr \in Unsimplified : removeClauses(<<cr>>)
    BY <1>1 DEF simplifySatisfied
  <2>2. <<cr>> \in Seq(CRefs)
    BY DEF Unsimplified
  <2> QED
    BY <1>1, <2>1, <2>2, RemoveCid DEF simplifySatisfied, BetweenClauses
<1>2. CASE simplifyBegin
  BY <1>2, SimplifyBeginCid
<1>3. CASE simplifyAllDone
  <2>1. ca' = ca /\ db' = db /\ viv' = NotVivifying /\ pc' = "clean"
    BY <1>3 DEF simplifyAllDone
  <2> QED
    BY <2>1 DEF CidInv, InHandOK, NotVivifying, VivPhases, CRef_Undef
<1>4. CASE assumeFalse
  <2>1. viv'.cr = viv.cr /\ viv'.on = viv.on
    BY <1>4 DEF assumeFalse, TypeOK
  <2> QED
    BY <1>4, <2>1, LogSame, QuietStep DEF assumeFalse, NextLiteral, simpleUncheckEnqueue, VivPhases
<1>5. CASE simplePropagateDone
  BY <1>5, LogSame, QuietStep DEF simplePropagateDone, Simple, VivPhases
<1>6. CASE literalFalse
  <2>1. viv'.cr = viv.cr /\ viv'.on = viv.on
    BY <1>6 DEF literalFalse, TypeOK
  <2> QED
    BY <1>6, <2>1, LogSame, QuietStep DEF literalFalse, NextLiteral, VivPhases
<1>7. CASE literalTrue
  <2>1. viv'.cr = viv.cr /\ viv'.on = viv.on
    BY <1>7 DEF literalTrue, TypeOK
  <2> QED
    BY <1>7, <2>1, LogSame, QuietStep DEF literalTrue, NextLiteral, VivPhases
<1>8. CASE simplifyConflict
  BY <1>8, SimplifyConflictCid
<1>9. CASE simplifyNoConflict
  BY <1>9, SimplifyNoConflictCid
<1>10. CASE simplifiedAttach
  <2>1. ca' = [ca EXCEPT ![viv.cr].simplified = TRUE] /\ db' = db
    BY <1>10 DEF simplifiedAttach
  <2>2. SameClauses(ca, ca')
    <3>1. \A x \in ClauseRecord(db) : LET y == [x EXCEPT !.simplified = TRUE]
                                      IN  y.cid = x.cid /\ y.freed = x.freed /\ y.lits = x.lits
      BY DEF ClauseRecord
    <3>2. \A cr \in DOMAIN ca : ca[cr] \in ClauseRecord(db)
      BY Types, ClauseTypes
    <3> QED
      BY <2>1, <3>1, <3>2 DEF SameClauses, Permuted
  <2>3. Coherent(ca', db')
    BY <2>1, <2>2, Types, LogSame, SameStep DEF CidInv
  <2>4. viv'.cr = CRef_Undef /\ ~searching' /\ pc' = "propagate"
    BY <1>10, Types DEF simplifiedAttach, NotVivifying, CidInv, InHandOK, VivPhases
  <2> QED
    BY <2>3, <2>4 DEF CidInv, InHandOK, VivPhases, CRef_Undef
<1>11. CASE simplifiedUnit
  <2>1. Derived(db, db')
    BY <1>11, Types, TypesAfter, EnqueueDerived DEF simplifiedUnit, uncheckedEnqueue
  <2>2. Coherent(ca', db')
    BY <1>11, <2>1, Types, TypesAfter, LogSame, SameStep DEF simplifiedUnit, CidInv
  <2>3. InHandOK'
    <3>1. ca' = ca /\ viv' = viv /\ searching' = searching /\ pc' = "clean" /\ pc = "simplified"
      BY <1>11 DEF simplifiedUnit
    <3>2. ~(Len(ca[viv.cr].lits) > 1)
      BY <1>11 DEF simplifiedUnit, vivLits
    <3> QED
      BY <3>1, <3>2 DEF InHandOK, CidInv, VivPhases, CRef_Undef
  <2> QED
    BY <2>2, <2>3 DEF CidInv
<1>12. CASE simplifiedUnitDone
  <2>1. ca' = [ca EXCEPT ![viv.cr].freed = TRUE] /\ db' = db /\ pc' = pc /\ pc = "propagate"
    BY <1>12 DEF simplifiedUnitDone, QueueEmpty
  <2>2. viv.cr \in DOMAIN ca /\ ~searching /\ ~(Len(ca[viv.cr].lits) > 1)
    BY <1>12, <2>1, Types DEF simplifiedUnitDone, CidInv, InHandOK, VivPhases
  <2>3. Coherent(ca', db')
    <3>1. \A x \in ClauseRecord(db) : LET y == [x EXCEPT !.freed = TRUE]
                                      IN  y.cid = x.cid /\ y.lits = x.lits /\ y.freed
      BY DEF ClauseRecord
    <3>2. ca[viv.cr] \in ClauseRecord(db) /\ ca \in Clauses(db) /\ db \in Log
      BY <2>2, Types, ClauseTypes
    <3>3. /\ DOMAIN ca' = DOMAIN ca /\ \A k \in DOMAIN ca : k # viv.cr => ca'[k] = ca[k]
          /\ ca'[viv.cr] = [ca[viv.cr] EXCEPT !.freed = TRUE]
      BY <2>1, <2>2
    <3>4. ca'[viv.cr].cid = ca[viv.cr].cid /\ ca'[viv.cr].lits = ca[viv.cr].lits /\ ca'[viv.cr].freed
      BY <3>1, <3>2, <3>3
    <3> DEFINE c2 == ca'
               cr == viv.cr
    <3>5. /\ DOMAIN c2 = DOMAIN ca /\ (\A k \in DOMAIN ca : k # cr => c2[k] = ca[k])
          /\ c2[cr].cid = ca[cr].cid /\ c2[cr].lits = ca[cr].lits
          /\ cr \in DOMAIN ca /\ ~(Len(ca[cr].lits) > 1) /\ c2[cr].freed /\ Coherent(ca, db) /\ db' = db
      BY <2>1, <2>2, <3>3, <3>4 DEF CidInv
    <3> HIDE DEF c2, cr
    <3>6. Coherent(c2, db)
      BY ONLY <3>2, <3>5, ShortStep
    <3> QED
      BY <3>5, <3>6 DEF c2
  <2>4. viv'.cr = CRef_Undef /\ searching' = searching
    BY <1>12 DEF simplifiedUnitDone, NotVivifying
  <2> QED
    BY <2>1, <2>2, <2>3, <2>4 DEF CidInv, InHandOK, VivPhases, CRef_Undef
<1> QED
  BY <1>1, <1>2, <1>3, <1>4, <1>5, <1>6, <1>7, <1>8, <1>9, <1>10, <1>11, <1>12 DEF simplifyAll

-----------------------------------------------------------------------------
(* search, between conflicts.                                              *)
LEMMA NoneInHand ==
    ASSUME CidInv, TypeOK, searching \/ pc = "parse"
    PROVE  ~viv.on /\ viv.cr = CRef_Undef
BY Types DEF CidInv, InHandOK

LEMMA EnterSearchCid ==
    ASSUME TypeOK, CidInv, searching \/ pc = "parse", ca' = ca, db' = db, enterSearch
    PROVE  CidInv'
<1>1. viv.cr = CRef_Undef
  BY NoneInHand
<1>2. viv'.cr = viv.cr /\ (viv'.on => ~searching') /\ pc' = "clean"
  BY DEF enterSearch, TypeOK
<1> QED
  BY <1>1, <1>2 DEF CidInv, InHandOK, VivPhases, CRef_Undef

LEMMA SatisfiedRefs ==
    ASSUME TypeOK, NEW isLearnt \in BOOLEAN
    PROVE  Places(Len(ca), LAMBDA cr : cr \in Present(isLearnt) /\ satisfied(cr)) \in Seq(CRefs)
<1> DEFINE S == {k \in 1 .. Len(ca) : k \in Present(isLearnt) /\ satisfied(k)}
<1>1. Len(ca) \in Nat /\ CRefs = 1 .. Len(ca)
  BY Types
<1>2. S \in SUBSET Nat /\ S \subseteq CRefs
  BY <1>1
<1>3. IsFiniteSet(S)
  <2>1. IsFiniteSet(1 .. Len(ca)) /\ S \in SUBSET (1 .. Len(ca))
    BY <1>1, FS_Interval
  <2> QED
    BY <2>1, FS_Subset
<1>4. Places(Len(ca), LAMBDA cr : cr \in Present(isLearnt) /\ satisfied(cr)) = Ascending[S]
  BY DEF Places
<1> HIDE DEF S
<1>5. Ascending[S] \in Seq(S)
  BY <1>2, <1>3, AscendingOf
<1>6. Ascending[S] \in Seq(CRefs)
  BY <1>2, <1>5
<1> QED
  BY <1>4, <1>6

LEMMA SearchCid ==
    ASSUME TypeOK, TypeOK', CidInv, search
    PROVE  CidInv'
<1> USE DEF idleFrame, Idle, QueueEmpty, budgetVars, clauseVars, tracerVars, inputVars,
            analysisVars, vivifyVars
<1>1. CASE restart
  BY <1>1, EnterSearchCid DEF restart
<1>2. CASE simplify
  <2> DEFINE Sat(isLearnt) ==
               Places(Len(ca), LAMBDA cr : cr \in Present(isLearnt) /\ satisfied(cr))
  <2>1. removeClauses(Sat(TRUE) \o Sat(FALSE))
    BY <1>2 DEF simplify
  <2>2. Sat(TRUE) \in Seq(CRefs) /\ Sat(FALSE) \in Seq(CRefs)
    BY SatisfiedRefs
  <2> HIDE DEF Sat
  <2>3. Sat(TRUE) \o Sat(FALSE) \in Seq(CRefs)
    BY <2>2, ConcatProperties
  <2>4. searching /\ viv' = viv /\ searching' = searching /\ pc' = pc
    BY <1>2 DEF simplify
  <2>5. viv.cr = CRef_Undef
    BY <2>4, NoneInHand
  <2> QED
    BY <2>1, <2>3, <2>4, <2>5, RemoveCid
<1>3. CASE reduceDB
  <2>1. PICK cr \in Present(TRUE) : removeClauses(<<cr>>)
    BY <1>3 DEF reduceDB
  <2>2. <<cr>> \in Seq(CRefs)
    BY DEF Present
  <2>3. searching /\ viv' = viv /\ searching' = searching /\ pc' = pc
    BY <1>3 DEF reduceDB
  <2>4. viv.cr = CRef_Undef
    BY <2>3, NoneInHand
  <2> QED
    BY <2>1, <2>2, <2>3, <2>4, RemoveCid
<1>4. CASE decide
  <2>1. PICK l : decideOn(l)
    BY <1>4 DEF decide
  <2>2. Derived(db, db')
    BY <2>1, Types, TypesAfter, EnqueueDerived DEF decideOn, uncheckedEnqueue
  <2> QED
    BY <1>4, <2>1, <2>2, LogSame, QuietStep DEF decide, decideOn, VivPhases
<1>5. CASE answerSat
  BY <1>5, LogSame, QuietStep DEF answerSat, answerModel, VivPhases
<1> QED
  BY <1>1, <1>2, <1>3, <1>4, <1>5 DEF search

-----------------------------------------------------------------------------
(* addClause_.                                                             *)
LEMMA LoggedDerived ==
    ASSUME TypeOK, NEW ps, NEW a, NEW r, ~IsDelete(r), db' \in Log,
           db' = Append(loggedInput(ps, a), r)
    PROVE  /\ Derived(db, db') /\ Len(db') \in Nat /\ Len(db') >= Len(db) + 1
           /\ db'[Len(db')] = r
<1> DEFINE i == Resolvent(a, sorted(ps), GetOrigin(a))
<1>1. db \in Log /\ Len(db) \in Nat /\ Len(db') \in Nat
  BY Types, LogTypes
<1>2. ~IsDelete(i)
  BY NotDeletion
<1> HIDE DEF i
<1>3. CASE loggedInput(ps, a) = db
  <2>1. Derived(db, db') /\ Len(db') = Len(db) + 1 /\ db'[Len(db) + 1] = r
    BY <1>1, <1>3, DerivedOne
  <2> QED
    BY <1>1, <2>1
<1>4. CASE loggedInput(ps, a) = Append(db, i)
  <2> DEFINE S == RecordType \cup {i, r}
             d == Append(db, i)
  <2>1. db \in Seq(S) /\ i \in S /\ r \in S
    BY <1>1 DEF Log
  <2> HIDE DEF S, d
  <2>2. d \in Seq(S) /\ Len(d) = Len(db) + 1 /\ d[Len(db) + 1] = i /\ \A k \in 1 .. Len(db) : d[k] = db[k]
    BY <2>1, AppendProperties DEF d
  <2>3. db' = Append(d, r)
    BY <1>4 DEF d
  <2>4. Len(db') = Len(d) + 1 /\ db'[Len(d) + 1] = r /\ \A k \in 1 .. Len(d) : db'[k] = d[k]
    BY <2>1, <2>2, <2>3, AppendProperties
  <2>5. Len(db') = Len(db) + 2 /\ db'[Len(db) + 2] = r /\ db'[Len(db) + 1] = i
    BY <1>1, <2>2, <2>4
  <2>6. \A k \in 1 .. Len(db) : db'[k] = db[k]
    BY <1>1, <2>2, <2>4
  <2>7. \A k \in Len(db) + 1 .. Len(db') : k = Len(db) + 1 \/ k = Len(db) + 2
    BY <1>1, <2>5
  <2>8. Derived(db, db')
    BY <1>1, <1>2, <2>5, <2>6, <2>7 DEF Derived
  <2> QED
    BY <1>1, <2>5, <2>8
<1> QED
  BY <1>3, <1>4 DEF loggedInput, i

LEMMA ParseCid ==
    ASSUME TypeOK, TypeOK', CidInv, parseClause
    PROVE  CidInv'
<1>1. PICK ps, a : addClause_(ps, a)
  BY DEF parseClause
<1>2. pc = "parse" /\ viv' = viv /\ searching' = searching
  BY DEF parseClause, addFrame, vivifyVars, analysisVars
<1>3. ~viv.on /\ viv.cr = CRef_Undef
  BY <1>2, NoneInHand
<1>4. ca \in Clauses(db) /\ db \in Log /\ ca' \in Clauses(db') /\ db' \in Log
  BY Types, TypesAfter
<1>5. ASSUME pc' \notin VivPhases, ca' = ca, Derived(db, db')
      PROVE  CidInv'
  BY <1>2, <1>3, <1>5, LogSame, QuietStep DEF VivPhases
<1>6. ASSUME pc' \notin VivPhases
      PROVE  InHandOK'
  BY <1>2, <1>3, <1>6 DEF InHandOK, CRef_Undef
<1>7. CASE addSatisfied(ps, a)
  <2>1. db' = db \o <<Resolvent(a, sorted(ps), GetOrigin(a)), DeleteRecord(Len(db) + 1)>>
    BY <1>7 DEF addSatisfied
  <2>2. ca' = ca /\ pc' = pc
    BY <1>7 DEF addSatisfied
  <2>3. Coherent(ca', db')
    BY <1>4, <2>1, <2>2, NotDeletion, UnusedStep DEF CidInv
  <2> QED
    BY <1>2, <1>6, <2>2, <2>3 DEF CidInv, VivPhases
<1>8. CASE addEmpty(ps, a)
  <2>1. PICK r : ~IsDelete(r) /\ db' = Append(loggedInput(ps, a), r)
    BY <1>8, NotDeletion DEF addEmpty
  <2>2. Derived(db, db')
    BY <1>4, <2>1, LoggedDerived
  <2> QED
    BY <1>5, <1>8, <2>2 DEF addEmpty, VivPhases
<1>9. CASE addUnit(ps, a)
  <2>1. db' = loggedInput(ps, a) \/ \E r : ~IsDelete(r) /\ db' = Append(loggedInput(ps, a), r)
    BY <1>9, NotDeletion DEF addUnit, uncheckedEnqueue, analyzeEnqueuePropagation
  <2>2. loggedInput(ps, a) = db \/ \E r : ~IsDelete(r) /\ loggedInput(ps, a) = Append(db, r)
    BY NotDeletion DEF loggedInput
  <2>3. Derived(db, db')
    <3>1. CASE db' = loggedInput(ps, a)
      BY <1>4, <2>2, <3>1, DerivedSelf, DerivedOne
    <3>2. ASSUME NEW r, ~IsDelete(r), db' = Append(loggedInput(ps, a), r)
          PROVE  Derived(db, db')
      BY <1>4, <3>2, LoggedDerived
    <3> QED
      BY <2>1, <3>1, <3>2
  <2> QED
    BY <1>5, <1>9, <2>3 DEF addUnit, VivPhases
<1>10. CASE addLonger(ps, a)
  <2> DEFINE b == inputHints(ps, a)
             lits == reduced(ps)
             r == Resolvent(b, lits, GetOrigin(b))
             e == NewClause(lits, FALSE, Len(db'))
  <2>1. db' = Append(loggedInput(ps, a), r) /\ ca' = Append(ca, e) /\ pc' = pc
    BY <1>10 DEF addLonger
  <2>2. ~IsDelete(r) /\ r.lits = lits
    <3> HIDE DEF b, lits
    <3> QED
      BY NotDeletion
  <2>3. e.lits = lits /\ e.cid = Len(db') /\ e.freed = FALSE
    BY DEF NewClause
  <2> HIDE DEF r, e, lits
  <2>4. /\ Derived(db, db') /\ Len(db') \in Nat /\ Len(db') >= Len(db) + 1
        /\ db'[Len(db')] = r
    BY <1>4, <2>1, <2>2, LoggedDerived
  <2>5. Len(db') \in Len(db) + 1 .. Len(db')
    BY <1>4, <2>4, LogTypes
  <2>6. Coherent(ca', db')
    <3>1. ToSet(db'[e.cid].lits) = ToSet(e.lits) /\ e.cid \in Len(db) + 1 .. Len(db') /\ ~e.freed
      BY <2>2, <2>3, <2>4, <2>5
    <3> QED
      BY <1>4, <2>1, <2>4, <3>1, NewStep DEF CidInv
  <2> QED
    BY <1>2, <1>6, <2>1, <2>6 DEF CidInv, VivPhases
<1> QED
  BY <1>1, <1>7, <1>8, <1>9, <1>10 DEF addClause_

-----------------------------------------------------------------------------
LEMMA InitCid == ASSUME Init PROVE CidInv
<1>1. ca = <<>> /\ db = <<>> /\ viv.cr = CRef_Undef /\ ~viv.on /\ pc = "parse" /\ ~searching
  BY DEF Init, StateInit, PropInit, ConflictInit, VivifyInit, NotVivifying
<1>2. Coherent(ca, db)
  <2>1. DOMAIN <<>> = {}
    OBVIOUS
  <2>2. DeletedCids(<<>>) = {}
    BY <2>1 DEF DeletedCids
  <2> QED
    BY <1>1, <2>1, <2>2 DEF Coherent
<1>3. InHandOK
  BY <1>1 DEF InHandOK, VivPhases
<1> QED
  BY <1>2, <1>3 DEF CidInv

LEMMA StepCid ==
    ASSUME TypeOK, TypeOK', CidInv, [Next]_vars
    PROVE  CidInv'
<1>1. CASE UNCHANGED vars
  BY <1>1, LogSame, QuietStep DEF vars, CidInv, InHandOK
<1>2. CASE parseClause
  BY <1>2, ParseCid
<1>3. CASE addUnitDone
  BY <1>3, LogSame, QuietStep
     DEF addUnitDone, QueueEmpty, clauseVars, tracerVars, vivifyVars, analysisVars, VivPhases
<1>4. CASE solve_
  BY <1>4, EnterSearchCid DEF solve_, clauseVars, tracerVars
<1>5. CASE search
  BY <1>5, SearchCid
<1>6. CASE propagate /\ UNCHANGED <<analysisVars, vivifyVars, inputFrame>>
  BY <1>6, PropagateCid
<1>7. CASE conflictHandling /\ UNCHANGED <<vivifyVars, inputFrame>>
  BY <1>7, ConflictCid
<1>8. CASE simplifyAll
  BY <1>8, VivifyCid
<1> QED
  BY <1>1, <1>2, <1>3, <1>4, <1>5, <1>6, <1>7, <1>8 DEF Next, Step

(* CidCoherent of a solver whose state keeps its types, which is shown     *)
(* together with the rest of the solver's invariant.                       *)
LEMMA CoherentWhenTyped == Spec /\ []TypeOK => []CidCoherent
<1>1. Init => CidInv
  BY InitCid
<1>2. TypeOK /\ TypeOK' /\ CidInv /\ [Next]_vars => CidInv'
  BY StepCid
<1>3. TypeOK /\ CidInv => CidCoherent
  <2> SUFFICES ASSUME TypeOK, CidInv, NEW cr \in CRefs, Len(ca[cr].lits) > 1
               PROVE  /\ ToSet(db[ca[cr].cid].lits) = ToSet(ca[cr].lits)
                      /\ ~IsDelete(db[ca[cr].cid])
                      /\ ca[cr].freed <=> ca[cr].cid \in DeletedCids(db)
    BY DEF CidCoherent
  <2> QED
    BY DEF CidInv, Coherent, CRefs
<1> QED
  BY <1>1, <1>2, <1>3, PTL DEF Spec

-----------------------------------------------------------------------------
(* The invariant.                                                          *)

(* While vivification assumes the literals of a clause false, only what    *)
(* was on the trail before is settled.                                     *)
Assuming == {"simplifyLearnt", "simplePropagate", "simpleAnalyze"}
settled == IF pc \in Assuming THEN viv.trailRecord ELSE Len(trail)

(* How far the trail has been propagated.                                  *)
Analyzing == {"analyze", "minimize", "litRedundant", "backtrack"}
done ==
    IF pc \in Assuming THEN viv.trailRecord
    ELSE IF pc = "conflict" THEN IF trail_lim = <<>> THEN 0 ELSE trail_lim[Len(trail_lim)]
    ELSE IF pc \in Analyzing THEN trail_lim[ana.nDecisionLevel]
    ELSE IF pc = "propagate" /\ prop.lit # 0 THEN qhead - 1
    ELSE IF pc \in {"sat", "unsat"} THEN 0
    ELSE qhead

(* The trail, and the clauses with their watchers (SolverState_proofs).    *)
KernelInv ==
    /\ Trailing(ca, viv.cr, assigns, vardata, trail, trail_lim, settled, done, unitCids, db)
    /\ Watchful(ca, watches, dirty, viv.cr)

(* The literal being propagated, and the watchers visited.                 *)
ScanInv ==
    /\ prop.lit # 0 => qhead >= 1 /\ trail[qhead] = prop.lit
    /\ pc = "propagate" /\ prop.lit # 0 =>
         /\ Visited(binWatchers, ca, vardata, trail, trail_lim, settled, prop.k, qhead)
         /\ Visited(longWatchers, ca, vardata, trail, trail_lim, settled, prop.i, qhead)
    /\ pc \notin {"conflict", "sat", "unsat"} \cup Analyzing /\ trail_lim # <<>> =>
         trail_lim[Len(trail_lim)] <= done

(* Literals, clauses and lists that can be relied on.                      *)
AllFalse(s) == \A l \in ToSet(s) : IsFalse(l)
Usable(cr) == cr \in DOMAIN ca /\ ~ca[cr].freed /\ cr # viv.cr
Clean == \A k \in {"bin", "long"} : dirty[k] = {}

(* What holds where in the program.                                        *)
ControlInv ==
    /\ problem \in Problems
    /\ ~searching /\ pc \notin {"sat", "unsat"} => trail_lim = <<>>
    /\ searching => ~viv.on
    /\ pc \in {"analyze", "minimize", "litRedundant", "backtrack", "learn"} => searching
    /\ pc = "parse" => ~searching /\ ~viv.on /\ qhead = Len(trail)
    /\ prop.lit # 0 => Propagating /\ IsTrue(prop.lit)
    /\ prop.lit = 0 => prop = NoProp
    /\ prop.k >= 1 /\ prop.i >= 1
    /\ Propagating /\ (prop.lit # 0 \/ qhead < Len(trail)) => Clean
    /\ pc \in {"simplePropagate", "conflict"} \cup Analyzing => Clean
    /\ pc = "conflict" => Usable(confl) /\ AllFalse(ca[confl].lits)
    /\ pc = "simpleAnalyze" => Usable(confl)
    /\ due.nbconf >= 1

(* The clause vivification has in hand.                                    *)
Vivifying == Assuming \cup {"simplified"}
HandInv ==
    /\ viv.cr = CRef_Undef => viv = [NotVivifying EXCEPT !.on = viv.on]
    /\ viv.cr # CRef_Undef => viv.on /\ ~ca[viv.cr].freed
    /\ pc \in Vivifying => viv.cr # CRef_Undef
    /\ viv.cr # CRef_Undef /\ pc \notin Vivifying =>
         Len(vivLits) = 1 /\ \A l \in ToSet(vivLits) : IsTrue(l)

(* While simplifyLearnt assumes the literals of the clause false, no       *)
(* variable of it is assigned below trailRecord, and what stands above was *)
(* assumed, as the negation of a literal kept, or propagated.  Afterwards  *)
(* the clause has only unassigned literals left; if it is one, its hints   *)
(* are pending.                                                            *)
VivInv ==
    /\ pc \in Assuming =>
         /\ Len(vivLits) >= 2
         /\ \A l \in ToSet(vivLits) : \A i \in 1 .. viv.trailRecord : Var(trail[i]) # Var(l)
         /\ viv.i \in 1 .. Len(vivLits) + 1
         /\ \A l \in ToSet(viv.kept) :
              \E k \in 1 .. Len(vivLits) : k <= viv.i /\ vivLits[k] = l
         /\ ~viv.True_confl =>
              \A l \in ToSet(viv.kept) : \E k \in 1 .. viv.i - 1 : vivLits[k] = l
         /\ AllDistinct(viv.kept)
         /\ \A i \in viv.trailRecord + 1 .. Len(trail) :
              IF reason(trail[i]) = CRef_Undef
                THEN -trail[i] \in ToSet(viv.kept) ELSE Usable(reason(trail[i]))
         /\ viv.True_confl => pc = "simpleAnalyze"
         /\ an = NoHints
    /\ pc = "simpleAnalyze" /\ viv.True_confl =>
         /\ viv.kept # <<>> /\ viv.i <= Len(vivLits)
         /\ Last(viv.kept) = vivLits[viv.i] /\ IsTrue(Last(viv.kept))
    /\ pc = "simplified" =>
         /\ \A l \in ToSet(vivLits) : IsUndef(l)
         /\ Len(vivLits) = 1 => HasResolvents(an)
         /\ Len(vivLits) > 1 => an = NoHints
         /\ viv.trailRecord = Len(trail) /\ qhead = Len(trail)

N == ana.nDecisionLevel
HereVars(S) == {v \in S : vardata[v].level >= N}

(* The scratch data of analyze.                                            *)
AnaTypes ==
    ana \in [p : Lits \cup {0}, index : Nat, pathC : Nat, nDecisionLevel : Nat, toclear : LitSeq,
             levels : SUBSET Nat, i : Nat, kept : LitSeq, stack : LitSeq, top : Nat, btlevel : Nat]

(* All literals learnt but the first are false and of lower levels, not 0. *)
LowerLearnt ==
    \A k \in 2 .. Len(learnt) :
        learnt[k] # 0 /\ IsFalse(learnt[k]) /\ level(learnt[k]) \in 1 .. N - 1

(* The loop of analyze: marked are the literals learnt and as many of the  *)
(* conflict level as pathC counts, none of which stands above the place    *)
(* that is examined next; the clause to resolve with is the reason of p.   *)
ResolveInv ==
    /\ Usable(confl)
    /\ learnt[1] = 0 /\ LowerLearnt
    /\ \A k, m \in 2 .. Len(learnt) : Var(learnt[k]) = Var(learnt[m]) => k = m
    /\ ana.index \in 0 .. Len(trail)
    /\ \A v \in seen : assigns[v] # 0 /\ vardata[v].level <= N
    /\ \A i \in ana.index + 1 .. Len(trail) : Var(trail[i]) \in seen => level(trail[i]) < N
    /\ ana.pathC = Cardinality(HereVars(seen))
    /\ \A v \in Vars : v \in seen /\ vardata[v].level \in 1 .. N - 1
                         <=> \E k \in 2 .. Len(learnt) : Var(learnt[k]) = v
    /\ \A v \in seen : vardata[v].level = 0 => v \in VarsOf(ana.toclear)
    /\ IF ana.p = 0
         THEN /\ seen = {} /\ ana.index = Len(trail)
              /\ AllFalse(conflLits) /\ \A l \in ToSet(conflLits) : level(l) <= N
              /\ \E l, m \in ToSet(conflLits) : l # m /\ level(l) = N /\ level(m) = N
         ELSE /\ ana.pathC >= 1
              /\ ana.index < Len(trail) /\ trail[ana.index + 1] = ana.p
              /\ reason(ana.p) = confl /\ level(ana.p) = N /\ Var(ana.p) \notin seen
              /\ HasResolvents(an)

(* The minimizations keep some of the literals, and the first.             *)
MinimizeInv ==
    /\ ana.i \in 2 .. Len(learnt) + 1
    /\ pc = "litRedundant" => ana.i <= Len(learnt)
    /\ AllDistinct(ana.kept) /\ Len(ana.kept) >= 1 /\ ana.kept[1] = learnt[1]
    /\ \A k \in 2 .. Len(ana.kept) : \E m \in 2 .. ana.i - 1 : ana.kept[k] = learnt[m]
    /\ seen \subseteq VarsOf(ana.toclear)

(* litRedundant may take back the hints it has added, and one is left.     *)
RedundantInv ==
    /\ \A l \in ToSet(ana.stack) : reason(l) # CRef_Undef /\ IsFalse(l)
    /\ ana.top <= Len(ana.toclear)
    /\ an.reverts # <<>>
    /\ LET m == Last(an.reverts)
       IN  m.nHints \in 1 .. Len(an.hints) /\ m.nUnitHints \in 0 .. Len(an.units)

(* What analyze has found is false, with one literal of the conflict       *)
(* level.                                                                  *)
LearntInv ==
    /\ learnt \in LitSeq /\ AllDistinct(learnt) /\ AllFalse(learnt)
    /\ level(learnt[1]) = N /\ LowerLearnt

(* The level to go back to is that of the second literal, the highest but  *)
(* one.                                                                    *)
BacktrackInv ==
    /\ ana.btlevel = IF Len(learnt) = 1 THEN 0 ELSE level(learnt[2])
    /\ \A k \in 2 .. Len(learnt) : level(learnt[k]) <= ana.btlevel

(* After going back the first literal is free again, the others are false. *)
LearnInv ==
    /\ learnt \in LitSeq /\ AllDistinct(learnt) /\ IsUndef(learnt[1])
    /\ \A k \in 2 .. Len(learnt) : IsFalse(learnt[k]) /\ level(learnt[k]) \in 1 .. ana.btlevel
    /\ ana.btlevel = IF Len(learnt) = 1 THEN 0 ELSE level(learnt[2])
    /\ ana.btlevel <= decisionLevel

(* What analyze knows in each of its phases.                               *)
AnalysisInv ==
    /\ AnaTypes
    /\ pc \in Analyzing => N \in 1 .. decisionLevel
    /\ pc \in Analyzing \cup {"learn"} => Len(learnt) >= 1
    /\ pc = "analyze" => ResolveInv
    /\ pc \in {"minimize", "litRedundant", "backtrack"} => LearntInv
    /\ pc \in {"minimize", "litRedundant"} => MinimizeInv
    /\ pc = "litRedundant" => RedundantInv
    /\ pc = "backtrack" => BacktrackInv
    /\ pc \in {"minimize", "litRedundant", "backtrack", "learn"} => an.hints # <<>>
    /\ pc = "learn" => LearnInv

IInv == /\ TypeOK /\ KernelInv /\ ScanInv
        /\ ControlInv /\ HandInv /\ VivInv /\ AnalysisInv /\ NoTraceOfAnalysis

-----------------------------------------------------------------------------
(* What the invariant says of the trail and the clauses, part by part.     *)
LEMMA Shapes ==
    ASSUME IInv
    PROVE  /\ TypeOK /\ KernelInv /\ ScanInv /\ ControlInv /\ HandInv /\ VivInv /\ AnalysisInv
           /\ NoTraceOfAnalysis
           /\ ca \in Clauses(db) /\ db \in Log /\ CRefs = DOMAIN ca /\ CRef_Undef \notin DOMAIN ca
           /\ DOMAIN ca = 1 .. Len(ca) /\ Len(ca) \in Nat
           /\ viv.cr \in DOMAIN ca \cup {CRef_Undef}
           /\ qhead \in Nat /\ qhead <= Len(trail)
           /\ unitCids \in [Vars -> DOMAIN db \cup {NoCid}]
           /\ \A v \in Vars : vardata[v].reason \in DOMAIN ca \cup {CRef_Undef}
<1>1. /\ TypeOK /\ KernelInv /\ ScanInv /\ ControlInv /\ HandInv /\ VivInv /\ AnalysisInv
      /\ NoTraceOfAnalysis
  BY DEF IInv
<1>2. /\ ca \in Clauses(db) /\ db \in Log /\ CRefs = DOMAIN ca /\ CRef_Undef \notin DOMAIN ca
      /\ DOMAIN ca = 1 .. Len(ca) /\ Len(ca) \in Nat
      /\ viv.cr \in DOMAIN ca \cup {CRef_Undef}
  BY <1>1, Types
<1>3. /\ qhead \in 0 .. Len(trail) /\ trail \in Seq(Lits)
      /\ unitCids \in [Vars -> DOMAIN db \cup {NoCid}]
      /\ vardata \in [Vars -> [reason : CRefs \cup {CRef_Undef}, level : Nat]]
  BY <1>1 DEF TypeOK, LitSeq
<1>4. qhead \in Nat /\ qhead <= Len(trail)
  BY <1>3
<1>5. \A v \in Vars : vardata[v].reason \in DOMAIN ca \cup {CRef_Undef}
  BY <1>2, <1>3
<1> QED
  BY <1>1, <1>2, <1>3, <1>4, <1>5

LEMMA TrailShape ==
    ASSUME IInv
    PROVE  /\ Trailing(ca, viv.cr, assigns, vardata, trail, trail_lim, settled, done, unitCids, db)
           /\ assigns \in [Vars -> Lits \cup {0}] /\ trail \in Seq(Lits) /\ trail_lim \in Seq(Nat)
           /\ OnVars(vardata) /\ HasLevels(vardata) /\ unitCids \in [Vars -> Nat]
           /\ settled \in Nat /\ done \in Nat /\ done <= settled /\ settled <= Len(trail)
           /\ Len(trail) \in Nat
           /\ Assigned(assigns, trail) /\ Levels(vardata, trail, trail_lim, settled)
           /\ Reasons(ca, vardata, trail, settled)
           /\ viv.cr # CRef_Undef => NoReason(vardata, trail, viv.cr)
           /\ UnitsOK(vardata, unitCids, db, trail, settled)
           /\ Complete(ca, vardata, trail, trail_lim, viv.cr, settled, done)
<1>1. Trailing(ca, viv.cr, assigns, vardata, trail, trail_lim, settled, done, unitCids, db)
  BY DEF IInv, KernelInv
<1>2. /\ assigns \in [Vars -> Lits \cup {0}] /\ trail \in Seq(Lits) /\ trail_lim \in Seq(Nat)
      /\ OnVars(vardata) /\ HasLevels(vardata) /\ unitCids \in [Vars -> Nat]
      /\ settled \in Nat /\ done \in Nat /\ done <= settled /\ settled <= Len(trail)
      /\ Assigned(assigns, trail) /\ Levels(vardata, trail, trail_lim, settled)
      /\ Reasons(ca, vardata, trail, settled)
      /\ viv.cr # CRef_Undef => NoReason(vardata, trail, viv.cr)
      /\ UnitsOK(vardata, unitCids, db, trail, settled)
      /\ Complete(ca, vardata, trail, trail_lim, viv.cr, settled, done)
  BY <1>1, TrailingParts
<1> QED
  BY <1>1, <1>2

LEMMA MemoryShape ==
    ASSUME IInv
    PROVE  /\ Watchful(ca, watches, dirty, viv.cr)
           /\ HasLits(ca) /\ watches \in WatcherLists(ca) /\ dirty \in [{"bin", "long"} -> SUBSET Lits]
           /\ Memory(ca, viv.cr) /\ Watching(ca, watches, dirty, viv.cr)
<1>1. Watchful(ca, watches, dirty, viv.cr)
  BY DEF IInv, KernelInv
<1> QED
  BY <1>1, WatchfulParts

(* Only a part of the trail that stays has unit records; the log grows.    *)
LEMMA LogGrows ==
    ASSUME IInv, NEW d, \A i \in 1 .. Len(db) : d[i] = db[i]
    PROVE  SameUnits(unitCids, db, d)
BY Shapes, LogTypes DEF SameUnits

(* A step that leaves the trail and the clauses as they are.               *)
LEMMA QuietKernel ==
    ASSUME IInv, UNCHANGED <<ca, watches, dirty, assigns, vardata, trail, trail_lim, unitCids>>,
           viv'.cr = viv.cr, SameUnits(unitCids, db, db'), settled' = settled,
           done' \in Nat, done' <= done
    PROVE  KernelInv'
<1>1. Trailing(ca, viv.cr, assigns, vardata, trail, trail_lim, settled, done, unitCids, db')
  BY TrailShape, TrailingLog
<1>2. Trailing(ca, viv.cr, assigns, vardata, trail, trail_lim, settled, done', unitCids, db')
  BY <1>1, TrailingLess
<1> QED
  BY <1>2, MemoryShape DEF KernelInv

(* How far the trail is settled and propagated, place by place.            *)
LEMMA WhereNow ==
    /\ pc \in Assuming => settled = viv.trailRecord /\ done = viv.trailRecord
    /\ pc \notin Assuming => settled = Len(trail)
    /\ pc = "conflict" => done = IF trail_lim = <<>> THEN 0 ELSE trail_lim[Len(trail_lim)]
    /\ pc \in Analyzing => done = trail_lim[ana.nDecisionLevel]
    /\ pc = "propagate" /\ prop.lit # 0 => done = qhead - 1
    /\ pc = "propagate" /\ prop.lit = 0 => done = qhead
    /\ pc \in {"parse", "clean", "learn", "simplified"} => done = qhead
    /\ pc \in {"sat", "unsat"} => done = 0
BY DEF settled, done, Assuming, Analyzing

LEMMA WhereNext ==
    /\ pc' \in Assuming => settled' = viv'.trailRecord /\ done' = viv'.trailRecord
    /\ pc' \notin Assuming => settled' = Len(trail')
    /\ pc' = "conflict" => done' = IF trail_lim' = <<>> THEN 0 ELSE trail_lim'[Len(trail_lim')]
    /\ pc' \in Analyzing => done' = trail_lim'[ana'.nDecisionLevel]
    /\ pc' = "propagate" /\ prop'.lit # 0 => done' = qhead' - 1
    /\ pc' = "propagate" /\ prop'.lit = 0 => done' = qhead'
    /\ pc' \in {"parse", "clean", "learn", "simplified"} => done' = qhead'
    /\ pc' \in {"sat", "unsat"} => done' = 0
BY DEF settled, done, Assuming, Analyzing

LEMMA SameLog == ASSUME db' = db PROVE SameUnits(unitCids, db, db')
BY DEF SameUnits

-----------------------------------------------------------------------------
(* propagate: the literal being propagated is true, and the watchers of    *)
(* its lists are of clauses that its negation watches.                     *)
LEMMA ScanFacts ==
    ASSUME IInv, Scanning
    PROVE  /\ prop.lit \in Lits /\ IsTrue(prop.lit) /\ trail[qhead] = prop.lit
           /\ qhead \in 1 .. Len(trail)
           /\ prop.k \in Nat /\ prop.i \in Nat /\ prop.k >= 1 /\ prop.i >= 1
           /\ \A kind \in {"bin", "long"} : dirty[kind] = {}
           /\ Propagating /\ prop.lit # 0
           /\ prop = [lit |-> prop.lit, k |-> prop.k, i |-> prop.i]
<1>1. Propagating /\ prop.lit # 0
  BY DEF Scanning
<1>2. TypeOK /\ ControlInv /\ ScanInv
  BY Shapes
<1>3. prop \in [lit : Lits \cup {0}, k : Nat, i : Nat] /\ qhead \in 0 .. Len(trail) /\ trail \in Seq(Lits)
  BY <1>2 DEF TypeOK, LitSeq
<1>4. prop.lit \in Lits /\ prop.k \in Nat /\ prop.i \in Nat
  BY <1>1, <1>3
<1>5. IsTrue(prop.lit) /\ prop.k >= 1 /\ prop.i >= 1 /\ Clean
  BY <1>1, <1>2 DEF ControlInv
<1>6. qhead >= 1 /\ trail[qhead] = prop.lit
  BY <1>1, <1>2 DEF ScanInv
<1>7. qhead \in 1 .. Len(trail)
  BY <1>3, <1>6
<1> QED
  BY <1>1, <1>3, <1>4, <1>5, <1>6, <1>7 DEF Clean

(* A watcher x of one of its lists.                                        *)
LEMMA OneWatcherFacts ==
    ASSUME IInv, Scanning, NEW kind \in {"bin", "long"}, NEW x,
           x \in ToSet(watches[kind][prop.lit])
    PROVE  /\ WatcherOf(ca, viv.cr, kind, prop.lit, x, x.cref)
           /\ Single(watches[kind][prop.lit], x.cref) /\ x.cref # CRef_Undef
<1>1. IsWatcher(watches, dirty, kind, prop.lit, x, x.cref)
  BY ScanFacts DEF IsWatcher
<1>2. Watchful(ca, watches, dirty, viv.cr)
  BY MemoryShape
<1>3. WatcherOf(ca, viv.cr, kind, prop.lit, x, x.cref) /\ Single(watches[kind][prop.lit], x.cref)
  BY <1>1, <1>2, WatcherFacts
<1>4. CRef_Undef \notin DOMAIN ca
  BY Shapes
<1> QED
  BY <1>3, <1>4 DEF WatcherOf

(* The two literals of a binary clause whose watcher is visited.           *)
LEMMA BinaryFacts ==
    ASSUME IInv, ScanningBinary, NEW cr, cr = binWatchers[prop.k].cref,
           NEW b, b = binWatchers[prop.k].blocker
    PROVE  /\ prop.k \in DOMAIN binWatchers
           /\ cr \in DOMAIN ca /\ cr # CRef_Undef /\ ~ca[cr].freed /\ cr # viv.cr
           /\ ca[cr].lits \in Seq(Lits) /\ Len(ca[cr].lits) = 2 /\ b \in Lits /\ b # -prop.lit
           /\ ToSet(ca[cr].lits) = {b, -prop.lit}
<1>1. Scanning /\ prop.k <= Len(binWatchers)
  BY DEF ScanningBinary
<1>2. prop.k \in Nat /\ prop.k >= 1 /\ prop.lit \in Lits
  BY <1>1, ScanFacts
<1>3. watches["bin"][prop.lit] \in Seq([cref : DOMAIN ca, blocker : Lits])
  BY <1>2, MemoryShape, ListTypes
<1>4. prop.k \in DOMAIN binWatchers /\ binWatchers[prop.k] \in ToSet(watches["bin"][prop.lit])
  BY <1>1, <1>2, <1>3 DEF binWatchers, ToSet
<1>9. WatcherOf(ca, viv.cr, "bin", prop.lit, binWatchers[prop.k], cr) /\ cr # CRef_Undef
  BY <1>1, <1>4, OneWatcherFacts
<1>5. /\ cr \in DOMAIN ca /\ cr # CRef_Undef /\ ~ca[cr].freed /\ cr # viv.cr
      /\ "bin" = Kind(ca[cr].lits) /\ -prop.lit \in {ca[cr].lits[1], ca[cr].lits[2]}
      /\ b \in ToSet(ca[cr].lits) \ {-prop.lit} /\ b \in Lits
      /\ ca[cr].lits \in Seq(Lits)
  BY <1>9 DEF WatcherOf, Watches
<1>6. Len(ca[cr].lits) = 2
  BY <1>5 DEF Kind
<1>7. ToSet(ca[cr].lits) = {ca[cr].lits[1], ca[cr].lits[2]}
  BY <1>5, <1>6 DEF ToSet
<1>8. ToSet(ca[cr].lits) = {b, -prop.lit}
  BY <1>5, <1>7
<1> QED
  BY <1>4, <1>5, <1>6, <1>8

(* A longer one, before and after the false literal is put second.         *)
LEMMA LongFacts ==
    ASSUME IInv, ScanningLong, NEW cr, cr = longWatcher.cref, NEW q, q = ca[cr].lits
    PROVE  /\ prop.i \in DOMAIN longWatchers /\ longWatcher = watches["long"][prop.lit][prop.i]
           /\ cr \in DOMAIN ca /\ cr # CRef_Undef /\ ~ca[cr].freed /\ cr # viv.cr
           /\ q \in Seq(Lits) /\ Len(q) >= 3 /\ AllDistinct(q)
           /\ longWatcher.blocker \in ToSet(q) \ {-prop.lit} /\ longWatcher.blocker \in Lits
           /\ normalized \in Seq(Lits) /\ Len(normalized) = Len(q) /\ ToSet(normalized) = ToSet(q)
           /\ AllDistinct(normalized) /\ normalized[2] = -prop.lit
           /\ {normalized[1], normalized[2]} = {q[1], q[2]}
           /\ normalized[1] = q[1] \/ q[1] = -prop.lit
           /\ normalized[1] \in Lits /\ normalized[1] # -prop.lit
<1>1. Scanning /\ prop.i <= Len(longWatchers)
  BY DEF ScanningLong
<1>2. prop.i \in Nat /\ prop.i >= 1 /\ prop.lit \in Lits
  BY <1>1, ScanFacts
<1>3. watches["long"][prop.lit] \in Seq([cref : DOMAIN ca, blocker : Lits])
  BY <1>2, MemoryShape, ListTypes
<1>4. /\ prop.i \in DOMAIN longWatchers /\ longWatcher = watches["long"][prop.lit][prop.i]
      /\ longWatcher \in ToSet(watches["long"][prop.lit])
  BY <1>1, <1>2, <1>3 DEF longWatchers, longWatcher, ToSet
<1>11. WatcherOf(ca, viv.cr, "long", prop.lit, longWatcher, cr) /\ cr # CRef_Undef
  BY <1>1, <1>4, OneWatcherFacts
<1>5. /\ cr \in DOMAIN ca /\ cr # CRef_Undef /\ ~ca[cr].freed /\ cr # viv.cr
      /\ "long" = Kind(q) /\ -prop.lit \in {q[1], q[2]} /\ Len(q) >= 2
      /\ longWatcher.blocker \in ToSet(q) \ {-prop.lit} /\ longWatcher.blocker \in Lits
      /\ AllDistinct(q) /\ q \in Seq(Lits)
  BY <1>11 DEF WatcherOf, Watches
<1>12. Len(q) # 2 /\ Len(q) \in Nat /\ DOMAIN q = 1 .. Len(q)
  BY <1>5 DEF Kind
<1>6. Len(q) >= 3 /\ 1 \in DOMAIN q /\ 2 \in DOMAIN q /\ 1 \in 1 .. Len(q) /\ 2 \in 1 .. Len(q)
  <2>1. \A n \in Nat : n # 2 /\ n >= 2 => n >= 3 /\ 1 \in 1 .. n /\ 2 \in 1 .. n
    OBVIOUS
  <2>2. Len(q) >= 3 /\ 1 \in 1 .. Len(q) /\ 2 \in 1 .. Len(q)
    BY <2>1, <1>5, <1>12
  <2> QED
    BY <2>2, <1>12
<1>7. q[1] \in Lits /\ q[2] \in Lits /\ q[1] # q[2]
  <2>1. Var(q[1]) # Var(q[2])
    BY <1>5, <1>6 DEF AllDistinct
  <2> QED
    BY <2>1, <1>5, <1>6, Element
<1>8. normalized = IF q[1] = -prop.lit THEN SwapAt(q, 1, 2) ELSE q
  BY DEF normalized
<1>9. CASE q[1] = -prop.lit
  <2>1. CanSwap(Lits, q, 1, 2)
    BY <1>5, <1>6 DEF CanSwap
  <2>2. Swapped(Lits, q, 1, 2, normalized)
    BY <2>1, <1>8, <1>9, SwapFacts
  <2>3. /\ normalized \in Seq(Lits) /\ Len(normalized) = Len(q) /\ ToSet(normalized) = ToSet(q)
        /\ AllDistinct(normalized) /\ normalized[2] = q[1] /\ normalized[1] = q[2]
    BY <2>2, <1>5, <1>6 DEF Swapped
  <2> QED
    BY <2>3, <1>4, <1>5, <1>6, <1>7, <1>9
<1>10. CASE q[1] # -prop.lit
  <2>1. normalized = q /\ q[2] = -prop.lit
    BY <1>5, <1>8, <1>10
  <2> QED
    BY <2>1, <1>4, <1>5, <1>6, <1>7, <1>10
<1> QED
  BY <1>9, <1>10

-----------------------------------------------------------------------------
(* A literal is enqueued with a level: the log db, or a longer one, gets    *)
(* its unit record at level 0, as the variable has none.                   *)
Longest(d) == IsSeq(d) /\ Len(d) >= Len(db) /\ \A i \in 1 .. Len(db) : d[i] = db[i]
CanEnter(p, lv, d) == p \in Lits /\ IsUndef(p) /\ lv \in Nat /\ Longest(d)

LEMMA LogItself == ASSUME IInv PROVE Longest(db)
BY Shapes, LogTypes DEF Longest, IsSeq, Log

LEMMA NoUnitYet ==
    ASSUME IInv, NEW p \in Lits, IsUndef(p)
    PROVE  unitCids[Var(p)] = NoCid
<1> SUFFICES ASSUME unitCids[Var(p)] # NoCid PROVE FALSE
  OBVIOUS
<1>1. Var(p) \in Vars
  BY LitFacts
<1>2. PICK i \in 1 .. settled : Var(trail[i]) = Var(p)
  BY <1>1, TrailShape DEF UnitsOK
<1>3. i \in DOMAIN trail /\ trail[i] \in Lits
  BY TrailShape, Element
<1>4. assigns[Var(p)] = trail[i] /\ trail[i] # 0
  BY <1>2, <1>3, TrailShape, LitFacts DEF Assigned
<1> QED
  BY <1>4 DEF IsUndef

LEMMA EnqueueFacts ==
    ASSUME IInv, NEW p, NEW r, NEW lv, NEW d, NEW a, CanEnter(p, lv, d),
           uncheckedEnqueue(p, lv, r, d, a)
    PROVE  /\ Enqueued(assigns, vardata, trail, p, r, lv, assigns', vardata', trail')
           /\ UnitAdded(unitCids, db, unitCids', db', p, lv)
<1>1. p \in Lits /\ IsUndef(p) /\ lv \in Nat /\ IsSeq(d)
      /\ Len(d) >= Len(db) /\ \A i \in 1 .. Len(db) : d[i] = db[i]
  BY DEF CanEnter, Longest
<1>0. PICK X : d \in Seq(X)
  BY <1>1 DEF IsSeq
<1>2. /\ assigns' = [assigns EXCEPT ![Var(p)] = p]
      /\ vardata' = [vardata EXCEPT ![Var(p)] = [reason |-> r, level |-> lv]]
      /\ trail' = Append(trail, p) /\ analyzeEnqueuePropagation(p, lv, r, d, a)
  BY DEF uncheckedEnqueue
<1>3. Enqueued(assigns, vardata, trail, p, r, lv, assigns', vardata', trail')
  BY <1>1, <1>2 DEF Enqueued, IsUndef
<1>4. unitCids[Var(p)] = NoCid /\ Var(p) \in Vars /\ unitCids \in [Vars -> Nat]
  BY <1>1, NoUnitYet, LitFacts, TrailShape
<1>5. SameUnits(unitCids, db, d)
  BY <1>1, LogGrows
<1>6. Len(d) \in Nat /\ DOMAIN d = 1 .. Len(d) /\ Len(db) \in Nat /\ DOMAIN db = 1 .. Len(db)
  BY <1>0, Shapes, LogTypes
<1>7. CASE lv = 0
  <2>1. PICK e : db' = Append(d, e) /\ e.lits = <<p>>
    BY <1>2, <1>4, <1>7 DEF analyzeEnqueuePropagation, Resolvent
  <2>2. unitCids' = [unitCids EXCEPT ![Var(p)] = Len(d) + 1]
    BY <1>2, <1>4, <1>7 DEF analyzeEnqueuePropagation
  <2>3. db'[Len(d) + 1] = e /\ \A i \in 1 .. Len(d) : db'[i] = d[i]
    BY <1>0, <1>6, <2>1
  <2>4. unitCids' \in [Vars -> Nat] /\ unitCids'[Var(p)] = Len(d) + 1
        /\ \A v \in Vars : v # Var(p) => unitCids'[v] = unitCids[v]
    BY <1>4, <1>6, <2>2
  <2>5. SameUnits(unitCids, db, db')
    <3> SUFFICES ASSUME NEW v \in Vars, unitCids[v] # NoCid PROVE db'[unitCids[v]] = db[unitCids[v]]
      BY DEF SameUnits
    <3>1. unitCids[v] \in 1 .. Len(db)
      BY <1>6, Shapes
    <3> QED
      BY <1>1, <1>6, <2>3, <3>1
  <2>6. Len(d) + 1 # NoCid
    BY <1>6 DEF NoCid
  <2>7. UnitAdded(unitCids, db, unitCids', db', p, lv)
    BY <1>7, <2>1, <2>3, <2>4, <2>5, <2>6 DEF UnitAdded
  <2> QED
    BY <1>3, <2>7
<1>8. CASE lv # 0
  <2>1. db' = d /\ unitCids' = unitCids
    BY <1>2, <1>8 DEF analyzeEnqueuePropagation
  <2>2. UnitAdded(unitCids, db, unitCids', db', p, lv)
    BY <1>4, <1>5, <1>8, <2>1 DEF UnitAdded
  <2> QED
    BY <1>3, <2>2
<1> QED
  BY <1>7, <1>8

LEMMA WithinMore ==
    ASSUME NEW lim \in Seq(Nat), NEW lv \in Nat, NEW i \in Nat, NEW j \in Nat, i <= j, Within(lim, lv, i)
    PROVE  Within(lim, lv, j)
<1>1. lv <= Len(lim) /\ (lv = 0 \/ lim[lv] < i)
  BY DEF Within
<1>2. CASE lv = 0
  BY <1>1, <1>2 DEF Within
<1>3. CASE lv # 0
  <2>1. lv \in 1 .. Len(lim)
    BY <1>1, <1>3
  <2>2. lim[lv] \in Nat
    BY <2>1
  <2>3. lim[lv] < j
    BY <1>1, <1>3, <2>2
  <2> QED
    BY <1>1, <2>3 DEF Within
<1> QED
  BY <1>2, <1>3

(* The level of the literal being propagated.                              *)
LEMMA PropLevel ==
    ASSUME IInv, Scanning
    PROVE  /\ currLevel \in Nat /\ currLevel = Lv(vardata, prop.lit)
           /\ pc = "propagate" =>
                /\ settled = Len(trail) /\ done = qhead - 1
                /\ Within(trail_lim, currLevel, qhead)
                /\ Within(trail_lim, currLevel, Len(trail) + 1)
           /\ Simple => settled = viv.trailRecord /\ done = viv.trailRecord
<1>1. prop.lit \in Lits /\ trail[qhead] = prop.lit /\ qhead \in 1 .. Len(trail) /\ prop.lit # 0
  BY ScanFacts
<1>2. currLevel = Lv(vardata, prop.lit) /\ currLevel \in Nat
  <2>1. Var(prop.lit) \in Vars
    BY <1>1, LitFacts
  <2> QED
    BY <2>1, TrailShape DEF currLevel, level, Lv, HasLevels
<1>3. Simple => settled = viv.trailRecord /\ done = viv.trailRecord
  BY WhereNow DEF Simple, Assuming
<1>4. ASSUME pc = "propagate"
      PROVE  /\ settled = Len(trail) /\ done = qhead - 1
             /\ Within(trail_lim, currLevel, qhead) /\ Within(trail_lim, currLevel, Len(trail) + 1)
  <2>1. settled = Len(trail) /\ done = qhead - 1
    BY <1>1, <1>4, WhereNow DEF Assuming
  <2>2. Within(trail_lim, currLevel, qhead)
    BY <1>1, <1>2, <2>1, TrailShape DEF Levels
  <2>3. Within(trail_lim, currLevel, Len(trail) + 1)
    <3>1. qhead \in Nat /\ Len(trail) + 1 \in Nat /\ qhead <= Len(trail) + 1
      BY <1>1, TrailShape
    <3> QED
      BY <1>2, <2>2, <3>1, TrailShape, WithinMore
  <2> QED
    BY <2>1, <2>2, <2>3
<1> QED
  BY <1>2, <1>3, <1>4

(* A literal is enqueued on the trail, with the clauses c.                 *)
LEMMA EnqueueOn ==
    ASSUME IInv, NEW c, NEW P,
           Trailing(c, viv.cr, assigns, vardata, trail, trail_lim, Len(trail), P, unitCids, db),
           NEW p, NEW r, NEW lv, NEW d, NEW a, CanEnter(p, lv, d), uncheckedEnqueue(p, lv, r, d, a),
           CanEnqueue(c, viv.cr, assigns, vardata, trail, trail_lim, p, r, lv)
    PROVE  /\ Trailing(c, viv.cr, assigns', vardata', trail', trail_lim, Len(trail'), P, unitCids', db')
           /\ Extension(vardata, trail, p, r, lv, assigns', vardata', trail')
<1>1. /\ Enqueued(assigns, vardata, trail, p, r, lv, assigns', vardata', trail')
      /\ UnitAdded(unitCids, db, unitCids', db', p, lv)
  BY EnqueueFacts
<1>2. Trailing(c, viv.cr, assigns', vardata', trail', trail_lim, Len(trail) + 1, P, unitCids', db')
  BY <1>1, TrailingEnqueue
<1>3. CanExtend(assigns, vardata, trail, p, r, lv, assigns', vardata', trail')
  BY <1>1, TrailShape DEF CanExtend, CanEnter
<1>4. Extension(vardata, trail, p, r, lv, assigns', vardata', trail')
  BY <1>3, EnqueueAgrees
<1>5. Len(trail') = Len(trail) + 1
  BY <1>4 DEF Extension
<1> QED
  BY <1>2, <1>4, <1>5

(* A literal is assumed, or follows from what is.                          *)
LEMMA AssumeOn ==
    ASSUME IInv, pc \in Assuming, NEW c, NEW n, NEW P,
           Trailing(c, viv.cr, assigns, vardata, trail, trail_lim, n, P, unitCids, db),
           NEW p \in Lits, NEW r, IsUndef(p), simpleUncheckEnqueue(p, r), r # viv.cr
    PROVE  Trailing(c, viv.cr, assigns', vardata', trail', trail_lim, n, P, unitCids', db')
<1>1. Assumed(assigns, vardata, trail, p, r, assigns', vardata', trail')
  BY DEF simpleUncheckEnqueue, Assumed, IsUndef
<1>2. Trailing(c, viv.cr, assigns', vardata', trail', trail_lim, n, P, unitCids, db)
  BY <1>1, TrailingAssume
<1>3. unitCids' = unitCids /\ db' = db
  BY DEF simpleUncheckEnqueue, tracerVars
<1> QED
  BY <1>2, <1>3

(* A clause with one literal that is not false implies it at the level of  *)
(* another one.                                                            *)
LEMMA ImpliesFrom ==
    ASSUME IInv, NEW cr, cr \in DOMAIN ca, ~ca[cr].freed, cr # viv.cr, cr # CRef_Undef,
           NEW p, NEW m, NEW lv, p \in ToSet(ca[cr].lits),
           Len(ca[cr].lits) = 2, ca[cr].lits \in Seq(Lits), ToSet(ca[cr].lits) = {p, m}, p # m,
           IsFalse(m), Lv(vardata, m) = lv, lv \in Nat, Within(trail_lim, lv, Len(trail) + 1)
    PROVE  CanEnqueue(ca, viv.cr, assigns, vardata, trail, trail_lim, p, cr, lv)
<1>1. \A n \in Nat : n <= n /\ (n = 2 => n >= 2)
  OBVIOUS
<1>2. Implies(ca[cr].lits, assigns, vardata, p, lv)
  BY <1>1 DEF Implies, IsFalse
<1> QED
  BY <1>2 DEF CanEnqueue

(* Visiting a watcher whose clause is true leaves the others visited.      *)
LEMMA ScanMore ==
    ASSUME IInv, Scanning, NEW vd2, NEW tr2, NEW n2 \in Nat, settled <= n2,
           Agree(vardata, vd2, trail, tr2, settled), pc = "propagate"
    PROVE  /\ Visited(binWatchers, ca, vd2, tr2, trail_lim, n2, prop.k, qhead)
           /\ Visited(longWatchers, ca, vd2, tr2, trail_lim, n2, prop.i, qhead)
<1>1. /\ Visited(binWatchers, ca, vardata, trail, trail_lim, settled, prop.k, qhead)
      /\ Visited(longWatchers, ca, vardata, trail, trail_lim, settled, prop.i, qhead)
  BY Shapes DEF ScanInv, Scanning
<1>2. settled \in Nat
  BY TrailShape
<1> QED
  BY <1>1, <1>2, VisitedFrame

(* A true literal covers its clause while a literal of the highest level   *)
(* is propagated.                                                          *)
LEMMA TrueCovers ==
    ASSUME IInv, Scanning, pc = "propagate", NEW q, NEW l \in Lits, l \in ToSet(q), IsTrue(l)
    PROVE  Covered(q, vardata, trail, trail_lim, settled, qhead)
<1>1. /\ settled = Len(trail) /\ done = qhead - 1 /\ qhead \in Nat
      /\ Levels(vardata, trail, trail_lim, settled) /\ trail_lim \in Seq(Nat)
      /\ HasLevels(vardata) /\ trail \in Seq(Lits)
  BY PropLevel, TrailShape, Shapes
<1>2. trail_lim # <<>> => trail_lim[Len(trail_lim)] <= done
  BY Shapes DEF ScanInv, Analyzing
<1>3. PICK i \in 1 .. Len(trail) : trail[i] = l
  BY TrueOnTrail, TrailShape DEF IsTrue, OnTrail
<1>4. Within(trail_lim, Lv(vardata, l), i)
  BY <1>1, <1>3 DEF Levels
<1>5. Lv(vardata, l) \in Nat
  BY <1>1, LitFacts DEF HasLevels, Lv
<1>6. Within(trail_lim, Lv(vardata, l), qhead)
  <2>1. Lv(vardata, l) <= Len(trail_lim) /\ Len(trail_lim) \in Nat
    BY <1>1, <1>4 DEF Within
  <2>2. CASE Lv(vardata, l) = 0
    BY <2>1, <2>2 DEF Within
  <2>3. CASE Lv(vardata, l) # 0
    <3> DEFINE k == Lv(vardata, l)
               n == Len(trail_lim)
    <3>1. k \in 1 .. n /\ n \in 1 .. n /\ trail_lim # <<>> /\ DOMAIN trail_lim = 1 .. n
      BY <1>1, <1>5, <2>1, <2>3
    <3>2. trail_lim[k] \in Nat /\ trail_lim[n] \in Nat
      BY <1>1, <3>1
    <3>3. k = n \/ trail_lim[k] < trail_lim[n]
      BY <1>1, <3>1 DEF Levels
    <3>4. trail_lim[n] <= qhead - 1
      BY <1>1, <1>2, <3>1
    <3>5. trail_lim[k] < qhead
      <4> HIDE DEF k, n
      <4> QED
        BY <1>1, <3>2, <3>3, <3>4
    <3> QED
      BY <2>1, <3>5 DEF Within
  <2> QED
    BY <2>2, <2>3
<1>7. OnTrail(trail, l, settled)
  BY <1>1, <1>3 DEF OnTrail
<1> QED
  BY <1>6, <1>7 DEF Covered

(* The rest of ScanInv, when the clauses of the lists are covered.         *)
StillScanning == pc' = pc /\ prop'.lit = prop.lit /\ qhead' = qhead /\ trail_lim' = trail_lim
Extended == Len(trail) <= Len(trail') /\ \A i \in 1 .. Len(trail) : trail'[i] = trail[i]

LEMMA ScanNext ==
    ASSUME IInv, Scanning, StillScanning, Extended, pc' \in Assuming => viv'.trailRecord = viv.trailRecord,
           pc = "propagate" =>
             /\ Visited(binWatchers', ca', vardata', trail', trail_lim', settled', prop'.k, qhead)
             /\ Visited(longWatchers', ca', vardata', trail', trail_lim', settled', prop'.i, qhead)
    PROVE  ScanInv' /\ done' = done
<1>1. prop.lit # 0 /\ qhead \in 1 .. Len(trail) /\ trail[qhead] = prop.lit /\ Propagating
  BY ScanFacts
<1>2. prop'.lit # 0 => qhead' >= 1 /\ trail'[qhead'] = prop'.lit
  BY <1>1 DEF StillScanning, Extended
<1>3. done' = done
  <2>1. CASE pc = "propagate"
    BY <1>1, <2>1, WhereNow, WhereNext DEF StillScanning
  <2>2. CASE pc = "simplePropagate"
    BY <2>2, WhereNow, WhereNext DEF StillScanning, Assuming
  <2> QED
    BY <1>1, <2>1, <2>2 DEF Propagating, Simple
<1>4. pc' \notin {"conflict", "sat", "unsat"} \cup Analyzing /\ trail_lim' # <<>> =>
         trail_lim'[Len(trail_lim')] <= done'
  <2>1. pc \notin {"conflict", "sat", "unsat"} \cup Analyzing /\ trail_lim # <<>> =>
         trail_lim[Len(trail_lim)] <= done
    BY Shapes DEF ScanInv
  <2> QED
    BY <1>3, <2>1 DEF StillScanning
<1>5. pc' = "propagate" /\ prop'.lit # 0 =>
             /\ Visited(binWatchers', ca', vardata', trail', trail_lim', settled', prop'.k, qhead')
             /\ Visited(longWatchers', ca', vardata', trail', trail_lim', settled', prop'.i, qhead')
  BY DEF StillScanning
<1> QED
  BY <1>2, <1>3, <1>4, <1>5 DEF ScanInv

-----------------------------------------------------------------------------
(* The steps of propagate: the trail and the clauses, and the watchers     *)
(* visited so far.                                                         *)
LEMMA BinarySatisfiedScan ==
    ASSUME IInv, binarySatisfied, UNCHANGED <<analysisVars, vivifyVars>>
    PROVE  KernelInv' /\ ScanInv'
<1>1. /\ Scanning /\ ScanningBinary /\ IsTrue(binWatchers[prop.k].blocker)
      /\ prop' = [prop EXCEPT !.k = @ + 1]
      /\ UNCHANGED <<ca, watches, dirty, assigns, vardata, trail, trail_lim, qhead, db, unitCids, viv, pc>>
  BY DEF binarySatisfied, ScanningBinary, clauseVars, trailVars, tracerVars, vivifyVars
<1>2. prop'.lit = prop.lit /\ prop'.k = prop.k + 1 /\ prop'.i = prop.i /\ prop.k \in Nat /\ prop.i \in Nat
  BY <1>1, ScanFacts
<1>3. StillScanning /\ Extended
  BY <1>1, <1>2, TrailShape DEF StillScanning, Extended
<1>4. settled' = settled
  BY <1>1 DEF settled
<1>5. ASSUME pc = "propagate"
      PROVE  /\ Visited(binWatchers', ca', vardata', trail', trail_lim', settled', prop'.k, qhead)
             /\ Visited(longWatchers', ca', vardata', trail', trail_lim', settled', prop'.i, qhead)
  <2> DEFINE cr == binWatchers[prop.k].cref
             b == binWatchers[prop.k].blocker
  <2>1. ToSet(ca[cr].lits) = {b, -prop.lit} /\ b \in Lits
    BY <1>1, BinaryFacts
  <2>2. Covered(ca[cr].lits, vardata, trail, trail_lim, settled, qhead)
    BY <1>1, <1>5, <2>1, TrueCovers
  <2>3. /\ Visited(binWatchers, ca, vardata, trail, trail_lim, settled, prop.k, qhead)
        /\ Visited(longWatchers, ca, vardata, trail, trail_lim, settled, prop.i, qhead)
    BY <1>1, <1>5, Shapes DEF ScanInv, Scanning
  <2>4. binWatchers \in Seq([cref : DOMAIN ca, blocker : Lits])
    BY <1>1, MemoryShape, ListTypes, ScanFacts DEF binWatchers
  <2>5. Visited(binWatchers, ca, vardata, trail, trail_lim, settled, prop.k + 1, qhead)
    BY <1>2, <2>2, <2>3, <2>4, VisitedMore
  <2>6. binWatchers' = binWatchers /\ longWatchers' = longWatchers
    BY <1>1, <1>2 DEF binWatchers, longWatchers
  <2> QED
    BY <1>1, <1>2, <1>4, <2>3, <2>5, <2>6
<1>6. ScanInv' /\ done' = done
  BY <1>1, <1>3, <1>5, ScanNext
<1>7. KernelInv'
  BY <1>1, <1>4, <1>6, QuietKernel, SameLog, TrailShape
<1> QED
  BY <1>6, <1>7

(* The scan is over, or ends with a conflict.                              *)
LEMMA ScanEnds ==
    ASSUME prop'.lit = 0, ~(pc' \notin {"conflict", "sat", "unsat"} \cup Analyzing /\ trail_lim' # <<>>)
                             \/ trail_lim'[Len(trail_lim')] <= done'
    PROVE  ScanInv'
BY DEF ScanInv, NoProp

(* The greatest of the numbers of trail_lim that are at most done.         *)
LEMMA LastLim ==
    ASSUME IInv, Scanning
    PROVE  /\ trail_lim # <<>> => trail_lim[Len(trail_lim)] <= done /\ trail_lim[Len(trail_lim)] \in Nat
           /\ trail_lim \in Seq(Nat)
<1>1. Propagating
  BY DEF Scanning
<1>2. pc \notin {"conflict", "sat", "unsat"} \cup Analyzing
  BY <1>1 DEF Propagating, Simple, Analyzing
<1>3. trail_lim # <<>> => trail_lim[Len(trail_lim)] <= done
  BY <1>2, Shapes DEF ScanInv
<1>4. trail_lim \in Seq(Nat)
  BY TrailShape
<1>5. trail_lim # <<>> => trail_lim[Len(trail_lim)] \in Nat
  <2>1. trail_lim # <<>> => Len(trail_lim) \in DOMAIN trail_lim
    BY <1>4
  <2> QED
    BY <1>4, <2>1
<1> QED
  BY <1>3, <1>4, <1>5

(* A conflict stops the propagation at the place of the last decision.     *)
LEMMA ConflictKernel ==
    ASSUME IInv, Scanning, NEW cr, ReturnConflict(cr), UNCHANGED <<analysisVars, vivifyVars>>,
           UNCHANGED trail_lim
    PROVE  ScanInv' /\ done' \in Nat /\ done' <= done
<1>1. trail_lim # <<>> => trail_lim[Len(trail_lim)] <= done /\ trail_lim[Len(trail_lim)] \in Nat
  BY LastLim
<1>2. prop'.lit = 0 /\ pc' = IF Simple THEN "simpleAnalyze" ELSE "conflict"
  BY DEF ReturnConflict, NoProp
<1>3. done \in Nat
  BY TrailShape
<1>4. CASE Simple
  <2>1. pc' = "simpleAnalyze" /\ pc' \in Assuming /\ pc \in Assuming
    BY <1>2, <1>4 DEF Assuming, Simple
  <2>2. done' = done
    BY <2>1, WhereNow, WhereNext DEF vivifyVars
  <2>3. trail_lim' # <<>> => trail_lim'[Len(trail_lim')] <= done'
    BY <1>1, <2>2
  <2> QED
    BY <1>2, <1>3, <2>2, <2>3, ScanEnds
<1>5. CASE ~Simple
  <2>1. pc' = "conflict"
    BY <1>2, <1>5
  <2>2. done' = IF trail_lim = <<>> THEN 0 ELSE trail_lim[Len(trail_lim)]
    BY <2>1, WhereNext
  <2> QED
    BY <1>1, <1>2, <1>3, <2>1, <2>2, ScanEnds
<1> QED
  BY <1>4, <1>5

LEMMA BinaryConflictScan ==
    ASSUME IInv, binaryConflict, UNCHANGED <<analysisVars, vivifyVars>>
    PROVE  KernelInv' /\ ScanInv'
<1>1. /\ Scanning /\ ReturnConflict(binWatchers[prop.k].cref)
      /\ UNCHANGED <<ca, watches, dirty, assigns, vardata, trail, trail_lim, qhead, db, unitCids, viv>>
  BY DEF binaryConflict, ScanningBinary, clauseVars, trailVars, tracerVars, vivifyVars
<1>2. ScanInv' /\ done' \in Nat /\ done' <= done
  BY <1>1, ConflictKernel
<1>3. settled' = settled
  BY <1>1 DEF settled, ReturnConflict, Assuming, Scanning, Propagating, Simple
<1>4. KernelInv'
  BY <1>1, <1>2, <1>3, QuietKernel, SameLog
<1> QED
  BY <1>2, <1>4

(* After the literal p has been enqueued or assumed, the trail goes on     *)
(* from where it was.                                                      *)
LEMMA ExtensionAgrees ==
    ASSUME IInv, NEW p, NEW r, NEW lv, Extension(vardata, trail, p, r, lv, assigns', vardata', trail')
    PROVE  /\ Extended /\ Len(trail') = Len(trail) + 1 /\ trail'[Len(trail) + 1] = p
           /\ Agree(vardata, vardata', trail, trail', Len(trail))
           /\ vardata'[Var(p)].level = lv /\ OnTrail(trail', p, Len(trail'))
           /\ HasLevels(vardata') /\ trail' \in Seq(Lits) /\ Lv(vardata', p) = lv
<1>1. /\ \A i \in 1 .. Len(trail) : trail'[i] = trail[i]
      /\ trail'[Len(trail) + 1] = p /\ Len(trail') = Len(trail) + 1
      /\ Agree(vardata, vardata', trail, trail', Len(trail))
      /\ HasLevels(vardata') /\ trail' \in Seq(Lits) /\ Lv(vardata', p) = lv
  BY DEF Extension
<1>2. vardata'[Var(p)].level = lv
  BY <1>1 DEF Lv
<1>3. Len(trail) \in Nat
  BY TrailShape
<1>4. Extended
  BY <1>1, <1>3 DEF Extended
<1>5. Len(trail') \in 1 .. Len(trail')
  BY <1>1, <1>3
<1>6. OnTrail(trail', p, Len(trail'))
  BY <1>1, <1>5 DEF OnTrail
<1> QED
  BY <1>1, <1>2, <1>4, <1>6

LEMMA BinaryImpliesScan ==
    ASSUME IInv, binaryImplies, UNCHANGED <<analysisVars, vivifyVars>>
    PROVE  KernelInv' /\ ScanInv'
<1> DEFINE cr == binWatchers[prop.k].cref
           b == binWatchers[prop.k].blocker
<1>1. /\ Scanning /\ ScanningBinary /\ IsUndef(b) /\ Imply(b, currLevel, cr)
      /\ prop' = [prop EXCEPT !.k = @ + 1]
      /\ UNCHANGED <<ca, watches, dirty, trail_lim, qhead, viv, pc>>
  BY DEF binaryImplies, ScanningBinary, clauseVars, vivifyVars
<1>2. prop'.lit = prop.lit /\ prop'.k = prop.k + 1 /\ prop'.i = prop.i /\ prop.k \in Nat /\ prop.i \in Nat
  BY <1>1, ScanFacts
<1>3. /\ cr \in DOMAIN ca /\ cr # CRef_Undef /\ ~ca[cr].freed /\ cr # viv.cr
      /\ ca[cr].lits \in Seq(Lits) /\ Len(ca[cr].lits) = 2 /\ b \in Lits /\ b # -prop.lit
      /\ ToSet(ca[cr].lits) = {b, -prop.lit}
  BY <1>1, BinaryFacts
<1>4. Watchful(ca', watches', dirty', viv'.cr)
  BY <1>1, MemoryShape
<1>5. binWatchers' = binWatchers /\ longWatchers' = longWatchers
  BY <1>1, <1>2 DEF binWatchers, longWatchers
<1>6. prop.lit \in Lits /\ IsTrue(prop.lit) /\ qhead \in 1 .. Len(trail)
  BY <1>1, ScanFacts
<1>7. CASE Simple
  <2>1. simpleUncheckEnqueue(b, cr) /\ pc \in Assuming
    BY <1>1, <1>7 DEF Imply, Simple, Assuming
  <2>2. Trailing(ca, viv.cr, assigns', vardata', trail', trail_lim, settled, done, unitCids', db')
    BY <1>1, <1>3, <2>1, AssumeOn, TrailShape
  <2>3. Extended
    BY <1>3, <2>1, TrailShape DEF simpleUncheckEnqueue, Extended
  <2>4. settled' = settled /\ pc # "propagate"
    BY <1>1, <1>7, <2>1, WhereNow, WhereNext DEF Simple
  <2>5. ScanInv' /\ done' = done
    BY <1>1, <1>2, <2>3, <2>4, ScanNext DEF StillScanning
  <2>6. Trailing(ca', viv'.cr, assigns', vardata', trail', trail_lim', settled', done', unitCids', db')
    BY <1>1, <2>2, <2>4, <2>5
  <2> QED
    BY <1>4, <2>5, <2>6 DEF KernelInv
<1>8. CASE ~Simple
  <2>1. uncheckedEnqueue(b, currLevel, cr, db, an) /\ pc = "propagate" /\ pc \notin Assuming
    BY <1>1, <1>8 DEF Imply, Scanning, Propagating, Assuming
  <2>2. /\ currLevel \in Nat /\ currLevel = Lv(vardata, prop.lit)
        /\ settled = Len(trail) /\ done = qhead - 1
        /\ Within(trail_lim, currLevel, qhead)
        /\ Within(trail_lim, currLevel, Len(trail) + 1)
    BY <1>1, <2>1, PropLevel
  <2>3. CanEnter(b, currLevel, db)
    BY <1>1, <1>3, <2>2, LogItself DEF CanEnter
  <2>4. CanEnqueue(ca, viv.cr, assigns, vardata, trail, trail_lim, b, cr, currLevel)
    <3>1. -prop.lit \in Lits /\ Var(-prop.lit) = Var(prop.lit) /\ IsFalse(-prop.lit)
      BY <1>6, LitFacts DEF IsTrue, IsFalse
    <3>2. Lv(vardata, -prop.lit) = currLevel
      BY <2>2, <3>1 DEF Lv
    <3>3. b \in ToSet(ca[cr].lits)
      BY <1>3
    <3> HIDE DEF cr, b
    <3> QED
      BY <1>3, <2>2, <3>1, <3>2, <3>3, ImpliesFrom
  <2>5. /\ Trailing(ca, viv.cr, assigns', vardata', trail', trail_lim, Len(trail'), done, unitCids', db')
        /\ Extension(vardata, trail, b, cr, currLevel, assigns', vardata', trail')
    <3>1. Trailing(ca, viv.cr, assigns, vardata, trail, trail_lim, Len(trail), done, unitCids, db)
      BY <2>2, TrailShape
    <3> QED
      BY <2>1, <2>3, <2>4, <3>1, EnqueueOn
  <2>6. /\ Extended /\ Len(trail') = Len(trail) + 1
        /\ Agree(vardata, vardata', trail, trail', Len(trail))
        /\ Lv(vardata', b) = currLevel /\ OnTrail(trail', b, Len(trail'))
    BY <2>5, ExtensionAgrees
  <2>7. settled' = Len(trail')
    BY <1>1, <2>1, WhereNext
  <2>8. /\ Visited(binWatchers, ca, vardata', trail', trail_lim, Len(trail'), prop.k, qhead)
        /\ Visited(longWatchers, ca, vardata', trail', trail_lim, Len(trail'), prop.i, qhead)
    <3>1. Len(trail') \in Nat /\ settled <= Len(trail')
      BY <2>2, <2>6, TrailShape
    <3>2. Agree(vardata, vardata', trail, trail', settled)
      BY <2>2, <2>6
    <3> QED
      BY <1>1, <2>1, <3>1, <3>2, ScanMore
  <2>9. Covered(ca[cr].lits, vardata', trail', trail_lim, Len(trail'), qhead)
    BY <1>3, <2>2, <2>6 DEF Covered
  <2>10. binWatchers \in Seq([cref : DOMAIN ca, blocker : Lits])
    BY <1>6, MemoryShape, ListTypes DEF binWatchers
  <2>11. Visited(binWatchers, ca, vardata', trail', trail_lim, Len(trail'), prop.k + 1, qhead)
    BY <1>2, <2>8, <2>9, <2>10, VisitedMore
  <2>12. /\ Visited(binWatchers', ca', vardata', trail', trail_lim', settled', prop'.k, qhead)
         /\ Visited(longWatchers', ca', vardata', trail', trail_lim', settled', prop'.i, qhead)
    BY <1>1, <1>2, <1>5, <2>7, <2>8, <2>11
  <2>13. ScanInv' /\ done' = done
    BY <1>1, <1>2, <2>6, <2>12, ScanNext DEF StillScanning
  <2>14. Trailing(ca', viv'.cr, assigns', vardata', trail', trail_lim', settled', done', unitCids', db')
    BY <1>1, <2>5, <2>7, <2>13
  <2> QED
    BY <1>4, <2>13, <2>14 DEF KernelInv
<1> QED
  BY <1>7, <1>8

(* The lists cleaned.                                                      *)
LEMMA CleanFacts ==
    ASSUME IInv, cleanAll
    PROVE  /\ Watchful(ca, watches', dirty', viv.cr) /\ Clean'
           /\ dirty' = [k \in {"bin", "long"} |-> {}]
<1>1. /\ watches \in WatcherLists(ca) /\ dirty \in [{"bin", "long"} -> SUBSET Lits]
      /\ Watchful(ca, watches, dirty, viv.cr)
  BY MemoryShape
<1>2. DOMAIN watches = {"bin", "long"} /\ DOMAIN dirty = {"bin", "long"}
  BY <1>1 DEF WatcherLists
<1>3. watches' = [k \in {"bin", "long"} |-> [l \in Lits |->
            IF l \in dirty[k]
              THEN Selected(watches[k][l], LAMBDA w : ~ca[w.cref].freed)
              ELSE watches[k][l]]]
  BY <1>2 DEF cleanAll
<1>4. dirty' = [k \in {"bin", "long"} |-> {}]
  BY <1>2 DEF cleanAll
<1>5. CleanedAll(ca, watches, watches', dirty)
  <2> SUFFICES ASSUME NEW k \in {"bin", "long"}, NEW l \in Lits
               PROVE  watches'[k][l] = IF l \in dirty[k]
                        THEN PickAt(watches[k][l], {i \in DOMAIN watches[k][l] : ~ca[watches[k][l][i].cref].freed})
                        ELSE watches[k][l]
    BY DEF CleanedAll
  <2>1. watches'[k][l] = IF l \in dirty[k]
              THEN Selected(watches[k][l], LAMBDA w : ~ca[w.cref].freed)
              ELSE watches[k][l]
    BY <1>3
  <2> QED
    BY <2>1 DEF Selected, PickAt
<1>6. watches' = [k \in {"bin", "long"} |-> [l \in Lits |-> watches'[k][l]]]
  BY <1>3
<1>7. viv.cr \in DOMAIN ca => ~ca[viv.cr].freed
  BY Shapes DEF HandInv
<1>8. Watchful(ca, watches', dirty', viv.cr)
  BY <1>1, <1>4, <1>5, <1>6, <1>7, WatchfulCleaned
<1>9. Clean'
  BY <1>4 DEF Clean
<1> QED
  BY <1>4, <1>8, <1>9

LEMMA PropagateBeginScan ==
    ASSUME IInv, propagateBegin, UNCHANGED <<analysisVars, vivifyVars>>
    PROVE  KernelInv' /\ ScanInv'
<1>1. /\ pc = "clean" /\ cleanAll /\ pc' = "propagate"
      /\ UNCHANGED <<ca, assigns, vardata, trail, trail_lim, qhead, db, unitCids, viv, prop>>
  BY DEF propagateBegin, trailVars, tracerVars, vivifyVars
<1>2. prop = NoProp /\ prop.lit = 0
  BY <1>1, Shapes DEF ControlInv, NoProp, Propagating, Simple
<1>3. settled' = settled /\ done' = done
  BY <1>1, <1>2, WhereNow, WhereNext DEF Assuming
<1>4. Watchful(ca', watches', dirty', viv'.cr)
  BY <1>1, CleanFacts
<1>5. Trailing(ca', viv'.cr, assigns', vardata', trail', trail_lim', settled', done', unitCids', db')
  BY <1>1, <1>3, TrailShape
<1>6. trail_lim # <<>> => trail_lim[Len(trail_lim)] <= done
  BY <1>1, Shapes DEF ScanInv, Analyzing
<1>7. ScanInv'
  BY <1>1, <1>2, <1>3, <1>6, ScanEnds
<1> QED
  BY <1>4, <1>5, <1>7 DEF KernelInv

LEMMA PropagateDequeueScan ==
    ASSUME IInv, propagateDequeue, UNCHANGED <<analysisVars, vivifyVars>>
    PROVE  KernelInv' /\ ScanInv'
<1>1. /\ Propagating /\ prop.lit = 0 /\ qhead < Len(trail) /\ qhead' = qhead + 1
      /\ prop' = [NoProp EXCEPT !.lit = trail[qhead + 1]]
      /\ UNCHANGED <<ca, watches, dirty, assigns, vardata, trail, trail_lim, db, unitCids, viv, pc>>
  BY DEF propagateDequeue, clauseVars, tracerVars, vivifyVars
<1>2. prop'.lit = trail[qhead'] /\ prop'.k = 1 /\ prop'.i = 1
  BY <1>1 DEF NoProp
<1>3. qhead \in Nat /\ qhead' >= 1 /\ qhead' \in 1 .. Len(trail)
  BY <1>1, Shapes, TrailShape
<1>4. prop'.lit # 0
  BY <1>2, <1>3, TrailShape, Element, LitFacts
<1>5. settled' = settled /\ done' = done
  <2>1. CASE pc = "propagate"
    <3>1. qhead' - 1 = qhead
      BY <1>1, <1>3
    <3> QED
      BY <1>1, <1>4, <2>1, <3>1, WhereNow, WhereNext DEF Assuming
  <2>2. CASE pc = "simplePropagate"
    BY <1>1, <2>2, WhereNow, WhereNext DEF Assuming
  <2> QED
    BY <1>1, <2>1, <2>2 DEF Propagating, Simple
<1>6. KernelInv'
  BY <1>1, <1>5, QuietKernel, SameLog, TrailShape
<1>7. Visited(binWatchers', ca', vardata', trail', trail_lim', settled', prop'.k, qhead')
      /\ Visited(longWatchers', ca', vardata', trail', trail_lim', settled', prop'.i, qhead')
  <2>1. prop'.lit \in Lits
    BY <1>2, <1>3, TrailShape, Element
  <2>2. \A kind \in {"bin", "long"} : watches[kind][prop'.lit] \in Seq([cref : DOMAIN ca, blocker : Lits])
    BY <2>1, MemoryShape, ListTypes
  <2>3. \A kind \in {"bin", "long"} : \A k \in DOMAIN watches[kind][prop'.lit] : ~(k < 1)
    BY <2>2
  <2>4. binWatchers' = watches["bin"][prop'.lit] /\ longWatchers' = watches["long"][prop'.lit]
    BY <1>1 DEF binWatchers, longWatchers
  <2> QED
    BY <1>2, <2>3, <2>4 DEF Visited
<1>8. trail_lim # <<>> => trail_lim[Len(trail_lim)] <= done
  BY <1>1, Shapes DEF ScanInv, Analyzing, Propagating, Simple
<1>9. ScanInv'
  BY <1>1, <1>2, <1>3, <1>5, <1>7, <1>8 DEF ScanInv
<1> QED
  BY <1>6, <1>9

(* Every watcher of the literal has been visited: the trail is complete up *)
(* to its place.                                                           *)
LEMMA PropagateNextScan ==
    ASSUME IInv, propagateNext, UNCHANGED <<analysisVars, vivifyVars>>
    PROVE  KernelInv' /\ ScanInv'
<1>1. /\ Scanning /\ prop.k > Len(binWatchers) /\ prop.i > Len(longWatchers) /\ prop' = NoProp
      /\ UNCHANGED <<ca, watches, dirty, assigns, vardata, trail, trail_lim, qhead, db, unitCids, viv, pc>>
  BY DEF propagateNext, clauseVars, trailVars, tracerVars, vivifyVars
<1>2. prop'.lit = 0 /\ settled' = settled
  BY <1>1 DEF NoProp, settled
<1>3. /\ prop.lit \in Lits /\ trail[qhead] = prop.lit /\ qhead \in 1 .. Len(trail)
      /\ prop.k \in Nat /\ prop.i \in Nat
  BY <1>1, ScanFacts
<1>4. CASE pc = "simplePropagate"
  <2>1. done' = done
    BY <1>1, <1>4, WhereNow, WhereNext DEF Assuming
  <2>2. trail_lim # <<>> => trail_lim[Len(trail_lim)] <= done
    BY <1>1, LastLim
  <2>3. ScanInv'
    BY <1>1, <1>2, <2>1, <2>2, ScanEnds
  <2> QED
    BY <1>1, <1>2, <2>1, <2>3, QuietKernel, SameLog, TrailShape
<1>5. CASE pc = "propagate"
  <2>1. done' = qhead /\ done = qhead - 1 /\ settled = Len(trail)
    BY <1>1, <1>2, <1>5, PropLevel, WhereNext
  <2>2. Complete(ca, vardata, trail, trail_lim, viv.cr, settled, done + 1)
    <3>1. /\ Visited(binWatchers, ca, vardata, trail, trail_lim, settled, prop.k, qhead)
          /\ Visited(longWatchers, ca, vardata, trail, trail_lim, settled, prop.i, qhead)
      BY <1>1, <1>5, Shapes DEF ScanInv, Scanning
    <3>2. done \in Nat /\ done + 1 = qhead
      BY <1>3, <2>1, TrailShape
    <3>3. Complete(ca, vardata, trail, trail_lim, viv.cr, settled, done)
      BY TrailShape
    <3>4. Watchful(ca, watches, dirty, viv.cr)
      BY MemoryShape
    <3>5. /\ Visited(watches["bin"][prop.lit], ca, vardata, trail, trail_lim, settled, prop.k, done + 1)
          /\ Visited(watches["long"][prop.lit], ca, vardata, trail, trail_lim, settled, prop.i, done + 1)
          /\ trail[done + 1] = prop.lit
          /\ prop.k > Len(watches["bin"][prop.lit]) /\ prop.i > Len(watches["long"][prop.lit])
      BY <1>1, <1>3, <3>1, <3>2 DEF binWatchers, longWatchers
    <3> QED
      BY <1>3, <3>2, <3>3, <3>4, <3>5, CompleteNext
  <2>3. done + 1 = qhead /\ qhead \in Nat /\ qhead <= settled
    BY <1>3, <2>1
  <2>4. Trailing(ca, viv.cr, assigns, vardata, trail, trail_lim, settled, qhead, unitCids, db)
    BY <2>2, <2>3, TrailShape, TrailingRaise
  <2>5. Trailing(ca', viv'.cr, assigns', vardata', trail', trail_lim', settled', done', unitCids', db')
    BY <1>1, <1>2, <2>1, <2>4
  <2>6. Watchful(ca', watches', dirty', viv'.cr)
    BY <1>1, MemoryShape
  <2>7. trail_lim # <<>> => trail_lim[Len(trail_lim)] <= qhead
    BY <1>1, <1>3, <2>1, LastLim
  <2>8. ScanInv'
    BY <1>1, <1>2, <2>1, <2>7, ScanEnds
  <2> QED
    BY <2>5, <2>6, <2>8 DEF KernelInv
<1> QED
  BY <1>1, <1>4, <1>5 DEF Scanning, Propagating, Simple

LEMMA BlockerTrueScan ==
    ASSUME IInv, blockerTrue, UNCHANGED <<analysisVars, vivifyVars>>
    PROVE  KernelInv' /\ ScanInv'
<1>1. /\ Scanning /\ ScanningLong /\ IsTrue(longWatcher.blocker) /\ prop' = [prop EXCEPT !.i = @ + 1]
      /\ UNCHANGED <<ca, watches, dirty, assigns, vardata, trail, trail_lim, qhead, db, unitCids, viv, pc>>
  BY DEF blockerTrue, ScanningLong, clauseVars, trailVars, tracerVars, vivifyVars
<1>2. prop'.lit = prop.lit /\ prop'.k = prop.k /\ prop'.i = prop.i + 1 /\ prop.k \in Nat /\ prop.i \in Nat
  BY <1>1, ScanFacts
<1>3. StillScanning /\ Extended
  BY <1>1, <1>2, TrailShape DEF StillScanning, Extended
<1>4. settled' = settled
  BY <1>1 DEF settled
<1>5. ASSUME pc = "propagate"
      PROVE  /\ Visited(binWatchers', ca', vardata', trail', trail_lim', settled', prop'.k, qhead)
             /\ Visited(longWatchers', ca', vardata', trail', trail_lim', settled', prop'.i, qhead)
  <2> DEFINE cr == longWatcher.cref
             b == longWatcher.blocker
  <2>1. b \in ToSet(ca[cr].lits) /\ b \in Lits /\ longWatchers[prop.i] = longWatcher
    BY <1>1, LongFacts DEF longWatcher
  <2>2. Covered(ca[cr].lits, vardata, trail, trail_lim, settled, qhead)
    BY <1>1, <1>5, <2>1, TrueCovers
  <2>3. /\ Visited(binWatchers, ca, vardata, trail, trail_lim, settled, prop.k, qhead)
        /\ Visited(longWatchers, ca, vardata, trail, trail_lim, settled, prop.i, qhead)
    BY <1>1, <1>5, Shapes DEF ScanInv, Scanning
  <2>4. longWatchers \in Seq([cref : DOMAIN ca, blocker : Lits])
    BY <1>1, MemoryShape, ListTypes, ScanFacts DEF longWatchers
  <2>5. Visited(longWatchers, ca, vardata, trail, trail_lim, settled, prop.i + 1, qhead)
    BY <1>2, <2>1, <2>2, <2>3, <2>4, VisitedMore
  <2>6. binWatchers' = binWatchers /\ longWatchers' = longWatchers
    BY <1>1, <1>2 DEF binWatchers, longWatchers
  <2> QED
    BY <1>1, <1>2, <1>4, <2>3, <2>5, <2>6
<1>6. ScanInv' /\ done' = done
  BY <1>1, <1>3, <1>5, ScanNext
<1>7. KernelInv'
  BY <1>1, <1>4, <1>6, QuietKernel, SameLog, TrailShape
<1> QED
  BY <1>6, <1>7

(* The clause of a long watcher with its false literal put second.         *)
Stored(c) == c = [ca EXCEPT ![longWatcher.cref].lits = normalized]

LEMMA StoredFacts ==
    ASSUME IInv, ScanningLong, NEW c, Stored(c), NEW cr, cr = longWatcher.cref
    PROVE  /\ DOMAIN c = DOMAIN ca /\ c[cr].lits = normalized
           /\ \A k \in DOMAIN ca : c[k].freed = ca[k].freed /\ ToSet(c[k].lits) = ToSet(ca[k].lits)
           /\ \A k \in DOMAIN ca : k # cr => c[k] = ca[k]
           /\ Trailing(c, viv.cr, assigns, vardata, trail, trail_lim, settled, done, unitCids, db)
           /\ Watchful(c, watches, dirty, viv.cr)
           /\ pc = "propagate" =>
                /\ Visited(binWatchers, c, vardata, trail, trail_lim, settled, prop.k, qhead)
                /\ Visited(longWatchers, c, vardata, trail, trail_lim, settled, prop.i, qhead)
<1> DEFINE q == ca[cr].lits
<1>1. /\ cr \in DOMAIN ca /\ q \in Seq(Lits) /\ AllDistinct(normalized)
      /\ normalized \in Seq(Lits) /\ Len(normalized) = Len(q) /\ ToSet(normalized) = ToSet(q)
      /\ {normalized[1], normalized[2]} = {q[1], q[2]}
      /\ normalized[1] = q[1] \/ q[1] = -prop.lit
  BY LongFacts
<1>2. ca \in Clauses(db) /\ db \in Log
  BY Shapes
<1>3. Changed(ca, c, cr, normalized, ca[cr].cid)
  BY <1>1, <1>2, ExceptLits DEF Stored
<1>4. /\ DOMAIN c = DOMAIN ca /\ \A k \in DOMAIN ca : k # cr => c[k] = ca[k]
      /\ c[cr].lits = normalized /\ c[cr].freed = ca[cr].freed
  BY <1>3 DEF Changed
<1>5. q[1] = -prop.lit => assigns[Var(q[1])] # q[1]
  <2>1. prop.lit \in Lits /\ assigns[Var(prop.lit)] = prop.lit
    BY ScanFacts DEF ScanningLong, IsTrue
  <2> QED
    BY <2>1, LitFacts
<1>6. Exchanged(ca, c, cr, normalized, assigns)
  BY <1>1, <1>4, <1>5 DEF Exchanged
<1>7. Trailing(c, viv.cr, assigns, vardata, trail, trail_lim, settled, done, unitCids, db)
  BY <1>6, TrailShape, TrailingExchanged
<1>8. Reordered(ca, c)
  BY <1>6, MemoryShape, ExchangedReordered
<1>9. Watchful(c, watches, dirty, viv.cr)
  BY <1>8, MemoryShape, WatchfulReordered
<1>10. \A k \in DOMAIN ca : c[k].freed = ca[k].freed /\ ToSet(c[k].lits) = ToSet(ca[k].lits)
  BY <1>8, ReorderedParts
<1>11. ASSUME pc = "propagate"
       PROVE  /\ Visited(binWatchers, c, vardata, trail, trail_lim, settled, prop.k, qhead)
              /\ Visited(longWatchers, c, vardata, trail, trail_lim, settled, prop.i, qhead)
  <2>1. /\ Visited(binWatchers, ca, vardata, trail, trail_lim, settled, prop.k, qhead)
        /\ Visited(longWatchers, ca, vardata, trail, trail_lim, settled, prop.i, qhead)
    BY <1>11, Shapes DEF ScanInv, Scanning, ScanningLong
  <2>2. prop.lit \in Lits /\ watches \in WatcherLists(ca)
    BY ScanFacts, MemoryShape DEF ScanningLong
  <2>3. \A k \in DOMAIN binWatchers : binWatchers[k].cref \in DOMAIN ca
    BY <2>2, ListTypes DEF binWatchers
  <2>4. \A k \in DOMAIN longWatchers : longWatchers[k].cref \in DOMAIN ca
    BY <2>2, ListTypes DEF longWatchers
  <2>5. Visited(binWatchers, c, vardata, trail, trail_lim, settled, prop.k, qhead)
    BY <1>10, <2>1, <2>3, VisitedKept
  <2>6. Visited(longWatchers, c, vardata, trail, trail_lim, settled, prop.i, qhead)
    BY <1>10, <2>1, <2>4, VisitedKept
  <2> QED
    BY <2>5, <2>6
<1> QED
  BY <1>4, <1>7, <1>9, <1>10, <1>11

(* The watcher stays, with the first literal as its blocker.               *)
Refreshing(w) == w = [watches EXCEPT !["long"][prop.lit][prop.i] = refreshed]

LEMMA RefreshFacts ==
    ASSUME IInv, ScanningLong, NEW c, Stored(c), NEW w, Refreshing(w)
    PROVE  /\ Watchful(c, w, dirty, viv.cr)
           /\ w["bin"][prop.lit] = binWatchers /\ DOMAIN w["long"][prop.lit] = DOMAIN longWatchers
           /\ \A k \in DOMAIN longWatchers : w["long"][prop.lit][k].cref = longWatchers[k].cref
<1> DEFINE cr == longWatcher.cref
<1>1. prop.lit \in Lits
  BY ScanFacts DEF ScanningLong
<1>2. prop.i \in DOMAIN longWatchers /\ longWatcher = watches["long"][prop.lit][prop.i]
  BY LongFacts
<1>3. c[cr].lits = normalized /\ Watchful(c, watches, dirty, viv.cr)
  BY StoredFacts
<1>4. first \in Lits /\ first # -prop.lit /\ first \in ToSet(normalized)
  <2>1. normalized[1] \in Lits /\ normalized[1] # -prop.lit /\ normalized \in Seq(Lits) /\ Len(normalized) = Len(ca[cr].lits)
        /\ Len(ca[cr].lits) >= 3 /\ ca[cr].lits \in Seq(Lits)
    BY LongFacts
  <2>2. Len(ca[cr].lits) \in Nat
    BY <2>1
  <2>3. 1 \in 1 .. Len(normalized)
    BY <2>1, <2>2
  <2>4. normalized[1] \in ToSet(normalized)
    BY <2>1, <2>3, Element
  <2> QED
    BY <2>1, <2>4 DEF first
<1>5. longWatchers = watches["long"][prop.lit] /\ binWatchers = watches["bin"][prop.lit]
  BY DEF longWatchers, binWatchers
<1>6. w = [watches EXCEPT !["long"][prop.lit][prop.i] = Watcher(cr, first)]
  BY DEF Refreshing, refreshed
<1>7. Refreshed(c, watches, w, prop.lit, prop.i, first)
  BY <1>1, <1>2, <1>3, <1>4, <1>5, <1>6 DEF Refreshed
<1>8. Watchful(c, w, dirty, viv.cr)
  BY <1>3, <1>7, WatchfulRefreshed
<1>9. watches \in WatcherLists(ca) /\ longWatchers \in Seq([cref : DOMAIN ca, blocker : Lits])
  BY <1>1, <1>5, MemoryShape, ListTypes
<1>10. /\ w["bin"][prop.lit] = watches["bin"][prop.lit]
       /\ w["long"][prop.lit] = [watches["long"][prop.lit] EXCEPT ![prop.i] = Watcher(cr, first)]
  BY <1>1, <1>6, <1>9 DEF WatcherLists
<1>11. /\ DOMAIN w["long"][prop.lit] = DOMAIN longWatchers
       /\ \A k \in DOMAIN longWatchers : w["long"][prop.lit][k].cref = longWatchers[k].cref
  BY <1>2, <1>5, <1>9, <1>10 DEF Watcher
<1> QED
  BY <1>5, <1>8, <1>10, <1>11

(* A watcher that stays has been visited once its clause is covered.       *)
LEMMA RefreshVisited ==
    ASSUME IInv, ScanningLong, pc = "propagate", NEW c, Stored(c), NEW w, Refreshing(w),
           NEW vd2, NEW tr2, NEW n2 \in Nat, settled <= n2,
           Agree(vardata, vd2, trail, tr2, settled),
           Covered(normalized, vd2, tr2, trail_lim, n2, qhead)
    PROVE  /\ Visited(w["bin"][prop.lit], c, vd2, tr2, trail_lim, n2, prop.k, qhead)
           /\ Visited(w["long"][prop.lit], c, vd2, tr2, trail_lim, n2, prop.i + 1, qhead)
<1>1. /\ Visited(binWatchers, c, vardata, trail, trail_lim, settled, prop.k, qhead)
      /\ Visited(longWatchers, c, vardata, trail, trail_lim, settled, prop.i, qhead)
      /\ c[longWatcher.cref].lits = normalized
  BY StoredFacts
<1>2. settled \in Nat
  BY TrailShape
<1>3. /\ Visited(binWatchers, c, vd2, tr2, trail_lim, n2, prop.k, qhead)
      /\ Visited(longWatchers, c, vd2, tr2, trail_lim, n2, prop.i, qhead)
  BY <1>1, <1>2, VisitedFrame
<1>4. longWatchers \in Seq([cref : DOMAIN ca, blocker : Lits]) /\ prop.i \in Nat
  BY ScanFacts, MemoryShape, ListTypes DEF longWatchers, ScanningLong
<1>5. longWatchers[prop.i].cref = longWatcher.cref
  BY DEF longWatcher
<1>6. Visited(longWatchers, c, vd2, tr2, trail_lim, n2, prop.i + 1, qhead)
  BY <1>1, <1>3, <1>4, <1>5, VisitedMore
<1>7. /\ w["bin"][prop.lit] = binWatchers /\ DOMAIN w["long"][prop.lit] = DOMAIN longWatchers
      /\ \A k \in DOMAIN longWatchers : w["long"][prop.lit][k].cref = longWatchers[k].cref
  BY RefreshFacts
<1>8. Visited(w["long"][prop.lit], c, vd2, tr2, trail_lim, n2, prop.i + 1, qhead)
  BY <1>6, <1>7, VisitedKept
<1> QED
  BY <1>3, <1>7, <1>8

(* KeepRefreshed and StoreLits, with the pieces they change.               *)
LEMMA KeepFacts ==
    ASSUME IInv, ScanningLong, KeepRefreshed
    PROVE  /\ Refreshing(watches') /\ dirty' = dirty
           /\ prop'.lit = prop.lit /\ prop'.k = prop.k /\ prop'.i = prop.i + 1
           /\ binWatchers' = watches'["bin"][prop.lit] /\ longWatchers' = watches'["long"][prop.lit]
<1>1. Refreshing(watches') /\ dirty' = dirty /\ prop' = [prop EXCEPT !.i = @ + 1]
  BY DEF KeepRefreshed, Refreshing
<1>2. prop'.lit = prop.lit /\ prop'.k = prop.k /\ prop'.i = prop.i + 1
  BY <1>1, ScanFacts DEF ScanningLong
<1> QED
  BY <1>1, <1>2 DEF binWatchers, longWatchers

LEMMA FirstTrueScan ==
    ASSUME IInv, firstTrue, UNCHANGED <<analysisVars, vivifyVars>>
    PROVE  KernelInv' /\ ScanInv'
<1>1. /\ Scanning /\ ScanningLong /\ IsTrue(first) /\ Stored(ca') /\ KeepRefreshed
      /\ UNCHANGED <<assigns, vardata, trail, trail_lim, qhead, db, unitCids, viv, pc>>
  BY DEF firstTrue, ScanningLong, trailVars, tracerVars, vivifyVars, StoreLits, Stored
<1>2. /\ Refreshing(watches') /\ dirty' = dirty
      /\ prop'.lit = prop.lit /\ prop'.k = prop.k /\ prop'.i = prop.i + 1
      /\ binWatchers' = watches'["bin"][prop.lit] /\ longWatchers' = watches'["long"][prop.lit]
  BY <1>1, KeepFacts
<1>3. StillScanning /\ Extended /\ settled' = settled
  BY <1>1, <1>2, TrailShape DEF StillScanning, Extended, settled
<1>4. ASSUME pc = "propagate"
      PROVE  /\ Visited(binWatchers', ca', vardata', trail', trail_lim', settled', prop'.k, qhead)
             /\ Visited(longWatchers', ca', vardata', trail', trail_lim', settled', prop'.i, qhead)
  <2>1. first \in Lits /\ first \in ToSet(normalized)
    <3>1. normalized[1] \in Lits /\ normalized \in Seq(Lits) /\ Len(normalized) = Len(ca[longWatcher.cref].lits)
          /\ Len(ca[longWatcher.cref].lits) >= 3 /\ ca[longWatcher.cref].lits \in Seq(Lits)
      BY <1>1, LongFacts
    <3>2. 1 \in 1 .. Len(normalized)
      BY <3>1
    <3> QED
      BY <3>1, <3>2, Element DEF first
  <2>2. Covered(normalized, vardata, trail, trail_lim, settled, qhead)
    BY <1>1, <1>4, <2>1, TrueCovers
  <2>3. settled \in Nat /\ settled <= settled /\ Agree(vardata, vardata, trail, trail, settled)
    BY TrailShape DEF Agree
  <2>4. /\ Visited(watches'["bin"][prop.lit], ca', vardata, trail, trail_lim, settled, prop.k, qhead)
        /\ Visited(watches'["long"][prop.lit], ca', vardata, trail, trail_lim, settled, prop.i + 1, qhead)
    BY <1>1, <1>2, <1>4, <2>2, <2>3, RefreshVisited
  <2> QED
    BY <1>1, <1>2, <1>3, <2>4
<1>5. ScanInv' /\ done' = done
  BY <1>1, <1>3, <1>4, ScanNext
<1>6. Trailing(ca', viv'.cr, assigns', vardata', trail', trail_lim', settled', done', unitCids', db')
  <2>1. Trailing(ca', viv.cr, assigns, vardata, trail, trail_lim, settled, done, unitCids, db)
    BY <1>1, StoredFacts
  <2> QED
    BY <1>1, <1>3, <1>5, <2>1
<1>7. Watchful(ca', watches', dirty', viv'.cr)
  BY <1>1, <1>2, RefreshFacts
<1> QED
  BY <1>5, <1>6, <1>7 DEF KernelInv

LEMMA LongConflictScan ==
    ASSUME IInv, longConflict, UNCHANGED <<analysisVars, vivifyVars>>
    PROVE  KernelInv' /\ ScanInv'
<1>1. /\ Scanning /\ ScanningLong /\ Stored(ca') /\ Refreshing(watches') /\ ReturnConflict(longWatcher.cref)
      /\ UNCHANGED <<dirty, assigns, vardata, trail, trail_lim, db, unitCids, viv>>
  BY DEF longConflict, Unresolved, ScanningLong, tracerVars, vivifyVars, StoreLits, Stored, Refreshing
<1>2. ScanInv' /\ done' \in Nat /\ done' <= done
  BY <1>1, ConflictKernel
<1>3. settled' = settled
  BY <1>1 DEF settled, ReturnConflict, Assuming, Scanning, Propagating, Simple
<1>4. Trailing(ca', viv.cr, assigns, vardata, trail, trail_lim, settled, done, unitCids, db)
  BY <1>1, StoredFacts
<1>5. Trailing(ca', viv.cr, assigns, vardata, trail, trail_lim, settled, done', unitCids, db)
  BY <1>2, <1>4, TrailingLess
<1>6. Watchful(ca', watches', dirty', viv'.cr)
  BY <1>1, RefreshFacts
<1>7. Trailing(ca', viv'.cr, assigns', vardata', trail', trail_lim', settled', done', unitCids', db')
  BY <1>1, <1>3, <1>5
<1> QED
  BY <1>2, <1>6, <1>7 DEF KernelInv

(* Another literal, of place m, becomes the second of the clause.          *)
Second(q, m) == m \in 3 .. Len(normalized) /\ q = SwapAt(normalized, 2, m)

LEMMA SecondFacts ==
    ASSUME IInv, ScanningLong, NEW q, NEW m, Second(q, m)
    PROVE  /\ q \in Seq(Lits) /\ Len(q) = Len(normalized) /\ ToSet(q) = ToSet(normalized)
           /\ AllDistinct(q) /\ q[1] = first /\ q[2] = normalized[m] /\ Len(q) >= 3 /\ Len(q) \in Nat
           /\ q[2] \in Lits /\ first \in Lits /\ normalized[m] \in ToSet(normalized)
           /\ q[2] # -prop.lit /\ q[2] # first /\ first # -prop.lit
           /\ normalized[1] = first /\ normalized[2] = -prop.lit /\ first \in ToSet(q)
           /\ Kind(q) = "long" /\ Kind(normalized) = "long"
<1>1. /\ normalized \in Seq(Lits) /\ Len(normalized) = Len(ca[longWatcher.cref].lits)
      /\ Len(ca[longWatcher.cref].lits) >= 3 /\ ca[longWatcher.cref].lits \in Seq(Lits)
      /\ AllDistinct(normalized) /\ normalized[2] = -prop.lit
      /\ normalized[1] \in Lits /\ normalized[1] # -prop.lit
  BY LongFacts
<1>2. Len(normalized) \in Nat /\ Len(normalized) >= 3 /\ DOMAIN normalized = 1 .. Len(normalized)
  BY <1>1
<1>3. /\ 1 \in 1 .. Len(normalized) /\ 2 \in 1 .. Len(normalized) /\ m \in 1 .. Len(normalized)
      /\ m # 1 /\ m # 2 /\ m \in 3 .. Len(normalized)
  BY <1>2 DEF Second
<1>4. CanSwap(Lits, normalized, 2, m)
  BY <1>1, <1>3 DEF CanSwap
<1>5. Swapped(Lits, normalized, 2, m, q)
  BY <1>4, SwapFacts DEF Second
<1>6. /\ q \in Seq(Lits) /\ Len(q) = Len(normalized) /\ ToSet(q) = ToSet(normalized)
      /\ AllDistinct(q) /\ q[1] = normalized[1] /\ q[2] = normalized[m]
  BY <1>1, <1>3, <1>5 DEF Swapped
<1>7. normalized[m] \in Lits /\ normalized[m] \in ToSet(normalized) /\ normalized[1] \in ToSet(normalized)
  BY <1>1, <1>3, Element
<1>8. Var(normalized[m]) # Var(normalized[2]) /\ Var(normalized[m]) # Var(normalized[1])
  BY <1>1, <1>2, <1>3 DEF AllDistinct
<1>9. normalized[m] # normalized[2] /\ normalized[m] # normalized[1]
  BY <1>8
<1>10. Len(q) # 2 /\ Len(normalized) # 2
  BY <1>2, <1>6
<1> QED
  BY <1>1, <1>2, <1>6, <1>7, <1>9, <1>10 DEF first, Kind

(* The clause is stored so, and its watcher moves to the list of q[2].     *)
Placed(c2, q) == c2 = [ca EXCEPT ![longWatcher.cref].lits = q]

LEMMA PlacedFacts ==
    ASSUME IInv, ScanningLong, NEW c, Stored(c), NEW c2, NEW q, NEW m, Second(q, m), Placed(c2, q)
    PROVE  /\ DOMAIN c2 = DOMAIN c /\ \A k \in DOMAIN c : k # longWatcher.cref => c2[k] = c[k]
           /\ c2[longWatcher.cref].lits = q /\ c2[longWatcher.cref].freed = c[longWatcher.cref].freed
           /\ HasLits(c2) /\ \A k \in DOMAIN c : ToSet(c2[k].lits) = ToSet(c[k].lits)
<1> DEFINE cr == longWatcher.cref
<1>1. /\ DOMAIN c = DOMAIN ca /\ c[cr].lits = normalized
      /\ \A k \in DOMAIN ca : c[k].freed = ca[k].freed
      /\ \A k \in DOMAIN ca : k # cr => c[k] = ca[k]
      /\ Watchful(c, watches, dirty, viv.cr)
  BY StoredFacts
<1>2. cr \in DOMAIN ca /\ ca \in Clauses(db) /\ db \in Log
  BY LongFacts, Shapes
<1>3. Changed(ca, c2, cr, q, ca[cr].cid)
  BY <1>2, ExceptLits DEF Placed
<1>4. /\ DOMAIN c2 = DOMAIN c /\ \A k \in DOMAIN c : k # cr => c2[k] = c[k]
      /\ c2[cr].lits = q /\ c2[cr].freed = c[cr].freed
  BY <1>1, <1>2, <1>3 DEF Changed
<1>5. HasLits(c)
  BY <1>1, WatchfulParts
<1>6. q \in Seq(Lits) /\ ToSet(q) = ToSet(normalized)
  BY SecondFacts
<1>7. HasLits(c2) /\ \A k \in DOMAIN c : ToSet(c2[k].lits) = ToSet(c[k].lits)
  BY <1>1, <1>4, <1>5, <1>6 DEF HasLits
<1> QED
  BY <1>4, <1>7

LEMMA MoveFacts ==
    ASSUME IInv, ScanningLong, NEW c, Stored(c), NEW c2, NEW q, NEW m, Second(q, m), Placed(c2, q),
           MoveTo(q)
    PROVE  /\ Watchful(c2, watches', dirty', viv.cr) /\ dirty' = dirty /\ prop' = prop
           /\ binWatchers' = binWatchers /\ longWatchers' = RemoveAt(longWatchers, prop.i)
<1> DEFINE cr == longWatcher.cref
           t == RemoveAt(longWatchers, prop.i)
           X == [cref : DOMAIN ca, blocker : Lits]
<1>1. /\ q \in Seq(Lits) /\ Len(q) = Len(normalized) /\ ToSet(q) = ToSet(normalized)
      /\ AllDistinct(q) /\ q[1] = first /\ Len(q) >= 3 /\ Len(q) \in Nat
      /\ q[2] \in Lits /\ first \in Lits /\ q[2] = normalized[m]
      /\ q[2] # -prop.lit /\ q[2] # first /\ first # -prop.lit
      /\ normalized[1] = first /\ normalized[2] = -prop.lit /\ first \in ToSet(q)
      /\ Kind(q) = "long" /\ Kind(normalized) = "long"
  BY SecondFacts
<1>2. prop.lit \in Lits /\ -q[2] \in Lits /\ -q[2] # prop.lit /\ -(-q[2]) = q[2]
  BY <1>1, ScanFacts, LitFacts DEF ScanningLong
<1>3. /\ prop.i \in DOMAIN longWatchers /\ longWatcher = longWatchers[prop.i]
      /\ longWatcher \in ToSet(longWatchers)
      /\ cr \in DOMAIN ca /\ ~ca[cr].freed /\ cr # viv.cr
  BY LongFacts DEF longWatcher, ToSet
<1>4. longWatchers = watches["long"][prop.lit] /\ binWatchers = watches["bin"][prop.lit]
      /\ watches \in WatcherLists(ca) /\ longWatchers \in Seq(X)
  BY <1>2, MemoryShape, ListTypes DEF longWatchers, binWatchers
<1>5. Single(longWatchers, cr)
  BY <1>3, <1>4, OneWatcherFacts DEF ScanningLong
<1>6. t \in Seq(X) /\ OthersSame(longWatchers, t, cr) /\ Absent(t, cr) /\ ToSet(t) \subseteq ToSet(longWatchers)
  <2>1. prop.i \in 1 .. Len(longWatchers) /\ longWatchers \in Seq(X) /\ cr = longWatchers[prop.i].cref
    BY <1>3, <1>4
  <2>2. Single(longWatchers, longWatchers[prop.i].cref)
    BY <1>5, <2>1
  <2> HIDE DEF cr, X
  <2>3. /\ t \in Seq(X) /\ OthersSame(longWatchers, t, longWatchers[prop.i].cref)
        /\ Absent(t, longWatchers[prop.i].cref) /\ ToSet(t) \subseteq ToSet(longWatchers)
    BY <2>1, <2>2, ListDrop
  <2> QED
    BY <2>1, <2>3
<1>7. /\ DOMAIN c2 = DOMAIN c /\ \A k \in DOMAIN c : k # cr => c2[k] = c[k]
      /\ c2[cr].lits = q /\ c2[cr].freed = c[cr].freed /\ HasLits(c2)
  BY PlacedFacts
<1>8. /\ DOMAIN c = DOMAIN ca /\ c[cr].lits = normalized /\ c[cr].freed = ca[cr].freed
      /\ Watchful(c, watches, dirty, viv.cr)
  BY <1>3, StoredFacts
<1>9. Rewatch(c, c2, "long", cr, prop.lit, -q[2], first, viv.cr)
  <2>1. \A s : Kind(s) = "long" => \A l : Watches(s, "long", l) <=> -l \in {s[1], s[2]}
    BY DEF Watches
  <2>2. \A l \in Lits : Watches(q, "long", l) <=> -l = first \/ -l = q[2]
    BY <1>1, <2>1
  <2>3. \A l \in Lits : Watches(normalized, "long", l) <=> -l = first \/ -l = -prop.lit
    BY <1>1, <2>1
  <2>4. \A l \in Lits : (-l = q[2] <=> l = -q[2]) /\ (-l = -prop.lit <=> l = prop.lit)
    <3>1. \A a, b \in Lits : -a = b <=> a = -b
      BY LitFacts
    <3>2. -prop.lit \in Lits /\ -(-prop.lit) = prop.lit
      BY <1>2, LitFacts
    <3> QED
      BY <1>1, <3>1, <3>2
  <2>5. \A l \in Lits : Watches(q, "long", l) <=> (Watches(normalized, "long", l) /\ l # prop.lit) \/ l = -q[2]
    BY <1>1, <1>2, <2>2, <2>3, <2>4
  <2>6. Watches(normalized, "long", prop.lit) /\ ~Watches(normalized, "long", -q[2])
    BY <1>1, <1>2, <2>3
  <2>7. first \in ToSet(q) \ {-(-q[2])}
    BY <1>1, <1>2
  <2>8. Len(normalized) >= 2
    BY <1>1
  <2> QED
    BY <1>1, <1>2, <1>3, <1>7, <1>8, <2>5, <2>6, <2>7, <2>8 DEF Rewatch
<1>10. watches' = PutTwo(watches, "long", prop.lit, -q[2], t, Append(watches["long"][-q[2]], Watcher(cr, first)))
  BY <1>2, <1>4 DEF MoveTo, PutTwo, refreshed, WatcherLists
<1>11. Moved(c, c2, watches, watches', "long", cr, prop.lit, -q[2], first, t, viv.cr)
  BY <1>1, <1>4, <1>6, <1>7, <1>8, <1>9, <1>10 DEF Moved
<1>12. Watchful(c2, watches', dirty, viv.cr)
  BY <1>8, <1>11, WatchfulMoved
<1>13. dirty' = dirty /\ prop' = prop
  BY DEF MoveTo
<1>14. watches'["bin"][prop.lit] = binWatchers /\ watches'["long"][prop.lit] = t
  BY <1>2, <1>4, <1>10 DEF PutTwo, WatcherLists
<1> QED
  BY <1>12, <1>13, <1>14 DEF binWatchers, longWatchers

(* The watchers before the one that moved away are still visited.          *)
LEMMA MoveVisited ==
    ASSUME IInv, ScanningLong, pc = "propagate", NEW c, Stored(c), NEW c2, NEW q, NEW m, Second(q, m),
           Placed(c2, q), MoveTo(q), NEW vd2, NEW tr2, NEW n2 \in Nat, settled <= n2,
           Agree(vardata, vd2, trail, tr2, settled)
    PROVE  /\ Visited(binWatchers', c2, vd2, tr2, trail_lim, n2, prop'.k, qhead)
           /\ Visited(longWatchers', c2, vd2, tr2, trail_lim, n2, prop'.i, qhead)
<1>1. /\ Visited(binWatchers, c, vardata, trail, trail_lim, settled, prop.k, qhead)
      /\ Visited(longWatchers, c, vardata, trail, trail_lim, settled, prop.i, qhead)
      /\ DOMAIN c = DOMAIN ca
  BY StoredFacts
<1>2. settled \in Nat
  BY TrailShape
<1>3. /\ Visited(binWatchers, c, vd2, tr2, trail_lim, n2, prop.k, qhead)
      /\ Visited(longWatchers, c, vd2, tr2, trail_lim, n2, prop.i, qhead)
  BY <1>1, <1>2, VisitedFrame
<1>4. /\ prop' = prop /\ binWatchers' = binWatchers /\ longWatchers' = RemoveAt(longWatchers, prop.i)
  BY MoveFacts
<1>5. \A k \in DOMAIN c : ToSet(c2[k].lits) = ToSet(c[k].lits)
  BY PlacedFacts
<1>6. /\ binWatchers \in Seq([cref : DOMAIN ca, blocker : Lits])
      /\ longWatchers \in Seq([cref : DOMAIN ca, blocker : Lits])
  BY ScanFacts, MemoryShape, ListTypes DEF longWatchers, binWatchers, ScanningLong
<1>13. prop.lit \in Lits /\ watches \in WatcherLists(ca)
  BY ScanFacts, MemoryShape DEF ScanningLong
<1>7. \A k \in DOMAIN binWatchers : binWatchers[k].cref \in DOMAIN c
  BY <1>1, <1>13, ListTypes DEF binWatchers
<1>8. \A k \in DOMAIN longWatchers : longWatchers[k].cref \in DOMAIN c
  BY <1>1, <1>13, ListTypes DEF longWatchers
<1>9. prop.i \in 1 .. Len(longWatchers)
  BY <1>6, LongFacts
<1>10. \A k \in DOMAIN RemoveAt(longWatchers, prop.i) : k < prop.i =>
          k \in DOMAIN longWatchers /\ RemoveAt(longWatchers, prop.i)[k] = longWatchers[k]
  <2>1. /\ RemoveAt(longWatchers, prop.i) \in Seq([cref : DOMAIN ca, blocker : Lits])
        /\ \A k \in 1 .. prop.i - 1 : RemoveAt(longWatchers, prop.i)[k] = longWatchers[k]
    BY <1>6, <1>9, WithoutPlace
  <2>2. \A k \in DOMAIN RemoveAt(longWatchers, prop.i) : k \in Nat /\ k >= 1
    BY <2>1
  <2>3. \A k \in Nat : k >= 1 /\ k < prop.i => k \in 1 .. prop.i - 1 /\ k \in DOMAIN longWatchers
    BY <1>6, <1>9
  <2> QED
    BY <2>1, <2>2, <2>3
<1>11. Visited(binWatchers, c2, vd2, tr2, trail_lim, n2, prop.k, qhead)
  BY <1>3, <1>5, <1>7, VisitedKept
<1>12. Visited(RemoveAt(longWatchers, prop.i), c2, vd2, tr2, trail_lim, n2, prop.i, qhead)
  BY <1>3, <1>5, <1>8, <1>10, VisitedKept
<1> QED
  BY <1>4, <1>11, <1>12

(* Seen from the trail, only another second literal is watched.            *)
LEMMA PlacedTrail ==
    ASSUME IInv, ScanningLong, NEW c, Stored(c), NEW c2, NEW q, NEW m, Second(q, m), Placed(c2, q),
           NEW as, NEW vd, NEW tr, NEW lim, NEW n, NEW P, NEW u, NEW d,
           Trailing(c, viv.cr, as, vd, tr, lim, n, P, u, d), Guarded(q, 2, vd, tr, lim, n, P)
    PROVE  Trailing(c2, viv.cr, as, vd, tr, lim, n, P, u, d)
<1> DEFINE cr == longWatcher.cref
<1>1. /\ DOMAIN c2 = DOMAIN c /\ \A k \in DOMAIN c : k # cr => c2[k] = c[k]
      /\ c2[cr].lits = q /\ c2[cr].freed = c[cr].freed
  BY PlacedFacts
<1>2. DOMAIN c = DOMAIN ca /\ c[cr].lits = normalized /\ cr \in DOMAIN ca
  BY StoredFacts, LongFacts
<1>3. /\ q \in Seq(Lits) /\ Len(q) = Len(normalized) /\ ToSet(q) = ToSet(normalized)
      /\ q[1] = first /\ normalized[1] = first
  BY SecondFacts
<1>4. Rewatched(c, c2, cr, q, vd, tr, lim, n, P)
  BY <1>1, <1>2, <1>3 DEF Rewatched
<1> QED
  BY <1>4, TrailingRewatched

LEMMA NewWatchScan ==
    ASSUME IInv, newWatch, UNCHANGED <<analysisVars, vivifyVars>>
    PROVE  KernelInv' /\ ScanInv'
<1> DEFINE m == Min(NewWatches)
           q == SwapAt(normalized, 2, m)
           c == [ca EXCEPT ![longWatcher.cref].lits = normalized]
<1>1. /\ Scanning /\ ScanningLong /\ NewWatches # {} /\ Stored(c) /\ Placed(ca', q) /\ MoveTo(q)
      /\ UNCHANGED <<assigns, vardata, trail, trail_lim, qhead, db, unitCids, viv, pc>>
  BY DEF newWatch, Unresolved, ScanningLong, trailVars, tracerVars, vivifyVars, StoreLits, Stored, Placed
<1>2. Second(q, m) /\ ~IsFalse(normalized[m])
  <2> DEFINE S == NewWatches
  <2>1. S \in SUBSET Nat /\ S # {} /\ m = Min(S)
    BY <1>1 DEF NewWatches
  <2>2. m \in NewWatches
    <3> HIDE DEF S, m
    <3>1. m \in S
      BY <2>1, LeastOf
    <3> QED
      BY <3>1 DEF S
  <2> QED
    BY <2>2 DEF NewWatches, Second
<1> HIDE DEF m, q, c
<1>3. Watchful(ca', watches', dirty', viv.cr) /\ dirty' = dirty /\ prop' = prop
  BY <1>1, <1>2, MoveFacts
<1>4. StillScanning /\ Extended /\ settled' = settled
  BY <1>1, <1>3, TrailShape DEF StillScanning, Extended, settled
<1>5. ASSUME pc = "propagate"
      PROVE  /\ Visited(binWatchers', ca', vardata', trail', trail_lim', settled', prop'.k, qhead)
             /\ Visited(longWatchers', ca', vardata', trail', trail_lim', settled', prop'.i, qhead)
  <2>1. settled \in Nat /\ settled <= settled /\ Agree(vardata, vardata, trail, trail, settled)
    BY TrailShape DEF Agree
  <2>2. /\ Visited(binWatchers', ca', vardata, trail, trail_lim, settled, prop'.k, qhead)
        /\ Visited(longWatchers', ca', vardata, trail, trail_lim, settled, prop'.i, qhead)
    BY <1>1, <1>2, <1>5, <2>1, MoveVisited
  <2> QED
    BY <1>1, <1>4, <2>2
<1>6. ScanInv' /\ done' = done
  BY <1>1, <1>4, <1>5, ScanNext
<1>7. Trailing(ca', viv.cr, assigns, vardata, trail, trail_lim, settled, done, unitCids, db)
  <2>1. Trailing(c, viv.cr, assigns, vardata, trail, trail_lim, settled, done, unitCids, db)
    BY <1>1, StoredFacts
  <2>2. q[2] = normalized[m] /\ q[2] \in Lits
    BY <1>1, <1>2, SecondFacts
  <2>3. /\ trail \in Seq(Lits) /\ Assigned(assigns, trail) /\ done \in Nat /\ done <= Len(trail)
    BY TrailShape
  <2>4. Guarded(q, 2, vardata, trail, trail_lim, settled, done)
    BY <1>2, <2>2, <2>3, NotFalseGuards DEF IsFalse
  <2> QED
    BY <1>1, <1>2, <2>1, <2>4, PlacedTrail
<1>8. Trailing(ca', viv'.cr, assigns', vardata', trail', trail_lim', settled', done', unitCids', db')
  BY <1>1, <1>4, <1>6, <1>7
<1>9. Watchful(ca', watches', dirty', viv'.cr)
  BY <1>1, <1>3
<1> QED
  BY <1>6, <1>8, <1>9 DEF KernelInv

(* A clause all of whose literals but the first are false, and the highest *)
(* of their levels, that of place m.                                       *)
AllButFirst(q) == \A k \in 2 .. Len(q) : IsFalse(q[k])
TopOfRest(q, lv, m) ==
    /\ lv = Max({level(q[k]) : k \in 2 .. Len(q)})
    /\ m = Min({k \in 2 .. Len(q) : level(q[k]) = lv})

LEMMA TopFacts ==
    ASSUME IInv, NEW q \in Seq(Lits), Len(q) >= 2, NEW lv, NEW m, TopOfRest(q, lv, m)
    PROVE  /\ m \in 2 .. Len(q) /\ Lv(vardata, q[m]) = lv /\ lv \in Nat
           /\ \A k \in 2 .. Len(q) : Lv(vardata, q[k]) <= lv
<1>1. TypeOK
  BY Shapes
<1>2. IsSeq(q) /\ ToSet(q) \subseteq Lits
  BY Element DEF IsSeq
<1> DEFINE I == 2 .. Len(q)
           top == Max({level(q[j]) : j \in I})
           n == Min({k \in I : level(q[k]) = top})
<1>3. I \in SUBSET (1 .. Len(q)) /\ I # {}
  <2>1. Len(q) \in Nat
    OBVIOUS
  <2> QED
    BY <2>1
<1>4. n \in I /\ level(q[n]) = top /\ \A j \in I : level(q[j]) <= top
  <2> HIDE DEF I
  <2> QED
    BY <1>1, <1>2, <1>3, TopLevelPlace
<1>5. lv = top /\ m = n
  BY DEF TopOfRest
<1>6. m \in I /\ level(q[m]) = lv /\ \A j \in I : level(q[j]) <= lv
  <2> HIDE DEF top, n, I
  <2> QED
    BY <1>4, <1>5
<1>7. level(q[m]) \in Nat
  <2>1. q[m] \in Lits
    BY <1>6
  <2> QED
    BY <1>1, <2>1, LevelType
<1> QED
  BY <1>6, <1>7 DEF level, Lv

(* Such a clause implies its first literal at that level.                  *)
LEMMA FirstImplied ==
    ASSUME IInv, NEW q \in Seq(Lits), AllDistinct(q), Len(q) >= 2, AllButFirst(q), NEW lv \in Nat,
           \A k \in 2 .. Len(q) : Lv(vardata, q[k]) <= lv, \E k \in 2 .. Len(q) : Lv(vardata, q[k]) = lv
    PROVE  Implies(q, assigns, vardata, q[1], lv)
<1>1. Len(q) \in Nat /\ 1 \in 1 .. Len(q)
  OBVIOUS
<1>2. q[1] \in ToSet(q)
  BY <1>1, Element
<1>3. ASSUME NEW l \in ToSet(q) \ {q[1]}
      PROVE  assigns[Var(l)] = -l /\ Lv(vardata, l) <= lv
  <2>1. PICK k \in 1 .. Len(q) : q[k] = l
    BY Element
  <2>2. k \in 2 .. Len(q)
    BY <1>1, <2>1
  <2> QED
    BY <2>1, <2>2 DEF AllButFirst, IsFalse
<1>4. \E l \in ToSet(q) \ {q[1]} : Lv(vardata, l) = lv
  <2>1. PICK k \in 2 .. Len(q) : Lv(vardata, q[k]) = lv
    OBVIOUS
  <2>2. k \in 1 .. Len(q) /\ k # 1
    BY <1>1
  <2>3. q[k] \in ToSet(q)
    BY <2>2, Element
  <2>4. Var(q[k]) # Var(q[1])
    BY <1>1, <2>2 DEF AllDistinct
  <2> QED
    BY <2>1, <2>3, <2>4
<1> QED
  BY <1>2, <1>3, <1>4 DEF Implies

(* An assigned literal is of a level that has begun.                       *)
LEMMA AssignedLevel ==
    ASSUME IInv, pc \notin Assuming, NEW l \in Lits, IsFalse(l) \/ IsTrue(l)
    PROVE  /\ \E i \in 1 .. Len(trail) :
                /\ (IsTrue(l) => trail[i] = l) /\ (IsFalse(l) => trail[i] = -l)
                /\ Within(trail_lim, Lv(vardata, l), i)
           /\ Lv(vardata, l) <= decisionLevel /\ Lv(vardata, l) \in Nat
           /\ Within(trail_lim, Lv(vardata, l), Len(trail) + 1)
<1>1. /\ settled = Len(trail) /\ trail \in Seq(Lits) /\ Assigned(assigns, trail)
      /\ Levels(vardata, trail, trail_lim, settled) /\ HasLevels(vardata) /\ Len(trail) \in Nat
      /\ trail_lim \in Seq(Nat)
  BY TrailShape, WhereNow
<1>2. PICK m \in {l, -l} : assigns[Var(m)] = m /\ m \in Lits /\ Var(m) = Var(l)
  BY LitFacts DEF IsTrue, IsFalse
<1>3. OnTrail(trail, m, Len(trail))
  BY <1>1, <1>2, TrueOnTrail
<1>4. PICK i \in 1 .. Len(trail) : trail[i] = m
  BY <1>3 DEF OnTrail
<1>5. Within(trail_lim, Lv(vardata, trail[i]), i)
  BY <1>1 DEF Levels
<1>6. Lv(vardata, trail[i]) = Lv(vardata, l) /\ Lv(vardata, l) \in Nat
  BY <1>1, <1>2, <1>4, LitFacts DEF Lv, HasLevels
<1>7. Within(trail_lim, Lv(vardata, l), i) /\ i \in Nat /\ i <= Len(trail) + 1 /\ Len(trail) + 1 \in Nat
  BY <1>1, <1>5, <1>6
<1>8. Within(trail_lim, Lv(vardata, l), Len(trail) + 1)
  BY <1>1, <1>6, <1>7, WithinMore
<1>9. Lv(vardata, l) <= decisionLevel
  BY <1>7 DEF Within, decisionLevel
<1>10. IsTrue(l) => m = l
  BY <1>2, LitFacts DEF IsTrue
<1>11. IsFalse(l) => m = -l
  BY <1>2, LitFacts DEF IsFalse
<1> QED
  BY <1>4, <1>6, <1>7, <1>8, <1>9, <1>10, <1>11

(* A longer clause whose only literal that is not false is unassigned.     *)
LEMMA UnitFacts ==
    ASSUME IInv, Unit
    PROVE  /\ Scanning /\ ScanningLong /\ IsUndef(first) /\ first \in Lits /\ first \in ToSet(normalized)
           /\ normalized \in Seq(Lits) /\ AllDistinct(normalized) /\ Len(normalized) >= 3
           /\ AllButFirst(normalized) /\ first = normalized[1]
           /\ normalized[2] \in Lits /\ Lv(vardata, normalized[2]) = currLevel
<1>1. Scanning /\ ScanningLong /\ NewWatches = {} /\ IsUndef(first)
  BY DEF Unit, Unresolved, ScanningLong
<1>2. /\ normalized \in Seq(Lits) /\ Len(normalized) = Len(ca[longWatcher.cref].lits)
      /\ Len(ca[longWatcher.cref].lits) >= 3 /\ ca[longWatcher.cref].lits \in Seq(Lits)
      /\ AllDistinct(normalized) /\ normalized[2] = -prop.lit /\ normalized[1] \in Lits
  BY <1>1, LongFacts
<1>3. Len(normalized) \in Nat /\ 1 \in 1 .. Len(normalized)
  BY <1>2
<1>4. prop.lit \in Lits /\ IsTrue(prop.lit)
  BY <1>1, ScanFacts
<1>5. -prop.lit \in Lits /\ Var(-prop.lit) = Var(prop.lit) /\ IsFalse(-prop.lit)
  BY <1>4, LitFacts DEF IsTrue, IsFalse
<1>6. AllButFirst(normalized)
  <2> SUFFICES ASSUME NEW k \in 2 .. Len(normalized)
               PROVE  IsFalse(normalized[k])
    BY DEF AllButFirst
  <2>1. CASE k = 2
    BY <1>2, <1>5, <2>1
  <2>2. CASE k # 2
    <3>1. k \in 3 .. Len(normalized)
      BY <1>3, <2>2
    <3> QED
      BY <1>1, <3>1 DEF NewWatches
  <2> QED
    BY <2>1, <2>2
<1>7. Lv(vardata, normalized[2]) = currLevel
  BY <1>1, <1>2, <1>5, PropLevel DEF Lv
<1>8. normalized[1] \in ToSet(normalized)
  BY <1>2, <1>3, Element
<1>9. normalized[2] \in Lits
  BY <1>2, <1>5
<1> QED
  BY <1>1, <1>2, <1>6, <1>7, <1>8, <1>9 DEF first

(* What unitAtDecisionLevel and unitBelowDecisionLevel have in common:     *)
(* the clause c, as it is stored, implies its first literal at level lv.   *)
HighestOfRest(lv) ==
    /\ lv \in Nat
    /\ \A k \in 2 .. Len(normalized) : Lv(vardata, normalized[k]) <= lv
    /\ \E k \in 2 .. Len(normalized) : Lv(vardata, normalized[k]) = lv

LEMMA UnitEnqueued ==
    ASSUME IInv, Unit, pc = "propagate", NEW c, Stored(c), NEW lv, HighestOfRest(lv),
           uncheckedEnqueue(first, lv, longWatcher.cref, db, an)
    PROVE  /\ Trailing(c, viv.cr, assigns', vardata', trail', trail_lim, Len(trail'), done, unitCids', db')
           /\ Extended /\ Len(trail') = Len(trail) + 1
           /\ Agree(vardata, vardata', trail, trail', settled)
           /\ Lv(vardata', first) = lv /\ OnTrail(trail', first, Len(trail'))
           /\ Len(trail') \in Nat /\ settled <= Len(trail')
<1> DEFINE cr == longWatcher.cref
<1>1. /\ Scanning /\ ScanningLong /\ IsUndef(first) /\ first \in Lits /\ first \in ToSet(normalized)
      /\ normalized \in Seq(Lits) /\ AllDistinct(normalized) /\ Len(normalized) >= 3
      /\ AllButFirst(normalized) /\ first = normalized[1] /\ pc \notin Assuming
  BY UnitFacts DEF Assuming
<1>2. /\ DOMAIN c = DOMAIN ca /\ c[cr].lits = normalized
      /\ \A k \in DOMAIN ca : c[k].freed = ca[k].freed
      /\ Trailing(c, viv.cr, assigns, vardata, trail, trail_lim, settled, done, unitCids, db)
  BY <1>1, StoredFacts
<1>3. cr \in DOMAIN ca /\ cr # CRef_Undef /\ ~ca[cr].freed /\ cr # viv.cr
  BY <1>1, LongFacts
<1>4. settled = Len(trail)
  BY <1>1, WhereNow
<1>5. lv \in Nat
  BY DEF HighestOfRest
<1>6. Implies(normalized, assigns, vardata, first, lv)
  <2>1. /\ \A k \in 2 .. Len(normalized) : Lv(vardata, normalized[k]) <= lv
        /\ \E k \in 2 .. Len(normalized) : Lv(vardata, normalized[k]) = lv
    BY DEF HighestOfRest
  <2>2. Len(normalized) >= 2
    BY <1>1
  <2> QED
    BY <1>1, <1>5, <2>1, <2>2, FirstImplied
<1>7. Within(trail_lim, lv, Len(trail) + 1)
  <2>1. PICK k \in 2 .. Len(normalized) : Lv(vardata, normalized[k]) = lv
    BY DEF HighestOfRest
  <2>2. normalized[k] \in Lits /\ IsFalse(normalized[k])
    BY <1>1, <2>1 DEF AllButFirst
  <2> QED
    BY <1>1, <2>1, <2>2, AssignedLevel
<1>8. CanEnqueue(c, viv.cr, assigns, vardata, trail, trail_lim, first, cr, lv)
  BY <1>2, <1>3, <1>5, <1>6, <1>7 DEF CanEnqueue
<1>9. CanEnter(first, lv, db)
  BY <1>1, <1>5, LogItself DEF CanEnter
<1>10. Trailing(c, viv.cr, assigns, vardata, trail, trail_lim, Len(trail), done, unitCids, db)
  BY <1>2, <1>4
<1>11. /\ Trailing(c, viv.cr, assigns', vardata', trail', trail_lim, Len(trail'), done, unitCids', db')
       /\ Extension(vardata, trail, first, cr, lv, assigns', vardata', trail')
  BY <1>8, <1>9, <1>10, EnqueueOn
<1>12. /\ Extended /\ Len(trail') = Len(trail) + 1
       /\ Agree(vardata, vardata', trail, trail', Len(trail))
       /\ OnTrail(trail', first, Len(trail')) /\ Lv(vardata', first) = lv
  BY <1>11, ExtensionAgrees
<1>13. Len(trail') \in Nat /\ settled <= Len(trail')
  BY <1>4, <1>12, TrailShape
<1> QED
  BY <1>4, <1>11, <1>12, <1>13

LEMMA UnitKept ==
    ASSUME IInv, Unit, pc = "propagate", Stored(ca'), KeepRefreshed, HighestOfRest(currLevel),
           uncheckedEnqueue(first, currLevel, longWatcher.cref, db, an),
           UNCHANGED <<trail_lim, qhead, pc>>, UNCHANGED <<analysisVars, vivifyVars>>
    PROVE  KernelInv' /\ ScanInv'
<1>1. /\ Scanning /\ ScanningLong /\ first \in Lits /\ first \in ToSet(normalized) /\ viv' = viv
  BY UnitFacts DEF vivifyVars
<1>2. /\ Refreshing(watches') /\ dirty' = dirty
      /\ prop'.lit = prop.lit /\ prop'.k = prop.k /\ prop'.i = prop.i + 1
      /\ binWatchers' = watches'["bin"][prop.lit] /\ longWatchers' = watches'["long"][prop.lit]
  BY <1>1, KeepFacts
<1>3. /\ Trailing(ca', viv.cr, assigns', vardata', trail', trail_lim, Len(trail'), done, unitCids', db')
      /\ Extended /\ Agree(vardata, vardata', trail, trail', settled)
      /\ Lv(vardata', first) = currLevel /\ OnTrail(trail', first, Len(trail'))
      /\ Len(trail') \in Nat /\ settled <= Len(trail')
  BY UnitEnqueued
<1>4. Within(trail_lim, currLevel, qhead)
  BY <1>1, PropLevel
<1>5. Covered(normalized, vardata', trail', trail_lim, Len(trail'), qhead)
  BY <1>1, <1>3, <1>4 DEF Covered
<1>6. settled' = Len(trail') /\ StillScanning
  BY <1>2, WhereNext DEF Assuming, StillScanning
<1>7. /\ Visited(binWatchers', ca', vardata', trail', trail_lim', settled', prop'.k, qhead)
      /\ Visited(longWatchers', ca', vardata', trail', trail_lim', settled', prop'.i, qhead)
  <2>1. /\ Visited(watches'["bin"][prop.lit], ca', vardata', trail', trail_lim, Len(trail'), prop.k, qhead)
        /\ Visited(watches'["long"][prop.lit], ca', vardata', trail', trail_lim, Len(trail'), prop.i + 1, qhead)
    BY <1>1, <1>2, <1>3, <1>5, RefreshVisited
  <2> QED
    BY <1>2, <1>6, <2>1
<1>8. ScanInv' /\ done' = done
  BY <1>1, <1>3, <1>6, <1>7, ScanNext
<1>9. Trailing(ca', viv'.cr, assigns', vardata', trail', trail_lim', settled', done', unitCids', db')
  BY <1>1, <1>3, <1>6, <1>8
<1>10. Watchful(ca', watches', dirty', viv'.cr)
  <2>1. Watchful(ca', watches', dirty, viv.cr)
    BY <1>1, <1>2, RefreshFacts
  <2> QED
    BY <1>1, <1>2, <2>1
<1> QED
  BY <1>8, <1>9, <1>10 DEF KernelInv

LEMMA UnitAtScan ==
    ASSUME IInv, unitAtDecisionLevel, UNCHANGED <<analysisVars, vivifyVars>>
    PROVE  KernelInv' /\ ScanInv'
<1> DEFINE cr == longWatcher.cref
<1>1. /\ Unit /\ Stored(ca') /\ KeepRefreshed /\ Imply(first, currLevel, cr)
      /\ Simple \/ currLevel = decisionLevel
      /\ UNCHANGED <<trail_lim, qhead, pc, viv>>
  BY DEF unitAtDecisionLevel, StoreLits, Stored, vivifyVars
<1>2. /\ Scanning /\ ScanningLong /\ IsUndef(first) /\ first \in Lits /\ first \in ToSet(normalized)
      /\ normalized \in Seq(Lits) /\ Len(normalized) >= 3 /\ AllButFirst(normalized)
      /\ normalized[2] \in Lits /\ Lv(vardata, normalized[2]) = currLevel
  BY <1>1, UnitFacts
<1>3. CASE Simple
  <2>1. simpleUncheckEnqueue(first, cr) /\ pc \in Assuming /\ pc # "propagate"
    BY <1>1, <1>3 DEF Imply, Simple, Assuming
  <2>2. /\ Refreshing(watches') /\ dirty' = dirty
        /\ prop'.lit = prop.lit /\ prop'.k = prop.k /\ prop'.i = prop.i + 1
    BY <1>1, <1>2, KeepFacts
  <2>3. Trailing(ca', viv.cr, assigns', vardata', trail', trail_lim, settled, done, unitCids', db')
    <3>1. Trailing(ca', viv.cr, assigns, vardata, trail, trail_lim, settled, done, unitCids, db)
      BY <1>1, <1>2, StoredFacts
    <3>2. cr # viv.cr
      BY <1>2, LongFacts
    <3> QED
      BY <1>2, <2>1, <3>1, <3>2, AssumeOn
  <2>4. Extended
    BY <2>1, TrailShape DEF simpleUncheckEnqueue, Extended
  <2>5. settled' = settled
    BY <1>1, <2>1, WhereNow, WhereNext
  <2>6. ScanInv' /\ done' = done
    BY <1>1, <1>2, <2>1, <2>2, <2>4, ScanNext DEF StillScanning
  <2>7. Trailing(ca', viv'.cr, assigns', vardata', trail', trail_lim', settled', done', unitCids', db')
    BY <1>1, <2>3, <2>5, <2>6
  <2>8. Watchful(ca', watches', dirty', viv'.cr)
    BY <1>1, <1>2, <2>2, RefreshFacts
  <2> QED
    BY <2>6, <2>7, <2>8 DEF KernelInv
<1>4. CASE ~Simple
  <2>1. /\ uncheckedEnqueue(first, currLevel, cr, db, an) /\ pc = "propagate" /\ pc \notin Assuming
        /\ currLevel = decisionLevel
    BY <1>1, <1>2, <1>4 DEF Imply, Scanning, Propagating, Assuming
  <2>2. HighestOfRest(currLevel)
    <3>1. currLevel \in Nat
      BY <1>2, PropLevel
    <3>2. ASSUME NEW k \in 2 .. Len(normalized)
          PROVE  Lv(vardata, normalized[k]) <= currLevel
      <4>1. normalized[k] \in Lits /\ IsFalse(normalized[k])
        BY <1>2 DEF AllButFirst
      <4> QED
        BY <2>1, <4>1, AssignedLevel
    <3>3. 2 \in 2 .. Len(normalized)
      BY <1>2
    <3> QED
      BY <1>2, <3>1, <3>2, <3>3 DEF HighestOfRest
  <2> QED
    BY <1>1, <2>1, <2>2, UnitKept
<1> QED
  BY <1>3, <1>4

(* The clause is watched through a literal of the level of what it         *)
(* implies, which makes it true there.                                     *)
LEMMA LowerGuard ==
    ASSUME IInv, pc = "propagate", NEW q, NEW lv, NEW vd2, NEW tr2, NEW n2, NEW l \in Lits,
           q[2] \in Lits, Lv(vardata, q[2]) = lv, l \in ToSet(q), Lv(vd2, l) = lv, OnTrail(tr2, l, n2),
           \A i \in 1 .. Len(trail) : tr2[i] = trail[i]
    PROVE  Guarded(q, 2, vd2, tr2, trail_lim, n2, done)
<1> SUFFICES ASSUME NEW i \in 1 .. done, tr2[i] = -q[2]
             PROVE  Covered(q, vd2, tr2, trail_lim, n2, i)
  BY DEF Guarded
<1>1. /\ settled = Len(trail) /\ Levels(vardata, trail, trail_lim, settled)
      /\ done \in Nat /\ done <= settled /\ Len(trail) \in Nat
  BY TrailShape, WhereNow DEF Assuming
<1>2. i \in 1 .. Len(trail)
  BY <1>1
<1>3. trail[i] = -q[2]
  BY <1>2
<1>4. Within(trail_lim, Lv(vardata, trail[i]), i)
  BY <1>1, <1>2 DEF Levels
<1>5. Lv(vardata, trail[i]) = lv
  <2>1. Var(-q[2]) = Var(q[2])
    BY LitFacts
  <2> QED
    BY <1>3, <2>1 DEF Lv
<1>6. Within(trail_lim, lv, i)
  BY <1>4, <1>5
<1> QED
  BY <1>6 DEF Covered

LEMMA UnitBelowScan ==
    ASSUME IInv, unitBelowDecisionLevel, UNCHANGED <<analysisVars, vivifyVars>>
    PROVE  KernelInv' /\ ScanInv'
<1> DEFINE cr == longWatcher.cref
           lv == Max({level(normalized[k]) : k \in 2 .. Len(normalized)})
           m == Min({k \in 2 .. Len(normalized) : level(normalized[k]) = lv})
           q == SwapAt(normalized, 2, m)
           c == [ca EXCEPT ![longWatcher.cref].lits = normalized]
<1>1. /\ Unit /\ ~Simple /\ Stored(c) /\ TopOfRest(normalized, lv, m)
      /\ Placed(ca', q) /\ uncheckedEnqueue(first, lv, cr, db, an)
      /\ IF m = 2 THEN KeepRefreshed ELSE MoveTo(q)
      /\ UNCHANGED <<trail_lim, qhead, pc, viv>>
  BY DEF unitBelowDecisionLevel, StoreLits, Stored, vivifyVars, Placed, TopOfRest
<1>2. q = SwapAt(normalized, 2, m)
  OBVIOUS
<1> HIDE DEF lv, m, q, c
<1>3. /\ Scanning /\ ScanningLong /\ IsUndef(first) /\ first \in Lits /\ first \in ToSet(normalized)
      /\ normalized \in Seq(Lits) /\ Len(normalized) >= 3 /\ AllDistinct(normalized)
      /\ normalized[2] \in Lits /\ Lv(vardata, normalized[2]) = currLevel
  BY <1>1, UnitFacts
<1>4. pc = "propagate" /\ pc \notin Assuming
  BY <1>1, <1>3 DEF Scanning, Propagating, Assuming
<1>5. /\ m \in 2 .. Len(normalized) /\ Lv(vardata, normalized[m]) = lv /\ lv \in Nat
      /\ \A k \in 2 .. Len(normalized) : Lv(vardata, normalized[k]) <= lv
  <2>1. Len(normalized) >= 2
    BY <1>3
  <2> QED
    BY <1>1, <1>3, <2>1, TopFacts
<1>6. HighestOfRest(lv)
  BY <1>5 DEF HighestOfRest
<1>7. CASE m = 2
  <2>1. KeepRefreshed /\ lv = currLevel
    BY <1>1, <1>3, <1>5, <1>7
  <2>2. q = normalized
    <3>1. CanSwap(Lits, normalized, 2, 2)
      BY <1>3 DEF CanSwap
    <3>2. Swapped(Lits, normalized, 2, 2, q)
      BY <1>2, <1>7, <3>1, SwapFacts
    <3>3. q \in Seq(Lits) /\ Len(q) = Len(normalized) /\ \A k \in 1 .. Len(normalized) : q[k] = normalized[k]
      BY <3>2 DEF Swapped
    <3> QED
      BY <1>3, <3>3
  <2>3. Stored(ca')
    BY <1>1, <2>2 DEF Placed, Stored
  <2> QED
    BY <1>1, <1>4, <1>6, <2>1, <2>3, UnitKept
<1>8. CASE m # 2
  <2>1. MoveTo(q) /\ Second(q, m)
    <3>1. m \in 3 .. Len(normalized)
      BY <1>3, <1>5, <1>8
    <3> QED
      BY <1>1, <1>2, <1>8, <3>1 DEF Second
  <2>2. Watchful(ca', watches', dirty', viv.cr) /\ dirty' = dirty /\ prop' = prop
    BY <1>1, <1>3, <2>1, MoveFacts
  <2>3. /\ Trailing(c, viv.cr, assigns', vardata', trail', trail_lim, Len(trail'), done, unitCids', db')
        /\ Extended /\ Agree(vardata, vardata', trail, trail', settled)
        /\ Lv(vardata', first) = lv /\ OnTrail(trail', first, Len(trail'))
        /\ Len(trail') \in Nat /\ settled <= Len(trail')
    BY <1>1, <1>4, <1>6, UnitEnqueued
  <2>4. settled' = Len(trail') /\ StillScanning
    BY <1>1, <1>4, <2>2, WhereNext DEF StillScanning
  <2>5. /\ Visited(binWatchers', ca', vardata', trail', trail_lim', settled', prop'.k, qhead)
        /\ Visited(longWatchers', ca', vardata', trail', trail_lim', settled', prop'.i, qhead)
    <3>1. /\ Visited(binWatchers', ca', vardata', trail', trail_lim, Len(trail'), prop'.k, qhead)
          /\ Visited(longWatchers', ca', vardata', trail', trail_lim, Len(trail'), prop'.i, qhead)
      BY <1>1, <1>3, <1>4, <2>1, <2>3, MoveVisited
    <3> QED
      BY <1>1, <2>4, <3>1
  <2>6. ScanInv' /\ done' = done
    BY <1>1, <1>3, <1>4, <2>3, <2>4, <2>5, ScanNext
  <2>7. Guarded(q, 2, vardata', trail', trail_lim, Len(trail'), done)
    <3>1. /\ q[2] = normalized[m] /\ q[2] \in Lits /\ ToSet(q) = ToSet(normalized)
      BY <1>3, <2>1, SecondFacts
    <3>2. \A i \in 1 .. Len(trail) : trail'[i] = trail[i]
      BY <2>3 DEF Extended
    <3>3. Lv(vardata, q[2]) = lv /\ first \in ToSet(q)
      BY <1>3, <1>5, <3>1
    <3> QED
      BY <1>3, <1>4, <2>3, <3>1, <3>2, <3>3, LowerGuard
  <2>8. Trailing(ca', viv.cr, assigns', vardata', trail', trail_lim, Len(trail'), done, unitCids', db')
    BY <1>1, <1>3, <2>1, <2>3, <2>7, PlacedTrail
  <2>9. Trailing(ca', viv'.cr, assigns', vardata', trail', trail_lim', settled', done', unitCids', db')
    BY <1>1, <2>4, <2>6, <2>8
  <2>10. Watchful(ca', watches', dirty', viv'.cr)
    BY <1>1, <2>2
  <2> QED
    BY <2>6, <2>9, <2>10 DEF KernelInv
<1> QED
  BY <1>7, <1>8

(* Every step of propagate.                                                *)
LEMMA PropagateScan ==
    ASSUME IInv, propagate, UNCHANGED <<analysisVars, vivifyVars>>
    PROVE  KernelInv' /\ ScanInv'
BY PropagateBeginScan, PropagateDequeueScan, PropagateNextScan, BinarySatisfiedScan,
   BinaryConflictScan, BinaryImpliesScan, BlockerTrueScan, FirstTrueScan, NewWatchScan,
   LongConflictScan, UnitAtScan, UnitBelowScan DEF propagate

-----------------------------------------------------------------------------
(* Steps that leave the trail, the clauses and their watchers alone.       *)
Resting == {"parse", "clean", "propagate"}
SamePlace ==
    \/ pc \in Resting /\ pc' \in Resting
    \/ pc \in Resting \cup {"conflict"} /\ pc' = "unsat"
    \/ pc \in Analyzing /\ pc' \in Analyzing /\ ana'.nDecisionLevel = ana.nDecisionLevel
    \/ pc \in Assuming /\ pc' \in Assuming /\ viv'.trailRecord = viv.trailRecord
Quiet ==
    /\ UNCHANGED <<ca, watches, dirty, assigns, vardata, trail, trail_lim, qhead, unitCids, prop>>
    /\ prop.lit = 0 /\ viv'.cr = viv.cr /\ SamePlace

LEMMA SameStateStep ==
    ASSUME IInv, Quiet, SameUnits(unitCids, db, db')
    PROVE  KernelInv' /\ ScanInv'
<1>1. /\ UNCHANGED <<ca, watches, dirty, assigns, vardata, trail, trail_lim, qhead, unitCids, prop>>
      /\ prop.lit = 0 /\ viv'.cr = viv.cr /\ SamePlace
  BY DEF Quiet
<1>2. settled \in Nat /\ done \in Nat /\ qhead \in Nat
  BY TrailShape, Shapes
<1>3. /\ settled' = settled /\ done' \in Nat /\ done' <= done
      /\ pc' \notin {"conflict", "sat", "unsat"} \cup Analyzing /\ trail_lim # <<>> =>
           trail_lim[Len(trail_lim)] <= done'
  <2>1. pc \notin {"conflict", "sat", "unsat"} \cup Analyzing /\ trail_lim # <<>> =>
          trail_lim[Len(trail_lim)] <= done
    BY Shapes DEF ScanInv
  <2>2. CASE pc \in Resting /\ pc' \in Resting
    <3>1. done = qhead /\ done' = qhead /\ settled = Len(trail) /\ settled' = Len(trail)
      BY <1>1, <2>2 DEF done, settled, Resting, Assuming, Analyzing
    <3> QED
      BY <1>2, <2>1, <2>2, <3>1 DEF Resting, Analyzing
  <2>3. CASE pc \in Resting \cup {"conflict"} /\ pc' = "unsat"
    <3>1. done' = 0 /\ settled = Len(trail) /\ settled' = Len(trail)
      BY <1>1, <2>3 DEF done, settled, Resting, Assuming, Analyzing
    <3> QED
      BY <1>2, <2>3, <3>1
  <2>4. CASE pc \in Analyzing /\ pc' \in Analyzing /\ ana'.nDecisionLevel = ana.nDecisionLevel
    <3>1. done' = done /\ settled = Len(trail) /\ settled' = Len(trail)
      BY <1>1, <2>4 DEF done, settled, Assuming, Analyzing
    <3> QED
      BY <1>2, <2>4, <3>1
  <2>5. CASE pc \in Assuming /\ pc' \in Assuming /\ viv'.trailRecord = viv.trailRecord
    <3>1. done' = done /\ settled' = settled
      BY <1>1, <2>5 DEF done, settled
    <3> QED
      BY <1>2, <2>1, <2>5, <3>1 DEF Assuming, Analyzing
  <2> QED
    BY <1>1, <2>2, <2>3, <2>4, <2>5 DEF SamePlace
<1>4. KernelInv'
  BY <1>1, <1>3, QuietKernel
<1>5. ScanInv'
  BY <1>1, <1>3, ScanEnds
<1> QED
  BY <1>4, <1>5

(* A literal is being propagated only in propagate.                        *)
LEMMA NotScanning ==
    ASSUME IInv, pc \notin {"propagate", "simplePropagate"}
    PROVE  prop.lit = 0 /\ prop = NoProp
BY Shapes DEF ControlInv, Propagating, Simple

LEMMA NoConflictKernel ==
    ASSUME IInv, addUnitDone \/ solve_ \/ simplifyAllDone \/ simplePropagateDone
                 \/ literalFalse \/ literalTrue
    PROVE  KernelInv' /\ ScanInv'
<1>1. CASE addUnitDone
  <2>1. Quiet /\ db' = db
    BY <1>1 DEF addUnitDone, QueueEmpty, clauseVars, trailVars, tracerVars, vivifyVars, Quiet,
                SamePlace, Resting
  <2> QED
    BY <2>1, SameStateStep, SameLog
<1>2. CASE solve_
  <2>1. Quiet /\ db' = db
    BY <1>2, NotScanning DEF solve_, enterSearch, clauseVars, trailVars, tracerVars, Quiet,
                SamePlace, Resting
  <2> QED
    BY <2>1, SameStateStep, SameLog
<1>3. CASE simplifyAllDone
  <2>1. Quiet /\ db' = db
    BY <1>3 DEF simplifyAllDone, BetweenClauses, QueueEmpty, clauseVars, trailVars, tracerVars, Quiet,
                SamePlace, Resting, NotVivifying
  <2> QED
    BY <2>1, SameStateStep, SameLog
<1>4. CASE simplePropagateDone
  <2>1. Quiet /\ db' = db
    BY <1>4 DEF simplePropagateDone, Simple, clauseVars, trailVars, tracerVars, vivifyVars, Quiet,
                SamePlace, Assuming
  <2> QED
    BY <2>1, SameStateStep, SameLog
<1>5. CASE literalFalse
  <2>1. viv \in [on : BOOLEAN, cr : CRefs \cup {CRef_Undef}, i : Nat, kept : LitSeq,
                falseLit : LitSeq, True_confl : BOOLEAN, trailRecord : 0 .. Len(trail)]
    BY Shapes DEF TypeOK
  <2>2. viv'.cr = viv.cr /\ viv'.trailRecord = viv.trailRecord
    BY <1>5, <2>1 DEF literalFalse
  <2>3. Quiet /\ db' = db
    BY <1>5, <2>2, NotScanning DEF literalFalse, NextLiteral, clauseVars, trailVars, tracerVars,
                Quiet, SamePlace, Assuming
  <2> QED
    BY <2>3, SameStateStep, SameLog
<1>6. CASE literalTrue
  <2>1. viv \in [on : BOOLEAN, cr : CRefs \cup {CRef_Undef}, i : Nat, kept : LitSeq,
                falseLit : LitSeq, True_confl : BOOLEAN, trailRecord : 0 .. Len(trail)]
    BY Shapes DEF TypeOK
  <2>2. viv'.cr = viv.cr /\ viv'.trailRecord = viv.trailRecord
    BY <1>6, <2>1 DEF literalTrue
  <2>3. Quiet /\ db' = db
    BY <1>6, <2>2, NotScanning DEF literalTrue, NextLiteral, clauseVars, trailVars, tracerVars,
                Quiet, SamePlace, Assuming
  <2> QED
    BY <2>3, SameStateStep, SameLog
<1> QED
  BY <1>1, <1>2, <1>3, <1>4, <1>5, <1>6

(* The record of ana has these fields, whatever is in them.                *)
LEMMA QuietAnalysis ==
    ASSUME IInv, minimizeKeep \/ litRedundantBegin \/ litRedundantTrue \/ minimizeBasic \/ analyzeEnd,
           UNCHANGED vivifyVars
    PROVE  KernelInv' /\ ScanInv'
<1>1. /\ pc \in Analyzing /\ pc' \in Analyzing /\ viv' = viv
      /\ UNCHANGED <<ca, watches, dirty, assigns, vardata, trail, trail_lim, qhead, unitCids, prop, db>>
      /\ pc \notin {"propagate", "simplePropagate"}
  BY DEF minimizeKeep, litRedundantBegin, litRedundantTrue, minimizeBasic, analyzeEnd, Minimizing,
         minimizeFrame, trailVars, vivifyVars, Analyzing
<1>2. AnaTypes
  BY Shapes DEF AnalysisInv
<1>3. ana'.nDecisionLevel = ana.nDecisionLevel
  BY <1>2 DEF minimizeKeep, litRedundantBegin, litRedundantTrue, minimizeBasic, analyzeEnd, AnaTypes,
              NoAnalysis
<1>4. Quiet
  BY <1>1, <1>3, NotScanning DEF Quiet, SamePlace
<1> QED
  BY <1>1, <1>4, SameStateStep, SameLog

(* A literal is assigned at level 0, without a reason, and propagation     *)
(* starts again.                                                           *)
UnitEntered(p, d, a) ==
    /\ CanEnter(p, 0, d) /\ uncheckedEnqueue(p, 0, CRef_Undef, d, a)
    /\ pc \in {"parse", "learn", "simplified"} /\ pc' = "clean"
    /\ UNCHANGED <<ca, watches, dirty, trail_lim, qhead, prop, viv>>

LEMMA UnitEnteredStep ==
    ASSUME IInv, NEW p, NEW d, NEW a, UnitEntered(p, d, a)
    PROVE  KernelInv' /\ ScanInv'
<1>1. /\ CanEnter(p, 0, d) /\ uncheckedEnqueue(p, 0, CRef_Undef, d, a)
      /\ pc \in {"parse", "learn", "simplified"} /\ pc' = "clean"
      /\ UNCHANGED <<ca, watches, dirty, trail_lim, qhead, prop, viv>>
  BY DEF UnitEntered
<1>2. settled = Len(trail) /\ done = qhead /\ settled' = Len(trail') /\ done' = qhead
  BY <1>1, WhereNow, WhereNext DEF Assuming
<1>3. Trailing(ca, viv.cr, assigns, vardata, trail, trail_lim, Len(trail), qhead, unitCids, db)
  BY <1>2, TrailShape
<1>4. CanEnqueue(ca, viv.cr, assigns, vardata, trail, trail_lim, p, CRef_Undef, 0)
  BY TrailShape DEF CanEnqueue, Within
<1>5. Trailing(ca, viv.cr, assigns', vardata', trail', trail_lim, Len(trail'), qhead, unitCids', db')
  BY <1>1, <1>3, <1>4, EnqueueOn
<1>6. KernelInv'
  BY <1>1, <1>2, <1>5, MemoryShape DEF KernelInv
<1>7. prop.lit = 0 /\ (trail_lim # <<>> => trail_lim[Len(trail_lim)] <= qhead)
  BY <1>1, <1>2, NotScanning, Shapes DEF ScanInv, Analyzing
<1>8. ScanInv'
  BY <1>1, <1>2, <1>7, ScanEnds
<1> QED
  BY <1>6, <1>8

LEMMA UnitKernel ==
    ASSUME IInv, (learnUnit /\ UNCHANGED vivifyVars) \/ simplifiedUnit
    PROVE  KernelInv' /\ ScanInv'
<1>1. CASE learnUnit /\ UNCHANGED vivifyVars
  <2>1. learnt[1] \in Lits /\ IsUndef(learnt[1])
    <3>1. learnt \in LitSeq /\ IsUndef(learnt[1]) /\ Len(learnt) = 1
      BY <1>1, Shapes DEF AnalysisInv, LearnInv, learnUnit
    <3> QED
      BY <3>1 DEF LitSeq
  <2>2. CanEnter(learnt[1], 0, db)
    BY <2>1, LogItself DEF CanEnter
  <2>3. UnitEntered(learnt[1], db, an)
    BY <1>1, <2>2 DEF learnUnit, learnFrame, vivifyVars, UnitEntered
  <2> QED
    BY <2>3, UnitEnteredStep
<1>2. CASE simplifiedUnit
  <2>1. vivLits[1] \in Lits /\ IsUndef(vivLits[1])
    <3>1. viv.cr \in DOMAIN ca /\ Len(vivLits) = 1 /\ pc = "simplified"
      BY <1>2, Shapes DEF HandInv, Vivifying, simplifiedUnit
    <3>2. vivLits \in Seq(Lits)
      BY <3>1, MemoryShape DEF HasLits, vivLits
    <3>3. vivLits[1] \in ToSet(vivLits) /\ vivLits[1] \in Lits
      BY <3>1, <3>2, Element, 1 \in 1 .. 1
    <3>4. \A l \in ToSet(vivLits) : IsUndef(l)
      BY <3>1, Shapes DEF VivInv
    <3> QED
      BY <3>3, <3>4
  <2>2. CanEnter(vivLits[1], 0, db)
    BY <2>1, LogItself DEF CanEnter
  <2>3. UnitEntered(vivLits[1], db, an)
    BY <1>2, <2>2 DEF simplifiedUnit, clauseVars, vivifyVars, UnitEntered
  <2> QED
    BY <2>3, UnitEnteredStep
<1> QED
  BY <1>1, <1>2

(* The answer to a conflict before search.                                 *)
LEMMA AnswerLog ==
    ASSUME IInv, AnswerUnsat
    PROVE  SameUnits(unitCids, db, db')
<1>1. PICK r : db' = Append(db, r)
  BY DEF AnswerUnsat
<1>2. Len(db) \in Nat /\ DOMAIN db = 1 .. Len(db) /\ db \in Log
  BY Shapes, LogTypes
<1>3. \A i \in 1 .. Len(db) : db'[i] = db[i]
  BY <1>1, <1>2 DEF Log
<1> QED
  BY <1>3, LogGrows

LEMMA LevelZeroConflictKernel ==
    ASSUME IInv, levelZeroConflict, UNCHANGED vivifyVars
    PROVE  KernelInv' /\ ScanInv'
<1>1. SameUnits(unitCids, db, db')
  BY AnswerLog DEF levelZeroConflict
<1>2. Quiet
  BY NotScanning DEF levelZeroConflict, AnswerUnsat, Quiet, SamePlace, Resting, trailVars, vivifyVars
<1> QED
  BY <1>1, <1>2, SameStateStep

-----------------------------------------------------------------------------
(* The input clauses in the log.  An ascending enumeration of a set of     *)
(* numbers is the only one.                                                *)
Ascends(f, n) ==
    /\ \A i \in 1 .. n : f[i] \in Nat
    /\ \A i, j \in 1 .. n : i < j => f[i] < f[j]
Covers(f, g, n) == \A i \in 1 .. n : \E j \in 1 .. n : g[j] = f[i]

LEMMA NotSmaller ==
    ASSUME NEW n \in Nat, NEW f, NEW g, Ascends(f, n), Ascends(g, n), Covers(f, g, n),
           NEW m \in 1 .. n, \A k \in 1 .. n : k < m => f[k] = g[k]
    PROVE  ~(f[m] < g[m])
<1> SUFFICES ASSUME f[m] < g[m]
             PROVE  FALSE
  OBVIOUS
<1>1. PICK j \in 1 .. n : g[j] = f[m]
  BY DEF Covers
<1>2. f[m] \in Nat /\ g[m] \in Nat /\ f[j] \in Nat /\ g[j] \in Nat
  BY DEF Ascends
<1>3. CASE j < m
  <2>1. f[j] = g[j] /\ f[j] < f[m]
    BY <1>3 DEF Ascends
  <2> QED
    BY <1>1, <1>2, <2>1
<1>4. CASE j = m
  BY <1>1, <1>2, <1>4
<1>5. CASE m < j
  <2>1. g[m] < g[j]
    BY <1>5 DEF Ascends
  <2> QED
    BY <1>1, <1>2, <2>1
<1> QED
  BY <1>3, <1>4, <1>5

LEMMA SameOrder ==
    ASSUME NEW n \in Nat, NEW f, NEW g, Ascends(f, n), Ascends(g, n), Covers(f, g, n), Covers(g, f, n)
    PROVE  \A i \in 1 .. n : f[i] = g[i]
<1> DEFINE D == {i \in 1 .. n : f[i] # g[i]}
<1> SUFFICES ASSUME D # {}
             PROVE  FALSE
  OBVIOUS
<1>1. D \in SUBSET Nat
  OBVIOUS
<1>2. PICK m \in D : \A k \in D : m <= k
  <2> HIDE DEF D
  <2> QED
    BY <1>1, LeastNumber
<1>3. m \in 1 .. n /\ f[m] # g[m]
  OBVIOUS
<1>4. \A k \in 1 .. n : k < m => f[k] = g[k]
  BY <1>2, <1>3
<1>5. \A k \in 1 .. n : k < m => g[k] = f[k]
  BY <1>4
<1>6. ~(f[m] < g[m])
  BY <1>3, <1>4, NotSmaller
<1>7. ~(g[m] < f[m])
  BY <1>3, <1>5, NotSmaller
<1>8. f[m] \in Nat /\ g[m] \in Nat
  BY <1>3 DEF Ascends
<1> QED
  BY <1>3, <1>6, <1>7, <1>8

(* A number above all of a set comes last.                                 *)
LEMMA AscendingAppend ==
    ASSUME NEW S \in SUBSET Nat, IsFiniteSet(S), NEW m \in Nat, \A k \in S : k < m,
           NEW T, T = S \cup {m}
    PROVE  /\ Len(Ascending[T]) = Len(Ascending[S]) + 1 /\ Len(Ascending[S]) \in Nat
           /\ \A i \in 1 .. Len(Ascending[S]) : Ascending[T][i] = Ascending[S][i]
           /\ Ascending[T][Len(Ascending[S]) + 1] = m
<1> DEFINE a == Ascending[S]
           t == Ascending[T]
           n == Cardinality(S)
<1>1. m \notin S
  <2>1. ~(m < m)
    OBVIOUS
  <2> QED
    BY <2>1
<1>2. IsFiniteSet(T) /\ Cardinality(T) = n + 1 /\ n \in Nat /\ T \in SUBSET Nat
  BY <1>1, FS_AddElement, FS_CardinalityType
<1>3. /\ a \in Seq(S) /\ Len(a) = n
      /\ \A k \in S : \E i \in 1 .. n : a[i] = k
      /\ \A i, j \in 1 .. n : i < j => a[i] < a[j]
  BY AscendingOf
<1>4. /\ t \in Seq(T) /\ Len(t) = n + 1
      /\ \A k \in T : \E i \in 1 .. n + 1 : t[i] = k
      /\ \A i, j \in 1 .. n + 1 : i < j => t[i] < t[j]
  <2> DEFINE c == Cardinality(T)
  <2>1. /\ t \in Seq(T) /\ Len(t) = c
        /\ \A k \in T : \E i \in 1 .. c : t[i] = k
        /\ \A i, j \in 1 .. c : i < j => t[i] < t[j]
    BY <1>2, AscendingOf
  <2> QED
    BY <1>2, <2>1
<1> HIDE DEF a, t, n
<1>5. \A i \in 1 .. n : a[i] \in S /\ a[i] \in Nat
  BY <1>2, <1>3, Element
<1>6. \A i \in 1 .. n + 1 : t[i] \in T /\ t[i] \in Nat
  BY <1>2, <1>4, Element
<1>7. t[n + 1] = m
  <2>1. PICK i \in 1 .. n + 1 : t[i] = m
    BY <1>4
  <2>2. n + 1 \in 1 .. n + 1
    BY <1>2
  <2>3. CASE i < n + 1
    <3>1. m < t[n + 1]
      BY <1>4, <2>1, <2>2, <2>3
    <3>2. t[n + 1] \in Nat /\ (t[n + 1] \in S \/ t[n + 1] = m)
      BY <1>6, <2>2
    <3> QED
      BY <3>1, <3>2
  <2>4. CASE ~(i < n + 1)
    <3>1. i = n + 1
      BY <1>2, <2>4
    <3> QED
      BY <2>1, <3>1
  <2> QED
    BY <2>3, <2>4
<1>8. \A i \in 1 .. n : i \in 1 .. n + 1 /\ t[i] < m
  <2> SUFFICES ASSUME NEW i \in 1 .. n
               PROVE  i \in 1 .. n + 1 /\ t[i] < m
    OBVIOUS
  <2>1. i \in 1 .. n + 1 /\ n + 1 \in 1 .. n + 1 /\ i < n + 1
    BY <1>2
  <2> QED
    BY <1>4, <1>7, <2>1
<1>9. \A i \in 1 .. n : t[i] \in S
  <2>1. ~(m < m)
    OBVIOUS
  <2> QED
    BY <1>6, <1>8, <2>1
<1>10. Ascends(a, n) /\ Ascends(t, n)
  BY <1>3, <1>4, <1>5, <1>6, <1>8 DEF Ascends
<1>11. Covers(t, a, n)
  BY <1>3, <1>9 DEF Covers
<1>12. Covers(a, t, n)
  <2> SUFFICES ASSUME NEW i \in 1 .. n
               PROVE  \E j \in 1 .. n : t[j] = a[i]
    BY DEF Covers
  <2>1. PICK j \in 1 .. n + 1 : t[j] = a[i]
    BY <1>4, <1>5
  <2>2. j # n + 1
    BY <1>1, <1>5, <1>7, <2>1
  <2>3. j \in 1 .. n
    BY <1>2, <2>2
  <2> QED
    BY <2>1, <2>3
<1>13. \A i \in 1 .. n : a[i] = t[i]
  BY <1>2, <1>10, <1>11, <1>12, SameOrder
<1> QED
  BY <1>2, <1>3, <1>4, <1>7, <1>13 DEF a, t

InputPlaces(d) == {k \in 1 .. Len(d) : d[k].type = "INITIAL"}
Inputs(d) == PickAt(d, InputPlaces(d))

(* The log e continues d, without records of input clauses, or with one    *)
(* that comes first.                                                       *)
GrowsFrom(d, e) ==
    /\ d \in Log /\ e \in Log /\ Len(d) <= Len(e) /\ \A k \in 1 .. Len(d) : e[k] = d[k]
NoInput(d, e) ==
    GrowsFrom(d, e) /\ \A k \in Len(d) + 1 .. Len(e) : e[k].type # "INITIAL"
OneInput(d, e) ==
    /\ GrowsFrom(d, e) /\ Len(d) < Len(e) /\ e[Len(d) + 1].type = "INITIAL"
    /\ \A k \in Len(d) + 2 .. Len(e) : e[k].type # "INITIAL"

LEMMA InputPlacesIn ==
    ASSUME NEW d \in Log
    PROVE  /\ InputPlaces(d) \in SUBSET Nat /\ IsFiniteSet(InputPlaces(d))
           /\ InputPlaces(d) \in SUBSET DOMAIN d /\ Len(d) \in Nat
<1>1. DOMAIN d = 1 .. Len(d) /\ Len(d) \in Nat
  BY LogTypes
<1>2. InputPlaces(d) \in SUBSET (1 .. Len(d))
  BY DEF InputPlaces
<1>3. 1 \in Int /\ Len(d) \in Int
  BY <1>1
<1>4. IsFiniteSet(1 .. Len(d))
  BY <1>3, FS_Interval
<1>5. IsFiniteSet(InputPlaces(d))
  BY <1>2, <1>4, FS_Subset
<1> QED
  BY <1>1, <1>2, <1>5

LEMMA InputsOf ==
    ASSUME NEW d \in Log
    PROVE  /\ Len(Inputs(d)) = Len(Ascending[InputPlaces(d)]) /\ Len(Inputs(d)) \in Nat
           /\ DOMAIN Inputs(d) = 1 .. Len(Inputs(d))
           /\ \A n \in 1 .. Len(Inputs(d)) : /\ Inputs(d)[n] = d[Ascending[InputPlaces(d)][n]]
                                             /\ Ascending[InputPlaces(d)][n] \in 1 .. Len(d)
<1> DEFINE D == InputPlaces(d)
<1>1. D \in SUBSET Nat /\ IsFiniteSet(D) /\ D \in SUBSET DOMAIN d /\ DOMAIN d = 1 .. Len(d)
  BY InputPlacesIn, LogTypes
<1> DEFINE R == RecordType
<1>2. d \in Seq(R)
  BY DEF Log
<1> HIDE DEF D, R
<1>3. Len(Ascending[D]) = Cardinality(D)
  BY <1>1, AscendingOf
<1>4. /\ PickAt(d, D) \in Seq(R) /\ Len(PickAt(d, D)) = Cardinality(D)
      /\ \A n \in 1 .. Len(PickAt(d, D)) : Ascending[D][n] \in D /\ PickAt(d, D)[n] = d[Ascending[D][n]]
  <2>1. D \in SUBSET DOMAIN d
    BY <1>1
  <2> QED
    BY ONLY <1>2, <2>1, Picked
<1>5. Inputs(d) = PickAt(d, D)
  BY DEF Inputs, D
<1>6. Len(Inputs(d)) \in Nat /\ DOMAIN Inputs(d) = 1 .. Len(Inputs(d))
  <2> DEFINE q == PickAt(d, D)
  <2> HIDE DEF q
  <2>1. q \in Seq(R) => Len(q) \in Nat /\ DOMAIN q = 1 .. Len(q)
    OBVIOUS
  <2> QED
    BY <1>4, <1>5, <2>1 DEF q
<1> QED
  BY <1>1, <1>3, <1>4, <1>5, <1>6 DEF D

(* The clauses of the formula f read so far, as many as n - 1.             *)
NumberedBy(d, f, n) ==
    /\ Len(Inputs(d)) = n - 1
    /\ \A i \in 1 .. Len(Inputs(d)) : ToSet(Inputs(d)[i].lits) = ToSet(f[i])

LEMMA NumberingOf == ASSUME db \in Log PROVE InputNumbering <=> NumberedBy(db, formula, next)
<1>1. InputPlaces(db) = {k \in DOMAIN db : db[k].type = "INITIAL"}
  BY LogTypes DEF InputPlaces
<1>2. Selected(db, LAMBDA r : r.type = "INITIAL") = Inputs(db)
  BY <1>1 DEF Selected, Inputs, PickAt
<1>3. DOMAIN Inputs(db) = 1 .. Len(Inputs(db))
  BY InputsOf
<1> QED
  BY <1>2, <1>3 DEF InputNumbering, NumberedBy

LEMMA NoInputPlaces ==
    ASSUME NEW d, NEW e, NoInput(d, e)
    PROVE  InputPlaces(e) = InputPlaces(d)
<1>1. /\ d \in Log /\ e \in Log /\ Len(d) <= Len(e) /\ \A k \in 1 .. Len(d) : e[k] = d[k]
      /\ \A k \in Len(d) + 1 .. Len(e) : e[k].type # "INITIAL"
  BY DEF NoInput, GrowsFrom
<1>2. Len(d) \in Nat /\ Len(e) \in Nat
  BY <1>1, LogTypes
<1>3. \A k \in 1 .. Len(e) : k \in 1 .. Len(d) \/ k \in Len(d) + 1 .. Len(e)
  BY <1>2
<1>4. \A k \in 1 .. Len(d) : k \in 1 .. Len(e)
  BY <1>1, <1>2
<1> QED
  BY <1>1, <1>3, <1>4 DEF InputPlaces

LEMMA InputsKept ==
    ASSUME NEW d, NEW e, NoInput(d, e), NEW f, NEW n, NumberedBy(d, f, n)
    PROVE  NumberedBy(e, f, n)
<1>1. d \in Log /\ e \in Log /\ \A k \in 1 .. Len(d) : e[k] = d[k]
  BY DEF NoInput, GrowsFrom
<1>2. InputPlaces(e) = InputPlaces(d)
  BY NoInputPlaces
<1>3. /\ Len(Inputs(d)) = Len(Ascending[InputPlaces(d)])
      /\ \A k \in 1 .. Len(Inputs(d)) : /\ Inputs(d)[k] = d[Ascending[InputPlaces(d)][k]]
                                        /\ Ascending[InputPlaces(d)][k] \in 1 .. Len(d)
  BY <1>1, InputsOf
<1>4. /\ Len(Inputs(e)) = Len(Ascending[InputPlaces(d)])
      /\ \A k \in 1 .. Len(Inputs(e)) : Inputs(e)[k] = e[Ascending[InputPlaces(d)][k]]
  BY <1>1, <1>2, InputsOf
<1>5. \A k \in 1 .. Len(Inputs(e)) : Inputs(e)[k] = Inputs(d)[k]
  BY <1>1, <1>3, <1>4
<1> QED
  BY <1>3, <1>4, <1>5 DEF NumberedBy

LEMMA OneInputPlaces ==
    ASSUME NEW d, NEW e, OneInput(d, e)
    PROVE  InputPlaces(e) = InputPlaces(d) \cup {Len(d) + 1}
<1>1. /\ d \in Log /\ e \in Log /\ Len(d) < Len(e) /\ \A k \in 1 .. Len(d) : e[k] = d[k]
      /\ e[Len(d) + 1].type = "INITIAL"
      /\ \A k \in Len(d) + 2 .. Len(e) : e[k].type # "INITIAL"
  BY DEF OneInput, GrowsFrom
<1>2. Len(d) \in Nat /\ Len(e) \in Nat
  BY <1>1, LogTypes
<1>3. \A k \in 1 .. Len(e) : k \in 1 .. Len(d) \/ k = Len(d) + 1 \/ k \in Len(d) + 2 .. Len(e)
  BY <1>2
<1>4. (\A k \in 1 .. Len(d) : k \in 1 .. Len(e)) /\ Len(d) + 1 \in 1 .. Len(e)
  BY <1>1, <1>2
<1> QED
  BY <1>1, <1>3, <1>4 DEF InputPlaces

LEMMA InputCounted ==
    ASSUME NEW d, NEW e, OneInput(d, e), NEW f, NEW n \in Nat, NumberedBy(d, f, n),
           ToSet(e[Len(d) + 1].lits) = ToSet(f[n])
    PROVE  NumberedBy(e, f, n + 1)
<1>1. d \in Log /\ e \in Log /\ \A k \in 1 .. Len(d) : e[k] = d[k]
  BY DEF OneInput, GrowsFrom
<1> DEFINE S == InputPlaces(d)
           T == InputPlaces(e)
           m == Len(d) + 1
<1>2. S \in SUBSET Nat /\ IsFiniteSet(S) /\ m \in Nat /\ \A k \in S : k < m
  <2>1. Len(d) \in Nat
    BY <1>1, LogTypes
  <2> QED
    BY <1>1, <2>1, InputPlacesIn DEF InputPlaces
<1>3. T = S \cup {m}
  BY OneInputPlaces
<1>4. /\ Len(Inputs(d)) = Len(Ascending[S]) /\ Len(Inputs(d)) = n - 1
      /\ \A k \in 1 .. Len(Inputs(d)) : /\ Inputs(d)[k] = d[Ascending[S][k]]
                                        /\ Ascending[S][k] \in 1 .. Len(d)
      /\ \A k \in 1 .. Len(Inputs(d)) : ToSet(Inputs(d)[k].lits) = ToSet(f[k])
  BY <1>1, InputsOf DEF NumberedBy
<1>5. /\ Len(Inputs(e)) = Len(Ascending[T])
      /\ \A k \in 1 .. Len(Inputs(e)) : Inputs(e)[k] = e[Ascending[T][k]]
  BY <1>1, InputsOf
<1>6. ToSet(e[m].lits) = ToSet(f[n])
  OBVIOUS
<1> HIDE DEF S, T, m
<1>7. /\ Len(Ascending[T]) = Len(Ascending[S]) + 1 /\ Len(Ascending[S]) \in Nat
      /\ \A i \in 1 .. Len(Ascending[S]) : Ascending[T][i] = Ascending[S][i]
      /\ Ascending[T][Len(Ascending[S]) + 1] = m
  BY <1>2, <1>3, AscendingAppend
<1>8. Len(Inputs(e)) = n + 1 - 1 /\ Len(Inputs(d)) + 1 = n /\ Len(Inputs(e)) = n
  <2>1. Len(Inputs(e)) = Len(Inputs(d)) + 1 /\ Len(Inputs(d)) = n - 1
    BY <1>4, <1>5, <1>7
  <2> DEFINE x == Len(Inputs(d))
  <2> HIDE DEF x
  <2>2. n \in Nat /\ x = n - 1 => x + 1 = n + 1 - 1 /\ x + 1 = n
    OBVIOUS
  <2> QED
    BY <2>1, <2>2 DEF x
<1>9. ASSUME NEW i \in 1 .. Len(Inputs(e))
      PROVE  ToSet(Inputs(e)[i].lits) = ToSet(f[i])
  <2>1. i \in 1 .. Len(Inputs(d)) \/ i = n
    BY <1>4, <1>8
  <2>2. CASE i \in 1 .. Len(Inputs(d))
    <3>1. Ascending[T][i] = Ascending[S][i] /\ Inputs(d)[i] = d[Ascending[S][i]]
      BY <1>4, <1>7, <2>2
    <3>2. Ascending[S][i] \in 1 .. Len(d)
      BY <1>4, <2>2
    <3>3. e[Ascending[S][i]] = d[Ascending[S][i]]
      BY <1>1, <3>2
    <3> QED
      BY <1>4, <1>5, <1>9, <2>2, <3>1, <3>3
  <2>3. CASE i = n
    <3>1. Ascending[T][n] = m
      BY <1>4, <1>7, <1>8
    <3> QED
      BY <1>5, <1>6, <1>9, <2>3, <3>1
  <2> QED
    BY <2>1, <2>2, <2>3
<1> QED
  BY <1>8, <1>9 DEF NumberedBy

(* The records a step may add.                                             *)
LEMMA NoInputSelf == ASSUME NEW d \in Log PROVE NoInput(d, d)
<1>1. Len(d) \in Nat
  BY LogTypes
<1>2. Len(d) <= Len(d) /\ \A k \in Len(d) + 1 .. Len(d) : FALSE
  BY <1>1
<1> QED
  BY <1>2 DEF NoInput, GrowsFrom

LEMMA LogAppended ==
    ASSUME NEW d \in Log, NEW r, NEW e \in Log, e = Append(d, r)
    PROVE  GrowsFrom(d, e) /\ Len(e) = Len(d) + 1 /\ Len(d) \in Nat /\ e[Len(d) + 1] = r
<1>1. d \in Seq(RecordType)
  BY DEF Log
<1>2. Len(d) \in Nat
  BY <1>1
<1>3. Len(e) = Len(d) + 1 /\ (\A k \in 1 .. Len(d) : e[k] = d[k]) /\ e[Len(d) + 1] = r
  BY <1>1
<1>4. Len(d) <= Len(e)
  BY <1>2, <1>3
<1> QED
  BY <1>2, <1>3, <1>4 DEF GrowsFrom

LEMMA NoInputOne ==
    ASSUME NEW d \in Log, NEW r, NEW e \in Log, e = Append(d, r), r.type # "INITIAL"
    PROVE  NoInput(d, e)
<1>1. GrowsFrom(d, e) /\ Len(e) = Len(d) + 1 /\ Len(d) \in Nat /\ e[Len(d) + 1] = r
  BY LogAppended
<1>2. \A k \in Len(d) + 1 .. Len(e) : k = Len(d) + 1
  BY <1>1
<1> QED
  BY <1>1, <1>2 DEF NoInput

LEMMA OneInputOne ==
    ASSUME NEW d \in Log, NEW r, NEW e \in Log, e = Append(d, r), r.type = "INITIAL"
    PROVE  OneInput(d, e) /\ e[Len(d) + 1] = r
<1>1. GrowsFrom(d, e) /\ Len(e) = Len(d) + 1 /\ Len(d) \in Nat /\ e[Len(d) + 1] = r
  BY LogAppended
<1>2. Len(d) < Len(e) /\ \A k \in Len(d) + 2 .. Len(e) : FALSE
  BY <1>1
<1> QED
  BY <1>1, <1>2 DEF OneInput

LEMMA NoInputMany ==
    ASSUME NEW d \in Log, NEW t \in Seq(RecordType), NEW e \in Log, e = d \o t,
           \A k \in 1 .. Len(t) : t[k].type # "INITIAL"
    PROVE  NoInput(d, e)
<1>1. d \in Seq(RecordType)
  BY DEF Log
<1>2. /\ Len(d) \in Nat /\ Len(t) \in Nat /\ Len(e) = Len(d) + Len(t)
      /\ (\A k \in 1 .. Len(d) : e[k] = d[k])
      /\ \A k \in 1 .. Len(t) : e[Len(d) + k] = t[k]
  BY <1>1
<1>3. ASSUME NEW k \in Len(d) + 1 .. Len(e) PROVE e[k].type # "INITIAL"
  <2> DEFINE j == k - Len(d)
  <2>1. j \in 1 .. Len(t) /\ k = Len(d) + j
    BY <1>2, <1>3
  <2> HIDE DEF j
  <2>2. e[k] = t[j]
    BY <1>2, <2>1
  <2> QED
    BY <2>1, <2>2
<1>4. Len(d) <= Len(e)
  BY <1>2
<1> QED
  BY <1>2, <1>3, <1>4 DEF NoInput, GrowsFrom

LEMMA OneInputMany ==
    ASSUME NEW d \in Log, NEW c \in Log, NEW e \in Log, OneInput(d, c), NoInput(c, e)
    PROVE  OneInput(d, e) /\ e[Len(d) + 1] = c[Len(d) + 1]
<1>1. Len(d) \in Nat /\ Len(c) \in Nat /\ Len(e) \in Nat
  BY LogTypes
<1>2. /\ Len(d) <= Len(c) /\ (\A k \in 1 .. Len(d) : c[k] = d[k]) /\ Len(d) < Len(c)
      /\ c[Len(d) + 1].type = "INITIAL"
      /\ \A k \in Len(d) + 2 .. Len(c) : c[k].type # "INITIAL"
  BY DEF OneInput, GrowsFrom
<1>3. /\ Len(c) <= Len(e) /\ (\A k \in 1 .. Len(c) : e[k] = c[k])
      /\ \A k \in Len(c) + 1 .. Len(e) : e[k].type # "INITIAL"
  BY DEF NoInput, GrowsFrom
<1>4. Len(d) + 1 \in 1 .. Len(c) /\ Len(d) < Len(e) /\ Len(d) <= Len(e)
  BY <1>1, <1>2, <1>3
<1>5. e[Len(d) + 1] = c[Len(d) + 1]
  BY <1>3, <1>4
<1>6. ASSUME NEW k \in 1 .. Len(d) PROVE e[k] = d[k]
  <2>1. k \in 1 .. Len(c)
    BY <1>1, <1>2
  <2> QED
    BY <1>2, <1>3, <2>1
<1>7. ASSUME NEW k \in Len(d) + 2 .. Len(e) PROVE e[k].type # "INITIAL"
  <2>1. k \in Len(d) + 2 .. Len(c) \/ k \in Len(c) + 1 .. Len(e)
    BY <1>1
  <2>2. k \in Len(d) + 2 .. Len(c) => k \in 1 .. Len(c)
    BY <1>1
  <2> QED
    BY <1>2, <1>3, <2>1, <2>2
<1> QED
  BY <1>2, <1>4, <1>5, <1>6, <1>7 DEF OneInput, GrowsFrom

LEMMA NoInputTrans ==
    ASSUME NEW d \in Log, NEW c \in Log, NEW e \in Log, NoInput(d, c), NoInput(c, e)
    PROVE  NoInput(d, e)
<1>1. Len(d) \in Nat /\ Len(c) \in Nat /\ Len(e) \in Nat
  BY LogTypes
<1>2. /\ Len(d) <= Len(c) /\ (\A k \in 1 .. Len(d) : c[k] = d[k])
      /\ \A k \in Len(d) + 1 .. Len(c) : c[k].type # "INITIAL"
  BY DEF NoInput, GrowsFrom
<1>3. /\ Len(c) <= Len(e) /\ (\A k \in 1 .. Len(c) : e[k] = c[k])
      /\ \A k \in Len(c) + 1 .. Len(e) : e[k].type # "INITIAL"
  BY DEF NoInput, GrowsFrom
<1>4. Len(d) <= Len(e)
  BY <1>1, <1>2, <1>3
<1>5. ASSUME NEW k \in 1 .. Len(d) PROVE e[k] = d[k]
  <2>1. k \in 1 .. Len(c)
    BY <1>1, <1>2
  <2> QED
    BY <1>2, <1>3, <2>1
<1>6. ASSUME NEW k \in Len(d) + 1 .. Len(e) PROVE e[k].type # "INITIAL"
  <2>1. k \in Len(d) + 1 .. Len(c) \/ k \in Len(c) + 1 .. Len(e)
    BY <1>1
  <2>2. k \in Len(d) + 1 .. Len(c) => k \in 1 .. Len(c)
    BY <1>1
  <2> QED
    BY <1>2, <1>3, <2>1, <2>2
<1> QED
  BY <1>4, <1>5, <1>6 DEF NoInput, GrowsFrom
=============================================================================
