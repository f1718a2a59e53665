-------------------------- MODULE HintOrdering_proofs --------------------------
(***************************************************************************)
(* Proofs about HintOrdering: makeUpOrdered adds every hint of a           *)
(* derivation exactly once, as a unit propagation, and leaves its scratch  *)
(* state clean.                                                            *)
(*                                                                         *)
(* The argument counts.  Each reason of a derivation brings a variable of  *)
(* its own, so no more reasons can be closed (all their variables known)   *)
(* than variables were learnt; as each hint added learns one, exactly the  *)
(* hints added are closed.  Hence no hint is closed behind the back of the *)
(* loop, a hint is released from the lists when one variable is left and   *)
(* never while it is stacked, and the conflict at the bottom of the stack  *)
(* is reached when all the reasons are done.                               *)
(***************************************************************************)
EXTENDS HintOrdering, ProofLemmas

-----------------------------------------------------------------------------
(* What a record to be ordered is known to be.                             *)

Reasons(r) == 2 .. Len(r.hints)

(* The number of unknown variables in a set is finite.                     *)
LEMMA VarsFinite ==
    ASSUME NEW A \in SUBSET Vars
    PROVE  IsFiniteSet(A) /\ Cardinality(A) \in Nat
BY VarsAssumption, FS_Subset, FS_CardinalityType

LEMMA RecordTypes ==
    ASSUME NEW r \in Records
    PROVE  /\ r.lits \in SUBSET Vars /\ r.hints \in Seq(SUBSET Vars)
           /\ Len(r.hints) \in Nat \ {0}
           /\ 1 \in 1 .. Len(r.hints)
           /\ Reasons(r) \subseteq 1 .. Len(r.hints)
           /\ \A rid \in 1 .. Len(r.hints) : r.hints[rid] \in SUBSET Vars
<1>1. r.lits \in SUBSET Vars /\ r.hints \in Seq(SUBSET Vars) /\ r.hints # <<>>
  BY RecordsAssumption
<1>2. Len(r.hints) \in Nat \ {0}
  BY <1>1, LenProperties, EmptySeq
<1>3. \A rid \in 1 .. Len(r.hints) : r.hints[rid] \in SUBSET Vars
  BY <1>1, ElementOfSeq
<1> QED
  BY <1>1, <1>2, <1>3 DEF Reasons

(* The order of a derivation runs through all the reasons.                 *)
LEMMA OrdersOnto ==
    ASSUME NEW m \in Nat, NEW p \in Orders(m)
    PROVE  /\ p \in [1 .. m -> 2 .. m + 1]
           /\ \A j, k \in 1 .. m : p[j] = p[k] => j = k
           /\ \A rid \in 2 .. m + 1 : \E k \in 1 .. m : p[k] = rid
<1>1. p \in [1 .. m -> 2 .. m + 1] /\ \A j, k \in 1 .. m : p[j] = p[k] => j = k
  BY DEF Orders
<1>2. p \in Injection(1 .. m, 2 .. m + 1)
  BY <1>1 DEF Injection, IsInjective
<1>3. /\ IsFiniteSet(2 .. m + 1) /\ Cardinality(2 .. m + 1) = m
      /\ Cardinality(1 .. m) = m
  BY FS_Interval
<1>4. p \in Surjection(1 .. m, 2 .. m + 1)
  BY <1>2, <1>3, FS_Injection
<1> QED
  BY <1>1, <1>4 DEF Surjection

(* Each reason brings a variable of its own, which the clause to be derived *)
(* does not have.                                                          *)
LEMMA OwnVariables ==
    ASSUME NEW r \in Records
    PROVE  \E x \in [Reasons(r) -> Vars] :
             /\ \A rid \in Reasons(r) : x[rid] \in r.hints[rid] \ r.lits
             /\ \A a, b \in Reasons(r) : x[a] = x[b] => a = b
<1> DEFINE m == Len(r.hints) - 1
<1>1. m \in Nat /\ Reasons(r) = 2 .. m + 1
  BY RecordTypes DEF Reasons
<1>2. PICK p \in Orders(m) :
        \A k \in 1 .. m : Cardinality(r.hints[p[k]] \ KnownBefore(r, p, k)) = 1
  BY RecordsAssumption DEF IsDerivation
<1>3. /\ p \in [1 .. m -> 2 .. m + 1]
      /\ \A rid \in 2 .. m + 1 : \E k \in 1 .. m : p[k] = rid
  BY <1>1, OrdersOnto
<1> DEFINE New(k) == r.hints[p[k]] \ KnownBefore(r, p, k)
           y == [k \in 1 .. m |-> CHOOSE v \in New(k) : TRUE]
           place == [rid \in 2 .. m + 1 |-> CHOOSE k \in 1 .. m : p[k] = rid]
           x == [rid \in 2 .. m + 1 |-> y[place[rid]]]
<1>4. ASSUME NEW k \in 1 .. m
      PROVE  y[k] \in New(k) /\ New(k) \subseteq Vars
  <2>1. New(k) \subseteq Vars
    BY <1>1, <1>3, RecordTypes
  <2>2. New(k) # {}
    <3>1. Cardinality(New(k)) = 1
      BY <1>2
    <3> DEFINE B == New(k)
    <3>2. Cardinality(B) = 1
      BY <3>1
    <3> HIDE DEF B
    <3>3. B # {}
      BY <3>2, FS_EmptySet
    <3> QED
      BY <3>3 DEF B
  <2> HIDE DEF New
  <2> QED
    BY <2>1, <2>2
<1>5. ASSUME NEW j \in 1 .. m, NEW k \in 1 .. m, j < k
      PROVE  y[j] # y[k]
  <2>1. j \in 1 .. k - 1
    BY <1>1, <1>5
  <2>2. y[j] \in KnownBefore(r, p, k)
    BY <1>4, <2>1 DEF KnownBefore
  <2> QED
    BY <1>4, <2>2
<1>6. ASSUME NEW rid \in 2 .. m + 1
      PROVE  place[rid] \in 1 .. m /\ p[place[rid]] = rid
  BY <1>3
<1>7. ASSUME NEW rid \in 2 .. m + 1
      PROVE  x[rid] \in r.hints[rid] \ r.lits /\ x[rid] \in Vars
  <2>1. x[rid] = y[place[rid]]
    OBVIOUS
  <2>2. y[place[rid]] \in New(place[rid])
    BY <1>4, <1>6
  <2>3. New(place[rid]) \subseteq r.hints[rid] \ r.lits
    BY <1>6 DEF KnownBefore
  <2> HIDE DEF x, y, place, New
  <2> QED
    BY <1>4, <1>6, <2>1, <2>2, <2>3
<1>8. ASSUME NEW a \in 2 .. m + 1, NEW b \in 2 .. m + 1, x[a] = x[b]
      PROVE  a = b
  <2>1. y[place[a]] = y[place[b]]
    BY <1>8
  <2> HIDE DEF y, place, x
  <2>2. place[a] = place[b]
    BY <1>1, <1>5, <1>6, <2>1
  <2> QED
    BY <1>6, <2>2
<1>9. x \in [2 .. m + 1 -> Vars]
  <2>1. x = [rid \in 2 .. m + 1 |-> x[rid]]
    OBVIOUS
  <2> HIDE DEF x
  <2> QED
    BY <1>7, <2>1
<1> HIDE DEF x
<1> QED
  BY <1>1, <1>7, <1>8, <1>9

(* Some reason that is not known entirely has at most one unknown variable, *)
(* whatever is known besides the clause and the other reasons.             *)
LEMMA NextReason ==
    ASSUME NEW r \in Records, NEW A \in SUBSET Reasons(r), A # {},
           NEW K \in SUBSET Vars, r.lits \subseteq K,
           \A rid \in Reasons(r) \ A : r.hints[rid] \subseteq K
    PROVE  \E rid \in A : Cardinality(r.hints[rid] \ K) <= 1
<1> DEFINE m == Len(r.hints) - 1
<1>1. m \in Nat /\ Reasons(r) = 2 .. m + 1
  BY RecordTypes DEF Reasons
<1>2. PICK p \in Orders(m) :
        \A k \in 1 .. m : Cardinality(r.hints[p[k]] \ KnownBefore(r, p, k)) = 1
  BY RecordsAssumption DEF IsDerivation
<1>3. /\ p \in [1 .. m -> 2 .. m + 1]
      /\ \A rid \in 2 .. m + 1 : \E k \in 1 .. m : p[k] = rid
  BY <1>1, OrdersOnto
<1> DEFINE Places == {k \in 1 .. m : p[k] \in A}
<1>4. PICK k \in Places : \A j \in Places : k <= j
  <2>1. Places # {}
    <3>1. PICK rid \in A : rid \in 2 .. m + 1
      BY <1>1
    <3> QED
      BY <1>3, <3>1
  <2>2. Places \in SUBSET Nat
    OBVIOUS
  <2> HIDE DEF Places
  <2> QED
    BY <2>1, <2>2, LeastNumber
<1>5. KnownBefore(r, p, k) \subseteq K
  <2>1. \A j \in 1 .. k - 1 : j \in 1 .. m /\ ~(k <= j)
    BY <1>1, <1>4
  <2>2. \A j \in 1 .. k - 1 : p[j] \in Reasons(r) \ A
    BY <1>1, <1>3, <1>4, <2>1
  <2> QED
    BY <2>2 DEF KnownBefore
<1>6. Cardinality(r.hints[p[k]] \ K) <= 1
  <2> DEFINE B == r.hints[p[k]] \ KnownBefore(r, p, k)
             C == r.hints[p[k]] \ K
  <2>1. C \in SUBSET B
    BY <1>5
  <2>2. Cardinality(B) = 1 /\ IsFiniteSet(B)
    BY <1>1, <1>2, <1>3, <1>4, RecordTypes, VarsFinite
  <2> HIDE DEF B, C
  <2>3. Cardinality(C) <= 1
    BY <2>1, <2>2, FS_Subset
  <2> QED
    BY <2>3 DEF C
<1> QED
  BY <1>4, <1>6

(* The conflict has no variables but those of the clause and the reasons.  *)
LEMMA ConflictLast ==
    ASSUME NEW r \in Records, NEW K, r.lits \subseteq K,
           \A rid \in Reasons(r) : r.hints[rid] \subseteq K
    PROVE  r.hints[1] \subseteq K
<1> DEFINE m == Len(r.hints) - 1
<1>1. m \in Nat /\ Reasons(r) = 2 .. m + 1
  BY RecordTypes DEF Reasons
<1>2. PICK p \in Orders(m) : r.hints[1] \subseteq KnownBefore(r, p, m + 1)
  BY RecordsAssumption DEF IsDerivation
<1>3. p \in [1 .. m -> 2 .. m + 1]
  BY <1>1, OrdersOnto
<1>4. \A j \in 1 .. m + 1 - 1 : p[j] \in Reasons(r)
  BY <1>1, <1>3
<1> QED
  BY <1>2, <1>4 DEF KnownBefore

(* No more reasons can be closed than variables were learnt.               *)
LEMMA ClosedCount ==
    ASSUME NEW r \in Records, NEW K \in SUBSET Vars, NEW C \in SUBSET Reasons(r),
           \A rid \in C : r.hints[rid] \subseteq K
    PROVE  IsFiniteSet(C) /\ Cardinality(C) <= Cardinality(K \ r.lits)
<1>1. PICK x \in [Reasons(r) -> Vars] :
        /\ \A rid \in Reasons(r) : x[rid] \in r.hints[rid] \ r.lits
        /\ \A a, b \in Reasons(r) : x[a] = x[b] => a = b
  BY OwnVariables
<1> DEFINE f == [rid \in C |-> x[rid]]
           L == K \ r.lits
<1>2. f \in Injection(C, L)
  <2>1. f \in [C -> L]
    BY <1>1
  <2>2. \A a, b \in DOMAIN f : f[a] = f[b] => a = b
    BY <1>1
  <2> HIDE DEF f
  <2> QED
    BY <2>1, <2>2 DEF Injection, IsInjective
<1>3. IsFiniteSet(L)
  BY VarsFinite
<1> HIDE DEF f, L
<1>4. IsFiniteSet(C) /\ Cardinality(C) <= Cardinality(L)
  BY <1>2, <1>3, FS_Injection
<1> QED
  BY <1>4 DEF L

-----------------------------------------------------------------------------
(* Selected is defined by a function on the numbers up to the length.      *)
LEMMA SelectedStep ==
    ASSUME NEW q, Len(q) \in Nat, NEW R
    PROVE  \E up : /\ up[0] = <<>>
                   /\ \A i \in 1 .. Len(q) :
                        up[i] = IF q[i] \in R THEN Append(up[i - 1], q[i]) ELSE up[i - 1]
                   /\ Selected(q, R) = up[Len(q)]
<1> DEFINE n == Len(q)
           Rest(g, i) == IF i = 0 THEN <<>>
                         ELSE IF q[i] \in R THEN Append(g[i - 1], q[i]) ELSE g[i - 1]
           Upto(g, m) == g = [i \in 0 .. m |-> Rest(g, i)]
           Ex == {m \in Nat : \E g : Upto(g, m)}
<1>1. 0 \in Ex
  <2> DEFINE g == [i \in 0 .. 0 |-> <<>>]
  <2>1. g = [i \in 0 .. 0 |-> Rest(g, i)]
    OBVIOUS
  <2> HIDE DEF g, Rest
  <2> QED
    BY <2>1
<1>2. ASSUME NEW m \in Ex
      PROVE  m + 1 \in Ex
  <2>1. PICK g : Upto(g, m)
    OBVIOUS
  <2> DEFINE h == [i \in 0 .. m + 1 |-> IF i = m + 1 THEN Rest(g, i) ELSE g[i]]
  <2>2. ASSUME NEW i \in 0 .. m + 1
        PROVE  h[i] = Rest(h, i)
    <3>1. i # 0 => h[i - 1] = g[i - 1]
      OBVIOUS
    <3>2. CASE i = m + 1
      BY <3>1, <3>2
    <3>3. CASE i # m + 1
      <4>1. i \in 0 .. m /\ h[i] = g[i]
        BY <3>3
      <4>2. g[i] = Rest(g, i)
        <5> HIDE DEF Rest
        <5> QED
          BY <2>1, <4>1
      <4> QED
        BY <3>1, <4>1, <4>2
    <3> QED
      BY <3>2, <3>3
  <2>3. Upto(h, m + 1)
    <3>1. h = [i \in 0 .. m + 1 |-> h[i]]
      OBVIOUS
    <3> HIDE DEF h, Rest
    <3> QED
      BY <3>1, <2>2
  <2>4. m + 1 \in Nat
    OBVIOUS
  <2> HIDE DEF h, Upto
  <2> QED
    BY <2>3, <2>4
<1>3. Ex = Nat
  <2>1. Ex \in SUBSET Nat
    OBVIOUS
  <2> HIDE DEF Ex
  <2> QED
    BY <1>1, <1>2, <2>1, NatSetInduction
<1> DEFINE up == CHOOSE g : Upto(g, n)
<1>4. Upto(up, n)
  <2>1. \E g : Upto(g, n)
    <3>1. n \in Ex
      BY <1>3
    <3> QED
      BY <3>1
  <2> HIDE DEF Upto
  <2> QED
    BY <2>1, Zenon
<1>5. Selected(q, R) = up[n]
  BY DEF Selected
<1>6. ASSUME NEW i \in 0 .. n
      PROVE  up[i] = Rest(up, i)
  <2> HIDE DEF up, Rest
  <2> QED
    BY <1>4
<1> HIDE DEF up
<1>7. up[0] = <<>>
  BY <1>6
<1>8. \A i \in 1 .. n : up[i] = IF q[i] \in R THEN Append(up[i - 1], q[i]) ELSE up[i - 1]
  <2> SUFFICES ASSUME NEW i \in 1 .. n
               PROVE  up[i] = IF q[i] \in R THEN Append(up[i - 1], q[i]) ELSE up[i - 1]
    OBVIOUS
  <2>1. i \in 0 .. n /\ i # 0
    OBVIOUS
  <2>2. up[i] = Rest(up, i)
    BY <1>6, <2>1
  <2> QED
    BY <2>1, <2>2, Zenon
<1> QED
  BY <1>5, <1>7, <1>8

(* It has the elements of the sequence that are in the set, and no element *)
(* twice unless the sequence has.                                          *)
LEMMA SelectedProperties ==
    ASSUME NEW T, NEW q \in Seq(T), NEW R
    PROVE  /\ Selected(q, R) \in Seq(T)
           /\ Elems(Selected(q, R)) = Elems(q) \cap R
           /\ NoRepeats(q) => NoRepeats(Selected(q, R))
<1> DEFINE n == Len(q)
<1>1. n \in Nat /\ \A i \in 1 .. n : q[i] \in T
  BY LenProperties, ElementOfSeq
<1>2. PICK up : /\ up[0] = <<>>
                /\ \A i \in 1 .. n :
                     up[i] = IF q[i] \in R THEN Append(up[i - 1], q[i]) ELSE up[i - 1]
                /\ Selected(q, R) = up[n]
  BY <1>1, SelectedStep
<1> DEFINE Upto(i) == {q[k] : k \in 1 .. i}
           Good(i) == /\ up[i] \in Seq(T)
                      /\ Elems(up[i]) = Upto(i) \cap R
                      /\ NoRepeats(q) => NoRepeats(up[i])
           S == {i \in Nat : i <= n => Good(i)}
<1>3. 0 \in S
  <2>1. Upto(0) = {} /\ Len(<<>>) = 0 /\ <<>> \in Seq(T)
    OBVIOUS
  <2>2. Elems(<<>>) = {} /\ NoRepeats(<<>>)
    BY <2>1 DEF Elems, NoRepeats
  <2> QED
    BY <1>2, <2>1, <2>2
<1>4. ASSUME NEW i \in S
      PROVE  i + 1 \in S
  <2> SUFFICES ASSUME i + 1 <= n
               PROVE  Good(i + 1)
    OBVIOUS
  <2>1. i \in Nat /\ i \in 0 .. n /\ i + 1 \in 1 .. n /\ i + 1 - 1 = i
    BY <1>1
  <2>2. Good(i)
    BY <2>1
  <2>3. up[i + 1] = IF q[i + 1] \in R THEN Append(up[i], q[i + 1]) ELSE up[i]
    BY <1>2, <2>1
  <2>4. Upto(i + 1) = Upto(i) \cup {q[i + 1]}
    <3>1. \A k \in 1 .. i + 1 : k \in 1 .. i \/ k = i + 1
      BY <2>1
    <3>2. i + 1 \in 1 .. i + 1 /\ \A k \in 1 .. i : k \in 1 .. i + 1
      BY <2>1
    <3> QED
      BY <3>1, <3>2
  <2>5. NoRepeats(q) => q[i + 1] \notin Upto(i)
    <3>1. \A k \in 1 .. i : k \in 1 .. n /\ k # i + 1
      BY <2>1
    <3> QED
      BY <2>1, <3>1 DEF NoRepeats
  <2>6. q[i + 1] \in T
    BY <1>1, <2>1
  <2> HIDE DEF Upto
  <2>7. CASE q[i + 1] \in R
    <3>1. up[i + 1] = Append(up[i], q[i + 1])
      BY <2>3, <2>7
    <3>2. /\ Append(up[i], q[i + 1]) \in Seq(T)
          /\ Elems(Append(up[i], q[i + 1])) = Elems(up[i]) \cup {q[i + 1]}
          /\ NoRepeats(up[i]) /\ q[i + 1] \notin Elems(up[i])
                => NoRepeats(Append(up[i], q[i + 1]))
      BY <2>2, <2>6, ElemsAppend, AppendProperties
    <3> QED
      BY <2>2, <2>4, <2>5, <2>7, <3>1, <3>2
  <2>8. CASE q[i + 1] \notin R
    BY <2>2, <2>3, <2>4, <2>8
  <2> QED
    BY <2>7, <2>8
<1>5. S = Nat
  <2>1. S \in SUBSET Nat
    OBVIOUS
  <2> HIDE DEF S
  <2> QED
    BY <1>3, <1>4, <2>1, NatSetInduction
<1>6. Good(n)
  <2>1. n \in S
    <3> HIDE DEF S
    <3> QED
      BY <1>1, <1>5
  <2>2. n <= n
    BY <1>1
  <2> HIDE DEF Good
  <2> QED
    BY <2>1, <2>2
<1> QED
  BY <1>2, <1>6 DEF Elems

-----------------------------------------------------------------------------
(* The inductive invariant, of a record r and the scratch state st.        *)

Scratch == [seen : SUBSET Vars, varDepend : [Vars -> Seq(Nat \ {0})], nClDeps : Seq(Int),
            tmpResolvents : Seq(Nat \ {0}), tmpOrdered : Seq(Nat \ {0})]

Stacked(st) == Elems(st.tmpResolvents)
Done(st) == Elems(st.tmpOrdered)

(* The variables of the clause and of the hints added before place k.      *)
Before(r, q, k) == r.lits \cup UNION {r.hints[q[j]] : j \in 1 .. k - 1}

(* The unknown variables of a hint, and those whose lists it is in.        *)
Open(r, st, rid) == r.hints[rid] \ st.seen
Listed(st, rid) == {v \in Vars \ st.seen : rid \in Elems(st.varDepend[v])}

(* A hint is stacked or done once, and the conflict is stacked below all   *)
(* others until the end.                                                   *)
Shape(r, st) ==
    /\ Len(st.nClDeps) = Len(r.hints)
    /\ Stacked(st) \subseteq 1 .. Len(r.hints)
    /\ Done(st) \subseteq 1 .. Len(r.hints)
    /\ NoRepeats(st.tmpResolvents)
    /\ NoRepeats(st.tmpOrdered)
    /\ Stacked(st) \cap Done(st) = {}
    /\ IF st.tmpResolvents = <<>> THEN Done(st) = 1 .. Len(r.hints)
       ELSE st.tmpResolvents[1] = 1

(* What is known comes from the hints added, one variable from each.       *)
Known(r, st) ==
    /\ st.seen = Before(r, st.tmpOrdered, Len(st.tmpOrdered) + 1)
    /\ \A k \in 1 .. Len(st.tmpOrdered) :
         Cardinality(r.hints[st.tmpOrdered[k]] \ Before(r, st.tmpOrdered, k)) <= 1
    /\ st.tmpResolvents # <<>> => Cardinality(st.seen \ r.lits) = Len(st.tmpOrdered)

(* A hint is in the lists of all its unknown variables or in none, and its *)
(* counter says in how many.                                               *)
Lists(r, st) ==
    /\ \A v \in Vars \ st.seen :
         Elems(st.varDepend[v]) \subseteq Reasons(r) /\ NoRepeats(st.varDepend[v])
    /\ \A rid \in 1 .. Len(r.hints) :
         /\ st.nClDeps[rid] = Cardinality(Listed(st, rid))
         /\ Listed(st, rid) \in {{}, Open(r, st, rid)}

(* A hint that is neither stacked nor done waits in the lists, for two     *)
(* variables or more; one that is stacked again waits for one.             *)
Delayed(r, st) ==
    /\ \A rid \in (1 .. Len(r.hints)) \ (Stacked(st) \cup Done(st)) :
         Listed(st, rid) = Open(r, st, rid) /\ Cardinality(Open(r, st, rid)) >= 2
    /\ \A rid \in Stacked(st) : Listed(st, rid) # {} => Cardinality(Open(r, st, rid)) = 1

OrderInv(r, st) ==
    st \in Scratch /\ Shape(r, st) /\ Known(r, st) /\ Lists(r, st) /\ Delayed(r, st)

(* Between the calls only the room for the counters is left.               *)
CleanInv(st) ==
    /\ st \in Scratch
    /\ st.seen = {}
    /\ \A v \in Vars : st.varDepend[v] = <<>>
    /\ \A rid \in 1 .. Len(st.nClDeps) : st.nClDeps[rid] = 0
    /\ st.tmpResolvents = <<>>

-----------------------------------------------------------------------------
LEMMA ScratchTypes ==
    ASSUME NEW st \in Scratch
    PROVE  /\ st.seen \in SUBSET Vars
           /\ st.varDepend \in [Vars -> Seq(Nat \ {0})]
           /\ st.nClDeps \in Seq(Int) /\ Len(st.nClDeps) \in Nat
           /\ st.tmpResolvents \in Seq(Nat \ {0}) /\ Len(st.tmpResolvents) \in Nat
           /\ st.tmpOrdered \in Seq(Nat \ {0}) /\ Len(st.tmpOrdered) \in Nat
           /\ DOMAIN st.nClDeps = 1 .. Len(st.nClDeps)
<1>1. /\ st.seen \in SUBSET Vars
      /\ st.varDepend \in [Vars -> Seq(Nat \ {0})]
      /\ st.nClDeps \in Seq(Int)
      /\ st.tmpResolvents \in Seq(Nat \ {0})
      /\ st.tmpOrdered \in Seq(Nat \ {0})
  BY DEF Scratch
<1> QED
  BY <1>1, LenProperties

(* A hint that was added has no unknown variable.                          *)
LEMMA DoneClosed ==
    ASSUME NEW r \in Records, NEW st \in Scratch, Known(r, st)
    PROVE  r.lits \subseteq st.seen /\ \A rid \in Done(st) : r.hints[rid] \subseteq st.seen
<1> DEFINE n == Len(st.tmpOrdered)
<1>1. st.seen = r.lits \cup UNION {r.hints[st.tmpOrdered[j]] : j \in 1 .. n + 1 - 1}
  BY DEF Known, Before
<1>2. n \in Nat /\ n + 1 - 1 = n
  BY ScratchTypes
<1>3. ASSUME NEW rid \in Done(st)
      PROVE  r.hints[rid] \subseteq st.seen
  <2>1. PICK j \in 1 .. n : st.tmpOrdered[j] = rid
    BY DEF Done, Elems
  <2> HIDE DEF n
  <2> QED
    BY <1>1, <1>2, <2>1
<1> QED
  BY <1>1, <1>3

(* As many reasons added as variables learnt: no other reason is closed.   *)
LEMMA ClosedAreAdded ==
    ASSUME NEW r \in Records, NEW K \in SUBSET Vars, NEW q \in Seq(Nat), NoRepeats(q),
           Elems(q) \subseteq Reasons(r), Cardinality(K \ r.lits) = Len(q),
           \A rid \in Elems(q) : r.hints[rid] \subseteq K
    PROVE  \A rid \in Reasons(r) : r.hints[rid] \subseteq K => rid \in Elems(q)
<1> DEFINE C == {rid \in Reasons(r) : r.hints[rid] \subseteq K}
<1>1. Elems(q) \in SUBSET C
  OBVIOUS
<1>2. IsFiniteSet(C) /\ Cardinality(C) <= Len(q)
  <2>1. C \in SUBSET Reasons(r) /\ \A rid \in C : r.hints[rid] \subseteq K
    OBVIOUS
  <2> HIDE DEF C
  <2> QED
    BY <2>1, ClosedCount
<1>3. Cardinality(Elems(q)) = Len(q) /\ Len(q) \in Nat
  BY ElemsCount, LenProperties
<1> HIDE DEF C
<1>4. Cardinality(C) = Cardinality(Elems(q))
  BY <1>1, <1>2, <1>3, FS_Subset, FS_CardinalityType
<1>5. C = Elems(q)
  BY <1>1, <1>2, <1>4, FS_Subset
<1> QED
  BY <1>5 DEF C

(* While hints are stacked: the conflict is, and exactly the reasons added *)
(* are closed.                                                             *)
LEMMA WhileStacked ==
    ASSUME NEW r \in Records, NEW st, OrderInv(r, st), st.tmpResolvents # <<>>
    PROVE  /\ Top(st) \in Stacked(st) /\ Top(st) \in 1 .. Len(r.hints)
           /\ 1 \in Stacked(st)
           /\ Len(st.tmpResolvents) \in Nat \ {0}
           /\ Done(st) \subseteq Reasons(r)
           /\ \A rid \in Reasons(r) : r.hints[rid] \subseteq st.seen => rid \in Done(st)
<1> DEFINE n == Len(st.tmpResolvents)
<1>1. st \in Scratch /\ Shape(r, st) /\ Known(r, st)
  BY DEF OrderInv
<1>2. n \in Nat \ {0} /\ n \in 1 .. n /\ 1 \in 1 .. n
  BY <1>1, ScratchTypes, EmptySeq
<1>3. Top(st) \in Stacked(st)
  BY <1>2 DEF Top, Stacked, Elems
<1>4. 1 \in Stacked(st)
  <2>1. st.tmpResolvents[1] = 1
    BY <1>1 DEF Shape
  <2> QED
    BY <1>2, <2>1 DEF Stacked, Elems
<1>5. Done(st) \subseteq Reasons(r)
  <2>1. Done(st) \subseteq 1 .. Len(r.hints) /\ 1 \notin Done(st)
    BY <1>1, <1>4 DEF Shape
  <2> QED
    BY <2>1, RecordTypes DEF Reasons
<1>6. ASSUME NEW rid \in Reasons(r), r.hints[rid] \subseteq st.seen
      PROVE  rid \in Done(st)
  <2> DEFINE K == st.seen
             q == st.tmpOrdered
  <2>1. K \in SUBSET Vars /\ q \in Seq(Nat)
    BY <1>1, ScratchTypes
  <2>2. NoRepeats(q) /\ Elems(q) \subseteq Reasons(r) /\ Cardinality(K \ r.lits) = Len(q)
    BY <1>1, <1>5 DEF Shape, Known, Done
  <2>3. \A a \in Elems(q) : r.hints[a] \subseteq K
    BY <1>1, DoneClosed DEF Done
  <2> HIDE DEF K, q
  <2>4. \A a \in Reasons(r) : r.hints[a] \subseteq K => a \in Elems(q)
    BY <2>1, <2>2, <2>3, ClosedAreAdded
  <2> QED
    BY <1>6, <2>4 DEF K, q, Done
<1> QED
  BY <1>1, <1>2, <1>3, <1>4, <1>5, <1>6 DEF Shape

(* When the conflict comes to the top, everything else is done, and all of *)
(* its variables are known.                                                *)
LEMMA ConflictOnTop ==
    ASSUME NEW r \in Records, NEW st, OrderInv(r, st), st.tmpResolvents # <<>>,
           Top(st) = 1 \/ Len(st.tmpResolvents) = 1
    PROVE  /\ Top(st) = 1 /\ Len(st.tmpResolvents) = 1 /\ Stacked(st) = {1}
           /\ Done(st) = Reasons(r)
           /\ r.hints[1] \subseteq st.seen
<1> DEFINE n == Len(st.tmpResolvents)
           A == Reasons(r) \ Done(st)
<1>1. st \in Scratch /\ Shape(r, st) /\ Known(r, st) /\ Delayed(r, st)
  BY DEF OrderInv
<1>2. n \in Nat \ {0} /\ n \in 1 .. n /\ 1 \in 1 .. n
  BY WhileStacked
<1>3. n = 1 /\ Top(st) = 1
  <2>1. st.tmpResolvents[1] = 1 /\ NoRepeats(st.tmpResolvents)
    BY <1>1 DEF Shape
  <2>2. \A j, k \in 1 .. n : st.tmpResolvents[j] = st.tmpResolvents[k] => j = k
    BY <2>1 DEF NoRepeats
  <2> QED
    BY <1>2, <2>1, <2>2 DEF Top
<1>4. Stacked(st) = {1}
  <2>1. \A k \in 1 .. n : k = 1
    BY <1>3
  <2>2. st.tmpResolvents[1] = 1
    BY <1>1 DEF Shape
  <2> QED
    BY <1>2, <2>1, <2>2 DEF Stacked, Elems
<1>5. ASSUME NEW rid \in A
      PROVE  Cardinality(r.hints[rid] \ st.seen) >= 2
  <2>1. rid \in (1 .. Len(r.hints)) \ (Stacked(st) \cup Done(st))
    BY <1>4, RecordTypes DEF Reasons
  <2>2. Cardinality(Open(r, st, rid)) >= 2
    BY <1>1, <2>1 DEF Delayed
  <2> QED
    BY <2>2 DEF Open
<1>6. st.seen \in SUBSET Vars /\ r.lits \subseteq st.seen
      /\ \A rid \in Done(st) : r.hints[rid] \subseteq st.seen
  BY <1>1, ScratchTypes, DoneClosed
<1>7. A = {}
  <2> SUFFICES ASSUME A # {}
               PROVE  FALSE
    OBVIOUS
  <2>1. A \in SUBSET Reasons(r) /\ \A rid \in Reasons(r) \ A : r.hints[rid] \subseteq st.seen
    BY <1>6
  <2> HIDE DEF A
  <2>2. PICK rid \in A : Cardinality(r.hints[rid] \ st.seen) <= 1
    BY <1>6, <2>1, NextReason
  <2> DEFINE c == Cardinality(r.hints[rid] \ st.seen)
  <2>3. c \in Nat /\ c >= 2 /\ c <= 1
    <3>1. r.hints[rid] \ st.seen \in SUBSET Vars
      BY <2>1, RecordTypes
    <3> QED
      BY <1>5, <2>2, <3>1, VarsFinite
  <2> QED
    BY <2>3
<1>8. Done(st) = Reasons(r)
  BY <1>7, WhileStacked
<1>9. r.hints[1] \subseteq st.seen
  BY <1>6, <1>8, ConflictLast
<1> QED
  BY <1>3, <1>4, <1>8, <1>9

-----------------------------------------------------------------------------
(* The steps.                                                              *)

LEMMA BeginFields ==
    ASSUME NEW r \in Records, NEW st, CleanInv(st)
    PROVE  LET u == Begin(st, r.lits, r.hints)
               n == Len(r.hints)
           IN  /\ u \in Scratch
               /\ u.seen = r.lits
               /\ \A v \in Vars : u.varDepend[v] = <<>>
               /\ Len(u.nClDeps) = n /\ \A rid \in 1 .. n : u.nClDeps[rid] = 0
               /\ Len(u.tmpResolvents) = n /\ \A rid \in 1 .. n : u.tmpResolvents[rid] = rid
               /\ u.tmpOrdered = <<>>
<1> DEFINE n == Len(r.hints)
           u == Begin(st, r.lits, r.hints)
<1>1. n \in Nat /\ DOMAIN r.hints = 1 .. n
  BY RecordTypes, LenProperties
<1>2. st \in Scratch
  BY DEF CleanInv
<1>3. /\ u.seen = r.lits /\ u.varDepend = st.varDepend /\ u.tmpOrdered = <<>>
      /\ u.tmpResolvents = [rid \in 1 .. n |-> rid]
  BY <1>1, <1>2 DEF Begin, CleanInv, Scratch
<1>4. u.nClDeps = [rid \in 1 .. n |-> IF rid \in DOMAIN st.nClDeps THEN st.nClDeps[rid] ELSE 0]
  BY <1>1, <1>2 DEF Begin, Scratch
<1>5. \A rid \in DOMAIN st.nClDeps : st.nClDeps[rid] = 0
  BY <1>2, ScratchTypes DEF CleanInv
<1>6. u.nClDeps = [rid \in 1 .. n |-> 0]
  BY <1>4, <1>5
<1>7. u \in Scratch
  <2>1. u = [st EXCEPT !.seen = u.seen, !.nClDeps = u.nClDeps,
                       !.tmpResolvents = u.tmpResolvents, !.tmpOrdered = u.tmpOrdered]
    <3> DEFINE known == st.seen \cup r.lits
               counts == [rid \in DOMAIN r.hints |-> IF rid \in DOMAIN st.nClDeps
                                                     THEN st.nClDeps[rid] ELSE 0]
               stack == [rid \in DOMAIN r.hints |-> rid]
    <3>1. u = [st EXCEPT !.seen = known, !.nClDeps = counts,
                         !.tmpResolvents = stack, !.tmpOrdered = <<>>]
      BY DEF Begin
    <3> HIDE DEF u, known, counts, stack
    <3>2. u.seen = known /\ u.nClDeps = counts /\ u.tmpResolvents = stack /\ u.tmpOrdered = <<>>
      BY <1>2, <3>1 DEF Scratch
    <3> QED
      BY <3>1, <3>2
  <2>2. u.seen \in SUBSET Vars /\ u.varDepend \in [Vars -> Seq(Nat \ {0})]
    BY <1>2, <1>3, RecordTypes, ScratchTypes
  <2>3. u.nClDeps \in Seq(Int) /\ u.tmpResolvents \in Seq(Nat \ {0}) /\ u.tmpOrdered \in Seq(Nat \ {0})
    BY <1>1, <1>3, <1>6
  <2> HIDE DEF u
  <2> QED
    BY <1>2, <2>1, <2>2, <2>3 DEF Scratch
<1>8. \A v \in Vars : u.varDepend[v] = <<>>
  BY <1>3 DEF CleanInv
<1>9. Len(u.nClDeps) = n /\ Len(u.tmpResolvents) = n
  BY <1>1, <1>3, <1>6
<1> HIDE DEF u
<1> QED
  BY <1>3, <1>6, <1>7, <1>8, <1>9 DEF u, n

LEMMA BeginOrders ==
    ASSUME NEW r \in Records, NEW st, CleanInv(st)
    PROVE  OrderInv(r, Begin(st, r.lits, r.hints))
<1> DEFINE n == Len(r.hints)
           u == Begin(st, r.lits, r.hints)
<1>1. /\ u \in Scratch
      /\ u.seen = r.lits
      /\ \A v \in Vars : u.varDepend[v] = <<>>
      /\ Len(u.nClDeps) = n /\ \A rid \in 1 .. n : u.nClDeps[rid] = 0
      /\ Len(u.tmpResolvents) = n /\ \A rid \in 1 .. n : u.tmpResolvents[rid] = rid
      /\ u.tmpOrdered = <<>>
  BY BeginFields
<1>2. n \in Nat \ {0} /\ 1 \in 1 .. n
  BY RecordTypes
<1> HIDE DEF u
<1>3. Stacked(u) = 1 .. n /\ NoRepeats(u.tmpResolvents) /\ u.tmpResolvents # <<>>
      /\ u.tmpResolvents[1] = 1
  BY <1>1, <1>2 DEF Stacked, Elems, NoRepeats
<1>4. Done(u) = {} /\ NoRepeats(u.tmpOrdered) /\ Len(u.tmpOrdered) = 0
  BY <1>1 DEF Done, Elems, NoRepeats
<1>5. Shape(r, u)
  BY <1>1, <1>3, <1>4 DEF Shape
<1>6. Known(r, u)
  <2>1. Before(r, <<>>, 1) = r.lits
    BY DEF Before
  <2>2. Cardinality(u.seen \ r.lits) = 0
    <3>1. u.seen \ r.lits = {}
      BY <1>1
    <3> QED
      BY <3>1, FS_EmptySet
  <2>3. u.seen = Before(r, u.tmpOrdered, Len(u.tmpOrdered) + 1)
    BY <1>1, <1>4, <2>1
  <2> QED
    BY <1>4, <2>2, <2>3 DEF Known
<1>7. \A v \in Vars : Elems(u.varDepend[v]) = {} /\ NoRepeats(u.varDepend[v])
  BY <1>1 DEF Elems, NoRepeats
<1>8. \A rid : Listed(u, rid) = {}
  BY <1>7 DEF Listed
<1>9. Lists(r, u)
  BY <1>1, <1>7, <1>8, FS_EmptySet DEF Lists
<1>10. Delayed(r, u)
  BY <1>3, <1>8 DEF Delayed
<1> QED
  BY <1>1, <1>5, <1>6, <1>9, <1>10 DEF OrderInv, u

(* Taking the hint on top from the stack.                                  *)
LEMMA PoppedFields ==
    ASSUME NEW st \in Scratch, st.tmpResolvents # <<>>
    PROVE  LET u == Popped(st)
               n == Len(st.tmpResolvents)
           IN  /\ u \in Scratch
               /\ u.seen = st.seen /\ u.varDepend = st.varDepend
               /\ u.nClDeps = st.nClDeps /\ u.tmpOrdered = st.tmpOrdered
               /\ n \in Nat \ {0} /\ Len(u.tmpResolvents) = n - 1
               /\ \A k \in 1 .. n - 1 : u.tmpResolvents[k] = st.tmpResolvents[k]
               /\ Stacked(st) = Stacked(u) \cup {Top(st)}
               /\ NoRepeats(st.tmpResolvents)
                     => NoRepeats(u.tmpResolvents) /\ Top(st) \notin Stacked(u)
<1> DEFINE q == st.tmpResolvents
           n == Len(q)
           u == Popped(st)
<1>1. u.tmpResolvents = SubSeq(q, 1, n - 1)
  BY DEF Popped, Scratch
<1>2. /\ u.tmpResolvents \in Seq(Nat \ {0})
      /\ n \in Nat \ {0} /\ Len(u.tmpResolvents) = n - 1
      /\ \A k \in 1 .. n - 1 : u.tmpResolvents[k] = q[k]
      /\ Elems(q) = Elems(u.tmpResolvents) \cup {q[n]}
      /\ NoRepeats(q) => NoRepeats(u.tmpResolvents) /\ q[n] \notin Elems(u.tmpResolvents)
  <2>1. q \in Seq(Nat \ {0}) /\ q # <<>>
    BY ScratchTypes
  <2> HIDE DEF q, u
  <2> QED
    BY <1>1, <2>1, ElemsFront
<1>3. /\ u.seen = st.seen /\ u.varDepend = st.varDepend
      /\ u.nClDeps = st.nClDeps /\ u.tmpOrdered = st.tmpOrdered
  BY DEF Popped, Scratch
<1>4. u \in Scratch
  <2>1. u = [st EXCEPT !.tmpResolvents = u.tmpResolvents]
    BY <1>1 DEF Popped
  <2> HIDE DEF u
  <2> QED
    BY <1>2, <2>1 DEF Scratch
<1> HIDE DEF u
<1> QED
  BY <1>2, <1>3, <1>4 DEF Stacked, Top, u

LEMMA BeforeMember ==
    ASSUME NEW r, NEW q, NEW k, NEW x
    PROVE  x \in Before(r, q, k) <=>
             x \in r.lits \/ \E j \in 1 .. k - 1 : x \in r.hints[q[j]]
BY DEF Before

LEMMA BeforeAppend ==
    ASSUME NEW r, NEW q \in Seq(Nat \ {0}), NEW a \in Nat \ {0}
    PROVE  /\ \A k \in 1 .. Len(q) + 1 : Before(r, Append(q, a), k) = Before(r, q, k)
           /\ Before(r, Append(q, a), Len(Append(q, a)) + 1)
                = Before(r, q, Len(q) + 1) \cup r.hints[a]
<1> DEFINE t == Append(q, a)
           n == Len(q)
<1>1. Len(t) = n + 1 /\ n \in Nat /\ t[n + 1] = a /\ \A k \in 1 .. n : t[k] = q[k]
  BY AppendProperties, LenProperties
<1> HIDE DEF t, n
<1>2. ASSUME NEW k \in 1 .. n + 1
      PROVE  Before(r, t, k) = Before(r, q, k)
  <2>1. \A j \in 1 .. k - 1 : j \in 1 .. n
    BY <1>1
  <2>2. \A j \in 1 .. k - 1 : t[j] = q[j]
    BY <1>1, <2>1
  <2>3. {r.hints[t[j]] : j \in 1 .. k - 1} = {r.hints[q[j]] : j \in 1 .. k - 1}
    BY <2>2
  <2> QED
    BY <2>3 DEF Before
<1>3. Before(r, t, Len(t) + 1) = Before(r, q, n + 1) \cup r.hints[a]
  <2>1. n + 1 \in 1 .. Len(t) + 1 - 1
    BY <1>1
  <2>2. \A j \in 1 .. n + 1 - 1 : j \in 1 .. Len(t) + 1 - 1 /\ j \in 1 .. n
    BY <1>1
  <2>3. \A j \in 1 .. Len(t) + 1 - 1 : j \in 1 .. n + 1 - 1 \/ j = n + 1
    BY <1>1
  <2>4. ASSUME NEW x
        PROVE  x \in Before(r, t, Len(t) + 1) <=> x \in Before(r, q, n + 1) \cup r.hints[a]
    <3>1. x \in Before(r, t, Len(t) + 1) <=>
            x \in r.lits \/ \E j \in 1 .. Len(t) + 1 - 1 : x \in r.hints[t[j]]
      BY ONLY BeforeMember
    <3>2. x \in Before(r, q, n + 1) <=>
            x \in r.lits \/ \E j \in 1 .. n + 1 - 1 : x \in r.hints[q[j]]
      BY <1>1, BeforeMember
    <3> QED
      BY <1>1, <2>1, <2>2, <2>3, <3>1, <3>2
  <2> QED
    BY <2>4
<1> QED
  BY <1>1, <1>2, <1>3 DEF t, n

(* One hint more, with at most one unknown variable.                       *)
LEMMA KnownAdded ==
    ASSUME NEW r \in Records, NEW st \in Scratch, Known(r, st), NEW rid \in Nat \ {0},
           Cardinality(Open(r, st, rid)) <= 1, NEW u,
           u.tmpOrdered = Append(st.tmpOrdered, rid),
           u.seen = st.seen \cup r.hints[rid],
           u.tmpResolvents # <<>> => Cardinality(u.seen \ r.lits) = Len(st.tmpOrdered) + 1
    PROVE  Known(r, u)
<1> DEFINE q == st.tmpOrdered
           n == Len(q)
           t == Append(q, rid)
<1>1. q \in Seq(Nat \ {0})
  BY ScratchTypes
<1>2. /\ Len(t) = n + 1 /\ n \in Nat /\ t[n + 1] = rid
      /\ \A k \in 1 .. n : t[k] = q[k]
      /\ \A k \in 1 .. n + 1 : Before(r, t, k) = Before(r, q, k)
      /\ Before(r, t, Len(t) + 1) = Before(r, q, n + 1) \cup r.hints[rid]
  <2> HIDE DEF q
  <2>1. Len(t) = n + 1 /\ n \in Nat /\ t[n + 1] = rid /\ \A k \in 1 .. n : t[k] = q[k]
    BY <1>1, AppendProperties, LenProperties
  <2>2. /\ \A k \in 1 .. n + 1 : Before(r, t, k) = Before(r, q, k)
        /\ Before(r, t, Len(t) + 1) = Before(r, q, n + 1) \cup r.hints[rid]
    BY <1>1, BeforeAppend
  <2> QED
    BY <2>1, <2>2
<1>3. /\ st.seen = Before(r, q, n + 1)
      /\ \A k \in 1 .. n : Cardinality(r.hints[q[k]] \ Before(r, q, k)) <= 1
  BY DEF Known
<1>4. u.tmpOrdered = t /\ u.tmpResolvents # <<>> => Cardinality(u.seen \ r.lits) = n + 1
  OBVIOUS
<1>5. Open(r, st, rid) = r.hints[rid] \ Before(r, q, n + 1)
  BY <1>3 DEF Open
<1>6. u.tmpOrdered = t
  OBVIOUS
<1> HIDE DEF t, n, q
<1>7. ASSUME NEW k \in 1 .. n + 1
      PROVE  Cardinality(r.hints[t[k]] \ Before(r, t, k)) <= 1
  <2>1. CASE k = n + 1
    BY <1>2, <1>5, <2>1
  <2>2. CASE k \in 1 .. n
    BY <1>2, <1>3, <2>2
  <2> QED
    BY <1>2, <2>1, <2>2
<1>8. u.seen = Before(r, t, Len(t) + 1)
  BY <1>2, <1>3
<1> QED
  BY <1>2, <1>4, <1>6, <1>7, <1>8 DEF Known

(* The hint on top is added.                                               *)
LEMMA AddedFields ==
    ASSUME NEW st \in Scratch, st.tmpResolvents # <<>>
    PROVE  LET u == Added(st)
               n == Len(st.tmpResolvents)
           IN  /\ u \in Scratch
               /\ u.seen = st.seen /\ u.varDepend = st.varDepend /\ u.nClDeps = st.nClDeps
               /\ Top(st) \in Nat \ {0}
               /\ u.tmpOrdered = Append(st.tmpOrdered, Top(st))
               /\ Done(u) = Done(st) \cup {Top(st)}
               /\ NoRepeats(st.tmpOrdered) /\ Top(st) \notin Done(st) => NoRepeats(u.tmpOrdered)
               /\ u.tmpResolvents = Popped(st).tmpResolvents
<1> DEFINE p == Popped(st)
           top == Top(st)
           u == [p EXCEPT !.tmpOrdered = Append(p.tmpOrdered, top)]
<1>1. p \in Scratch /\ p.tmpOrdered = st.tmpOrdered
      /\ p.seen = st.seen /\ p.varDepend = st.varDepend /\ p.nClDeps = st.nClDeps
  BY PoppedFields
<1>2. Added(st) = u
  BY DEF Added
<1>3. top \in Nat \ {0}
  <2>1. st.tmpResolvents \in Seq(Nat \ {0}) /\ Len(st.tmpResolvents) \in 1 .. Len(st.tmpResolvents)
    BY ScratchTypes, EmptySeq
  <2> QED
    BY <2>1, ElementOfSeq DEF Top
<1> HIDE DEF p, top
<1>4. /\ u.seen = p.seen /\ u.varDepend = p.varDepend /\ u.nClDeps = p.nClDeps
      /\ u.tmpResolvents = p.tmpResolvents /\ u.tmpOrdered = Append(p.tmpOrdered, top)
  BY <1>1 DEF Scratch
<1>5. p.tmpOrdered \in Seq(Nat \ {0})
  BY <1>1, ScratchTypes
<1>6. u \in Scratch
  <2> DEFINE a == Append(p.tmpOrdered, top)
  <2>1. a \in Seq(Nat \ {0})
    BY <1>3, <1>5, AppendProperties
  <2>2. u = [p EXCEPT !.tmpOrdered = a]
    OBVIOUS
  <2> HIDE DEF a, u
  <2> QED
    BY <1>1, <2>1, <2>2 DEF Scratch
<1> HIDE DEF u
<1>7. /\ Elems(u.tmpOrdered) = Elems(p.tmpOrdered) \cup {top}
      /\ NoRepeats(p.tmpOrdered) /\ top \notin Elems(p.tmpOrdered) => NoRepeats(u.tmpOrdered)
  <2>1. LET a == Append(p.tmpOrdered, top)
        IN  /\ Elems(a) = Elems(p.tmpOrdered) \cup {top}
            /\ NoRepeats(p.tmpOrdered) /\ top \notin Elems(p.tmpOrdered) => NoRepeats(a)
    BY ONLY <1>3, <1>5, ElemsAppend
  <2> QED
    BY <1>4, <2>1
<1> QED
  BY <1>1, <1>2, <1>3, <1>4, <1>6, <1>7 DEF Done, p, top

LEMMA WaitFields ==
    ASSUME NEW r \in Records, NEW st \in Scratch, st.tmpResolvents # <<>>,
           Top(st) \in 1 .. Len(st.nClDeps), Top(st) \in 1 .. Len(r.hints)
    PROVE  LET u == Wait(st, r.hints)
               top == Top(st)
           IN  /\ u \in Scratch
               /\ u.seen = st.seen /\ u.tmpOrdered = st.tmpOrdered
               /\ u.tmpResolvents = Popped(st).tmpResolvents
               /\ \A v \in Vars :
                    u.varDepend[v] = IF v \in Open(r, st, top) THEN Append(st.varDepend[v], top)
                                     ELSE st.varDepend[v]
               /\ Len(u.nClDeps) = Len(st.nClDeps)
               /\ \A rid \in 1 .. Len(st.nClDeps) :
                    u.nClDeps[rid] = IF rid = top
                                     THEN st.nClDeps[rid] + Cardinality(Open(r, st, top))
                                     ELSE st.nClDeps[rid]
<1> DEFINE p == Popped(st)
           top == Top(st)
           open == Open(r, st, top)
           lists == [v \in Vars |-> IF v \in open THEN Append(st.varDepend[v], top)
                                    ELSE st.varDepend[v]]
           counts == [st.nClDeps EXCEPT ![top] = st.nClDeps[top] + Cardinality(open)]
           u == Wait(st, r.hints)
<1>1. p \in Scratch /\ p.tmpOrdered = st.tmpOrdered
      /\ p.seen = st.seen /\ p.varDepend = st.varDepend /\ p.nClDeps = st.nClDeps
  BY PoppedFields
<1>2. DOMAIN p.varDepend = Vars /\ st.varDepend \in [Vars -> Seq(Nat \ {0})] /\ st.nClDeps \in Seq(Int)
  BY <1>1, ScratchTypes
<1>3. u = [p EXCEPT !.varDepend = lists, !.nClDeps = counts]
  <2>1. u = [p EXCEPT !.varDepend = [v \in DOMAIN p.varDepend |->
                                       IF v \in open THEN Append(p.varDepend[v], top)
                                       ELSE p.varDepend[v]],
                      !.nClDeps[top] = p.nClDeps[top] + Cardinality(open)]
    BY DEF Wait, Unseen, Open
  <2>2. [v \in DOMAIN p.varDepend |-> IF v \in open THEN Append(p.varDepend[v], top)
                                       ELSE p.varDepend[v]] = lists
    <3> HIDE DEF p, open, top
    <3> QED
      BY <1>1, <1>2
  <2> HIDE DEF u, p, open, top, lists
  <2> QED
    BY <1>1, <2>1, <2>2 DEF Scratch
<1>4. open \in SUBSET Vars /\ Cardinality(open) \in Nat
  BY RecordTypes, VarsFinite DEF Open
<1>5. top \in Nat \ {0}
  OBVIOUS
<1>6. lists \in [Vars -> Seq(Nat \ {0})]
  <2> SUFFICES ASSUME NEW v \in Vars
               PROVE  (IF v \in open THEN Append(st.varDepend[v], top)
                       ELSE st.varDepend[v]) \in Seq(Nat \ {0})
    OBVIOUS
  <2>1. st.varDepend[v] \in Seq(Nat \ {0})
    BY <1>2
  <2> HIDE DEF top, open
  <2> QED
    BY <1>5, <2>1, AppendProperties
<1>7. counts \in Seq(Int) /\ Len(counts) = Len(st.nClDeps)
      /\ \A rid \in 1 .. Len(st.nClDeps) :
           counts[rid] = IF rid = top THEN st.nClDeps[rid] + Cardinality(open) ELSE st.nClDeps[rid]
  <2>1. top \in 1 .. Len(st.nClDeps) /\ st.nClDeps[top] + Cardinality(open) \in Int
    <3>1. st.nClDeps[top] \in Int
      BY <1>2, ElementOfSeq
    <3> QED
      BY <1>4, <3>1
  <2> HIDE DEF top, open
  <2> QED
    BY <1>2, <2>1, ExceptSeq
<1> HIDE DEF lists, counts, p, u
<1>8. /\ u \in Scratch /\ u.varDepend = lists /\ u.nClDeps = counts
      /\ u.seen = p.seen /\ u.tmpOrdered = p.tmpOrdered /\ u.tmpResolvents = p.tmpResolvents
  BY <1>1, <1>3, <1>6, <1>7 DEF Scratch
<1> QED
  BY <1>1, <1>7, <1>8 DEF lists, p, u

(* A hint on top with an unknown variable is a reason, with hints below it. *)
LEMMA OpenOnTop ==
    ASSUME NEW r \in Records, NEW st, OrderInv(r, st), st.tmpResolvents # <<>>,
           Open(r, st, Top(st)) # {}
    PROVE  LET u == Popped(st)
           IN  /\ Top(st) \in Reasons(r)
               /\ u.tmpResolvents # <<>> /\ u.tmpResolvents[1] = 1
<1> DEFINE u == Popped(st)
           n == Len(st.tmpResolvents)
<1>1. st \in Scratch /\ Shape(r, st)
  BY DEF OrderInv
<1>2. /\ n \in Nat \ {0} /\ Len(u.tmpResolvents) = n - 1
      /\ \A k \in 1 .. n - 1 : u.tmpResolvents[k] = st.tmpResolvents[k]
  BY <1>1, PoppedFields
<1>3. Top(st) # 1 /\ n # 1
  BY ConflictOnTop DEF Open
<1>4. Top(st) \in Reasons(r)
  BY <1>3, WhileStacked, RecordTypes DEF Reasons
<1>5. 1 \in 1 .. n - 1 /\ Len(u.tmpResolvents) # 0
  <2> HIDE DEF n, u
  <2> QED
    BY <1>2, <1>3
<1>6. st.tmpResolvents[1] = 1
  BY <1>1 DEF Shape
<1>7. u.tmpResolvents[1] = 1
  BY <1>2, <1>5, <1>6
<1>8. u.tmpResolvents # <<>>
  <2> HIDE DEF u
  <2> QED
    BY <1>5
<1> QED
  BY <1>4, <1>7, <1>8

LEMMA WaitOrders ==
    ASSUME NEW r \in Records, NEW st, OrderInv(r, st), st.tmpResolvents # <<>>,
           ~IsAsserting(st, r.hints, Top(st))
    PROVE  OrderInv(r, Wait(st, r.hints))
<1> DEFINE n == Len(r.hints)
           top == Top(st)
           open == Open(r, st, top)
           p == Popped(st)
           u == Wait(st, r.hints)
<1>1. st \in Scratch /\ Shape(r, st) /\ Known(r, st) /\ Lists(r, st) /\ Delayed(r, st)
  BY DEF OrderInv
<1>2. top \in Stacked(st) /\ top \in 1 .. n /\ top \in 1 .. Len(st.nClDeps)
  BY <1>1, WhileStacked DEF Shape
<1>3. open \in SUBSET Vars /\ Cardinality(open) \in Nat /\ Cardinality(open) >= 2
  <2>1. open \in SUBSET Vars /\ Cardinality(open) \in Nat
    BY <1>2, RecordTypes, VarsFinite DEF Open
  <2>2. ~(Cardinality(open) < 2)
    BY DEF IsAsserting, Unseen, Open
  <2> HIDE DEF open
  <2> QED
    BY <2>1, <2>2
<1>4. open # {}
  <2> HIDE DEF open
  <2>1. Cardinality(open) # 0
    BY <1>3
  <2> QED
    BY <2>1, FS_EmptySet
<1>5. top \in Reasons(r) /\ p.tmpResolvents # <<>> /\ p.tmpResolvents[1] = 1
  BY <1>4, OpenOnTop
<1>6. /\ u \in Scratch
      /\ u.seen = st.seen /\ u.tmpOrdered = st.tmpOrdered
      /\ u.tmpResolvents = p.tmpResolvents
      /\ \A v \in Vars : u.varDepend[v] = IF v \in open THEN Append(st.varDepend[v], top)
                                          ELSE st.varDepend[v]
      /\ Len(u.nClDeps) = Len(st.nClDeps)
      /\ \A rid \in 1 .. Len(st.nClDeps) :
           u.nClDeps[rid] = IF rid = top THEN st.nClDeps[rid] + Cardinality(open)
                            ELSE st.nClDeps[rid]
  BY <1>1, <1>2, WaitFields
<1>7. /\ Stacked(st) = Stacked(u) \cup {top}
      /\ NoRepeats(u.tmpResolvents) /\ top \notin Stacked(u)
      /\ Done(u) = Done(st)
  <2>1. /\ Stacked(st) = Stacked(p) \cup {top}
        /\ NoRepeats(p.tmpResolvents) /\ top \notin Stacked(p)
    BY <1>1, PoppedFields DEF Shape
  <2> HIDE DEF u, p, top
  <2> QED
    BY <1>6, <2>1 DEF Stacked, Done
<1> HIDE DEF u, p
<1>8. \A rid : Open(r, u, rid) = Open(r, st, rid)
  BY <1>6 DEF Open
<1>9. Listed(st, top) = {}
  <2>1. Listed(st, top) # {} => Cardinality(open) = 1
    BY <1>1, <1>2 DEF Delayed
  <2> HIDE DEF open, top
  <2> QED
    BY <1>3, <2>1
<1>10. ASSUME NEW v \in Vars
       PROVE  Elems(u.varDepend[v]) = IF v \in open THEN Elems(st.varDepend[v]) \cup {top}
                                      ELSE Elems(st.varDepend[v])
  <2>1. st.varDepend[v] \in Seq(Nat \ {0}) /\ top \in Nat \ {0}
    BY <1>1, <1>2, ScratchTypes
  <2> HIDE DEF top, open
  <2>2. Elems(Append(st.varDepend[v], top)) = Elems(st.varDepend[v]) \cup {top}
    BY <2>1, ElemsAppend
  <2> QED
    BY <1>6, <2>2
<1>11. \A rid : Listed(u, rid) = IF rid = top THEN open ELSE Listed(st, rid)
  <2> SUFFICES ASSUME NEW rid
               PROVE  Listed(u, rid) = IF rid = top THEN open ELSE Listed(st, rid)
    OBVIOUS
  <2>1. CASE rid = top
    <3>1. \A v \in Vars \ st.seen : top \notin Elems(st.varDepend[v])
      BY <1>9 DEF Listed
    <3>2. open \subseteq Vars \ st.seen
      BY <1>3 DEF Open
    <3>3. Listed(u, top) = {v \in Vars \ st.seen : top \in Elems(u.varDepend[v])}
      BY <1>6 DEF Listed
    <3> HIDE DEF top, open
    <3> QED
      BY <1>10, <2>1, <3>1, <3>2, <3>3
  <2>2. CASE rid # top
    <3> HIDE DEF top, open
    <3> QED
      BY <1>6, <1>10, <2>2 DEF Listed
  <2> QED
    BY <2>1, <2>2
<1>12. Shape(r, u)
  <2> HIDE DEF top
  <2> QED
    BY <1>1, <1>5, <1>6, <1>7 DEF Shape, Done
<1>13. Known(r, u)
  BY <1>1, <1>6 DEF Known
<1>14. Lists(r, u)
  <2>1. ASSUME NEW v \in Vars \ u.seen
        PROVE  Elems(u.varDepend[v]) \subseteq Reasons(r) /\ NoRepeats(u.varDepend[v])
    <3>1. Elems(st.varDepend[v]) \subseteq Reasons(r) /\ NoRepeats(st.varDepend[v])
      BY <1>1, <1>6 DEF Lists
    <3>2. Elems(u.varDepend[v]) \subseteq Reasons(r)
      BY <1>5, <1>10, <3>1
    <3>3. top \notin Elems(st.varDepend[v])
      BY <1>6, <1>9 DEF Listed
    <3>4. NoRepeats(u.varDepend[v])
      <4>1. st.varDepend[v] \in Seq(Nat \ {0}) /\ top \in Nat \ {0}
        BY <1>1, <1>2, ScratchTypes
      <4> HIDE DEF top, open
      <4>2. NoRepeats(Append(st.varDepend[v], top))
        BY <3>1, <3>3, <4>1, ElemsAppend
      <4> QED
        BY <1>6, <3>1, <4>2
    <3> QED
      BY <3>2, <3>4
  <2>2. ASSUME NEW rid \in 1 .. n
        PROVE  /\ u.nClDeps[rid] = Cardinality(Listed(u, rid))
               /\ Listed(u, rid) \in {{}, Open(r, u, rid)}
    <3>1. /\ st.nClDeps[rid] = Cardinality(Listed(st, rid))
          /\ Listed(st, rid) \in {{}, Open(r, st, rid)}
      BY <1>1 DEF Lists
    <3>2. rid \in 1 .. Len(st.nClDeps)
      BY <1>1 DEF Shape
    <3>3. Cardinality(Listed(st, top)) = 0
      BY <1>9, FS_EmptySet
    <3>4. CASE rid = top
      <4>1. u.nClDeps[rid] = Cardinality(open)
        BY <1>3, <1>6, <3>1, <3>2, <3>3, <3>4
      <4> QED
        BY <1>8, <1>11, <3>4, <4>1
    <3>5. CASE rid # top
      <4>1. u.nClDeps[rid] = st.nClDeps[rid] /\ Listed(u, rid) = Listed(st, rid)
        BY <1>6, <1>11, <3>2, <3>5
      <4> QED
        BY <1>8, <3>1, <4>1
    <3> QED
      BY <3>4, <3>5
  <2> QED
    BY <2>1, <2>2 DEF Lists
<1>15. Delayed(r, u)
  <2>1. ASSUME NEW rid \in (1 .. n) \ (Stacked(u) \cup Done(u))
        PROVE  Listed(u, rid) = Open(r, u, rid) /\ Cardinality(Open(r, u, rid)) >= 2
    <3>1. CASE rid = top
      BY <1>3, <1>8, <1>11, <3>1
    <3>2. CASE rid # top
      <4>1. rid \in (1 .. n) \ (Stacked(st) \cup Done(st))
        BY <1>7, <3>2
      <4>2. Listed(st, rid) = Open(r, st, rid) /\ Cardinality(Open(r, st, rid)) >= 2
        BY <1>1, <4>1 DEF Delayed
      <4> QED
        BY <1>8, <1>11, <3>2, <4>2
    <3> QED
      BY <3>1, <3>2
  <2>2. ASSUME NEW rid \in Stacked(u), Listed(u, rid) # {}
        PROVE  Cardinality(Open(r, u, rid)) = 1
    <3>1. rid \in Stacked(st) /\ rid # top
      BY <1>7
    <3>2. Listed(st, rid) # {}
      BY <1>11, <2>2, <3>1
    <3> QED
      BY <1>1, <1>8, <3>1, <3>2 DEF Delayed
  <2> QED
    BY <2>1, <2>2 DEF Delayed
<1> QED
  BY <1>6, <1>12, <1>13, <1>14, <1>15 DEF OrderInv, u

(* Only the conflict can turn up without an unknown variable, as the last. *)
LEMMA ClosedOnTop ==
    ASSUME NEW r \in Records, NEW st, OrderInv(r, st), st.tmpResolvents # <<>>,
           Open(r, st, Top(st)) = {}
    PROVE  Top(st) = 1 /\ Len(st.tmpResolvents) = 1
<1>1. r.hints[Top(st)] \subseteq st.seen
  BY DEF Open
<1>2. Top(st) \notin Reasons(r)
  <2>1. Stacked(st) \cap Done(st) = {}
    BY DEF OrderInv, Shape
  <2> QED
    BY <1>1, <2>1, WhileStacked
<1>3. Top(st) = 1
  BY <1>2, WhileStacked, RecordTypes DEF Reasons
<1> QED
  BY <1>3, ConflictOnTop

LEMMA ClosedOrders ==
    ASSUME NEW r \in Records, NEW st, OrderInv(r, st), st.tmpResolvents # <<>>,
           Unseen(st, r.hints, Top(st)) = {}
    PROVE  OrderInv(r, Added(st))
<1> DEFINE n == Len(r.hints)
           u == Added(st)
<1>1. st \in Scratch /\ Shape(r, st) /\ Known(r, st) /\ Lists(r, st)
  BY DEF OrderInv
<1>2. Open(r, st, Top(st)) = {}
  BY DEF Open, Unseen
<1>3. Top(st) = 1 /\ Len(st.tmpResolvents) = 1
  BY <1>2, ClosedOnTop
<1>4. Done(st) = Reasons(r) /\ r.hints[1] \subseteq st.seen
  BY <1>3, ConflictOnTop
<1>5. /\ u \in Scratch
      /\ u.seen = st.seen /\ u.varDepend = st.varDepend /\ u.nClDeps = st.nClDeps
      /\ u.tmpOrdered = Append(st.tmpOrdered, 1)
      /\ Done(u) = Done(st) \cup {1}
      /\ 1 \notin Done(st) => NoRepeats(u.tmpOrdered)
      /\ u.tmpResolvents = Popped(st).tmpResolvents
  BY <1>1, <1>3, AddedFields DEF Shape
<1>6. u.tmpResolvents = <<>>
  <2> DEFINE q == Popped(st).tmpResolvents
  <2>1. q \in Seq(Nat \ {0}) /\ Len(q) = Len(st.tmpResolvents) - 1
    BY <1>1, PoppedFields, ScratchTypes
  <2> HIDE DEF q
  <2>2. q = <<>>
    BY <1>3, <2>1, EmptySeq
  <2> QED
    BY <1>5, <2>2 DEF q
<1> HIDE DEF u
<1>7. Shape(r, u)
  <2>1. Stacked(u) = {} /\ NoRepeats(u.tmpResolvents)
    BY <1>6 DEF Stacked, Elems, NoRepeats
  <2>2. Reasons(r) \cup {1} = 1 .. n /\ 1 \notin Reasons(r)
    BY RecordTypes DEF Reasons
  <2>3. Done(u) = 1 .. n
    BY <1>4, <1>5, <2>2
  <2>4. NoRepeats(u.tmpOrdered)
    BY <1>4, <1>5, <2>2
  <2> QED
    BY <1>1, <1>5, <1>6, <2>1, <2>3, <2>4 DEF Shape
<1>8. Known(r, u)
  <2>1. Cardinality(Open(r, st, 1)) <= 1
    <3>1. Open(r, st, 1) = {}
      BY <1>2, <1>3
    <3>2. Cardinality(Open(r, st, 1)) = 0
      BY <3>1, FS_EmptySet, Zenon
    <3> QED
      BY <3>2
  <2>2. u.seen = st.seen \cup r.hints[1]
    BY <1>4, <1>5
  <2>3. 1 \in Nat \ {0} /\ u.tmpOrdered = Append(st.tmpOrdered, 1)
    BY <1>5
  <2>4. u.tmpResolvents # <<>> => Cardinality(u.seen \ r.lits) = Len(st.tmpOrdered) + 1
    BY <1>6
  <2> QED
    BY <1>1, <2>1, <2>2, <2>3, <2>4, KnownAdded
<1>9. Lists(r, u)
  BY <1>1, <1>5 DEF Lists, Listed, Open
<1>10. Delayed(r, u)
  <2>1. Stacked(u) = {} /\ Done(u) = 1 .. n
    BY <1>6, <1>7 DEF Stacked, Elems, Shape
  <2> QED
    BY <2>1 DEF Delayed
<1> QED
  BY <1>5, <1>7, <1>8, <1>9, <1>10 DEF OrderInv, u

(* At the end the lists of the unknown variables are empty, too.           *)
LEMMA StoreCleans ==
    ASSUME NEW r \in Records, NEW st, OrderInv(r, st), st.tmpResolvents = <<>>
    PROVE  CleanInv(Clear(st))
<1> DEFINE n == Len(r.hints)
           lists == [v \in Vars |-> IF v \in st.seen THEN <<>> ELSE st.varDepend[v]]
           u == Clear(st)
<1>1. st \in Scratch /\ Shape(r, st) /\ Known(r, st) /\ Lists(r, st)
  BY DEF OrderInv
<1>2. Done(st) = 1 .. n
  BY <1>1 DEF Shape
<1>3. \A rid \in 1 .. n : Listed(st, rid) = {}
  <2>1. \A rid \in 1 .. n : Open(r, st, rid) = {}
    BY <1>1, <1>2, DoneClosed DEF Open
  <2> QED
    BY <1>1, <2>1 DEF Lists
<1>4. ASSUME NEW v \in Vars \ st.seen
      PROVE  st.varDepend[v] = <<>>
  <2> DEFINE q == st.varDepend[v]
  <2>1. q \in Seq(Nat \ {0}) /\ Elems(q) \subseteq 1 .. n
    BY <1>1, ScratchTypes, RecordTypes DEF Lists
  <2>2. \A rid \in 1 .. n : rid \notin Elems(q)
    BY <1>3 DEF Listed
  <2> HIDE DEF q
  <2>3. Len(q) = 0
    <3>1. \A k \in 1 .. Len(q) : q[k] \in Elems(q)
      BY DEF Elems
    <3>2. Len(q) \in Nat /\ ~(1 \in 1 .. Len(q))
      BY <2>1, <2>2, <3>1, LenProperties
    <3> QED
      BY <3>2
  <2>4. q = <<>>
    BY <2>1, <2>3, EmptySeq
  <2> QED
    BY <2>4 DEF q
<1>5. u = [st EXCEPT !.seen = {}, !.varDepend = lists]
  <2>1. DOMAIN st.varDepend = Vars
    BY <1>1, ScratchTypes
  <2>2. u = [st EXCEPT !.seen = {}, !.varDepend = [v \in DOMAIN st.varDepend |->
                                     IF v \in st.seen THEN <<>> ELSE st.varDepend[v]]]
    BY DEF Clear
  <2> HIDE DEF u
  <2> QED
    BY <2>1, <2>2
<1>6. lists \in [Vars -> Seq(Nat \ {0})] /\ \A v \in Vars : lists[v] = <<>>
  <2>1. \A v \in Vars : lists[v] = <<>>
    BY <1>4
  <2>2. lists = [v \in Vars |-> lists[v]] /\ <<>> \in Seq(Nat \ {0})
    OBVIOUS
  <2> HIDE DEF lists
  <2> QED
    BY <2>1, <2>2
<1>7. Len(st.nClDeps) = n /\ \A rid \in 1 .. n : st.nClDeps[rid] = 0
  BY <1>1, <1>3, FS_EmptySet DEF Shape, Lists
<1> HIDE DEF lists, u
<1>8. /\ u \in Scratch /\ u.seen = {} /\ u.varDepend = lists
      /\ u.nClDeps = st.nClDeps /\ u.tmpResolvents = st.tmpResolvents
  BY <1>1, <1>5, <1>6 DEF Scratch
<1> QED
  BY <1>6, <1>7, <1>8 DEF CleanInv, u

(* The hints released when v becomes known.                                *)
LEMMA ReadyFields ==
    ASSUME NEW st \in Scratch, NEW v \in Vars
    PROVE  /\ Ready(st, v) \in Seq(Nat \ {0})
           /\ Elems(Ready(st, v)) =
                {rid \in Elems(st.varDepend[v]) : /\ rid \in 1 .. Len(st.nClDeps)
                                                  /\ st.nClDeps[rid] - 1 \in {0, 1}
                                                  /\ rid # Top(st)}
           /\ NoRepeats(st.varDepend[v]) => NoRepeats(Ready(st, v))
<1> DEFINE q == st.varDepend[v]
           R == {rid \in DOMAIN st.nClDeps : st.nClDeps[rid] - 1 \in {0, 1} /\ rid # Top(st)}
<1>1. q \in Seq(Nat \ {0}) /\ DOMAIN st.nClDeps = 1 .. Len(st.nClDeps)
  BY ScratchTypes
<1>2. Ready(st, v) = Selected(q, R)
  BY DEF Ready
<1>3. /\ Selected(q, R) \in Seq(Nat \ {0})
      /\ Elems(Selected(q, R)) = Elems(q) \cap R
      /\ NoRepeats(q) => NoRepeats(Selected(q, R))
  <2> HIDE DEF q, R
  <2> QED
    BY <1>1, SelectedProperties
<1>4. Elems(q) \cap R = {rid \in Elems(q) : /\ rid \in 1 .. Len(st.nClDeps)
                                            /\ st.nClDeps[rid] - 1 \in {0, 1}
                                            /\ rid # Top(st)}
  <2> HIDE DEF q
  <2> QED
    BY <1>1
<1> HIDE DEF R
<1> QED
  BY <1>2, <1>3, <1>4

LEMMA LearnFields ==
    ASSUME NEW st \in Scratch, st.tmpResolvents # <<>>, NEW v \in Vars
    PROVE  LET u == Learn(st, v)
           IN  /\ u \in Scratch
               /\ u.seen = st.seen \cup {v} /\ u.varDepend = st.varDepend
               /\ Top(st) \in Nat \ {0}
               /\ u.tmpOrdered = Append(st.tmpOrdered, Top(st))
               /\ Done(u) = Done(st) \cup {Top(st)}
               /\ NoRepeats(st.tmpOrdered) /\ Top(st) \notin Done(st) => NoRepeats(u.tmpOrdered)
               /\ u.tmpResolvents = Popped(st).tmpResolvents \o Ready(st, v)
               /\ Len(u.nClDeps) = Len(st.nClDeps)
               /\ \A rid \in 1 .. Len(st.nClDeps) :
                    u.nClDeps[rid] = IF rid \in Elems(st.varDepend[v]) THEN st.nClDeps[rid] - 1
                                     ELSE st.nClDeps[rid]
<1> DEFINE a == Added(st)
           u == Learn(st, v)
           n == Len(st.nClDeps)
           known == a.seen \cup {v}
           waiting == {st.varDepend[v][k] : k \in DOMAIN st.varDepend[v]}
           counts == [rid \in DOMAIN a.nClDeps |->
                        a.nClDeps[rid] - (IF rid \in waiting THEN 1 ELSE 0)]
           stack == a.tmpResolvents \o Ready(st, v)
<1>1. /\ a \in Scratch
      /\ a.seen = st.seen /\ a.varDepend = st.varDepend /\ a.nClDeps = st.nClDeps
      /\ Top(st) \in Nat \ {0}
      /\ a.tmpOrdered = Append(st.tmpOrdered, Top(st))
      /\ Done(a) = Done(st) \cup {Top(st)}
      /\ NoRepeats(st.tmpOrdered) /\ Top(st) \notin Done(st) => NoRepeats(a.tmpOrdered)
      /\ a.tmpResolvents = Popped(st).tmpResolvents
  BY AddedFields
<1>2. u = [a EXCEPT !.seen = known, !.nClDeps = counts, !.tmpResolvents = stack]
  BY DEF Learn
<1>3. waiting = Elems(st.varDepend[v])
  <2>1. DOMAIN st.varDepend[v] = 1 .. Len(st.varDepend[v])
    <3>1. st.varDepend[v] \in Seq(Nat \ {0})
      BY ScratchTypes
    <3> QED
      BY <3>1, LenProperties
  <2> QED
    BY <2>1 DEF Elems
<1> HIDE DEF a, u, waiting
<1>4. known \in SUBSET Vars
  BY <1>1, ScratchTypes
<1>5. counts \in Seq(Int) /\ Len(counts) = n
      /\ \A rid \in 1 .. n : counts[rid] = IF rid \in Elems(st.varDepend[v])
                                           THEN st.nClDeps[rid] - 1 ELSE st.nClDeps[rid]
  <2>1. n \in Nat /\ \A rid \in 1 .. n : st.nClDeps[rid] \in Int
    BY ScratchTypes, ElementOfSeq
  <2>2. counts = [rid \in 1 .. n |-> st.nClDeps[rid] - (IF rid \in waiting THEN 1 ELSE 0)]
    BY <1>1, ScratchTypes
  <2> HIDE DEF counts, n
  <2>3. \A rid \in 1 .. n : counts[rid] = IF rid \in Elems(st.varDepend[v])
                                          THEN st.nClDeps[rid] - 1 ELSE st.nClDeps[rid]
    BY <1>3, <2>1, <2>2
  <2>4. \A rid \in 1 .. n : counts[rid] \in Int
    BY <2>1, <2>3
  <2>5. counts \in [1 .. n -> Int]
    BY <2>2, <2>4
  <2> QED
    BY <2>1, <2>3, <2>5
<1>6. stack \in Seq(Nat \ {0})
  <2>1. a.tmpResolvents \in Seq(Nat \ {0}) /\ Ready(st, v) \in Seq(Nat \ {0})
    BY <1>1, ReadyFields, ScratchTypes
  <2> QED
    BY <2>1, ConcatProperties
<1> HIDE DEF known, counts, stack
<1>7. /\ u \in Scratch
      /\ u.seen = known /\ u.nClDeps = counts /\ u.tmpResolvents = stack
      /\ u.varDepend = a.varDepend /\ u.tmpOrdered = a.tmpOrdered
  BY <1>1, <1>2, <1>4, <1>5, <1>6 DEF Scratch
<1>8. Done(u) = Done(a)
  BY <1>7 DEF Done
<1> QED
  BY <1>1, <1>5, <1>7, <1>8 DEF known, stack, u, n

(* What the variable learnt changes: the hint on top is added, and exactly *)
(* the reasons added are closed afterwards.                                *)
LEMMA LearnCounts ==
    ASSUME NEW r \in Records, NEW st, OrderInv(r, st), st.tmpResolvents # <<>>,
           NEW v \in Vars, Open(r, st, Top(st)) = {v}
    PROVE  LET u == Learn(st, v)
           IN  /\ Known(r, u)
               /\ NoRepeats(u.tmpOrdered)
               /\ Done(u) \subseteq Reasons(r)
               /\ \A rid \in Reasons(r) : r.hints[rid] \subseteq u.seen => rid \in Done(u)
<1> DEFINE top == Top(st)
           u == Learn(st, v)
           K == u.seen
           q == u.tmpOrdered
<1>1. st \in Scratch /\ Shape(r, st) /\ Known(r, st)
  BY DEF OrderInv
<1>2. top \in Stacked(st) /\ top \notin Done(st) /\ top \in Reasons(r) /\ Done(st) \subseteq Reasons(r)
  <2>1. Open(r, st, top) # {}
    OBVIOUS
  <2> QED
    BY <1>1, <2>1, OpenOnTop, WhileStacked DEF Shape
<1>3. /\ u \in Scratch
      /\ K = st.seen \cup {v}
      /\ top \in Nat \ {0}
      /\ q = Append(st.tmpOrdered, top)
      /\ Done(u) = Done(st) \cup {top}
      /\ NoRepeats(st.tmpOrdered) /\ top \notin Done(st) => NoRepeats(q)
  BY <1>1, LearnFields
<1>4. NoRepeats(q) /\ Done(u) \subseteq Reasons(r)
  BY <1>1, <1>2, <1>3 DEF Shape
<1>5. st.seen \in SUBSET Vars /\ K \in SUBSET Vars /\ r.lits \subseteq st.seen /\ v \notin st.seen
  <2>1. st.seen \in SUBSET Vars /\ r.lits \subseteq st.seen
    BY <1>1, ScratchTypes, DoneClosed
  <2>2. v \notin st.seen
    BY DEF Open
  <2> HIDE DEF K
  <2> QED
    BY <1>3, <2>1, <2>2
<1> HIDE DEF u, top
<1>6. K = st.seen \cup r.hints[top]
  <2>1. r.hints[top] \ st.seen = {v}
    BY DEF Open, top
  <2> HIDE DEF K
  <2> QED
    BY <1>3, <2>1
<1>7. Cardinality(K \ r.lits) = Len(st.tmpOrdered) + 1
  <2> DEFINE L == st.seen \ r.lits
  <2>1. IsFiniteSet(L) /\ v \notin L /\ K \ r.lits = L \cup {v}
    BY <1>3, <1>5, VarsFinite
  <2>2. Cardinality(L) = Len(st.tmpOrdered)
    BY <1>1 DEF Known
  <2> HIDE DEF L, K
  <2>3. Cardinality(L \cup {v}) = Cardinality(L) + 1
    BY <2>1, FS_AddElement
  <2> QED
    BY <2>1, <2>2, <2>3
<1>8. Cardinality(Open(r, st, top)) <= 1
  <2>1. Open(r, st, top) = {v}
    BY DEF top
  <2>2. Cardinality(Open(r, st, top)) = 1
    BY <2>1, FS_Singleton, Zenon
  <2> QED
    BY <2>2
<1>9. Known(r, u)
  BY <1>1, <1>3, <1>6, <1>7, <1>8, KnownAdded
<1>10. \A rid \in Reasons(r) : r.hints[rid] \subseteq K => rid \in Done(u)
  <2>1. q \in Seq(Nat) /\ Len(q) = Len(st.tmpOrdered) + 1
    <3>1. q \in Seq(Nat \ {0})
      BY <1>3, ScratchTypes
    <3>2. st.tmpOrdered \in Seq(Nat \ {0})
      BY <1>1, ScratchTypes
    <3>3. Len(q) = Len(st.tmpOrdered) + 1
      BY <1>3, <3>2, AppendProperties
    <3> QED
      BY <3>1, <3>3
  <2>2. Elems(q) \subseteq Reasons(r) /\ \A rid \in Elems(q) : r.hints[rid] \subseteq K
    BY <1>3, <1>4, <1>9, DoneClosed DEF Done
  <2>3. Cardinality(K \ r.lits) = Len(q)
    BY <1>7, <2>1
  <2> HIDE DEF K, q
  <2>4. \A rid \in Reasons(r) : r.hints[rid] \subseteq K => rid \in Elems(q)
    BY <1>4, <1>5, <2>1, <2>2, <2>3, ClosedAreAdded
  <2> QED
    BY <2>4 DEF Done, q
<1> QED
  BY <1>4, <1>9, <1>10 DEF u

LEMMA LearnLists ==
    ASSUME NEW r \in Records, NEW st, OrderInv(r, st), st.tmpResolvents # <<>>,
           NEW v \in Vars, Open(r, st, Top(st)) = {v}
    PROVE  LET u == Learn(st, v)
           IN  \A rid \in 1 .. Len(r.hints) :
                 /\ Open(r, u, rid) = Open(r, st, rid) \ {v}
                 /\ Listed(u, rid) = Listed(st, rid) \ {v}
                 /\ rid \in Elems(st.varDepend[v]) <=> v \in Listed(st, rid)
                 /\ u.nClDeps[rid] = Cardinality(Listed(u, rid))
                 /\ Listed(u, rid) \in {{}, Open(r, u, rid)}
<1> DEFINE u == Learn(st, v)
<1>1. st \in Scratch /\ Shape(r, st) /\ Lists(r, st)
  BY DEF OrderInv
<1>2. /\ u.seen = st.seen \cup {v} /\ u.varDepend = st.varDepend
      /\ \A rid \in 1 .. Len(r.hints) :
           u.nClDeps[rid] = IF rid \in Elems(st.varDepend[v]) THEN st.nClDeps[rid] - 1
                            ELSE st.nClDeps[rid]
  BY <1>1, LearnFields DEF Shape
<1>3. v \in Vars \ st.seen
  BY DEF Open
<1> HIDE DEF u
<1> SUFFICES ASSUME NEW rid \in 1 .. Len(r.hints)
             PROVE  /\ Open(r, u, rid) = Open(r, st, rid) \ {v}
                    /\ Listed(u, rid) = Listed(st, rid) \ {v}
                    /\ rid \in Elems(st.varDepend[v]) <=> v \in Listed(st, rid)
                    /\ u.nClDeps[rid] = Cardinality(Listed(u, rid))
                    /\ Listed(u, rid) \in {{}, Open(r, u, rid)}
  BY DEF u
<1>4. Open(r, u, rid) = Open(r, st, rid) \ {v}
  BY <1>2 DEF Open
<1>5. Listed(u, rid) = Listed(st, rid) \ {v}
  BY <1>2 DEF Listed
<1>6. rid \in Elems(st.varDepend[v]) <=> v \in Listed(st, rid)
  BY <1>3 DEF Listed
<1>7. /\ st.nClDeps[rid] = Cardinality(Listed(st, rid))
      /\ Listed(st, rid) \in {{}, Open(r, st, rid)}
  BY <1>1 DEF Lists
<1>8. u.nClDeps[rid] = Cardinality(Listed(u, rid))
  <2> DEFINE L == Listed(st, rid)
  <2>1. IsFiniteSet(L)
    <3>1. L \in SUBSET Vars
      BY DEF Listed
    <3> QED
      BY <3>1, VarsFinite
  <2>2. Cardinality(L \ {v}) = IF v \in L THEN Cardinality(L) - 1 ELSE Cardinality(L)
    <3> HIDE DEF L
    <3> QED
      BY <2>1, FS_RemoveElement
  <2> QED
    BY <1>2, <1>5, <1>6, <1>7, <2>2
<1>9. Listed(u, rid) \in {{}, Open(r, u, rid)}
  BY <1>4, <1>5, <1>7
<1> QED
  BY <1>4, <1>5, <1>6, <1>8, <1>9

(* A hint released was delayed, and has one unknown variable left.         *)
LEMMA Released ==
    ASSUME NEW r \in Records, NEW st, OrderInv(r, st), st.tmpResolvents # <<>>,
           NEW v \in Vars, Open(r, st, Top(st)) = {v}, NEW rid \in Elems(Ready(st, v))
    PROVE  /\ rid \in 1 .. Len(r.hints) /\ rid \notin Stacked(st) /\ rid \notin Done(st)
           /\ Cardinality(Open(r, Learn(st, v), rid)) = 1
<1> DEFINE u == Learn(st, v)
           O == Open(r, st, rid)
<1>1. st \in Scratch /\ Shape(r, st) /\ Known(r, st) /\ Lists(r, st) /\ Delayed(r, st)
  BY DEF OrderInv
<1>2. /\ rid \in Elems(st.varDepend[v]) /\ rid \in 1 .. Len(st.nClDeps)
      /\ st.nClDeps[rid] - 1 \in {0, 1} /\ rid # Top(st)
  BY <1>1, ReadyFields
<1>3. rid \in Reasons(r) /\ rid \in 1 .. Len(r.hints) /\ v \in Vars \ st.seen
  BY <1>1, <1>2 DEF Lists, Shape, Open
<1>4. Listed(st, rid) = O /\ v \in O /\ st.nClDeps[rid] = Cardinality(O)
      /\ Open(r, u, rid) = O \ {v}
  <2>1. v \in Listed(st, rid) /\ Open(r, u, rid) = O \ {v}
    BY <1>2, <1>3, LearnLists
  <2>2. Listed(st, rid) \in {{}, O} /\ st.nClDeps[rid] = Cardinality(Listed(st, rid))
    BY <1>1, <1>3 DEF Lists
  <2> QED
    BY <2>1, <2>2
<1>5. rid \notin Done(st)
  <2>1. rid \in Done(st) => O = {}
    BY <1>1, DoneClosed DEF Open
  <2> QED
    BY <1>4, <2>1
<1>6. rid \notin Stacked(st)
  <2> SUFFICES ASSUME rid \in Stacked(st)
               PROVE  FALSE
    OBVIOUS
  <2>1. Cardinality(O) = 1
    BY <1>1, <1>4 DEF Delayed
  <2>2. O \in SUBSET Vars /\ IsFiniteSet(O)
    <3>1. O \in SUBSET Vars
      BY <1>3, RecordTypes DEF Open
    <3> QED
      BY <3>1, VarsFinite
  <2>3. O = {v}
    <3> HIDE DEF O
    <3>1. PICK x : O = {x}
      BY <2>1, <2>2, FS_Singleton
    <3> QED
      BY <1>4, <3>1
  <2>4. r.hints[rid] \subseteq u.seen
    <3>1. Open(r, u, rid) = {}
      BY <1>4, <2>3
    <3> QED
      BY <3>1 DEF Open
  <2>5. rid \in Done(u) /\ Done(u) = Done(st) \cup {Top(st)}
    BY <1>1, <1>3, <2>4, LearnCounts, LearnFields
  <2> QED
    BY <1>2, <1>5, <2>5
<1>7. Cardinality(Open(r, u, rid)) = 1
  <2>1. Cardinality(O) >= 2
    BY <1>1, <1>3, <1>5, <1>6 DEF Delayed
  <2>2. Cardinality(O) - 1 \in {0, 1}
    BY <1>2, <1>4
  <2>3. IsFiniteSet(O) /\ Cardinality(O) \in Nat
    <3>1. O \in SUBSET Vars
      BY <1>3, RecordTypes DEF Open
    <3> QED
      BY <3>1, VarsFinite
  <2> HIDE DEF O, u
  <2>4. Cardinality(O \ {v}) = Cardinality(O) - 1
    BY <1>4, <2>3, FS_RemoveElement
  <2> QED
    BY <1>4, <2>1, <2>2, <2>3, <2>4
<1> QED
  BY <1>3, <1>5, <1>6, <1>7

LEMMA LearnShape ==
    ASSUME NEW r \in Records, NEW st, OrderInv(r, st), st.tmpResolvents # <<>>,
           NEW v \in Vars, Open(r, st, Top(st)) = {v}
    PROVE  LET u == Learn(st, v)
           IN  /\ Stacked(u) = (Stacked(st) \ {Top(st)}) \cup Elems(Ready(st, v))
               /\ Done(u) = Done(st) \cup {Top(st)}
               /\ Shape(r, u)
<1> DEFINE n == Len(r.hints)
           top == Top(st)
           ready == Ready(st, v)
           p == Popped(st)
           u == Learn(st, v)
<1>1. st \in Scratch /\ Shape(r, st) /\ Lists(r, st)
  BY DEF OrderInv
<1>2. v \in Vars \ st.seen
  BY DEF Open
<1>3. top \in 1 .. n /\ p.tmpResolvents # <<>> /\ p.tmpResolvents[1] = 1
  <2>1. Open(r, st, Top(st)) # {}
    OBVIOUS
  <2> QED
    BY <2>1, OpenOnTop, WhileStacked
<1>4. /\ u.tmpResolvents = p.tmpResolvents \o ready
      /\ Len(u.nClDeps) = Len(st.nClDeps)
      /\ Done(u) = Done(st) \cup {top}
  BY <1>1, LearnFields
<1>5. NoRepeats(u.tmpOrdered) /\ Done(u) \subseteq 1 .. n
  BY LearnCounts, RecordTypes
<1>6. /\ p.tmpResolvents \in Seq(Nat \ {0})
      /\ Stacked(st) = Elems(p.tmpResolvents) \cup {top}
      /\ NoRepeats(p.tmpResolvents) /\ top \notin Elems(p.tmpResolvents)
  BY <1>1, PoppedFields, ScratchTypes DEF Shape, Stacked
<1>7. /\ ready \in Seq(Nat \ {0}) /\ NoRepeats(ready) /\ top \notin Elems(ready)
  BY <1>1, <1>2, ReadyFields DEF Lists
<1>8. \A rid \in Elems(ready) : rid \in 1 .. n /\ rid \notin Stacked(st) /\ rid \notin Done(st)
  BY Released
<1> DEFINE q == p.tmpResolvents
<1> HIDE DEF u, q, ready, top
<1>9. /\ q \o ready \in Seq(Nat \ {0}) /\ Len(q \o ready) = Len(q) + Len(ready)
      /\ \A k \in 1 .. Len(q) : (q \o ready)[k] = q[k]
      /\ Elems(q \o ready) = Elems(q) \cup Elems(ready)
      /\ NoRepeats(q \o ready)
  <2>1. q \in Seq(Nat \ {0}) /\ NoRepeats(q) /\ Elems(q) \cap Elems(ready) = {}
    BY <1>6, <1>8 DEF q
  <2> QED
    BY <1>7, <2>1, ElemsConcat
<1>10. Stacked(u) = Elems(q) \cup Elems(ready) /\ NoRepeats(u.tmpResolvents)
  BY <1>4, <1>9 DEF Stacked, q
<1>11. Stacked(u) = (Stacked(st) \ {top}) \cup Elems(ready)
  BY <1>6, <1>10 DEF q
<1>12. u.tmpResolvents # <<>> /\ u.tmpResolvents[1] = 1
  <2>1. q \in Seq(Nat \ {0}) /\ q # <<>> /\ q[1] = 1
    BY <1>3, <1>6 DEF q
  <2>2. Len(q) \in Nat \ {0} /\ Len(ready) \in Nat
    BY <1>7, <2>1, LenProperties, EmptySeq
  <2>3. 1 \in 1 .. Len(q) /\ Len(q \o ready) # 0
    BY <1>9, <2>2
  <2>4. (q \o ready)[1] = 1 /\ q \o ready # <<>>
    BY <1>9, <2>1, <2>3, EmptySeq
  <2> QED
    BY <1>4, <2>4 DEF q
<1>13. Shape(r, u)
  <2>1. Stacked(u) \subseteq 1 .. n /\ Stacked(u) \cap Done(u) = {}
    <3>1. Stacked(st) \subseteq 1 .. n /\ Stacked(st) \cap Done(st) = {}
      BY <1>1 DEF Shape
    <3> QED
      BY <1>4, <1>7, <1>8, <1>11, <3>1
  <2>2. Len(u.nClDeps) = n
    BY <1>1, <1>4 DEF Shape
  <2> QED
    BY <1>5, <1>10, <1>12, <2>1, <2>2 DEF Shape
<1> QED
  BY <1>4, <1>11, <1>13 DEF u, top, ready

LEMMA LearnOrders ==
    ASSUME NEW r \in Records, NEW st, OrderInv(r, st), st.tmpResolvents # <<>>,
           IsAsserting(st, r.hints, Top(st)), NEW v \in Unseen(st, r.hints, Top(st))
    PROVE  OrderInv(r, Learn(st, v))
<1> DEFINE n == Len(r.hints)
           top == Top(st)
           u == Learn(st, v)
<1>1. st \in Scratch /\ Shape(r, st) /\ Lists(r, st) /\ Delayed(r, st)
  BY DEF OrderInv
<1>2. Open(r, st, top) = {v} /\ v \in Vars
  <2> DEFINE O == Open(r, st, top)
  <2>1. v \in O /\ Cardinality(O) < 2
    BY DEF Open, Unseen, IsAsserting
  <2>2. O \in SUBSET Vars /\ IsFiniteSet(O) /\ Cardinality(O) \in Nat
    <3>1. O \in SUBSET Vars
      BY WhileStacked, RecordTypes DEF Open
    <3> QED
      BY <3>1, VarsFinite
  <2> HIDE DEF O
  <2>3. Cardinality(O) # 0
    BY <2>1, <2>2, FS_EmptySet
  <2>4. Cardinality(O) = 1
    BY <2>1, <2>2, <2>3
  <2>5. PICK x : O = {x}
    BY <2>2, <2>4, FS_Singleton
  <2> QED
    BY <2>1, <2>2, <2>5 DEF O
<1>3. u \in Scratch /\ u.seen = st.seen \cup {v} /\ u.varDepend = st.varDepend
  BY <1>1, <1>2, LearnFields
<1>4. /\ Stacked(u) = (Stacked(st) \ {top}) \cup Elems(Ready(st, v))
      /\ Done(u) = Done(st) \cup {top}
      /\ Shape(r, u)
  BY <1>2, LearnShape
<1>5. Known(r, u)
  BY <1>2, LearnCounts
<1>6. \A rid \in 1 .. n :
        /\ Open(r, u, rid) = Open(r, st, rid) \ {v}
        /\ Listed(u, rid) = Listed(st, rid) \ {v}
        /\ rid \in Elems(st.varDepend[v]) <=> v \in Listed(st, rid)
        /\ u.nClDeps[rid] = Cardinality(Listed(u, rid))
        /\ Listed(u, rid) \in {{}, Open(r, u, rid)}
  BY <1>2, LearnLists
<1>7. top \in Stacked(st) /\ Stacked(st) \subseteq 1 .. n /\ top \in 1 .. n
  BY <1>1, WhileStacked DEF Shape
<1> HIDE DEF u
<1>8. Lists(r, u)
  BY <1>1, <1>3, <1>6 DEF Lists
<1>9. ASSUME NEW rid \in (1 .. n) \ (Stacked(u) \cup Done(u))
      PROVE  Listed(u, rid) = Open(r, u, rid) /\ Cardinality(Open(r, u, rid)) >= 2
  <2>1. rid \in (1 .. n) \ (Stacked(st) \cup Done(st)) /\ rid # top
    BY <1>4
  <2>2. Listed(st, rid) = Open(r, st, rid) /\ Cardinality(Open(r, st, rid)) >= 2
    BY <1>1, <2>1 DEF Delayed
  <2>3. Listed(u, rid) = Open(r, u, rid)
    BY <1>6, <2>2
  <2>4. CASE v \notin Open(r, st, rid)
    <3>1. Open(r, u, rid) = Open(r, st, rid) \ {v}
      BY <1>6
    <3>2. Open(r, u, rid) = Open(r, st, rid)
      BY <2>4, <3>1
    <3> QED
      BY <2>2, <2>3, <3>2
  <2>5. CASE v \in Open(r, st, rid)
    <3> DEFINE c == st.nClDeps[rid]
    <3>1. rid \in Elems(st.varDepend[v]) /\ rid \in 1 .. Len(st.nClDeps)
      BY <1>1, <1>6, <2>2, <2>5 DEF Shape
    <3>2. ~(c - 1 \in {0, 1})
      BY <1>1, <1>2, <1>4, <2>1, <3>1, ReadyFields
    <3>3. c = Cardinality(Open(r, st, rid)) /\ c >= 2
      BY <1>1, <2>2 DEF Lists
    <3>4. IsFiniteSet(Open(r, st, rid)) /\ Cardinality(Open(r, st, rid)) \in Nat
      <4>1. Open(r, st, rid) \in SUBSET Vars
        BY RecordTypes DEF Open
      <4> QED
        BY <4>1, VarsFinite
    <3>5. Cardinality(Open(r, u, rid)) = Cardinality(Open(r, st, rid)) - 1
      BY <1>6, <2>5, <3>4, FS_RemoveElement
    <3>6. c \in Nat
      BY <3>3, <3>4
    <3> HIDE DEF c
    <3> QED
      BY <2>3, <3>2, <3>3, <3>5, <3>6
  <2> QED
    BY <2>4, <2>5
<1>10. ASSUME NEW rid \in Stacked(u), Listed(u, rid) # {}
       PROVE  Cardinality(Open(r, u, rid)) = 1
  <2>1. CASE rid \in Elems(Ready(st, v))
    BY <1>2, <2>1, Released DEF u
  <2>2. CASE rid \in Stacked(st)
    <3>1. rid \in 1 .. n
      BY <1>7, <2>2
    <3>2. Listed(st, rid) # {} /\ Open(r, u, rid) # {}
      BY <1>6, <1>10, <3>1
    <3>3. Cardinality(Open(r, st, rid)) = 1
      BY <1>1, <2>2, <3>2 DEF Delayed
    <3>4. IsFiniteSet(Open(r, st, rid))
      <4>1. Open(r, st, rid) \in SUBSET Vars
        BY <3>1, RecordTypes DEF Open
      <4> QED
        BY <4>1, VarsFinite
    <3>5. PICK x : Open(r, st, rid) = {x}
      BY <3>3, <3>4, FS_Singleton
    <3>6. Open(r, u, rid) = Open(r, st, rid)
      BY <1>6, <3>1, <3>2, <3>5
    <3> QED
      BY <3>3, <3>6
  <2> QED
    BY <1>4, <2>1, <2>2
<1>11. Delayed(r, u)
  BY <1>9, <1>10 DEF Delayed
<1> QED
  BY <1>3, <1>4, <1>5, <1>8, <1>11 DEF OrderInv, u

-----------------------------------------------------------------------------
(* The specification.                                                      *)

Inv ==
    /\ pc \in {"idle", "order"}
    /\ pc = "idle" => rec = NoRecord /\ CleanInv(s)
    /\ pc = "order" => rec \in Records /\ OrderInv(rec, s)

LEMMA InitInv == Init => Inv
<1> SUFFICES ASSUME Init
             PROVE  Inv
  OBVIOUS
<1>1. pc = "idle" /\ rec = NoRecord
      /\ s = [seen |-> {}, varDepend |-> [v \in Vars |-> <<>>], nClDeps |-> <<>>,
              tmpResolvents |-> <<>>, tmpOrdered |-> <<>>]
  BY DEF Init, Idle
<1>2. s \in Scratch
  <2> DEFINE lists == [v \in Vars |-> <<>>]
  <2>1. lists \in [Vars -> Seq(Nat \ {0})]
    OBVIOUS
  <2> HIDE DEF lists
  <2>2. s = [seen |-> {}, varDepend |-> lists, nClDeps |-> <<>>,
             tmpResolvents |-> <<>>, tmpOrdered |-> <<>>]
    BY <1>1 DEF lists
  <2> QED
    BY <2>1, <2>2 DEF Scratch
<1>3. CleanInv(s)
  BY <1>1, <1>2 DEF CleanInv
<1> QED
  BY <1>1, <1>3 DEF Inv

(* The operators of the invariant say of a value what they say of the      *)
(* variable that takes it.                                                 *)
LEMMA InvPrimed ==
    ASSUME NEW p, NEW r, NEW u, pc' = p, rec' = r, s' = u,
           \/ p = "idle" /\ r = NoRecord /\ CleanInv(u)
           \/ p = "order" /\ r \in Records /\ OrderInv(r, u)
    PROVE  Inv'
<1>1. "idle" # "order"
  OBVIOUS
<1>2. CleanInv(s)' <=> CleanInv(s')
  BY DEF CleanInv, Scratch
<1>3. OrderInv(rec, s)' <=> OrderInv(rec', s')
  BY DEF OrderInv, Scratch, Shape, Known, Lists, Delayed, Stacked, Done, Before, Open, Listed,
         Elems, NoRepeats, Reasons
<1>4. CleanInv(s') <=> CleanInv(u)
  BY Zenon
<1>5. OrderInv(rec', s') <=> OrderInv(r, u)
  BY Zenon
<1>6. /\ pc' \in {"idle", "order"}
      /\ pc' = "idle" => rec' = NoRecord /\ CleanInv(s)'
      /\ pc' = "order" => rec' \in Records /\ OrderInv(rec, s)'
  BY <1>1, <1>2, <1>3, <1>4, <1>5
<1> QED
  BY <1>6 DEF Inv, NoRecord

LEMMA StepInv == Inv /\ [Next]_vars => Inv'
<1> SUFFICES ASSUME Inv, [Next]_vars
             PROVE  Inv'
  OBVIOUS
<1>1. ASSUME NEW c \in Records, makeUpOrdered(c)
      PROVE  Inv'
  <2>1. CleanInv(s)
    BY <1>1 DEF makeUpOrdered, Inv
  <2>2. OrderInv(c, Begin(s, c.lits, c.hints))
    BY <2>1, BeginOrders
  <2>3. pc' = "order" /\ rec' = c /\ s' = Begin(s, c.lits, c.hints)
    BY <1>1 DEF makeUpOrdered
  <2> QED
    BY <2>2, <2>3, InvPrimed
<1>2. ASSUME Examining
      PROVE  /\ rec \in Records /\ OrderInv(rec, s) /\ s.tmpResolvents # <<>>
             /\ pc' = "order" /\ rec' = rec
  BY <1>2 DEF Examining, Inv
<1>3. CASE wait
  <2>1. Examining /\ ~IsAsserting(s, rec.hints, Top(s)) /\ s' = Wait(s, rec.hints)
    BY <1>3 DEF wait
  <2>2. OrderInv(rec, Wait(s, rec.hints))
    BY <1>2, <2>1, WaitOrders
  <2> QED
    BY <1>2, <2>1, <2>2, InvPrimed
<1>4. CASE addAsserting
  <2>1. PICK v \in Unseen(s, rec.hints, Top(s)) : s' = Learn(s, v)
    BY <1>4 DEF addAsserting
  <2>2. Examining /\ IsAsserting(s, rec.hints, Top(s))
    BY <1>4 DEF addAsserting
  <2>3. OrderInv(rec, Learn(s, v))
    BY <1>2, <2>2, LearnOrders
  <2> QED
    BY <1>2, <2>1, <2>2, <2>3, InvPrimed
<1>5. CASE addClosed
  <2>1. Examining /\ Unseen(s, rec.hints, Top(s)) = {} /\ s' = Added(s)
    BY <1>5 DEF addClosed
  <2>2. OrderInv(rec, Added(s))
    BY <1>2, <2>1, ClosedOrders
  <2> QED
    BY <1>2, <2>1, <2>2, InvPrimed
<1>6. CASE store
  <2>1. /\ rec \in Records /\ OrderInv(rec, s) /\ s.tmpResolvents = <<>>
        /\ pc' = "idle" /\ rec' = NoRecord /\ s' = Clear(s)
    BY <1>6 DEF store, Inv
  <2>2. CleanInv(Clear(s))
    BY <2>1, StoreCleans
  <2> QED
    BY <2>1, <2>2, InvPrimed
<1>7. CASE UNCHANGED vars
  <2>1. pc' = pc /\ rec' = rec /\ s' = s
    BY <1>7 DEF vars
  <2>2. \/ pc = "idle" /\ rec = NoRecord /\ CleanInv(s)
        \/ pc = "order" /\ rec \in Records /\ OrderInv(rec, s)
    BY DEF Inv
  <2> QED
    BY <2>1, <2>2, InvPrimed
<1> QED
  BY <1>1, <1>3, <1>4, <1>5, <1>6, <1>7 DEF Next, LoopStep

LEMMA InvHolds == Spec => []Inv
<1> QED
  BY InitInv, StepInv, PTL DEF Spec

(* TypeOK always holds: the scratch state keeps its types, and only places *)
(* of the record are ever stacked.                                         *)
THEOREM OrderingTypes == Spec => []TypeOK
<1>1. Inv => TypeOK
  <2> SUFFICES ASSUME Inv
               PROVE  TypeOK
    OBVIOUS
  <2>1. s \in Scratch
    BY DEF Inv, CleanInv, OrderInv
  <2>2. /\ s.seen \subseteq Vars
        /\ s.varDepend \in [Vars -> Seq(Nat)]
        /\ s.nClDeps \in Seq(Int)
        /\ s.tmpOrdered \in Seq(Nat \ {0})
    <3>1. \A q \in Seq(Nat \ {0}) : q \in Seq(Nat)
      OBVIOUS
    <3> QED
      BY <2>1, <3>1, ScratchTypes
  <2>3. CASE pc = "idle"
    <3>1. rec = NoRecord /\ s.tmpResolvents = <<>>
      BY <2>3 DEF Inv, CleanInv
    <3>2. NoRecord \in [lits : SUBSET Vars, hints : Seq(SUBSET Vars)]
      BY DEF NoRecord
    <3>3. <<>> \in Seq(Rids)
      OBVIOUS
    <3> QED
      BY <2>2, <2>3, <3>1, <3>2, <3>3 DEF TypeOK
  <2>4. CASE pc = "order"
    <3>1. rec \in Records /\ OrderInv(rec, s)
      BY <2>4 DEF Inv
    <3>2. rec \in [lits : SUBSET Vars, hints : Seq(SUBSET Vars)]
      <4>1. rec \in [lits : SUBSET Vars, hints : Seq(SUBSET Vars) \ {<<>>}]
        BY <3>1, RecordsAssumption
      <4> QED
        BY <4>1
    <3>3. s.tmpResolvents \in Seq(Rids)
      <4>1. Rids = 1 .. Len(rec.hints)
        BY <3>2, LenProperties DEF Rids
      <4>2. s.tmpResolvents \in Seq(Nat \ {0}) /\ Elems(s.tmpResolvents) \subseteq Rids
        BY <2>1, <3>1, <4>1, ScratchTypes DEF OrderInv, Shape, Stacked
      <4> DEFINE q == s.tmpResolvents
      <4>3. q \in Seq(Nat \ {0}) /\ \A k \in 1 .. Len(q) : q[k] \in Rids
        BY <4>2 DEF Elems
      <4> HIDE DEF q
      <4>4. q \in Seq(Rids)
        BY <4>3, LenProperties
      <4> QED
        BY <4>4 DEF q
    <3> QED
      BY <2>2, <2>4, <3>2, <3>3 DEF TypeOK
  <2> QED
    BY <2>3, <2>4 DEF Inv
<1> QED
  BY <1>1, InvHolds, PTL

(* EachHintOnce always holds: the loop adds every hint of the record once, *)
(* and a hint that brings nothing new is the last one.                     *)
THEOREM HintsAddedOnce == Spec => []EachHintOnce
<1>1. Inv => EachHintOnce
  <2> SUFFICES ASSUME Inv, pc = "order"
               PROVE  /\ \A j, k \in DOMAIN s.tmpOrdered :
                           s.tmpOrdered[j] = s.tmpOrdered[k] => j = k
                      /\ s.tmpResolvents = <<>> => Len(s.tmpOrdered) = Len(rec.hints)
                      /\ s.tmpResolvents # <<>> /\ Unseen(s, rec.hints, Top(s)) = {}
                            => Len(s.tmpResolvents) = 1
    BY DEF EachHintOnce
  <2>1. rec \in Records /\ OrderInv(rec, s) /\ s \in Scratch /\ Shape(rec, s)
    BY DEF Inv, OrderInv
  <2>2. \A j, k \in DOMAIN s.tmpOrdered : s.tmpOrdered[j] = s.tmpOrdered[k] => j = k
    <3>1. DOMAIN s.tmpOrdered = 1 .. Len(s.tmpOrdered)
      BY <2>1, ScratchTypes, LenProperties
    <3> QED
      BY <2>1, <3>1 DEF Shape, NoRepeats
  <2>3. ASSUME s.tmpResolvents = <<>>
        PROVE  Len(s.tmpOrdered) = Len(rec.hints)
    <3>1. s.tmpOrdered \in Seq(Nat \ {0}) /\ NoRepeats(s.tmpOrdered)
          /\ Elems(s.tmpOrdered) = 1 .. Len(rec.hints)
      BY <2>1, <2>3, ScratchTypes DEF Shape, Done
    <3>2. Cardinality(Elems(s.tmpOrdered)) = Len(s.tmpOrdered)
      BY <3>1, ElemsCount
    <3>3. Len(rec.hints) \in Nat /\ Cardinality(1 .. Len(rec.hints)) = Len(rec.hints)
      BY <2>1, RecordTypes, FS_Interval
    <3> QED
      BY <3>1, <3>2, <3>3
  <2>4. ASSUME s.tmpResolvents # <<>>, Unseen(s, rec.hints, Top(s)) = {}
        PROVE  Len(s.tmpResolvents) = 1
    <3>1. Open(rec, s, Top(s)) = {}
      BY <2>4 DEF Open, Unseen
    <3> QED
      BY <2>1, <2>4, <3>1, ClosedOnTop
  <2> QED
    BY <2>2, <2>3, <2>4
<1> QED
  BY <1>1, InvHolds, PTL

(* OrderedPropagates always holds: in the order they are added, the hints  *)
(* are a unit propagation.                                                 *)
THEOREM HintsPropagate == Spec => []OrderedPropagates
<1>1. Inv => OrderedPropagates
  <2> SUFFICES ASSUME Inv, pc = "order", NEW k \in DOMAIN s.tmpOrdered
               PROVE  Cardinality(rec.hints[s.tmpOrdered[k]] \ VarsBefore(k)) <= 1
    BY DEF OrderedPropagates
  <2>1. s \in Scratch /\ Known(rec, s)
    BY DEF Inv, OrderInv
  <2>2. k \in 1 .. Len(s.tmpOrdered)
    BY <2>1, ScratchTypes, LenProperties
  <2>3. VarsBefore(k) = Before(rec, s.tmpOrdered, k)
    BY DEF VarsBefore, Before
  <2> QED
    BY <2>1, <2>2, <2>3 DEF Known
<1> QED
  BY <1>1, InvHolds, PTL

(* CountsExact always holds: a hint's counter is the number of unknown     *)
(* variables whose lists it is in.                                         *)
THEOREM CountersExact == Spec => []CountsExact
<1>1. Inv => CountsExact
  <2> SUFFICES ASSUME Inv, pc = "order", NEW rid \in Rids
               PROVE  s.nClDeps[rid] =
                        Cardinality({v \in Vars \ s.seen :
                                       \E k \in DOMAIN s.varDepend[v] : s.varDepend[v][k] = rid})
    BY DEF CountsExact
  <2>1. rec \in Records /\ s \in Scratch /\ Lists(rec, s)
    BY DEF Inv, OrderInv
  <2>2. rid \in 1 .. Len(rec.hints)
    BY <2>1, RecordTypes, LenProperties DEF Rids
  <2>3. \A v \in Vars : DOMAIN s.varDepend[v] = 1 .. Len(s.varDepend[v])
    <3>1. \A v \in Vars : s.varDepend[v] \in Seq(Nat \ {0})
      BY <2>1, ScratchTypes
    <3> QED
      BY <3>1, LenProperties
  <2>4. Listed(s, rid) = {v \in Vars \ s.seen :
                            \E k \in DOMAIN s.varDepend[v] : s.varDepend[v][k] = rid}
    BY <2>3 DEF Listed, Elems
  <2> QED
    BY <2>1, <2>2, <2>4 DEF Lists
<1> QED
  BY <1>1, InvHolds, PTL

(* CleanBetweenCalls always holds: whatever was ordered, the scratch state *)
(* is clean afterwards.                                                    *)
THEOREM CleanAfterwards == Spec => []CleanBetweenCalls
<1>1. Inv => CleanBetweenCalls
  <2> SUFFICES ASSUME Inv, pc = "idle"
               PROVE  /\ s.seen = {}
                      /\ \A v \in Vars : s.varDepend[v] = <<>>
                      /\ \A rid \in DOMAIN s.nClDeps : s.nClDeps[rid] = 0
                      /\ s.tmpResolvents = <<>>
    BY DEF CleanBetweenCalls
  <2>1. CleanInv(s) /\ s \in Scratch
    BY DEF Inv, CleanInv
  <2> QED
    BY <2>1, ScratchTypes DEF CleanInv
<1> QED
  BY <1>1, InvHolds, PTL
=============================================================================
