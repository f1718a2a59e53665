----------------------------- MODULE ProofLemmas -----------------------------
(***************************************************************************)
(* Facts about numbers, sequences and finite sets that the proofs of       *)
(* several components need.                                                *)
(*                                                                         *)
(* Induction is stated over a set of numbers and not over a predicate, as  *)
(* in NaturalsInduction: a set can be put in by the provers installed.     *)
(***************************************************************************)
EXTENDS Integers, Sequences, FiniteSets, SequencesExt, FiniteSetTheorems, SequenceTheorems,
        WellFoundedInduction, TLAPS

(* Induction: the sets 0 .. k for the numbers k outside of S would have a  *)
(* least one, as finite sets are well-founded by inclusion.                *)
LEMMA NatSetInduction ==
    ASSUME NEW S \in SUBSET Nat, 0 \in S, \A n \in S : n + 1 \in S
    PROVE  S = Nat
<1> SUFFICES ASSUME S # Nat
             PROVE  FALSE
  OBVIOUS
<1> DEFINE T == {0 .. k : k \in Nat \ S}
<1>1. T # {}
  OBVIOUS
<1>2. T \subseteq FiniteSubsetsOf(Nat)
  <2>1. \A k \in Nat : 0 .. k \in SUBSET Nat /\ IsFiniteSet(0 .. k)
    BY FS_Interval
  <2> QED
    BY <2>1 DEF FiniteSubsetsOf
<1>3. PICK x \in T : \A y \in T : ~(<<y, x>> \in StrictSubsetOrdering(Nat))
  <2> HIDE DEF T
  <2> QED
    BY <1>1, <1>2, WFMin, FS_StrictSubsetOrderingWellFounded
<1>4. PICK k \in Nat \ S : x = 0 .. k
  BY <1>3
<1>5. k - 1 \in Nat /\ k - 1 \notin S
  BY <1>4
<1>6. 0 .. k - 1 \in T
  BY <1>5
<1>7. <<0 .. k - 1, x>> \in StrictSubsetOrdering(Nat)
  <2>1. k \in 0 .. k /\ k \notin 0 .. k - 1
    BY <1>4
  <2>2. 0 .. k - 1 \subseteq 0 .. k /\ 0 .. k \subseteq Nat
    BY <1>5
  <2> QED
    BY <1>4, <2>1, <2>2 DEF StrictSubsetOrdering
<1> QED
  BY <1>3, <1>6, <1>7

-----------------------------------------------------------------------------
(* Division with remainder.                                                *)
LEMMA DivMod ==
    ASSUME NEW n \in Nat, NEW p \in Nat, p > 0
    PROVE  /\ (n \div p) \in Nat /\ (n % p) \in Nat
           /\ n = ((n \div p) * p) + (n % p)
           /\ (n % p) < p
OBVIOUS

(* Zero is the only multiple of p between -p and p.                        *)
LEMMA SmallMultiple ==
    ASSUME NEW k \in Int, NEW p \in Nat, k * p < p, -p < k * p
    PROVE  k = 0
<1>1. CASE k >= 1
  <2>1. k * p >= p
    BY <1>1
  <2> QED
    BY <2>1
<1>2. CASE k <= -1
  <2>1. k * p <= -p
    BY <1>2
  <2> QED
    BY <2>1
<1> QED
  BY <1>1, <1>2

(* Quotient and remainder are unique.                                      *)
LEMMA DivUnique ==
    ASSUME NEW q \in Nat, NEW r \in Nat, NEW p \in Nat, r < p
    PROVE  ((q * p) + r) \div p = q /\ ((q * p) + r) % p = r
<1> DEFINE n == (q * p) + r
           d == n \div p
           m == n % p
<1>1. n \in Nat
  <2>1. q * p \in Nat
    OBVIOUS
  <2> QED
    BY <2>1
<1>2. n = (d * p) + m /\ d \in Nat /\ m \in Nat /\ m < p
  <2> HIDE DEF n
  <2> QED
    BY <1>1, DivMod
<1>3. (q - d) * p = (q * p) - (d * p)
  BY <1>2
<1>4. (q - d) * p = m - r
  BY <1>2, <1>3
<1>5. q - d = 0
  <2> HIDE DEF d, m
  <2> QED
    BY <1>2, <1>4, SmallMultiple
<1> QED
  BY <1>2, <1>5

(* The multiples of p.                                                     *)
LEMMA Multiples ==
    ASSUME NEW p \in Nat, p > 0
    PROVE  /\ \A q \in Nat : (q * p) \in Nat /\ (q * p) % p = 0
           /\ \A n \in Nat : n % p = 0 => \E q \in Nat : n = q * p
           /\ \A n, m \in Nat : n % p = 0 /\ m % p = 0 => (n + m) % p = 0
<1>1. ASSUME NEW q \in Nat
      PROVE  (q * p) \in Nat /\ (q * p) % p = 0
  <2>1. q * p = (q * p) + 0 /\ (q * p) \in Nat
    OBVIOUS
  <2> QED
    BY <2>1, DivUnique
<1>2. ASSUME NEW n \in Nat, n % p = 0
      PROVE  \E q \in Nat : n = q * p
  <2>1. (n \div p) \in Nat /\ n = ((n \div p) * p) + (n % p)
    BY DivMod
  <2> QED
    BY <1>2, <2>1
<1>3. ASSUME NEW n \in Nat, NEW m \in Nat, n % p = 0, m % p = 0
      PROVE  (n + m) % p = 0
  <2>1. PICK a \in Nat : n = a * p
    BY <1>2, <1>3
  <2>2. PICK b \in Nat : m = b * p
    BY <1>2, <1>3
  <2>3. n + m = (a + b) * p
    BY <2>1, <2>2
  <2> QED
    BY <1>1, <2>3
<1> QED
  BY <1>1, <1>2, <1>3

-----------------------------------------------------------------------------
(* Putting sequences one after the other.                                  *)

(* FlattenSeq is defined by a function on the numbers of the sequences: it *)
(* exists, and each value is the one before with a sequence added.         *)
LEMMA FlattenStep ==
    ASSUME NEW T, NEW seqs \in Seq(Seq(T)), Len(seqs) # 0
    PROVE  \E fl :
             /\ fl[1] = seqs[1]
             /\ \A i \in 1 .. Len(seqs) - 1 : fl[i + 1] = fl[i] \o seqs[i + 1]
             /\ FlattenSeq(seqs) = fl[Len(seqs)]
<1> DEFINE Rest(g, i) == IF i = 1 THEN seqs[i] ELSE g[i - 1] \o seqs[i]
           Upto(g, m) == g = [i \in 1 .. m |-> Rest(g, i)]
           Ex == {m \in Nat : \E g : Upto(g, m)}
<1>1. 0 \in Ex
  <2>1. <<>> = [i \in 1 .. 0 |-> Rest(<<>>, i)]
    OBVIOUS
  <2> QED
    BY <2>1
<1>2. ASSUME NEW m \in Ex
      PROVE  m + 1 \in Ex
  <2>1. PICK g : Upto(g, m)
    OBVIOUS
  <2> DEFINE h == [i \in 1 .. m + 1 |-> IF i = m + 1 THEN Rest(g, i) ELSE g[i]]
  <2>2. ASSUME NEW i \in 1 .. m + 1
        PROVE  h[i] = Rest(h, i)
    <3>1. i # 1 => h[i - 1] = g[i - 1]
      OBVIOUS
    <3>2. CASE i = m + 1
      BY <3>1, <3>2
    <3>3. CASE i # m + 1
      <4>1. i \in 1 .. m /\ h[i] = g[i]
        BY <3>3
      <4>2. g[i] = Rest(g, i)
        <5> HIDE DEF Rest
        <5> QED
          BY <2>1, <4>1
      <4> QED
        BY <3>1, <4>1, <4>2
    <3> QED
      BY <3>2, <3>3
  <2>3. Upto(h, m + 1)
    <3>1. h = [i \in 1 .. m + 1 |-> h[i]]
      OBVIOUS
    <3> HIDE DEF h, Rest
    <3> QED
      BY <3>1, <2>2
  <2>4. m + 1 \in Nat
    OBVIOUS
  <2> HIDE DEF h, Upto
  <2> QED
    BY <2>3, <2>4
<1>3. Ex = Nat
  <2>1. Ex \in SUBSET Nat
    OBVIOUS
  <2> HIDE DEF Ex
  <2> QED
    BY <1>1, <1>2, <2>1, NatSetInduction
<1> DEFINE fl == CHOOSE g : Upto(g, Len(seqs))
<1>4. \E g : Upto(g, Len(seqs))
  <2>1. Len(seqs) \in Ex
    BY <1>3, LenProperties
  <2> QED
    BY <2>1
<1>5. Upto(fl, Len(seqs))
  <2> HIDE DEF Upto
  <2> QED
    BY <1>4, Zenon
<1>6. FlattenSeq(seqs) = fl[Len(seqs)]
  BY DEF FlattenSeq
<1>7. ASSUME NEW i \in 1 .. Len(seqs)
      PROVE  fl[i] = Rest(fl, i)
  <2> HIDE DEF fl, Rest
  <2> QED
    BY <1>5
<1>8. Len(seqs) \in Nat /\ Rest(fl, 1) = seqs[1]
  BY LenProperties
<1>9. \A i \in 1 .. Len(seqs) - 1 : Rest(fl, i + 1) = fl[i] \o seqs[i + 1]
  <2> SUFFICES ASSUME NEW i \in 1 .. Len(seqs) - 1
               PROVE  Rest(fl, i + 1) = fl[i] \o seqs[i + 1]
    OBVIOUS
  <2>1. i + 1 # 1 /\ i + 1 - 1 = i
    BY <1>8
  <2>2. Rest(fl, i + 1) = IF i + 1 = 1 THEN seqs[i + 1] ELSE fl[i + 1 - 1] \o seqs[i + 1]
    OBVIOUS
  <2> HIDE DEF fl, Rest
  <2> QED
    BY <2>1, <2>2, Zenon
<1>10. /\ fl[1] = seqs[1]
       /\ \A i \in 1 .. Len(seqs) - 1 : fl[i + 1] = fl[i] \o seqs[i + 1]
  <2>1. 1 \in 1 .. Len(seqs) /\ \A i \in 1 .. Len(seqs) - 1 : i + 1 \in 1 .. Len(seqs)
    BY <1>8
  <2> HIDE DEF fl, Rest
  <2> QED
    BY <1>7, <1>8, <1>9, <2>1, Zenon
<1> HIDE DEF fl
<1> QED
  BY <1>6, <1>10, Zenon

LEMMA Concatenation ==
    ASSUME NEW T, NEW a \in Seq(T), NEW b \in Seq(T), NEW x \in T
    PROVE  /\ a \o b \in Seq(T)
           /\ a \o <<>> = a
           /\ a \o Append(b, x) = Append(a \o b, x)
<1>1. a \o b \in Seq(T) /\ a \o <<>> = a
  BY ConcatProperties, ConcatEmptySeq
<1>2. Append(b, x) = b \o <<x>> /\ Append(a \o b, x) = (a \o b) \o <<x>>
  BY <1>1, AppendIsConcat
<1>3. <<x>> \in Seq(T)
  OBVIOUS
<1> QED
  BY <1>1, <1>2, <1>3, ConcatAssociative

LEMMA FlattenEmpty ==
    ASSUME NEW T, NEW seqs \in Seq(Seq(T)), \A i \in 1 .. Len(seqs) : seqs[i] = <<>>
    PROVE  FlattenSeq(seqs) = <<>>
<1>1. CASE Len(seqs) = 0
  <2>1. seqs = <<>>
    BY <1>1, EmptySeq
  <2> QED
    BY <1>1, <2>1 DEF FlattenSeq
<1>2. CASE Len(seqs) # 0
  <2>1. PICK fl : /\ fl[1] = seqs[1]
                  /\ \A i \in 1 .. Len(seqs) - 1 : fl[i + 1] = fl[i] \o seqs[i + 1]
                  /\ FlattenSeq(seqs) = fl[Len(seqs)]
    BY <1>2, FlattenStep
  <2>2. Len(seqs) \in Nat
    BY LenProperties
  <2> DEFINE S == {i \in Nat : i + 1 \in 1 .. Len(seqs) => fl[i + 1] = <<>>}
  <2>3. 0 \in S
    BY <2>1
  <2>4. ASSUME NEW i \in S
        PROVE  i + 1 \in S
    <3> SUFFICES ASSUME i + 2 \in 1 .. Len(seqs)
                 PROVE  fl[i + 2] = <<>>
      OBVIOUS
    <3>1. i + 1 \in 1 .. Len(seqs) - 1 /\ i + 1 + 1 = i + 2
      BY <2>2
    <3>2. fl[i + 2] = fl[i + 1] \o seqs[i + 2]
      BY <2>1, <3>1
    <3> QED
      BY <3>1, <3>2
  <2>5. S = Nat
    <3>1. S \in SUBSET Nat
      OBVIOUS
    <3> HIDE DEF S
    <3> QED
      BY <2>3, <2>4, <3>1, NatSetInduction
  <2>6. Len(seqs) - 1 \in S /\ Len(seqs) - 1 + 1 = Len(seqs)
    <3>1. Len(seqs) - 1 \in Nat /\ Len(seqs) - 1 + 1 = Len(seqs)
      BY <1>2, <2>2
    <3> HIDE DEF S
    <3> QED
      BY <2>5, <3>1
  <2> QED
    BY <1>2, <2>1, <2>2, <2>6
<1> QED
  BY <1>1, <1>2

(* An element added to one of the sequences is added to the whole, when    *)
(* the sequences after that one are empty.                                 *)
LEMMA FlattenAppend ==
    ASSUME NEW T, NEW seqs \in Seq(Seq(T)), NEW x \in T, NEW c \in 1 .. Len(seqs),
           \A i \in c + 1 .. Len(seqs) : seqs[i] = <<>>
    PROVE  /\ FlattenSeq(seqs) \in Seq(T)
           /\ FlattenSeq([seqs EXCEPT ![c] = Append(seqs[c], x)]) = Append(FlattenSeq(seqs), x)
<1> DEFINE n == Len(seqs)
           more == [seqs EXCEPT ![c] = Append(seqs[c], x)]
<1>1. n \in Nat /\ n # 0 /\ c \in 1 .. n /\ \A i \in 1 .. n : seqs[i] \in Seq(T)
  BY LenProperties, ElementOfSeq
<1>2. /\ more \in Seq(Seq(T)) /\ Len(more) = n
      /\ \A i \in 1 .. n : more[i] = IF i = c THEN Append(seqs[c], x) ELSE seqs[i]
  BY <1>1
<1>3. PICK fl : /\ fl[1] = seqs[1]
                /\ \A i \in 1 .. n - 1 : fl[i + 1] = fl[i] \o seqs[i + 1]
                /\ FlattenSeq(seqs) = fl[n]
  BY <1>1, FlattenStep
<1>4. PICK ml : /\ ml[1] = more[1]
                /\ \A i \in 1 .. n - 1 : ml[i + 1] = ml[i] \o more[i + 1]
                /\ FlattenSeq(more) = ml[n]
  <2> HIDE DEF more
  <2> QED
    BY <1>1, <1>2, FlattenStep
<1>5. ASSUME NEW i \in 1 .. n, i > c
      PROVE  seqs[i] = <<>>
  <2>1. i \in c + 1 .. Len(seqs)
    BY <1>1, <1>5
  <2> QED
    BY <2>1
<1> HIDE DEF n, more
<1> DEFINE Good(i) == /\ fl[i] \in Seq(T)
                      /\ i < c => ml[i] = fl[i]
                      /\ i >= c => ml[i] = Append(fl[i], x)
           S == {i \in Nat : i + 1 \in 1 .. n => Good(i + 1)}
<1>6. 0 \in S
  BY <1>1, <1>2, <1>3, <1>4
<1>7. ASSUME NEW i \in S, i + 2 \in 1 .. n
      PROVE  Good(i + 2)
  <2>1. i + 1 \in 1 .. n - 1 /\ i + 1 \in 1 .. n /\ i + 1 + 1 = i + 2
    BY <1>1, <1>7
  <2>2. /\ fl[i + 2] = fl[i + 1] \o seqs[i + 2]
        /\ ml[i + 2] = ml[i + 1] \o more[i + 2]
    BY <1>3, <1>4, <2>1
  <2>3. seqs[i + 2] \in Seq(T) /\ Good(i + 1)
    BY <1>1, <1>7, <2>1
  <2>4. more[i + 2] = IF i + 2 = c THEN Append(seqs[i + 2], x) ELSE seqs[i + 2]
    BY <1>2, <1>7
  <2>5. /\ fl[i + 1] \o seqs[i + 2] \in Seq(T)
        /\ fl[i + 1] \o <<>> = fl[i + 1]
        /\ fl[i + 1] \o Append(seqs[i + 2], x) = Append(fl[i + 1] \o seqs[i + 2], x)
        /\ Append(fl[i + 1], x) \o <<>> = Append(fl[i + 1], x)
    <3>1. Append(fl[i + 1], x) \in Seq(T)
      BY <2>3
    <3>2. /\ fl[i + 1] \o seqs[i + 2] \in Seq(T)
          /\ fl[i + 1] \o <<>> = fl[i + 1]
          /\ fl[i + 1] \o Append(seqs[i + 2], x) = Append(fl[i + 1] \o seqs[i + 2], x)
      <4>1. fl[i + 1] \in Seq(T) /\ seqs[i + 2] \in Seq(T)
        BY <2>3
      <4>2. ASSUME NEW a \in Seq(T), NEW b \in Seq(T)
            PROVE  /\ a \o b \in Seq(T) /\ a \o <<>> = a
                   /\ a \o Append(b, x) = Append(a \o b, x)
        <5> HIDE DEF S, Good
        <5> QED
          BY Concatenation
      <4> QED
        BY <4>1, <4>2, Zenon
    <3>3. Append(fl[i + 1], x) \o <<>> = Append(fl[i + 1], x)
      BY <3>1, ConcatEmptySeq
    <3> QED
      BY <3>2, <3>3
  <2>6. CASE i + 2 <= c
    <3>1. ml[i + 1] = fl[i + 1] /\ fl[i + 2] \in Seq(T)
      BY <1>1, <2>2, <2>3, <2>5, <2>6
    <3>2. i + 2 < c => ml[i + 2] = fl[i + 2]
      <4>1. i + 2 < c => more[i + 2] = seqs[i + 2]
        BY <1>1, <2>4
      <4> QED
        BY <2>2, <3>1, <4>1, Zenon
    <3>3. i + 2 = c => ml[i + 2] = Append(fl[i + 2], x)
      BY <2>2, <2>4, <2>5, <3>1
    <3> QED
      BY <1>1, <2>6, <3>1, <3>2, <3>3
  <2>7. CASE i + 2 > c
    <3>1. seqs[i + 2] = <<>> /\ more[i + 2] = <<>>
      BY <1>1, <1>5, <1>7, <2>4, <2>7
    <3>2. ml[i + 1] = Append(fl[i + 1], x)
      BY <1>1, <2>3, <2>7
    <3> QED
      BY <1>1, <2>2, <2>3, <2>5, <2>7, <3>1, <3>2
  <2> QED
    BY <1>1, <2>6, <2>7
<1>8. S = Nat
  <2>1. S \in SUBSET Nat
    OBVIOUS
  <2>2. ASSUME NEW i \in S
        PROVE  i + 1 \in S
    <3>1. i + 1 + 1 = i + 2 /\ i + 1 \in Nat
      OBVIOUS
    <3> HIDE DEF Good
    <3> QED
      BY <1>7, <3>1
  <2> HIDE DEF S
  <2> QED
    BY <1>6, <2>1, <2>2, NatSetInduction
<1>9. Good(n)
  <2>1. n - 1 \in Nat /\ n - 1 + 1 = n /\ n \in 1 .. n
    BY <1>1
  <2>2. n - 1 \in S
    <3> HIDE DEF S
    <3> QED
      BY <1>8, <2>1
  <2> HIDE DEF Good
  <2> QED
    BY <2>1, <2>2
<1>10. FlattenSeq(seqs) \in Seq(T) /\ FlattenSeq(more) = Append(FlattenSeq(seqs), x)
  BY <1>1, <1>3, <1>4, <1>9
<1> QED
  BY <1>10, Zenon DEF more

-----------------------------------------------------------------------------
(* The first elements of a sequence.                                       *)
LEMMA FirstOf ==
    ASSUME NEW S, NEW s \in Seq(S), NEW n \in Nat, n <= Len(s)
    PROVE  /\ SubSeq(s, 1, n) \in Seq(S) /\ Len(SubSeq(s, 1, n)) = n
           /\ \A i \in 1 .. n : SubSeq(s, 1, n)[i] = s[i]
           /\ n = Len(s) => SubSeq(s, 1, n) = s
<1>1. \A i \in 1 .. n : s[i] \in S
  BY ElementOfSeq, LenProperties
<1>2. /\ SubSeq(s, 1, n) \in Seq(S) /\ Len(SubSeq(s, 1, n)) = n
      /\ \A i \in 1 .. n : SubSeq(s, 1, n)[i] = s[i]
  BY <1>1, SubSeqProperties
<1>3. n = Len(s) => SubSeq(s, 1, n) = s
  BY <1>2, SeqEqual
<1> QED
  BY <1>2, <1>3

(* They stay when the sequence grows, or is cut off behind them.           *)
LEMMA FirstOfMore ==
    ASSUME NEW S, NEW s \in Seq(S), NEW n \in Nat, n <= Len(s), NEW x \in S
    PROVE  SubSeq(Append(s, x), 1, n) = SubSeq(s, 1, n)
<1>1. /\ Append(s, x) \in Seq(S) /\ Len(Append(s, x)) = Len(s) + 1 /\ Len(s) \in Nat
      /\ \A i \in 1 .. Len(s) : Append(s, x)[i] = s[i]
  BY AppendProperties, LenProperties
<1>2. /\ SubSeq(s, 1, n) \in Seq(S) /\ Len(SubSeq(s, 1, n)) = n
      /\ \A i \in 1 .. n : SubSeq(s, 1, n)[i] = s[i]
  BY FirstOf
<1> DEFINE t == Append(s, x)
<1>3. t \in Seq(S) /\ n <= Len(t) /\ \A i \in 1 .. n : t[i] = s[i]
  BY <1>1
<1> HIDE DEF t
<1>4. /\ SubSeq(t, 1, n) \in Seq(S) /\ Len(SubSeq(t, 1, n)) = n
      /\ \A i \in 1 .. n : SubSeq(t, 1, n)[i] = t[i]
  BY <1>3, FirstOf
<1>5. SubSeq(t, 1, n) = SubSeq(s, 1, n)
  BY <1>2, <1>3, <1>4, SeqEqual
<1> QED
  BY <1>5 DEF t

LEMMA FirstOfFirst ==
    ASSUME NEW S, NEW s \in Seq(S), NEW m \in Nat, m <= Len(s), NEW n \in Nat, n <= m
    PROVE  SubSeq(SubSeq(s, 1, m), 1, n) = SubSeq(s, 1, n)
<1> DEFINE t == SubSeq(s, 1, m)
<1>1. t \in Seq(S) /\ Len(t) = m /\ \A i \in 1 .. n : t[i] = s[i]
  BY FirstOf
<1>2. /\ SubSeq(s, 1, n) \in Seq(S) /\ Len(SubSeq(s, 1, n)) = n
      /\ \A i \in 1 .. n : SubSeq(s, 1, n)[i] = s[i]
  <2>1. n <= Len(s)
    BY LenProperties
  <2> QED
    BY <2>1, FirstOf
<1> HIDE DEF t
<1>3. /\ SubSeq(t, 1, n) \in Seq(S) /\ Len(SubSeq(t, 1, n)) = n
      /\ \A i \in 1 .. n : SubSeq(t, 1, n)[i] = t[i]
  BY <1>1, FirstOf
<1>4. SubSeq(t, 1, n) = SubSeq(s, 1, n)
  BY <1>1, <1>2, <1>3, SeqEqual
<1> QED
  BY <1>4 DEF t

(* How many elements of a sequence of Booleans are true.                   *)
Trues(t) == Cardinality({i \in DOMAIN t : t[i]})

LEMMA TruesAppend ==
    ASSUME NEW t \in Seq(BOOLEAN), NEW b \in BOOLEAN
    PROVE  /\ Trues(t) \in Nat
           /\ Trues(Append(t, b)) = IF b THEN Trues(t) + 1 ELSE Trues(t)
<1> DEFINE n == Len(t)
           T == {i \in DOMAIN t : t[i]}
           u == Append(t, b)
           U == {i \in DOMAIN u : u[i]}
<1>1. n \in Nat /\ DOMAIN t = 1 .. n
  BY LenProperties
<1>2. DOMAIN u = 1 .. n + 1 /\ u[n + 1] = b /\ \A i \in 1 .. n : u[i] = t[i]
  BY <1>1, AppendProperties
<1>3. IsFiniteSet(T) /\ Cardinality(T) \in Nat /\ n + 1 \notin T
  <2>1. IsFiniteSet(1 .. n) /\ T \subseteq 1 .. n
    BY <1>1, FS_Interval
  <2> QED
    BY <1>1, <2>1, FS_Subset, FS_CardinalityType
<1>4. U = IF b THEN T \cup {n + 1} ELSE T
  <2> HIDE DEF u
  <2> QED
    BY <1>1, <1>2
<1>5. Cardinality(U) = IF b THEN Cardinality(T) + 1 ELSE Cardinality(T)
  <2> HIDE DEF T, U
  <2> QED
    BY <1>3, <1>4, FS_AddElement
<1> QED
  BY <1>3, <1>5 DEF Trues

LEMMA TruesEmpty == Trues(<<>>) = 0
<1>1. {i \in DOMAIN <<>> : <<>>[i]} = {}
  OBVIOUS
<1> QED
  BY <1>1, FS_EmptySet DEF Trues

-----------------------------------------------------------------------------
(* A set of numbers has a least one.                                       *)
LEMMA LeastNumber ==
    ASSUME NEW S \in SUBSET Nat, S # {}
    PROVE  \E n \in S : \A k \in S : n <= k
<1> SUFFICES ASSUME \A n \in S : \E k \in S : k < n
             PROVE  FALSE
  OBVIOUS
<1> DEFINE T == {n \in Nat : \A k \in 0 .. n : k \notin S}
<1>1. 0 \in T
  <2>1. \A k \in 0 .. 0 : k = 0
    OBVIOUS
  <2>2. 0 \notin S
    OBVIOUS
  <2> QED
    BY <2>1, <2>2
<1>2. ASSUME NEW n \in T
      PROVE  n + 1 \in T
  <2>1. \A k \in 0 .. n + 1 : k \in 0 .. n \/ k = n + 1
    OBVIOUS
  <2>2. n + 1 \notin S
    <3>1. \A k \in S : k < n + 1 => k \in 0 .. n
      OBVIOUS
    <3> QED
      BY <3>1
  <2> QED
    BY <2>1, <2>2
<1>3. T = Nat
  <2>1. T \in SUBSET Nat
    OBVIOUS
  <2> HIDE DEF T
  <2> QED
    BY <1>1, <1>2, <2>1, NatSetInduction
<1>4. \A n \in Nat : n \in 0 .. n
  OBVIOUS
<1> QED
  BY <1>3, <1>4

-----------------------------------------------------------------------------
(* The elements of a sequence, and that none occurs twice.                 *)
Elems(q) == {q[k] : k \in 1 .. Len(q)}
NoRepeats(q) == \A j, k \in 1 .. Len(q) : q[j] = q[k] => j = k

LEMMA ElemsCount ==
    ASSUME NEW T, NEW q \in Seq(T), NoRepeats(q)
    PROVE  IsFiniteSet(Elems(q)) /\ Cardinality(Elems(q)) = Len(q)
<1>1. Len(q) \in Nat /\ q \in [1 .. Len(q) -> Elems(q)]
  BY LenProperties DEF Elems
<1>2. q \in Bijection(1 .. Len(q), Elems(q))
  <2>1. \A j, k \in 1 .. Len(q) : q[j] = q[k] => j = k
    BY DEF NoRepeats
  <2>2. \A y \in Elems(q) : \E k \in 1 .. Len(q) : q[k] = y
    BY DEF Elems
  <2>3. q \in Injection(1 .. Len(q), Elems(q))
    BY <1>1, <2>1 DEF Injection, IsInjective
  <2>4. q \in Surjection(1 .. Len(q), Elems(q))
    BY <1>1, <2>2 DEF Surjection
  <2> QED
    BY <2>3, <2>4 DEF Bijection
<1>3. ExistsBijection(1 .. Len(q), Elems(q))
  BY <1>2 DEF ExistsBijection
<1>4. IsFiniteSet(1 .. Len(q)) /\ Cardinality(1 .. Len(q)) = Len(q)
  BY <1>1, FS_Interval
<1> QED
  BY <1>3, <1>4, FS_Bijection

LEMMA ElemsAppend ==
    ASSUME NEW T, NEW q \in Seq(T), NEW x \in T
    PROVE  /\ Elems(Append(q, x)) = Elems(q) \cup {x}
           /\ NoRepeats(q) /\ x \notin Elems(q) => NoRepeats(Append(q, x))
<1> DEFINE a == Append(q, x)
           n == Len(q)
<1>1. Len(a) = n + 1 /\ n \in Nat /\ a[n + 1] = x /\ \A k \in 1 .. n : a[k] = q[k]
  BY AppendProperties, LenProperties
<1> HIDE DEF a
<1>2. \A k \in 1 .. n + 1 : k \in 1 .. n \/ k = n + 1
  BY <1>1
<1>3. Elems(a) = Elems(q) \cup {x}
  BY <1>1, <1>2 DEF Elems
<1>4. ASSUME NoRepeats(q), x \notin Elems(q), NEW j \in 1 .. n + 1, NEW k \in 1 .. n + 1,
             a[j] = a[k]
      PROVE  j = k
  <2>1. \A i \in 1 .. n : q[i] # x
    BY <1>4 DEF Elems
  <2>2. CASE j = n + 1 \/ k = n + 1
    BY <1>1, <1>2, <1>4, <2>1, <2>2
  <2>3. CASE j \in 1 .. n /\ k \in 1 .. n
    BY <1>1, <1>4, <2>3 DEF NoRepeats
  <2> QED
    BY <1>2, <2>2, <2>3
<1> QED
  BY <1>1, <1>3, <1>4 DEF NoRepeats, a

LEMMA ElemsFront ==
    ASSUME NEW T, NEW q \in Seq(T), q # <<>>
    PROVE  LET front == SubSeq(q, 1, Len(q) - 1)
           IN  /\ front \in Seq(T) /\ Len(front) = Len(q) - 1 /\ Len(q) \in Nat \ {0}
               /\ \A k \in 1 .. Len(q) - 1 : front[k] = q[k]
               /\ Elems(q) = Elems(front) \cup {q[Len(q)]}
               /\ NoRepeats(q) => NoRepeats(front) /\ q[Len(q)] \notin Elems(front)
<1> DEFINE n == Len(q)
           front == SubSeq(q, 1, n - 1)
<1>1. n \in Nat /\ n # 0
  BY LenProperties, EmptySeq
<1>2. front \in Seq(T) /\ Len(front) = n - 1 /\ \A k \in 1 .. n - 1 : front[k] = q[k]
  <2>1. n - 1 \in Nat /\ n - 1 <= Len(q)
    BY <1>1
  <2> QED
    BY <2>1, FirstOf
<1> HIDE DEF front
<1>3. \A k \in 1 .. n : k \in 1 .. n - 1 \/ k = n
  BY <1>1
<1>4. n \in 1 .. n /\ \A k \in 1 .. n - 1 : k \in 1 .. n /\ k # n
  BY <1>1
<1>5. Elems(q) = Elems(front) \cup {q[n]}
  <2> HIDE DEF n
  <2> QED
    BY <1>2, <1>3, <1>4 DEF Elems, n
<1>6. NoRepeats(q) => NoRepeats(front) /\ q[n] \notin Elems(front)
  BY <1>2, <1>4 DEF NoRepeats, Elems
<1> QED
  BY <1>1, <1>2, <1>5, <1>6 DEF front

LEMMA ElemsConcat ==
    ASSUME NEW T, NEW a \in Seq(T), NEW b \in Seq(T)
    PROVE  /\ a \o b \in Seq(T) /\ Len(a \o b) = Len(a) + Len(b)
           /\ \A k \in 1 .. Len(a) : (a \o b)[k] = a[k]
           /\ Elems(a \o b) = Elems(a) \cup Elems(b)
           /\ NoRepeats(a) /\ NoRepeats(b) /\ Elems(a) \cap Elems(b) = {} => NoRepeats(a \o b)
<1> DEFINE c == a \o b
           m == Len(a)
           n == Len(b)
<1>1. /\ c \in Seq(T) /\ Len(c) = m + n /\ m \in Nat /\ n \in Nat
      /\ \A k \in 1 .. m + n : c[k] = IF k <= m THEN a[k] ELSE b[k - m]
  BY ConcatProperties, LenProperties
<1> HIDE DEF c, m, n
<1>2. \A k \in 1 .. m + n : (k \in 1 .. m /\ c[k] = a[k]) \/ (k - m \in 1 .. n /\ c[k] = b[k - m])
  BY <1>1
<1>3. /\ \A k \in 1 .. m : k \in 1 .. m + n /\ c[k] = a[k]
      /\ \A k \in 1 .. n : k + m \in 1 .. m + n /\ c[k + m] = b[k]
  <2>1. \A k \in 1 .. n : k + m \in 1 .. m + n /\ ~(k + m <= m) /\ k + m - m = k
    BY <1>1
  <2>2. \A k \in 1 .. m : k \in 1 .. m + n /\ k <= m
    BY <1>1
  <2> QED
    BY <1>1, <2>1, <2>2
<1>4. Elems(c) = Elems(a) \cup Elems(b)
  <2>1. Elems(c) \subseteq Elems(a) \cup Elems(b)
    BY <1>1, <1>2 DEF Elems, m, n
  <2>2. Elems(a) \subseteq Elems(c)
    BY <1>1, <1>3 DEF Elems, m
  <2>3. Elems(b) \subseteq Elems(c)
    BY <1>1, <1>3 DEF Elems, n
  <2> QED
    BY <2>1, <2>2, <2>3
<1>5. ASSUME NoRepeats(a), NoRepeats(b), Elems(a) \cap Elems(b) = {}
      PROVE  NoRepeats(c)
  <2> SUFFICES ASSUME NEW j \in 1 .. m + n, NEW k \in 1 .. m + n, c[j] = c[k]
               PROVE  j = k
    BY <1>1 DEF NoRepeats
  <2>1. \A i \in 1 .. m, l \in 1 .. n : a[i] # b[l]
    BY <1>5 DEF Elems, m, n
  <2>2. CASE j \in 1 .. m /\ k \in 1 .. m
    BY <1>3, <1>5, <2>2 DEF NoRepeats, m
  <2>3. CASE j - m \in 1 .. n /\ c[j] = b[j - m] /\ k - m \in 1 .. n /\ c[k] = b[k - m]
    <3>1. j - m = k - m
      BY <1>5, <2>3 DEF NoRepeats, n
    <3> QED
      BY <1>1, <3>1
  <2> QED
    BY <1>2, <2>1, <2>2, <2>3
<1> QED
  BY <1>1, <1>3, <1>4, <1>5 DEF c, m, n

-----------------------------------------------------------------------------
(* Folds.  A fold over a finite set takes out one element after the other, *)
(* the element ch[x] of what is left, x.  Its operator is a function g of  *)
(* the states, T, and the elements.                                        *)
Chooses(ch, U) == \A x \in SUBSET U : x # {} => ch[x] \in x

FoldOf(f, U, ch, b, g) ==
    \A x \in SUBSET U : f[x] = IF x = {} THEN b ELSE g[<<f[x \ {ch[x]}], ch[x]>>]

LEMMA FoldExists ==
    ASSUME NEW U, IsFiniteSet(U), NEW ch, Chooses(ch, U),
           NEW T, NEW b \in T, NEW g \in [T \X U -> T]
    PROVE  \E it \in [SUBSET U -> T] : FoldOf(it, U, ch, b, g)
<1> DEFINE Small(k) == {x \in SUBSET U : Cardinality(x) <= k}
           Next_(it, x) == IF x = {} THEN b ELSE g[<<it[x \ {ch[x]}], ch[x]>>]
           S == {k \in Nat : \E it \in [Small(k) -> T] : \A x \in Small(k) : it[x] = Next_(it, x)}
<1>1. \A x \in SUBSET U : /\ IsFiniteSet(x) /\ Cardinality(x) \in Nat
                          /\ Cardinality(x) <= Cardinality(U)
                          /\ Cardinality(x) = 0 <=> x = {}
  BY FS_Subset, FS_CardinalityType, FS_EmptySet
<1>2. \A x \in SUBSET U : x # {} => /\ ch[x] \in U /\ x \ {ch[x]} \in SUBSET U
                                    /\ Cardinality(x \ {ch[x]}) = Cardinality(x) - 1
  BY <1>1, FS_RemoveElement DEF Chooses
<1>3. 0 \in S
  <2> DEFINE it == [x \in Small(0) |-> b]
  <2>1. \A x \in Small(0) : x = {}
    BY <1>1
  <2>2. it \in [Small(0) -> T] /\ \A x \in Small(0) : it[x] = Next_(it, x)
    BY <2>1
  <2> HIDE DEF it, Next_, Small
  <2> QED
    BY <2>2
<1>4. ASSUME NEW k \in S
      PROVE  k + 1 \in S
  <2>1. PICK it \in [Small(k) -> T] : \A x \in Small(k) : it[x] = Next_(it, x)
    BY <1>4
  <2> DEFINE more == [x \in Small(k + 1) |-> Next_(it, x)]
  <2>2. \A x \in Small(k + 1) : x # {} => x \ {ch[x]} \in Small(k) /\ ch[x] \in U
    BY <1>1, <1>2
  <2>3. \A x \in Small(k) : x \in Small(k + 1)
    BY <1>1
  <2> HIDE DEF Small
  <2>4. \A x \in Small(k + 1) : Next_(it, x) \in T
    BY <2>2
  <2>5. \A x \in Small(k) : more[x] = it[x]
    BY <2>1, <2>3
  <2>6. \A x \in Small(k + 1) : more[x] = Next_(more, x)
    BY <2>2, <2>5
  <2>7. more \in [Small(k + 1) -> T]
    BY <2>4
  <2> HIDE DEF more, Next_
  <2> QED
    BY <2>6, <2>7
<1>5. S = Nat
  <2> HIDE DEF S
  <2>1. S \in SUBSET Nat
    BY DEF S
  <2> QED
    BY <1>3, <1>4, <2>1, NatSetInduction
<1>6. Cardinality(U) \in S /\ Small(Cardinality(U)) = SUBSET U
  BY <1>1, <1>5, FS_CardinalityType
<1> QED
  BY <1>6 DEF FoldOf

LEMMA FoldIn ==
    ASSUME NEW U, IsFiniteSet(U), NEW ch, Chooses(ch, U),
           NEW T, NEW f,
           \A x \in SUBSET U : x = {} \/ f[x \ {ch[x]}] \in T => f[x] \in T
    PROVE  f[U] \in T
<1> DEFINE S == {k \in Nat : \A x \in SUBSET U : Cardinality(x) = k => f[x] \in T}
<1>1. \A x \in SUBSET U : Cardinality(x) \in Nat /\ (Cardinality(x) = 0 <=> x = {})
  BY FS_Subset, FS_CardinalityType, FS_EmptySet
<1>2. \A x \in SUBSET U : x # {} => /\ x \ {ch[x]} \in SUBSET U
                                    /\ Cardinality(x \ {ch[x]}) = Cardinality(x) - 1
  BY FS_Subset, FS_RemoveElement DEF Chooses
<1>3. 0 \in S
  BY <1>1
<1>4. ASSUME NEW k \in S
      PROVE  k + 1 \in S
  <2> SUFFICES ASSUME NEW x \in SUBSET U, Cardinality(x) = k + 1
               PROVE  f[x] \in T
    OBVIOUS
  <2>1. x # {} /\ Cardinality(x \ {ch[x]}) = k /\ x \ {ch[x]} \in SUBSET U
    BY <1>1, <1>2
  <2> QED
    BY <2>1
<1>5. S = Nat
  <2> HIDE DEF S
  <2>1. S \in SUBSET Nat
    BY DEF S
  <2> QED
    BY <1>3, <1>4, <2>1, NatSetInduction
<1> QED
  BY <1>1, <1>5

(* A fold over a sequence is one over its places, from the greatest one:   *)
(* the elements are met from first to last.                                *)
LEMMA Greatest ==
    ASSUME NEW n \in Nat
    PROVE  /\ IsFiniteSet(1 .. n)
           /\ \A x \in SUBSET (1 .. n) : x # {} => Max(x) \in x
           /\ \A k \in 1 .. n : /\ 1 .. k \in SUBSET (1 .. n) /\ 1 .. k # {}
                                /\ Max(1 .. k) = k /\ (1 .. k) \ {k} = 1 .. k - 1
<1>1. IsFiniteSet(1 .. n)
  BY FS_Interval
<1>2. ASSUME NEW x \in SUBSET (1 .. n), x # {}
      PROVE  \E m \in x : \A y \in x : m >= y
  <2> DEFINE R == {n - y : y \in x}
  <2>0. x # {} /\ \A y \in x : y \in 1 .. n
    BY <1>2
  <2>1. R \in SUBSET Nat /\ R # {}
    <3>1. \A y \in x : n - y \in Nat
      BY ONLY <2>0, n \in Nat
    <3>2. PICK y \in x : TRUE
      BY <2>0
    <3>3. n - y \in R
      OBVIOUS
    <3> QED
      BY <3>1, <3>3
  <2>2. PICK r \in R : \A y \in R : r <= y
    <3> HIDE DEF R
    <3> QED
      BY <2>1, LeastNumber
  <2>3. PICK m \in x : r = n - m
    BY <2>2
  <2>4. \A y \in x : n - m <= n - y
    BY <2>2, <2>3
  <2>5. \A y \in x : y \in Nat
    BY ONLY <2>0, n \in Nat
  <2> QED
    BY <2>4, <2>5
<1>3. \A x \in SUBSET (1 .. n) : x # {} => Max(x) \in x /\ \A y \in x : Max(x) >= y
  BY <1>2 DEF Max
<1>4. ASSUME NEW k \in 1 .. n
      PROVE  /\ 1 .. k \in SUBSET (1 .. n) /\ 1 .. k # {}
             /\ Max(1 .. k) = k /\ (1 .. k) \ {k} = 1 .. k - 1
  <2>1. 1 .. k \in SUBSET (1 .. n) /\ k \in 1 .. k /\ (1 .. k) \ {k} = 1 .. k - 1
    OBVIOUS
  <2> DEFINE m == Max(1 .. k)
  <2>2. m \in 1 .. k /\ m >= k
    BY <1>3, <2>1
  <2> HIDE DEF m
  <2>3. m = k
    BY <2>2
  <2> QED
    BY <2>1, <2>3 DEF m
<1> QED
  BY <1>1, <1>3, <1>4

(* What holds before and is kept by every step holds after the last.       *)
LEMMA RunKeeps ==
    ASSUME NEW n \in Nat, NEW T, NEW r, r[0] \in T,
           \A k \in 1 .. n : r[k - 1] \in T => r[k] \in T
    PROVE  \A k \in 0 .. n : r[k] \in T
<1> DEFINE S == {k \in Nat : k <= n => r[k] \in T}
<1>1. 0 \in S
  OBVIOUS
<1>2. ASSUME NEW k \in S
      PROVE  k + 1 \in S
  <2>1. k + 1 <= n => k + 1 \in 1 .. n /\ (k + 1) - 1 = k
    OBVIOUS
  <2> QED
    BY <2>1
<1>3. S = Nat
  <2> HIDE DEF S
  <2>1. S \in SUBSET Nat
    BY DEF S
  <2> QED
    BY <1>1, <1>2, <2>1, NatSetInduction
<1> QED
  BY <1>3

(* The places 1 .. n are taken out from the last one.                      *)
LoopOf(f, n, b, g) ==
    \A x \in SUBSET (1 .. n) : f[x] = IF x = {} THEN b ELSE g[<<f[x \ {Max(x)}], Max(x)>>]

LEMMA LoopExists ==
    ASSUME NEW n \in Nat, NEW T, NEW b \in T, NEW g \in [T \X (1 .. n) -> T]
    PROVE  \E f \in [SUBSET (1 .. n) -> T] : LoopOf(f, n, b, g)
<1> DEFINE U == 1 .. n
           ch == [x \in SUBSET U |-> Max(x)]
<1>1. IsFiniteSet(U) /\ Chooses(ch, U)
  BY Greatest DEF Chooses
<1>2. \A x \in SUBSET U : ch[x] = Max(x)
  OBVIOUS
<1>3. g \in [T \X U -> T]
  OBVIOUS
<1> HIDE DEF ch, U
<1>4. PICK f \in [SUBSET U -> T] : FoldOf(f, U, ch, b, g)
  BY <1>1, <1>3, FoldExists
<1>5. LoopOf(f, n, b, g)
  BY <1>2, <1>4 DEF LoopOf, FoldOf, U
<1> QED
  BY <1>4, <1>5 DEF U

(* As long as the states are in T.                                         *)
Follows(f, n, b, g, T) ==
    /\ f[{}] = b
    /\ \A x \in SUBSET (1 .. n) : x # {} /\ f[x \ {Max(x)}] \in T =>
          f[x] = g[<<f[x \ {Max(x)}], Max(x)>>]

(* The states r[k] that the loop goes through.                             *)
RunOf(r, n, b, g, last) ==
    r[0] = b /\ r[n] = last /\ \A k \in 1 .. n : r[k] = g[<<r[k - 1], k>>]

LEMMA LoopRun ==
    ASSUME NEW n \in Nat, NEW T, NEW b \in T, NEW g \in [T \X (1 .. n) -> T], NEW f,
           Follows(f, n, b, g, T)
    PROVE  \E r \in [0 .. n -> T] : RunOf(r, n, b, g, f[1 .. n])
<1> DEFINE r == [k \in 0 .. n |-> f[1 .. k]]
<1>1. r[0] = b
  <2>1. 1 .. 0 = {} /\ 0 \in 0 .. n
    OBVIOUS
  <2> QED
    BY <2>1 DEF Follows
<1>2. ASSUME NEW k \in 1 .. n, r[k - 1] \in T
      PROVE  r[k] \in T /\ r[k] = g[<<r[k - 1], k>>]
  <2>1. k \in 0 .. n /\ k - 1 \in 0 .. n
    OBVIOUS
  <2>2. r[k] = f[1 .. k] /\ r[k - 1] = f[1 .. k - 1]
    BY <2>1
  <2>3. /\ 1 .. k \in SUBSET (1 .. n) /\ 1 .. k # {}
        /\ Max(1 .. k) = k /\ (1 .. k) \ {k} = 1 .. k - 1
    BY Greatest
  <2> HIDE DEF r
  <2>4. f[1 .. k] = g[<<r[k - 1], k>>]
    BY <1>2, <2>2, <2>3 DEF Follows
  <2> QED
    BY <1>2, <2>2, <2>4
<1>3. \A k \in 0 .. n : r[k] \in T
  <2> HIDE DEF r
  <2> QED
    BY <1>1, <1>2, RunKeeps
<1>4. r \in [0 .. n -> T] /\ r[n] = f[1 .. n]
  BY <1>3
<1>5. \A k \in 1 .. n : k - 1 \in 0 .. n
  OBVIOUS
<1> HIDE DEF r
<1> QED
  BY <1>1, <1>2, <1>3, <1>4, <1>5 DEF RunOf

LEMMA Counting ==
    ASSUME NEW n \in Nat, NEW S, 0 \in S, \A k \in 1 .. n : k - 1 \in S => k \in S
    PROVE  n \in S
<1> DEFINE r == [k \in 0 .. n |-> k]
<1>1. r[0] \in S /\ \A k \in 1 .. n : r[k - 1] \in S => r[k] \in S
  <2>1. \A k \in 1 .. n : k \in 0 .. n /\ k - 1 \in 0 .. n
    OBVIOUS
  <2> QED
    BY <2>1
<1>2. r[n] = n
  OBVIOUS
<1> HIDE DEF r
<1>3. r[n] \in S
  BY <1>1, RunKeeps
<1> QED
  BY <1>2, <1>3
=============================================================================
