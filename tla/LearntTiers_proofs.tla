-------------------------- MODULE LearntTiers_proofs --------------------------
(***************************************************************************)
(* Proofs about LearntTiers: every learnt clause is in the list of its     *)
(* tier, none is removed twice, and references follow what moves, for any  *)
(* number of clauses, conflicts and reductions.                            *)
(*                                                                         *)
(* The loops over the lists are folds.  Each is unfolded into the states   *)
(* it goes through (FoldSteps), and in each of these states the invariant  *)
(* holds of the memory and of what the lists hold at that moment: the      *)
(* entries that were kept and those not visited yet.                       *)
(***************************************************************************)
EXTENDS LearntTiers, ProofLemmas

-----------------------------------------------------------------------------
(* The memory, with n clauses and names up to last, and the clauses in the *)
(* three lists: C, T and L are those in the core, in tier 2 and in the     *)
(* local list.  A clause promoted to the core keeps its entry in tier 2,   *)
(* and one that has left the local list in any way keeps its entry there.  *)
Marks == {LOCAL_MARK, REMOVED, TIER2, CORE}
HeaderType(last) ==
    [name : 1 .. last, mark : Marks, lbd : Nat, removable : BOOLEAN, simplified : BOOLEAN,
     touched : Nat]
References == UNION {[D -> Nat] : D \in SUBSET Nat}
Memory(n, last) ==
    [ca : [1 .. n -> HeaderType(last)], watches : References, reason : References,
     wasted : BOOLEAN, unexpected : BOOLEAN]

NamesApart(m) == \A i, j \in DOMAIN m.ca : m.ca[i].name = m.ca[j].name => i = j

Lead(m) ==
    /\ \A k \in DOMAIN m.reason : m.reason[k] \in Live(m) /\ m.ca[m.reason[k]].name = k
    /\ \A k \in DOMAIN m.watches : m.watches[k] \in DOMAIN m.ca /\ m.ca[m.watches[k]].name = k
    /\ \A cr \in Live(m) : m.ca[cr].name \in DOMAIN m.watches

InLists(m, C, T, L) ==
    /\ C \subseteq DOMAIN m.ca /\ T \subseteq DOMAIN m.ca /\ L \subseteq DOMAIN m.ca
    /\ \A i \in C : m.ca[i].mark = CORE
    /\ \A i \in T : m.ca[i].mark # LOCAL_MARK
    /\ \A i \in DOMAIN m.ca : /\ m.ca[i].mark = CORE => i \in C
                              /\ m.ca[i].mark = TIER2 => i \in T
                              /\ m.ca[i].mark = LOCAL_MARK => i \in L

Good(m, n, last, C, T, L) ==
    /\ m \in Memory(n, last) /\ m.unexpected = FALSE
    /\ NamesApart(m) /\ Lead(m) /\ InLists(m, C, T, L)

LEMMA MarksApart ==
    /\ LOCAL_MARK \in Nat /\ REMOVED \in Nat /\ TIER2 \in Nat /\ CORE \in Nat
    /\ LOCAL_MARK # REMOVED /\ LOCAL_MARK # TIER2 /\ LOCAL_MARK # CORE
    /\ REMOVED # TIER2 /\ REMOVED # CORE /\ TIER2 # CORE
BY DEF LOCAL_MARK, REMOVED, TIER2, CORE

LEMMA MemoryTypes ==
    ASSUME NEW n, NEW last, NEW m \in Memory(n, last)
    PROVE  /\ DOMAIN m.ca = 1 .. n /\ m.reason \in References /\ m.watches \in References
           /\ \A i \in 1 .. n : m.ca[i] \in HeaderType(last)
           /\ Live(m) = {i \in 1 .. n : m.ca[i].mark # REMOVED}
BY DEF Memory, Live

(* The header of a clause changes, and with its mark the lists.            *)
LEMMA HeaderChange ==
    ASSUME NEW n \in Nat, NEW last, NEW m, NEW C, NEW T, NEW L, Good(m, n, last, C, T, L),
           NEW x \in Live(m), NEW h \in HeaderType(last), h.name = m.ca[x].name,
           h.mark # REMOVED,
           NEW C2, NEW T2, NEW L2, C2 \ {x} = C \ {x}, T2 \ {x} = T \ {x}, L2 \ {x} = L \ {x},
           x \in C2 <=> h.mark = CORE,
           h.mark = TIER2 => x \in T2, x \in T2 => h.mark # LOCAL_MARK,
           h.mark = LOCAL_MARK => x \in L2
    PROVE  Good([m EXCEPT !.ca[x] = h], n, last, C2, T2, L2)
<1> DEFINE m2 == [m EXCEPT !.ca[x] = h]
<1>1. /\ m \in Memory(n, last) /\ x \in 1 .. n /\ DOMAIN m.ca = 1 .. n
      /\ Live(m) = {i \in 1 .. n : m.ca[i].mark # REMOVED}
  BY MemoryTypes DEF Good
<1>2. /\ m2 \in Memory(n, last) /\ m2.unexpected = m.unexpected
      /\ m2.reason = m.reason /\ m2.watches = m.watches
      /\ DOMAIN m2.ca = 1 .. n /\ m2.ca[x] = h /\ \A i \in 1 .. n : i # x => m2.ca[i] = m.ca[i]
  BY <1>1 DEF Memory
<1>3. Live(m2) = Live(m)
  BY <1>1, <1>2 DEF Live
<1>4. \A i \in 1 .. n : m2.ca[i].name = m.ca[i].name
  BY <1>2
<1> HIDE DEF m2
<1>5. NamesApart(m2)
  BY <1>1, <1>2, <1>4 DEF NamesApart, Good
<1>6. Lead(m2)
  BY <1>1, <1>2, <1>3, <1>4 DEF Lead, Good
<1>7. InLists(m2, C2, T2, L2)
  BY <1>1, <1>2 DEF InLists, Good
<1> QED
  BY <1>2, <1>5, <1>6, <1>7 DEF Good, m2

(* A clause is removed, and its references with it: the reason it may be,  *)
(* or its watchers, when it is no reason.                                  *)
LEMMA WithoutRefs ==
    ASSUME NEW f \in References, NEW cr
    PROVE  /\ Without(f, cr) \in References
           /\ \A k : k \in DOMAIN Without(f, cr) <=> k \in DOMAIN f /\ f[k] # cr
           /\ \A k \in DOMAIN Without(f, cr) : Without(f, cr)[k] = f[k]
<1>1. PICK D \in SUBSET Nat : f \in [D -> Nat]
  BY DEF References
<1>2. Without(f, cr) \in [{k \in D : f[k] # cr} -> Nat]
  BY <1>1 DEF Without
<1> QED
  BY <1>1, <1>2 DEF Without, References

LEMMA Removal ==
    ASSUME NEW n \in Nat, NEW last, NEW m, NEW C, NEW T, NEW L, Good(m, n, last, C, T, L),
           NEW x \in Live(m), NEW m2 \in Memory(n, last), m2.unexpected = FALSE,
           m2.ca = [m.ca EXCEPT ![x] = [@ EXCEPT !.mark = REMOVED]],
           \/ m2.reason = Without(m.reason, x) /\ m2.watches = m.watches
           \/ m2.reason = m.reason /\ m2.watches = Without(m.watches, x) /\ ~locked(m, x),
           NEW T2, NEW L2, T \ {x} \subseteq T2, T2 \subseteq T, L \ {x} \subseteq L2, L2 \subseteq L
    PROVE  Good(m2, n, last, C \ {x}, T2, L2)
<1>1. /\ m \in Memory(n, last) /\ x \in 1 .. n /\ DOMAIN m.ca = 1 .. n
      /\ Live(m) = {i \in 1 .. n : m.ca[i].mark # REMOVED}
      /\ m.reason \in References /\ m.watches \in References
      /\ \A i \in 1 .. n : m.ca[i] \in HeaderType(last)
  BY MemoryTypes DEF Good
<1>2. /\ DOMAIN m2.ca = 1 .. n /\ m2.ca[x] = [m.ca[x] EXCEPT !.mark = REMOVED]
      /\ \A i \in 1 .. n : i # x => m2.ca[i] = m.ca[i]
  BY <1>1
<1>3. m2.ca[x].mark = REMOVED /\ m2.ca[x].name = m.ca[x].name
  BY <1>1, <1>2 DEF HeaderType
<1>4. \A i \in 1 .. n : m2.ca[i].name = m.ca[i].name
  BY <1>2, <1>3
<1>5. Live(m2) = Live(m) \ {x}
  BY <1>1, <1>2, <1>3 DEF Live
<1>6. NamesApart(m2)
  BY <1>1, <1>2, <1>4 DEF NamesApart, Good
<1>7. Lead(m2)
  <2>1. /\ \A k \in DOMAIN m2.reason :
              k \in DOMAIN m.reason /\ m2.reason[k] = m.reason[k] /\ m.reason[k] # x
        /\ \A k \in DOMAIN m2.watches : k \in DOMAIN m.watches /\ m2.watches[k] = m.watches[k]
        /\ \A k \in DOMAIN m.watches : m.watches[k] # x => k \in DOMAIN m2.watches
    <3> DEFINE r == Without(m.reason, x)
               w == Without(m.watches, x)
    <3>0. /\ \A k : k \in DOMAIN r <=> k \in DOMAIN m.reason /\ m.reason[k] # x
          /\ \A k \in DOMAIN r : r[k] = m.reason[k]
          /\ \A k : k \in DOMAIN w <=> k \in DOMAIN m.watches /\ m.watches[k] # x
          /\ \A k \in DOMAIN w : w[k] = m.watches[k]
      BY <1>1, WithoutRefs
    <3> HIDE DEF r, w
    <3>1. CASE m2.reason = r /\ m2.watches = m.watches
      BY <3>0, <3>1
    <3>2. CASE m2.reason = m.reason /\ m2.watches = w /\ ~locked(m, x)
      <4>1. \A k \in DOMAIN m.reason : m.reason[k] # x
        BY <3>2 DEF locked
      <4> QED
        BY <3>0, <3>2, <4>1
    <3> QED
      BY <3>1, <3>2 DEF r, w
  <2>2. \A cr \in Live(m2) : m.watches[m.ca[cr].name] # x
    BY <1>1, <1>5 DEF Good, Lead, NamesApart
  <2> QED
    BY <1>1, <1>2, <1>4, <1>5, <2>1, <2>2 DEF Lead, Good
<1>8. InLists(m2, C \ {x}, T2, L2)
  <2>1. \A i \in 1 .. n : i # x => m2.ca[i] = m.ca[i]
    BY <1>2
  <2> QED
    BY <1>1, <1>2, <1>3, <2>1, MarksApart, SMTT(30) DEF InLists, Good
<1> QED
  BY <1>6, <1>7, <1>8 DEF Good

LEMMA RemoveClause ==
    ASSUME NEW n \in Nat, NEW last, NEW m \in Memory(n, last), NEW cr \in 1 .. n
    PROVE  LET m2 == removeClause(m, cr)
           IN  /\ m2 \in Memory(n, last)
               /\ m2.ca = [m.ca EXCEPT ![cr] = [@ EXCEPT !.mark = REMOVED]]
               /\ m2.reason = Without(m.reason, cr) /\ m2.watches = m.watches
               /\ m2.unexpected = (m.unexpected \/ m.ca[cr].mark = REMOVED)
<1> DEFINE m2 == removeClause(m, cr)
           ca == [m.ca EXCEPT ![cr] = [@ EXCEPT !.mark = REMOVED]]
<1>1. /\ m.ca \in [1 .. n -> HeaderType(last)] /\ m.watches \in References
      /\ m.unexpected \in BOOLEAN
  BY DEF Memory
<1>2. ca \in [1 .. n -> HeaderType(last)]
  <2>1. [m.ca[cr] EXCEPT !.mark = REMOVED] \in HeaderType(last)
    BY <1>1 DEF HeaderType, Marks
  <2> QED
    BY <1>1, <2>1
<1>3. Without(m.reason, cr) \in References
  BY WithoutRefs, MemoryTypes
<1>4. m2 = [m EXCEPT !.ca = ca, !.reason = Without(@, cr), !.wasted = TRUE,
                     !.unexpected = @ \/ m.ca[cr].mark = REMOVED]
  BY DEF removeClause
<1> HIDE DEF ca, m2
<1>5. m2 = [ca |-> ca, watches |-> m.watches, reason |-> Without(m.reason, cr), wasted |-> TRUE,
            unexpected |-> (m.unexpected \/ m.ca[cr].mark = REMOVED)]
  BY <1>4 DEF Memory
<1> QED
  BY <1>1, <1>2, <1>3, <1>5 DEF Memory, ca, m2

LEMMA RemoveGood ==
    ASSUME NEW n \in Nat, NEW last, NEW m, NEW C, NEW T, NEW L, Good(m, n, last, C, T, L),
           NEW x \in Live(m),
           NEW T2, NEW L2, T \ {x} \subseteq T2, T2 \subseteq T, L \ {x} \subseteq L2, L2 \subseteq L
    PROVE  Good(removeClause(m, x), n, last, C \ {x}, T2, L2)
<1>1. m \in Memory(n, last) /\ x \in 1 .. n /\ m.ca[x].mark # REMOVED /\ m.unexpected = FALSE
  BY MemoryTypes DEF Good
<1> DEFINE m2 == removeClause(m, x)
<1>2. /\ m2 \in Memory(n, last)
      /\ m2.ca = [m.ca EXCEPT ![x] = [@ EXCEPT !.mark = REMOVED]]
      /\ m2.reason = Without(m.reason, x) /\ m2.watches = m.watches
      /\ m2.unexpected = (m.unexpected \/ m.ca[x].mark = REMOVED)
  BY <1>1, RemoveClause
<1> HIDE DEF m2
<1>4. m2.unexpected = FALSE
  <2>1. ~m.unexpected /\ ~(m.ca[x].mark = REMOVED)
    BY <1>1
  <2>2. m2.unexpected \in BOOLEAN
    BY <1>2 DEF Memory
  <2> QED
    BY <1>2, <2>1, <2>2
<1>3. Good(m2, n, last, C \ {x}, T2, L2)
  BY <1>2, <1>4, Removal
<1> QED
  BY <1>3 DEF m2

-----------------------------------------------------------------------------
(* A list while a loop goes over it: what was kept, and what follows.      *)
Rest(cs, k) == {cs[j] : j \in k + 1 .. Len(cs)}
Now(kept, cs, k) == Elems(kept) \cup Rest(cs, k)
Kept(kept, cs, k) ==
    kept \in Seq(Nat) /\ NoRepeats(kept) /\ Elems(kept) \cap Rest(cs, k) = {}

LEMMA RestStep ==
    ASSUME NEW S, NEW cs \in Seq(S), NEW k \in 1 .. Len(cs)
    PROVE  /\ Rest(cs, k - 1) = Rest(cs, k) \cup {cs[k]} /\ cs[k] \in S
           /\ NoRepeats(cs) => cs[k] \notin Rest(cs, k)
<1>1. Len(cs) \in Nat /\ cs[k] \in S
  OBVIOUS
<1>2. (k - 1) + 1 .. Len(cs) = (k + 1 .. Len(cs)) \cup {k}
  BY <1>1
<1>3. \A j \in k + 1 .. Len(cs) : j \in 1 .. Len(cs) /\ j # k
  BY <1>1
<1> QED
  BY <1>1, <1>2, <1>3 DEF Rest, NoRepeats

LEMMA RestEnds ==
    ASSUME NEW S, NEW cs \in Seq(S)
    PROVE  Rest(cs, 0) = Elems(cs) /\ Rest(cs, Len(cs)) = {}
<1>1. Len(cs) \in Nat /\ (Len(cs) + 1) .. Len(cs) = {} /\ 0 + 1 = 1
  OBVIOUS
<1> QED
  BY <1>1 DEF Rest, Elems

(* One more element of a list of clauses.                                  *)
LEMMA AppendNat ==
    ASSUME NEW q \in Seq(Nat), NEW x \in Nat
    PROVE  Append(q, x) \in Seq(Nat) /\ Elems(Append(q, x)) = Elems(q) \cup {x}
<1>1. Append(q, x) \in Seq(Nat)
  OBVIOUS
<1>2. Elems(Append(q, x)) = Elems(q) \cup {x}
  BY ElemsAppend, SMTT(30)
<1> QED
  BY <1>1, <1>2

(* The element visited is kept or dropped.                                 *)
LEMMA NowStep ==
    ASSUME NEW n \in Nat, NEW cs \in Seq(1 .. n), NEW k \in 1 .. Len(cs), NEW kept \in Seq(Nat)
    PROVE  LET x == cs[k]
               more == Append(kept, x)
           IN  /\ x \in 1 .. n /\ x \in Now(kept, cs, k - 1)
               /\ more \in Seq(Nat) /\ Now(more, cs, k) = Now(kept, cs, k - 1)
               /\ Now(kept, cs, k - 1) \ {x} \subseteq Now(kept, cs, k)
               /\ Now(kept, cs, k) \subseteq Now(kept, cs, k - 1)
<1> DEFINE x == cs[k]
<1>1. Rest(cs, k - 1) = Rest(cs, k) \cup {x} /\ x \in 1 .. n
  BY RestStep
<1>2. Append(kept, x) \in Seq(Nat) /\ Elems(Append(kept, x)) = Elems(kept) \cup {x}
  <2>1. x \in Nat /\ kept \in Seq(Nat)
    BY <1>1
  <2> HIDE DEF x
  <2> QED
    BY ONLY <2>1, AppendNat
<1> HIDE DEF x
<1> QED
  BY <1>1, <1>2 DEF Now, x

LEMMA KeptStep ==
    ASSUME NEW n \in Nat, NEW cs \in Seq(1 .. n), NoRepeats(cs), NEW k \in 1 .. Len(cs),
           NEW kept, Kept(kept, cs, k - 1)
    PROVE  LET x == cs[k]
           IN  /\ Kept(kept, cs, k) /\ Kept(Append(kept, x), cs, k)
               /\ Now(kept, cs, k) = Now(kept, cs, k - 1) \ {x}
<1> DEFINE x == cs[k]
           more == Append(kept, x)
<1>1. Rest(cs, k - 1) = Rest(cs, k) \cup {x} /\ x \in 1 .. n /\ x \notin Rest(cs, k)
  BY RestStep
<1>2. kept \in Seq(Nat) /\ x \notin Elems(kept) /\ NoRepeats(kept)
  BY <1>1 DEF Kept
<1>3. more \in Seq(Nat) /\ Elems(more) = Elems(kept) \cup {x} /\ NoRepeats(more)
  BY <1>1, <1>2, ElemsAppend
<1> HIDE DEF x, more
<1>4. Kept(kept, cs, k) /\ Kept(more, cs, k) /\ Now(kept, cs, k) = Now(kept, cs, k - 1) \ {x}
  BY <1>1, <1>2, <1>3 DEF Kept, Now
<1> QED
  BY <1>4 DEF x, more

LEMMA LoopEnds ==
    ASSUME NEW S, NEW cs \in Seq(S)
    PROVE  /\ Kept(<<>>, cs, 0) /\ Now(<<>>, cs, 0) = Elems(cs)
           /\ \A kept : Now(kept, cs, Len(cs)) = Elems(kept)
<1>1. Elems(<<>>) = {} /\ NoRepeats(<<>>) /\ <<>> \in Seq(Nat)
  BY DEF Elems, NoRepeats
<1> QED
  BY <1>1, RestEnds DEF Kept, Now


-----------------------------------------------------------------------------
(* The loop of removeSatisfied as a run.                                   *)
LoopStates(n, last) == [m : Memory(n, last), kept : Seq(Nat)]

LEMMA LoopStep ==
    ASSUME NEW n \in Nat, NEW last, NEW s \in LoopStates(n, last), NEW x \in 1 .. n
    PROVE  /\ Remove_(s, x) \in LoopStates(n, last) /\ Keep(s, x) \in LoopStates(n, last)
           /\ Remove_(s, x).m = removeClause(s.m, x) /\ Remove_(s, x).kept = s.kept
           /\ Keep(s, x).m = s.m /\ Keep(s, x).kept = Append(s.kept, x)
<1>1. s.m \in Memory(n, last) /\ s.kept \in Seq(Nat)
  BY DEF LoopStates
<1>2. removeClause(s.m, x) \in Memory(n, last)
  BY <1>1, RemoveClause
<1>3. Append(s.kept, x) \in Seq(Nat)
  BY <1>1
<1> QED
  BY <1>1, <1>2, <1>3 DEF LoopStates, Remove_, Keep

LEMMA LoopBegins ==
    ASSUME NEW n, NEW last, NEW m \in Memory(n, last)
    PROVE  Loop(m) \in LoopStates(n, last) /\ Loop(m).m = m /\ Loop(m).kept = <<>>
BY DEF Loop, LoopStates

Removing(r, cs, m, satisfied, n, last) ==
    /\ r \in [0 .. Len(cs) -> LoopStates(n, last)]
    /\ r[0] = Loop(m) /\ r[Len(cs)] = removeSatisfied(m, cs, satisfied)
    /\ \A k \in 1 .. Len(cs) : r[k] = IF cs[k] \in satisfied THEN Remove_(r[k - 1], cs[k])
                                      ELSE Keep(r[k - 1], cs[k])

LEMMA RemoveSatisfiedRun ==
    ASSUME NEW n \in Nat, NEW last, NEW m \in Memory(n, last), NEW cs \in Seq(1 .. n),
           NEW satisfied
    PROVE  \E r : Removing(r, cs, m, satisfied, n, last)
<1> DEFINE U == 1 .. Len(cs)
           T == LoopStates(n, last)
           b == Loop(m)
           Op(s, cr) == IF cr \in satisfied THEN Remove_(s, cr) ELSE Keep(s, cr)
           g == [p \in T \X U |-> Op(p[1], cs[p[2]])]
           Is(h) == h = [x \in SUBSET U |-> IF x = {} THEN b
                                            ELSE Op(h[x \ {Max(x)}], cs[Max(x)])]
<1>1. Len(cs) \in Nat /\ DOMAIN cs = U /\ \A k \in U : cs[k] \in 1 .. n
  OBVIOUS
<1>2. (\E f : Is(f)) => \E f : Is(f) /\ f[U] = removeSatisfied(m, cs, satisfied)
  BY <1>1 DEF removeSatisfied, FoldLeft, MapThenFoldSet
<1>3. \A s \in T : \A k \in U : Op(s, cs[k]) \in T
  BY <1>1, LoopStep
<1> HIDE DEF Op
<1>4. g \in [T \X U -> T]
  BY <1>3
<1>5. \A s \in T : \A k \in U : g[<<s, k>>] = Op(s, cs[k])
  OBVIOUS
<1> HIDE DEF g
<1>6. b \in T
  BY LoopBegins
<1> HIDE DEF b
<1>7. PICK it \in [SUBSET U -> T] : LoopOf(it, Len(cs), b, g)
  BY <1>1, <1>4, <1>6, LoopExists
<1>8. \A x \in SUBSET U : x # {} => Max(x) \in x /\ x \ {Max(x)} \in SUBSET U
  BY <1>1, Greatest
<1>9. Is(it)
  BY <1>5, <1>7, <1>8 DEF LoopOf
<1>10. PICK f : Is(f) /\ f[U] = removeSatisfied(m, cs, satisfied)
  <2> HIDE DEF Is
  <2> QED
    BY <1>2, <1>9
<1>11. Follows(f, Len(cs), b, g, T)
  <2>1. f[{}] = b
    BY <1>10
  <2>2. ASSUME NEW x \in SUBSET U, x # {}, f[x \ {Max(x)}] \in T
        PROVE  f[x] = g[<<f[x \ {Max(x)}], Max(x)>>]
    <3>1. Max(x) \in U
      BY <1>8, <2>2
    <3>2. f[x] = Op(f[x \ {Max(x)}], cs[Max(x)])
      BY <1>10, <2>2
    <3> QED
      BY <1>5, <2>2, <3>1, <3>2
  <2> QED
    BY <2>1, <2>2 DEF Follows
<1> HIDE DEF Is
<1>12. PICK r \in [0 .. Len(cs) -> T] : RunOf(r, Len(cs), b, g, f[U])
  BY <1>1, <1>4, <1>6, <1>11, LoopRun
<1>13. \A k \in U : k - 1 \in 0 .. Len(cs)
  BY <1>1
<1>14. \A k \in U : r[k] = Op(r[k - 1], cs[k])
  BY <1>5, <1>12, <1>13 DEF RunOf
<1> QED
  BY <1>10, <1>12, <1>14 DEF RunOf, Removing, Op, b

LEMMA SeqOver ==
    ASSUME NEW S, NEW q \in Seq(Nat), Elems(q) \subseteq S
    PROVE  q \in Seq(S)
<1>1. Len(q) \in Nat /\ q = [i \in 1 .. Len(q) |-> q[i]] /\ \A i \in 1 .. Len(q) : q[i] \in S
  BY DEF Elems
<1> QED
  BY <1>1

LEMMA RemoveSatisfiedKeeps ==
    ASSUME NEW n \in Nat, NEW last, NEW m, NEW cs \in Seq(1 .. n), NoRepeats(cs),
           NEW satisfied, NEW T, NEW L, Good(m, n, last, Elems(cs), T, L)
    PROVE  LET s == removeSatisfied(m, cs, satisfied)
           IN  /\ Good(s.m, n, last, Elems(s.kept), T, L)
               /\ s.kept \in Seq(1 .. n) /\ NoRepeats(s.kept)
<1> DEFINE s == removeSatisfied(m, cs, satisfied)
           N == Len(cs)
<1>1. m \in Memory(n, last) /\ N \in Nat
  BY DEF Good
<1>2. PICK r : Removing(r, cs, m, satisfied, n, last)
  BY <1>1, RemoveSatisfiedRun
<1> DEFINE P(k) == /\ Good(r[k].m, n, last, Now(r[k].kept, cs, k), T, L)
                   /\ Kept(r[k].kept, cs, k)
           S == {k \in 0 .. N : P(k)}
<1>3. 0 \in S
  <2>1. r[0].m = m /\ r[0].kept = <<>>
    BY <1>1, <1>2, LoopBegins DEF Removing
  <2>2. Kept(<<>>, cs, 0) /\ Now(<<>>, cs, 0) = Elems(cs)
    BY LoopEnds
  <2>3. P(0)
    BY <2>1, <2>2
  <2> HIDE DEF P
  <2> QED
    BY <1>1, <2>3
<1>4. ASSUME NEW k \in 1 .. N, k - 1 \in S
      PROVE  k \in S
  <2> DEFINE x == cs[k]
             a == r[k - 1]
             C == Now(a.kept, cs, k - 1)
  <2>1. Good(a.m, n, last, C, T, L) /\ Kept(a.kept, cs, k - 1)
    BY <1>4
  <2>2. k - 1 \in 0 .. N /\ k \in 0 .. N /\ x \in 1 .. n
    BY <1>1
  <2>3. a \in LoopStates(n, last) /\ a.kept \in Seq(Nat)
    BY <1>2, <2>2 DEF Removing, LoopStates
  <2>4. x \in C /\ Now(Append(a.kept, x), cs, k) = C
    BY <2>3, NowStep
  <2>5. /\ Kept(a.kept, cs, k) /\ Kept(Append(a.kept, x), cs, k)
        /\ Now(a.kept, cs, k) = C \ {x}
    BY <2>1, KeptStep
  <2>6. r[k] = IF x \in satisfied THEN Remove_(a, x) ELSE Keep(a, x)
    BY <1>2 DEF Removing
  <2>8. x \in Live(a.m)
    <3>1. /\ x \in DOMAIN a.m.ca /\ a.m.ca[x].mark = CORE
      BY <2>1, <2>4 DEF Good, InLists
    <3> QED
      BY <3>1, MarksApart DEF Live
  <2> HIDE DEF x, a, C
  <2>7. /\ Remove_(a, x).m = removeClause(a.m, x) /\ Remove_(a, x).kept = a.kept
        /\ Keep(a, x).m = a.m /\ Keep(a, x).kept = Append(a.kept, x)
    BY <2>3 DEF LoopStates, Remove_, Keep
  <2>9. Good(removeClause(a.m, x), n, last, C \ {x}, T, L)
    BY <2>1, <2>8, RemoveGood
  <2>10. P(k)
    <3>1. CASE x \in satisfied
      BY <2>5, <2>6, <2>7, <2>9, <3>1
    <3>2. CASE x \notin satisfied
      BY <2>1, <2>4, <2>5, <2>6, <2>7, <3>2
    <3> QED
      BY <3>1, <3>2
  <2> HIDE DEF P
  <2> QED
    BY <2>2, <2>10
<1>5. N \in S
  <2> HIDE DEF S
  <2> QED
    BY <1>1, <1>3, <1>4, Counting
<1>6. r[N] = s
  BY <1>2 DEF Removing
<1>7. Good(s.m, n, last, Elems(s.kept), T, L) /\ Kept(s.kept, cs, N)
  <2>1. P(N)
    BY <1>5
  <2>2. Now(s.kept, cs, N) = Elems(s.kept)
    BY LoopEnds
  <2> HIDE DEF s
  <2> QED
    BY <1>6, <2>1, <2>2
<1> HIDE DEF s
<1>8. s.kept \in Seq(Nat) /\ NoRepeats(s.kept)
  BY <1>7 DEF Kept
<1>9. Elems(s.kept) \subseteq 1 .. n
  BY <1>7, MemoryTypes DEF Good, InLists
<1>10. s.kept \in Seq(1 .. n)
  BY <1>8, <1>9, SeqOver
<1> QED
  BY <1>7, <1>8, <1>10 DEF s

-----------------------------------------------------------------------------
(* safeRemoveSatisfied goes over tier 2 or the local list, X.              *)
ListGood(mark, m, n, last, C, T, L, X) ==
    IF mark = TIER2 THEN Good(m, n, last, C, X, L) ELSE Good(m, n, last, C, T, X)

LEMMA SafeStep ==
    ASSUME NEW n \in Nat, NEW last, NEW m, NEW C, NEW T, NEW L, NEW mark \in {TIER2, LOCAL_MARK},
           NEW X, ListGood(mark, m, n, last, C, T, L, X),
           NEW x \in X, NEW Y, X \ {x} \subseteq Y, Y \subseteq X
    PROVE  /\ m.ca[x].mark # mark => ListGood(mark, m, n, last, C, T, L, Y)
           /\ m.ca[x].mark = mark =>
                /\ x \in Live(m)
                /\ ListGood(mark, removeClause(m, x), n, last, C, T, L, Y)
<1> USE MarksApart
<1>1. ASSUME m.ca[x].mark # mark
      PROVE  ListGood(mark, m, n, last, C, T, L, Y)
  <2>1. CASE mark = TIER2
    BY <1>1, <2>1 DEF ListGood, Good, InLists
  <2>2. CASE mark = LOCAL_MARK
    BY <1>1, <2>2 DEF ListGood, Good, InLists
  <2> QED
    BY <2>1, <2>2
<1>2. ASSUME m.ca[x].mark = mark
      PROVE  x \in Live(m) /\ ListGood(mark, removeClause(m, x), n, last, C, T, L, Y)
  <2>1. x \in Live(m) /\ C \ {x} = C
    BY <1>2 DEF ListGood, Good, InLists, Live
  <2>2. CASE mark = TIER2
    <3>1. Good(m, n, last, C, X, L)
      BY <2>2 DEF ListGood
    <3>2. Good(removeClause(m, x), n, last, C \ {x}, Y, L)
      BY <2>1, <3>1, RemoveGood
    <3> QED
      BY <2>1, <2>2, <3>2 DEF ListGood
  <2>3. CASE mark = LOCAL_MARK
    <3>1. Good(m, n, last, C, T, X)
      BY <2>3 DEF ListGood
    <3>2. Good(removeClause(m, x), n, last, C \ {x}, T, Y)
      BY <2>1, <3>1, RemoveGood
    <3> QED
      BY <2>1, <2>3, <3>2 DEF ListGood
  <2> QED
    BY <2>1, <2>2, <2>3
<1> QED
  BY <1>1, <1>2

SafeRemoving(r, cs, m, mark, satisfied, n, last) ==
    /\ r \in [0 .. Len(cs) -> LoopStates(n, last)]
    /\ r[0] = Loop(m) /\ r[Len(cs)] = safeRemoveSatisfied(m, cs, mark, satisfied)
    /\ \A k \in 1 .. Len(cs) :
          r[k] = IF r[k - 1].m.ca[cs[k]].mark # mark THEN r[k - 1]
                 ELSE IF cs[k] \in satisfied THEN Remove_(r[k - 1], cs[k])
                 ELSE Keep(r[k - 1], cs[k])

LEMMA SafeRemoveSatisfiedRun ==
    ASSUME NEW n \in Nat, NEW last, NEW m \in Memory(n, last), NEW cs \in Seq(1 .. n),
           NEW mark, NEW satisfied
    PROVE  \E r : SafeRemoving(r, cs, m, mark, satisfied, n, last)
<1> DEFINE U == 1 .. Len(cs)
           T == LoopStates(n, last)
           b == Loop(m)
           Op(s, cr) == IF s.m.ca[cr].mark # mark THEN s
                        ELSE IF cr \in satisfied THEN Remove_(s, cr) ELSE Keep(s, cr)
           g == [p \in T \X U |-> Op(p[1], cs[p[2]])]
           Is(h) == h = [x \in SUBSET U |-> IF x = {} THEN b
                                            ELSE Op(h[x \ {Max(x)}], cs[Max(x)])]
<1>1. Len(cs) \in Nat /\ DOMAIN cs = U /\ \A k \in U : cs[k] \in 1 .. n
  OBVIOUS
<1>2. (\E f : Is(f)) => \E f : Is(f) /\ f[U] = safeRemoveSatisfied(m, cs, mark, satisfied)
  BY <1>1, ZenonT(60) DEF safeRemoveSatisfied, FoldLeft, MapThenFoldSet
<1>3. \A s \in T : \A k \in U : Op(s, cs[k]) \in T
  BY <1>1, LoopStep
<1> HIDE DEF Op
<1>4. g \in [T \X U -> T]
  BY <1>3
<1>5. \A s \in T : \A k \in U : g[<<s, k>>] = Op(s, cs[k])
  OBVIOUS
<1> HIDE DEF g
<1>6. b \in T
  BY LoopBegins
<1> HIDE DEF b
<1>7. PICK it \in [SUBSET U -> T] : LoopOf(it, Len(cs), b, g)
  BY <1>1, <1>4, <1>6, LoopExists
<1>8. \A x \in SUBSET U : x # {} => Max(x) \in x /\ x \ {Max(x)} \in SUBSET U
  BY <1>1, Greatest
<1>9. Is(it)
  BY <1>5, <1>7, <1>8 DEF LoopOf
<1>10. PICK f : Is(f) /\ f[U] = safeRemoveSatisfied(m, cs, mark, satisfied)
  <2> HIDE DEF Is
  <2> QED
    BY <1>2, <1>9
<1>11. Follows(f, Len(cs), b, g, T)
  <2>1. f[{}] = b
    BY <1>10
  <2>2. ASSUME NEW x \in SUBSET U, x # {}, f[x \ {Max(x)}] \in T
        PROVE  f[x] = g[<<f[x \ {Max(x)}], Max(x)>>]
    <3>1. Max(x) \in U
      BY <1>8, <2>2
    <3>2. f[x] = Op(f[x \ {Max(x)}], cs[Max(x)])
      BY <1>10, <2>2
    <3> QED
      BY <1>5, <2>2, <3>1, <3>2
  <2> QED
    BY <2>1, <2>2 DEF Follows
<1> HIDE DEF Is
<1>12. PICK r \in [0 .. Len(cs) -> T] : RunOf(r, Len(cs), b, g, f[U])
  BY <1>1, <1>4, <1>6, <1>11, LoopRun
<1>13. \A k \in U : k - 1 \in 0 .. Len(cs)
  BY <1>1
<1>14. \A k \in U : r[k] = Op(r[k - 1], cs[k])
  BY <1>5, <1>12, <1>13 DEF RunOf
<1> QED
  BY <1>10, <1>12, <1>14 DEF RunOf, SafeRemoving, Op, b

LEMMA SafeRemoveSatisfiedKeeps ==
    ASSUME NEW n \in Nat, NEW last, NEW m, NEW cs \in Seq(1 .. n),
           NEW satisfied, NEW C, NEW T, NEW L, NEW mark \in {TIER2, LOCAL_MARK},
           ListGood(mark, m, n, last, C, T, L, Elems(cs))
    PROVE  LET s == safeRemoveSatisfied(m, cs, mark, satisfied)
           IN  /\ ListGood(mark, s.m, n, last, C, T, L, Elems(s.kept))
               /\ s.kept \in Seq(1 .. n)
               /\ NoRepeats(cs) => NoRepeats(s.kept)
<1> DEFINE s == safeRemoveSatisfied(m, cs, mark, satisfied)
           N == Len(cs)
           G(m_, X) == ListGood(mark, m_, n, last, C, T, L, X)
<1>1. m \in Memory(n, last) /\ N \in Nat
  BY DEF ListGood, Good
<1>2. PICK r : SafeRemoving(r, cs, m, mark, satisfied, n, last)
  BY <1>1, SafeRemoveSatisfiedRun
<1> DEFINE P(k) == /\ G(r[k].m, Now(r[k].kept, cs, k))
                   /\ NoRepeats(cs) => Kept(r[k].kept, cs, k)
           S == {k \in 0 .. N : P(k)}
<1>3. 0 \in S
  <2>1. r[0].m = m /\ r[0].kept = <<>>
    BY <1>1, <1>2, LoopBegins DEF SafeRemoving
  <2>2. Kept(<<>>, cs, 0) /\ Now(<<>>, cs, 0) = Elems(cs)
    BY LoopEnds
  <2>3. P(0)
    BY <2>1, <2>2
  <2> HIDE DEF P
  <2> QED
    BY <1>1, <2>3
<1>4. ASSUME NEW k \in 1 .. N, k - 1 \in S
      PROVE  k \in S
  <2> DEFINE x == cs[k]
             a == r[k - 1]
             X == Now(a.kept, cs, k - 1)
  <2>1. G(a.m, X) /\ (NoRepeats(cs) => Kept(a.kept, cs, k - 1))
    BY <1>4
  <2>2. k - 1 \in 0 .. N /\ k \in 0 .. N /\ x \in 1 .. n
    BY <1>1
  <2>3. a \in LoopStates(n, last) /\ a.kept \in Seq(Nat)
    BY <1>2, <2>2 DEF SafeRemoving, LoopStates
  <2>4. /\ x \in X /\ Now(Append(a.kept, x), cs, k) = X
        /\ X \ {x} \subseteq Now(a.kept, cs, k) /\ Now(a.kept, cs, k) \subseteq X
    BY <2>3, NowStep
  <2>5. NoRepeats(cs) => Kept(a.kept, cs, k) /\ Kept(Append(a.kept, x), cs, k)
    BY <2>1, KeptStep
  <2>6. r[k] = IF a.m.ca[x].mark # mark THEN a
               ELSE IF x \in satisfied THEN Remove_(a, x) ELSE Keep(a, x)
    BY <1>2 DEF SafeRemoving
  <2> HIDE DEF x, a, X
  <2>7. /\ Remove_(a, x).m = removeClause(a.m, x) /\ Remove_(a, x).kept = a.kept
        /\ Keep(a, x).m = a.m /\ Keep(a, x).kept = Append(a.kept, x)
    BY <2>3 DEF LoopStates, Remove_, Keep
  <2>8. /\ a.m.ca[x].mark # mark => G(a.m, Now(a.kept, cs, k))
        /\ a.m.ca[x].mark = mark => G(removeClause(a.m, x), Now(a.kept, cs, k))
    BY <2>1, <2>4, SafeStep
  <2> HIDE DEF G
  <2>9. P(k)
    <3>1. CASE a.m.ca[x].mark # mark
      BY <2>5, <2>6, <2>8, <3>1
    <3>2. CASE a.m.ca[x].mark = mark /\ x \in satisfied
      BY <2>5, <2>6, <2>7, <2>8, <3>2
    <3>3. CASE a.m.ca[x].mark = mark /\ x \notin satisfied
      BY <2>1, <2>4, <2>5, <2>6, <2>7, <3>3
    <3> QED
      BY <3>1, <3>2, <3>3
  <2> HIDE DEF P
  <2> QED
    BY <2>2, <2>9
<1>5. N \in S
  <2> HIDE DEF S
  <2> QED
    BY <1>1, <1>3, <1>4, Counting
<1>6. r[N] = s /\ s \in LoopStates(n, last)
  <2>1. N \in 0 .. N
    BY <1>1
  <2> QED
    BY <1>2, <2>1 DEF SafeRemoving
<1>7. G(s.m, Elems(s.kept)) /\ (NoRepeats(cs) => Kept(s.kept, cs, N))
  <2>1. P(N)
    BY <1>5
  <2>2. Now(s.kept, cs, N) = Elems(s.kept)
    BY LoopEnds
  <2> HIDE DEF s, G
  <2> QED
    BY <1>6, <2>1, <2>2
<1> HIDE DEF s
<1>8. s.kept \in Seq(Nat) /\ (NoRepeats(cs) => NoRepeats(s.kept))
  BY <1>6, <1>7 DEF Kept, LoopStates
<1>9. Elems(s.kept) \subseteq 1 .. n
  BY <1>7, MemoryTypes DEF ListGood, Good, InLists
<1>10. s.kept \in Seq(1 .. n)
  BY <1>8, <1>9, SeqOver
<1> QED
  BY <1>7, <1>8, <1>10 DEF s

-----------------------------------------------------------------------------
(* reduceDB_Tier2 takes clauses off tier 2 and appends them to the local   *)
(* list.                                                                   *)
TierStates(n, last) == [m : Memory(n, last), kept : Seq(Nat), local : Seq(Nat)]

Lowered(m, x) == [m EXCEPT !.ca[x] = [@ EXCEPT !.mark = LOCAL_MARK, !.touched = 0]]

LEMMA LoweredType ==
    ASSUME NEW n \in Nat, NEW last, NEW m \in Memory(n, last), NEW x \in 1 .. n
    PROVE  /\ Lowered(m, x) \in Memory(n, last)
           /\ [m.ca[x] EXCEPT !.mark = LOCAL_MARK, !.touched = 0] \in HeaderType(last)
           /\ Lowered(m, x).ca[x].mark = LOCAL_MARK
<1>1. m.ca \in [1 .. n -> HeaderType(last)]
  BY DEF Memory
<1> DEFINE h == [m.ca[x] EXCEPT !.mark = LOCAL_MARK, !.touched = 0]
<1>2. h \in HeaderType(last) /\ h.mark = LOCAL_MARK
  BY <1>1 DEF HeaderType, Marks
<1> HIDE DEF h
<1>3. Lowered(m, x) = [m EXCEPT !.ca = [@ EXCEPT ![x] = h]]
  BY DEF Lowered, h, Memory
<1>4. [m.ca EXCEPT ![x] = h] \in [1 .. n -> HeaderType(last)] /\ [m.ca EXCEPT ![x] = h][x] = h
  BY <1>1, <1>2
<1>5. Lowered(m, x) \in Memory(n, last) /\ Lowered(m, x).ca[x] = h
  BY <1>3, <1>4 DEF Memory
<1> QED
  BY <1>2, <1>5 DEF h

LEMMA DemotedStep ==
    ASSUME NEW n \in Nat, NEW last, NEW s \in TierStates(n, last), NEW x \in 1 .. n
    PROVE  /\ Demoted(s, x) \in TierStates(n, last)
           /\ \/ /\ Demoted(s, x) = s /\ s.m.ca[x].mark # TIER2
              \/ /\ Demoted(s, x).m = Lowered(s.m, x) /\ Demoted(s, x).kept = s.kept
                 /\ Demoted(s, x).local = Append(s.local, x)
                 /\ s.m.ca[x].mark = TIER2
              \/ /\ Demoted(s, x).m = s.m /\ Demoted(s, x).kept = Append(s.kept, x)
                 /\ Demoted(s, x).local = s.local
<1>1. s.m \in Memory(n, last) /\ s.kept \in Seq(Nat) /\ s.local \in Seq(Nat)
  BY DEF TierStates
<1>2. /\ Lowered(s.m, x) \in Memory(n, last)
      /\ Append(s.kept, x) \in Seq(Nat) /\ Append(s.local, x) \in Seq(Nat)
  <2>1. Lowered(s.m, x) \in Memory(n, last)
    BY <1>1, LoweredType
  <2>2. x \in Nat
    OBVIOUS
  <2> QED
    BY <1>1, <2>1, <2>2
<1> DEFINE lowered == [s EXCEPT !.m.ca[x].mark = LOCAL_MARK, !.m.ca[x].touched = 0,
                                !.local = Append(@, x)]
           kept == Keep(s, x)
<1>3. /\ lowered.m = Lowered(s.m, x) /\ lowered.kept = s.kept
      /\ lowered.local = Append(s.local, x) /\ lowered \in TierStates(n, last)
  <2>1. s = [m |-> s.m, kept |-> s.kept, local |-> s.local]
    BY DEF TierStates
  <2> DEFINE ca == s.m.ca
             h1 == [ca[x] EXCEPT !.mark = LOCAL_MARK]
             h2 == [h1 EXCEPT !.touched = 0]
             m1 == [s.m EXCEPT !.ca = [ca EXCEPT ![x] = h1]]
             m2 == [m1 EXCEPT !.ca = [m1.ca EXCEPT ![x] = h2]]
  <2>3. ca \in [1 .. n -> HeaderType(last)] /\ m1.ca = [ca EXCEPT ![x] = h1] /\ m1.ca[x] = h1
    BY <1>1 DEF Memory
  <2>4. lowered = [m |-> m2, kept |-> s.kept, local |-> Append(s.local, x)]
    <3> DEFINE s1 == [s EXCEPT !.m.ca[x].mark = LOCAL_MARK]
               s2 == [s1 EXCEPT !.m.ca[x].touched = 0]
    <3>1. lowered = [s2 EXCEPT !.local = Append(@, x)]
      OBVIOUS
    <3>2. s1 = [s EXCEPT !.m = m1]
      OBVIOUS
    <3>3. s1 = [m |-> m1, kept |-> s.kept, local |-> s.local]
      BY <2>1, <3>2
    <3> HIDE DEF s1, m1, h1
    <3>4. s2 = [s1 EXCEPT !.m = m2]
      BY <2>3, <3>3
    <3> HIDE DEF s2, m2, lowered
    <3> QED
      BY <3>1, <3>3, <3>4
  <2>5. m2 = Lowered(s.m, x)
    <3>1. m2 = [s.m EXCEPT !.ca = [[ca EXCEPT ![x] = h1] EXCEPT ![x] = h2]]
      BY <1>1, <2>3 DEF Memory
    <3>2. [[ca EXCEPT ![x] = h1] EXCEPT ![x] = h2] = [ca EXCEPT ![x] = h2]
      BY <2>3
    <3>3. h2 = [ca[x] EXCEPT !.mark = LOCAL_MARK, !.touched = 0]
      OBVIOUS
    <3> QED
      BY <3>1, <3>2, <3>3 DEF Lowered
  <2> HIDE DEF m2
  <2>2. lowered = [m |-> Lowered(s.m, x), kept |-> s.kept, local |-> Append(s.local, x)]
    BY <2>4, <2>5
  <2> HIDE DEF lowered
  <2> QED
    BY <1>1, <1>2, <2>2 DEF TierStates
<1>4. /\ kept.m = s.m /\ kept.kept = Append(s.kept, x) /\ kept.local = s.local
      /\ kept \in TierStates(n, last)
  BY <1>1, <1>2 DEF TierStates, Keep
<1>5. \/ Demoted(s, x) = s /\ s.m.ca[x].mark # TIER2
      \/ Demoted(s, x) = lowered /\ s.m.ca[x].mark = TIER2
      \/ Demoted(s, x) = kept
  BY DEF Demoted
<1> HIDE DEF lowered, kept
<1> QED
  BY <1>3, <1>4, <1>5

DemotedAll(m, tier2, local) ==
    FoldLeft(Demoted, [m |-> m, kept |-> <<>>, local |-> local], tier2)

Demoting(r, cs, m, local, n, last) ==
    /\ r \in [0 .. Len(cs) -> TierStates(n, last)]
    /\ r[0] = [m |-> m, kept |-> <<>>, local |-> local]
    /\ r[Len(cs)] = DemotedAll(m, cs, local)
    /\ \A k \in 1 .. Len(cs) : r[k] = Demoted(r[k - 1], cs[k])

LEMMA DemotedRun ==
    ASSUME NEW n \in Nat, NEW last, NEW m \in Memory(n, last), NEW cs \in Seq(1 .. n),
           NEW local \in Seq(Nat)
    PROVE  \E r : Demoting(r, cs, m, local, n, last)
<1> DEFINE U == 1 .. Len(cs)
           T == TierStates(n, last)
           b == [m |-> m, kept |-> <<>>, local |-> local]
           g == [p \in T \X U |-> Demoted(p[1], cs[p[2]])]
           Is(h) == h = [x \in SUBSET U |-> IF x = {} THEN b
                                            ELSE Demoted(h[x \ {Max(x)}], cs[Max(x)])]
<1>1. Len(cs) \in Nat /\ DOMAIN cs = U /\ \A k \in U : cs[k] \in 1 .. n
  OBVIOUS
<1>2. (\E f : Is(f)) => \E f : Is(f) /\ f[U] = DemotedAll(m, cs, local)
  BY <1>1 DEF DemotedAll, FoldLeft, MapThenFoldSet
<1>3. \A s \in T : \A k \in U : Demoted(s, cs[k]) \in T
  BY <1>1, DemotedStep
<1>4. g \in [T \X U -> T]
  BY <1>3
<1>5. \A s \in T : \A k \in U : g[<<s, k>>] = Demoted(s, cs[k])
  OBVIOUS
<1> HIDE DEF g
<1>6. b \in T
  BY DEF TierStates
<1> HIDE DEF b
<1>7. PICK it \in [SUBSET U -> T] : LoopOf(it, Len(cs), b, g)
  BY <1>1, <1>4, <1>6, LoopExists
<1>8. \A x \in SUBSET U : x # {} => Max(x) \in x /\ x \ {Max(x)} \in SUBSET U
  BY <1>1, Greatest
<1>9. Is(it)
  BY <1>5, <1>7, <1>8 DEF LoopOf
<1>10. PICK f : Is(f) /\ f[U] = DemotedAll(m, cs, local)
  <2> HIDE DEF Is
  <2> QED
    BY <1>2, <1>9
<1>11. Follows(f, Len(cs), b, g, T)
  <2>1. f[{}] = b
    BY <1>10
  <2>2. ASSUME NEW x \in SUBSET U, x # {}, f[x \ {Max(x)}] \in T
        PROVE  f[x] = g[<<f[x \ {Max(x)}], Max(x)>>]
    <3>1. Max(x) \in U
      BY <1>8, <2>2
    <3>2. f[x] = Demoted(f[x \ {Max(x)}], cs[Max(x)])
      BY <1>10, <2>2
    <3> QED
      BY <1>5, <2>2, <3>1, <3>2
  <2> QED
    BY <2>1, <2>2 DEF Follows
<1> HIDE DEF Is
<1>12. PICK r \in [0 .. Len(cs) -> T] : RunOf(r, Len(cs), b, g, f[U])
  BY <1>1, <1>4, <1>6, <1>11, LoopRun
<1>13. \A k \in U : k - 1 \in 0 .. Len(cs)
  BY <1>1
<1>14. \A k \in U : r[k] = Demoted(r[k - 1], cs[k])
  BY <1>5, <1>12, <1>13 DEF RunOf
<1> QED
  BY <1>10, <1>12, <1>14 DEF RunOf, Demoting, b

LEMMA LoweredGood ==
    ASSUME NEW n \in Nat, NEW last, NEW m, NEW C, NEW T, NEW L, Good(m, n, last, C, T, L),
           NEW x \in T, m.ca[x].mark = TIER2
    PROVE  Good(Lowered(m, x), n, last, C, T \ {x}, L \cup {x})
<1> DEFINE h == [m.ca[x] EXCEPT !.mark = LOCAL_MARK, !.touched = 0]
<1>1. m \in Memory(n, last) /\ x \in 1 .. n /\ x \in Live(m) /\ x \notin C
  BY MarksApart, MemoryTypes DEF Good, InLists
<1>2. h \in HeaderType(last) /\ h.name = m.ca[x].name /\ h.mark = LOCAL_MARK
  <2>1. m.ca[x] \in HeaderType(last)
    BY <1>1, MemoryTypes
  <2> QED
    BY <2>1, MarksApart DEF HeaderType, Marks
<1>3. Lowered(m, x) = [m EXCEPT !.ca[x] = h]
  BY DEF Lowered
<1> HIDE DEF h
<1>4. Good([m EXCEPT !.ca[x] = h], n, last, C, T \ {x}, L \cup {x})
  BY <1>1, <1>2, MarksApart, HeaderChange
<1> QED
  BY <1>3, <1>4

LEMMA DemotedKeeps ==
    ASSUME NEW n \in Nat, NEW last, NEW m, NEW cs \in Seq(1 .. n), NoRepeats(cs),
           NEW C, NEW local \in Seq(1 .. n), Good(m, n, last, C, Elems(cs), Elems(local))
    PROVE  LET s == DemotedAll(m, cs, local)
           IN  /\ Good(s.m, n, last, C, Elems(s.kept), Elems(s.local))
               /\ s.kept \in Seq(1 .. n) /\ NoRepeats(s.kept) /\ s.local \in Seq(1 .. n)
<1> DEFINE s == DemotedAll(m, cs, local)
           N == Len(cs)
<1>0. local \in Seq(Nat)
  BY SeqOver DEF Elems
<1>1. m \in Memory(n, last) /\ N \in Nat
  BY DEF Good
<1>2. PICK r : Demoting(r, cs, m, local, n, last)
  BY <1>0, <1>1, DemotedRun
<1> DEFINE P(k) == /\ Good(r[k].m, n, last, C, Now(r[k].kept, cs, k), Elems(r[k].local))
                   /\ Kept(r[k].kept, cs, k)
           S == {k \in 0 .. N : P(k)}
<1>3. 0 \in S
  <2>1. r[0].m = m /\ r[0].kept = <<>> /\ r[0].local = local
    BY <1>2 DEF Demoting
  <2>2. Kept(<<>>, cs, 0) /\ Now(<<>>, cs, 0) = Elems(cs)
    BY LoopEnds
  <2>3. P(0)
    BY <2>1, <2>2
  <2> HIDE DEF P
  <2> QED
    BY <1>1, <2>3
<1>4. ASSUME NEW k \in 1 .. N, k - 1 \in S
      PROVE  k \in S
  <2> DEFINE x == cs[k]
             a == r[k - 1]
             X == Now(a.kept, cs, k - 1)
  <2>1. Good(a.m, n, last, C, X, Elems(a.local)) /\ Kept(a.kept, cs, k - 1)
    BY <1>4
  <2>2. k - 1 \in 0 .. N /\ k \in 0 .. N /\ x \in 1 .. n
    BY <1>1
  <2>3. a \in TierStates(n, last) /\ a.kept \in Seq(Nat) /\ a.local \in Seq(Nat)
    BY <1>2, <2>2 DEF Demoting, TierStates
  <2>4. /\ x \in X /\ Now(Append(a.kept, x), cs, k) = X
    BY <2>3, NowStep
  <2>5. /\ Kept(a.kept, cs, k) /\ Kept(Append(a.kept, x), cs, k)
        /\ Now(a.kept, cs, k) = X \ {x}
    BY <2>1, KeptStep
  <2>6. r[k] = Demoted(a, x)
    BY <1>2 DEF Demoting
  <2> HIDE DEF x, a, X
  <2>7. Elems(Append(a.local, x)) = Elems(a.local) \cup {x}
    <3>1. x \in Nat
      BY <2>2
    <3>2. a.local \in Seq(Nat)
      BY <2>3
    <3> QED
      BY ONLY <3>1, <3>2, AppendNat
  <2>8. \/ /\ Demoted(a, x) = a /\ a.m.ca[x].mark # TIER2
        \/ /\ Demoted(a, x).m = Lowered(a.m, x) /\ Demoted(a, x).kept = a.kept
           /\ Demoted(a, x).local = Append(a.local, x)
           /\ a.m.ca[x].mark = TIER2
        \/ /\ Demoted(a, x).m = a.m /\ Demoted(a, x).kept = Append(a.kept, x)
           /\ Demoted(a, x).local = a.local
    BY <2>2, <2>3, DemotedStep
  <2>9. P(k)
    <3>1. CASE Demoted(a, x) = a /\ a.m.ca[x].mark # TIER2
      <4>1. Good(a.m, n, last, C, X \ {x}, Elems(a.local))
        BY <2>1, <3>1 DEF Good, InLists
      <4> QED
        BY <2>5, <2>6, <3>1, <4>1
    <3>2. CASE /\ Demoted(a, x).m = Lowered(a.m, x) /\ Demoted(a, x).kept = a.kept
               /\ Demoted(a, x).local = Append(a.local, x)
               /\ a.m.ca[x].mark = TIER2
      <4>1. Good(Lowered(a.m, x), n, last, C, X \ {x}, Elems(a.local) \cup {x})
        BY <2>1, <2>4, <3>2, LoweredGood
      <4> QED
        BY <2>5, <2>6, <2>7, <3>2, <4>1
    <3>3. CASE /\ Demoted(a, x).m = a.m /\ Demoted(a, x).kept = Append(a.kept, x)
               /\ Demoted(a, x).local = a.local
      BY <2>1, <2>4, <2>5, <2>6, <3>3
    <3> QED
      BY <2>8, <3>1, <3>2, <3>3
  <2> HIDE DEF P
  <2> QED
    BY <2>2, <2>9
<1>5. N \in S
  <2> HIDE DEF S
  <2> QED
    BY <1>1, <1>3, <1>4, Counting
<1>6. r[N] = s /\ s \in TierStates(n, last)
  <2>1. N \in 0 .. N
    BY <1>1
  <2> QED
    BY <1>2, <2>1 DEF Demoting
<1>7. Good(s.m, n, last, C, Elems(s.kept), Elems(s.local)) /\ Kept(s.kept, cs, N)
  <2>1. P(N)
    BY <1>5
  <2>2. Now(s.kept, cs, N) = Elems(s.kept)
    BY LoopEnds
  <2> HIDE DEF s
  <2> QED
    BY <1>6, <2>1, <2>2
<1> HIDE DEF s
<1>8. s.kept \in Seq(Nat) /\ NoRepeats(s.kept) /\ s.local \in Seq(Nat)
  BY <1>6, <1>7 DEF Kept, TierStates
<1>9. Elems(s.kept) \subseteq 1 .. n /\ Elems(s.local) \subseteq 1 .. n
  BY <1>7, MemoryTypes DEF Good, InLists
<1>10. s.kept \in Seq(1 .. n) /\ s.local \in Seq(1 .. n)
  BY <1>8, <1>9, SeqOver
<1> QED
  BY <1>7, <1>8, <1>10 DEF s

-----------------------------------------------------------------------------
(* reduceDB goes over the local list in some order.                        *)
LocalStates(n, last) == [m : Memory(n, last), kept : Seq(Nat), i : Nat, limit : Nat]

Unprotected(m, x) == [m EXCEPT !.ca[x] = [@ EXCEPT !.removable = TRUE]]

LEMMA UnprotectedType ==
    ASSUME NEW n \in Nat, NEW last, NEW m \in Memory(n, last), NEW x \in 1 .. n
    PROVE  Unprotected(m, x) \in Memory(n, last)
<1>1. m.ca \in [1 .. n -> HeaderType(last)]
  BY DEF Memory
<1> DEFINE h == [m.ca[x] EXCEPT !.removable = TRUE]
<1>2. h \in HeaderType(last)
  BY <1>1 DEF HeaderType
<1> HIDE DEF h
<1>3. Unprotected(m, x) = [m EXCEPT !.ca = [@ EXCEPT ![x] = h]]
  BY DEF Unprotected, h, Memory
<1>4. [m.ca EXCEPT ![x] = h] \in [1 .. n -> HeaderType(last)]
  BY <1>1, <1>2
<1> QED
  BY <1>3, <1>4 DEF Memory

LEMMA ReducedStep ==
    ASSUME NEW n \in Nat, NEW last, NEW s \in LocalStates(n, last), NEW x \in 1 .. n
    PROVE  /\ Reduced(s, x) \in LocalStates(n, last)
           /\ \/ /\ Reduced(s, x).m = s.m /\ Reduced(s, x).kept = s.kept
                 /\ s.m.ca[x].mark # LOCAL_MARK
              \/ /\ Reduced(s, x).m = removeClause(s.m, x) /\ Reduced(s, x).kept = s.kept
                 /\ s.m.ca[x].mark = LOCAL_MARK
              \/ /\ Reduced(s, x).m = Unprotected(s.m, x)
                 /\ Reduced(s, x).kept = Append(s.kept, x)
                 /\ s.m.ca[x].mark = LOCAL_MARK
<1>1. s.m \in Memory(n, last) /\ s.kept \in Seq(Nat) /\ s.i \in Nat /\ s.limit \in Nat
  BY DEF LocalStates
<1>2. removeClause(s.m, x) \in Memory(n, last) /\ Unprotected(s.m, x) \in Memory(n, last)
  BY <1>1, RemoveClause, UnprotectedType
<1>3. Append(s.kept, x) \in Seq(Nat) /\ s.i + 1 \in Nat
  <2>1. x \in Nat
    OBVIOUS
  <2> QED
    BY <1>1, <2>1
<1> DEFINE t == [s EXCEPT !.i = @ + 1]
           gone == Remove_(t, x)
           more == s.limit + IF s.m.ca[x].removable THEN 0 ELSE 1
           kept == Keep([t EXCEPT !.limit = @ + IF s.m.ca[x].removable THEN 0 ELSE 1,
                                  !.m.ca[x].removable = TRUE], x)
<1>4. t = [m |-> s.m, kept |-> s.kept, i |-> s.i + 1, limit |-> s.limit]
  <2>1. s = [m |-> s.m, kept |-> s.kept, i |-> s.i, limit |-> s.limit]
    BY DEF LocalStates
  <2> QED
    BY ONLY <2>1, SMTT(30)
<1>5. more \in Nat
  BY <1>1
<1>6. gone = [m |-> removeClause(s.m, x), kept |-> s.kept, i |-> s.i + 1, limit |-> s.limit]
  <2> HIDE DEF t
  <2> QED
    BY <1>4 DEF Remove_
<1>7. kept = [m |-> Unprotected(s.m, x), kept |-> Append(s.kept, x), i |-> s.i + 1,
              limit |-> more]
  <2> DEFINE t1 == [t EXCEPT !.limit = @ + IF s.m.ca[x].removable THEN 0 ELSE 1]
             t2 == [t1 EXCEPT !.m.ca[x].removable = TRUE]
  <2>1. kept = Keep(t2, x)
    OBVIOUS
  <2>2. t1 = [m |-> s.m, kept |-> s.kept, i |-> s.i + 1, limit |-> more]
    <3> HIDE DEF t
    <3> QED
      BY <1>4
  <2> HIDE DEF t1, kept, more
  <2>3. t2 = [m |-> Unprotected(s.m, x), kept |-> s.kept, i |-> s.i + 1, limit |-> more]
    <3>1. t2 = [t1 EXCEPT !.m = Unprotected(t1.m, x)]
      BY DEF Unprotected
    <3> HIDE DEF t2
    <3> QED
      BY <2>2, <3>1
  <2> HIDE DEF t2
  <2> QED
    BY <2>1, <2>3 DEF Keep
<1>8. \/ Reduced(s, x) = t /\ s.m.ca[x].mark # LOCAL_MARK
      \/ Reduced(s, x) = gone /\ s.m.ca[x].mark = LOCAL_MARK
      \/ Reduced(s, x) = kept /\ s.m.ca[x].mark = LOCAL_MARK
  BY DEF Reduced
<1> HIDE DEF t, gone, kept, more
<1>9. t \in LocalStates(n, last) /\ gone \in LocalStates(n, last) /\ kept \in LocalStates(n, last)
  BY <1>1, <1>2, <1>3, <1>4, <1>5, <1>6, <1>7 DEF LocalStates
<1>10. /\ t.m = s.m /\ t.kept = s.kept
       /\ gone.m = removeClause(s.m, x) /\ gone.kept = s.kept
       /\ kept.m = Unprotected(s.m, x) /\ kept.kept = Append(s.kept, x)
  BY <1>4, <1>6, <1>7
<1> QED
  BY ONLY <1>8, <1>9, <1>10

ReducedAll(m, cs) ==
    FoldLeft(Reduced, [m |-> m, kept |-> <<>>, i |-> 0, limit |-> Len(cs) \div 2], cs)

Reducing(r, cs, m, n, last) ==
    /\ r \in [0 .. Len(cs) -> LocalStates(n, last)]
    /\ r[0].m = m /\ r[0].kept = <<>> /\ r[Len(cs)] = ReducedAll(m, cs)
    /\ \A k \in 1 .. Len(cs) : r[k] = Reduced(r[k - 1], cs[k])

LEMMA ReducedRun ==
    ASSUME NEW n \in Nat, NEW last, NEW m \in Memory(n, last), NEW cs \in Seq(1 .. n)
    PROVE  \E r : Reducing(r, cs, m, n, last)
<1> DEFINE U == 1 .. Len(cs)
           T == LocalStates(n, last)
           b == [m |-> m, kept |-> <<>>, i |-> 0, limit |-> Len(cs) \div 2]
           g == [p \in T \X U |-> Reduced(p[1], cs[p[2]])]
           Is(h) == h = [x \in SUBSET U |-> IF x = {} THEN b
                                            ELSE Reduced(h[x \ {Max(x)}], cs[Max(x)])]
<1>1. Len(cs) \in Nat /\ DOMAIN cs = U /\ \A k \in U : cs[k] \in 1 .. n
  OBVIOUS
<1>2. (\E f : Is(f)) => \E f : Is(f) /\ f[U] = ReducedAll(m, cs)
  BY <1>1, ZenonT(60) DEF ReducedAll, FoldLeft, MapThenFoldSet
<1>3. \A s \in T : \A k \in U : Reduced(s, cs[k]) \in T
  BY <1>1, ReducedStep
<1>4. g \in [T \X U -> T]
  BY <1>3
<1>5. \A s \in T : \A k \in U : g[<<s, k>>] = Reduced(s, cs[k])
  OBVIOUS
<1> HIDE DEF g
<1>6. b \in T /\ b.m = m /\ b.kept = <<>>
  <2>1. Len(cs) \div 2 \in Nat
    BY <1>1, DivMod
  <2> QED
    BY <2>1 DEF LocalStates
<1> HIDE DEF b
<1>7. PICK it \in [SUBSET U -> T] : LoopOf(it, Len(cs), b, g)
  BY <1>1, <1>4, <1>6, LoopExists
<1>8. \A x \in SUBSET U : x # {} => Max(x) \in x /\ x \ {Max(x)} \in SUBSET U
  BY <1>1, Greatest
<1>9. Is(it)
  BY <1>5, <1>7, <1>8 DEF LoopOf
<1>10. PICK f : Is(f) /\ f[U] = ReducedAll(m, cs)
  <2> HIDE DEF Is
  <2> QED
    BY <1>2, <1>9
<1>11. Follows(f, Len(cs), b, g, T)
  <2>1. f[{}] = b
    BY <1>10
  <2>2. ASSUME NEW x \in SUBSET U, x # {}, f[x \ {Max(x)}] \in T
        PROVE  f[x] = g[<<f[x \ {Max(x)}], Max(x)>>]
    <3>1. Max(x) \in U
      BY <1>8, <2>2
    <3>2. f[x] = Reduced(f[x \ {Max(x)}], cs[Max(x)])
      BY <1>10, <2>2
    <3> QED
      BY <1>5, <2>2, <3>1, <3>2
  <2> QED
    BY <2>1, <2>2 DEF Follows
<1> HIDE DEF Is
<1>12. PICK r \in [0 .. Len(cs) -> T] : RunOf(r, Len(cs), b, g, f[U])
  BY <1>1, <1>4, <1>6, <1>11, LoopRun
<1>13. \A k \in U : k - 1 \in 0 .. Len(cs)
  BY <1>1
<1>14. \A k \in U : r[k] = Reduced(r[k - 1], cs[k])
  BY <1>5, <1>12, <1>13 DEF RunOf
<1> QED
  BY <1>6, <1>10, <1>12, <1>14 DEF RunOf, Reducing

LEMMA UnprotectedGood ==
    ASSUME NEW n \in Nat, NEW last, NEW m, NEW C, NEW T, NEW L, Good(m, n, last, C, T, L),
           NEW x \in L, m.ca[x].mark = LOCAL_MARK
    PROVE  Good(Unprotected(m, x), n, last, C, T, L)
<1> DEFINE h == [m.ca[x] EXCEPT !.removable = TRUE]
<1>1. m \in Memory(n, last) /\ x \in 1 .. n /\ x \in Live(m) /\ x \notin C /\ x \notin T
  BY MarksApart, MemoryTypes DEF Good, InLists
<1>2. h \in HeaderType(last) /\ h.name = m.ca[x].name /\ h.mark = LOCAL_MARK
  <2>1. m.ca[x] \in HeaderType(last)
    BY <1>1, MemoryTypes
  <2> QED
    BY <2>1, MarksApart DEF HeaderType, Marks
<1>3. Unprotected(m, x) = [m EXCEPT !.ca[x] = h]
  BY DEF Unprotected
<1> HIDE DEF h
<1>4. Good([m EXCEPT !.ca[x] = h], n, last, C, T, L)
  BY <1>1, <1>2, MarksApart, HeaderChange
<1> QED
  BY <1>3, <1>4

LEMMA ReducedKeeps ==
    ASSUME NEW n \in Nat, NEW last, NEW m, NEW cs \in Seq(1 .. n),
           NEW C, NEW T, Good(m, n, last, C, T, Elems(cs))
    PROVE  LET s == ReducedAll(m, cs)
           IN  Good(s.m, n, last, C, T, Elems(s.kept)) /\ s.kept \in Seq(1 .. n)
<1> DEFINE s == ReducedAll(m, cs)
           N == Len(cs)
<1>1. m \in Memory(n, last) /\ N \in Nat
  BY DEF Good
<1>2. PICK r : Reducing(r, cs, m, n, last)
  BY <1>1, ReducedRun
<1> DEFINE P(k) == Good(r[k].m, n, last, C, T, Now(r[k].kept, cs, k))
           S == {k \in 0 .. N : P(k)}
<1>3. 0 \in S
  <2>1. r[0].m = m /\ r[0].kept = <<>>
    BY <1>2 DEF Reducing
  <2>2. Now(<<>>, cs, 0) = Elems(cs)
    BY LoopEnds
  <2>3. P(0)
    BY <2>1, <2>2
  <2> HIDE DEF P
  <2> QED
    BY <1>1, <2>3
<1>4. ASSUME NEW k \in 1 .. N, k - 1 \in S
      PROVE  k \in S
  <2> DEFINE x == cs[k]
             a == r[k - 1]
             X == Now(a.kept, cs, k - 1)
  <2>1. Good(a.m, n, last, C, T, X)
    BY <1>4
  <2>2. k - 1 \in 0 .. N /\ k \in 0 .. N /\ x \in 1 .. n
    BY <1>1
  <2>3. a \in LocalStates(n, last) /\ a.kept \in Seq(Nat)
    BY <1>2, <2>2 DEF Reducing, LocalStates
  <2> DEFINE Y == Now(a.kept, cs, k)
  <2>4. /\ x \in X /\ Now(Append(a.kept, x), cs, k) = X
        /\ X \ {x} \subseteq Y /\ Y \subseteq X
    BY <2>3, NowStep
  <2>6. r[k] = Reduced(a, x)
    BY <1>2 DEF Reducing
  <2> HIDE DEF x, a, X
  <2>7. \/ /\ Reduced(a, x).m = a.m /\ Reduced(a, x).kept = a.kept
           /\ a.m.ca[x].mark # LOCAL_MARK
        \/ /\ Reduced(a, x).m = removeClause(a.m, x) /\ Reduced(a, x).kept = a.kept
           /\ a.m.ca[x].mark = LOCAL_MARK
        \/ /\ Reduced(a, x).m = Unprotected(a.m, x)
           /\ Reduced(a, x).kept = Append(a.kept, x)
           /\ a.m.ca[x].mark = LOCAL_MARK
    BY <2>2, <2>3, ReducedStep
  <2>8. P(k)
    <3>1. CASE /\ Reduced(a, x).m = a.m /\ Reduced(a, x).kept = a.kept
               /\ a.m.ca[x].mark # LOCAL_MARK
      <4> HIDE DEF Y
      <4>1. Good(a.m, n, last, C, T, Y)
        BY <2>1, <2>4, <3>1 DEF Good, InLists
      <4> QED
        BY <2>6, <3>1, <4>1 DEF Y
    <3>2. CASE /\ Reduced(a, x).m = removeClause(a.m, x) /\ Reduced(a, x).kept = a.kept
               /\ a.m.ca[x].mark = LOCAL_MARK
      <4>1. x \in Live(a.m) /\ C \ {x} = C
        BY <2>1, <2>4, <3>2, MarksApart DEF Good, InLists, Live
      <4> HIDE DEF Y
      <4>2. Good(removeClause(a.m, x), n, last, C \ {x}, T, Y)
        BY <2>1, <2>4, <4>1, RemoveGood
      <4> QED
        BY <2>6, <3>2, <4>1, <4>2 DEF Y
    <3>3. CASE /\ Reduced(a, x).m = Unprotected(a.m, x)
               /\ Reduced(a, x).kept = Append(a.kept, x)
               /\ a.m.ca[x].mark = LOCAL_MARK
      <4>1. Good(Unprotected(a.m, x), n, last, C, T, X)
        BY <2>1, <2>4, <3>3, UnprotectedGood
      <4> QED
        BY <2>4, <2>6, <3>3, <4>1
    <3> QED
      BY <2>7, <3>1, <3>2, <3>3
  <2> HIDE DEF P
  <2> QED
    BY <2>2, <2>8
<1>5. N \in S
  <2> HIDE DEF S
  <2> QED
    BY <1>1, <1>3, <1>4, Counting
<1>6. r[N] = s /\ s \in LocalStates(n, last)
  <2>1. N \in 0 .. N
    BY <1>1
  <2> QED
    BY <1>2, <2>1 DEF Reducing
<1>7. Good(s.m, n, last, C, T, Elems(s.kept))
  <2>1. P(N)
    BY <1>5
  <2>2. Now(s.kept, cs, N) = Elems(s.kept)
    BY LoopEnds
  <2> HIDE DEF s
  <2> QED
    BY <1>6, <2>1, <2>2
<1> HIDE DEF s
<1>8. s.kept \in Seq(Nat)
  BY <1>6 DEF LocalStates
<1>9. Elems(s.kept) \subseteq 1 .. n
  BY <1>7, MemoryTypes DEF Good, InLists
<1>10. s.kept \in Seq(1 .. n)
  BY <1>8, <1>9, SeqOver
<1> QED
  BY <1>7, <1>10 DEF s

-----------------------------------------------------------------------------
(* Vivification.  Since it began with the memory m0, clauses were removed, *)
(* and those it is done with are simplified.                               *)
Shrunk(m0, m) ==
    /\ Live(m) \subseteq Live(m0)
    /\ \A i \in Live(m) : m0.ca[i].simplified => m.ca[i].simplified
    /\ \A i : locked(m, i) => locked(m0, i)

VivifiedIn(m, x, o) == [m EXCEPT !.ca[x] = Vivified(@, o)]

OutcomeType == [end : {"satisfied", "unit", "kept"}, lbd : Nat, touched : {Intact} \cup Nat]

LEMMA Types ==
    /\ Lbds \subseteq Nat /\ MaxConflicts \in Nat /\ Untouched \in Nat
    /\ Tier2Every \in Nat /\ LocalEvery \in Nat /\ VivifyEvery \in Nat
    /\ Leftovers \subseteq Nat
BY TiersAssumption DEF Leftovers

LEMMA TrialTypes ==
    ASSUME NEW m, NEW cs, NEW trial \in Trials(m, cs)
    PROVE  /\ DOMAIN trial = ToTry(m, cs)
           /\ \A x \in ToTry(m, cs) :
                /\ trial[x] \in OutcomeType
                /\ locked(m, x) => trial[x].end = "satisfied"
<1>1. DOMAIN trial = ToTry(m, cs) /\ \A x \in DOMAIN trial : trial[x] \in MayBecome(m, x)
  BY DEF Trials
<1>2. \A mark : Outcomes(mark) \subseteq OutcomeType
  <2> SUFFICES ASSUME NEW mark, NEW o \in Outcomes(mark)
               PROVE  o \in OutcomeType
    OBVIOUS
  <2> DEFINE more == {Intact} \cup IF mark = TIER2 THEN Leftovers ELSE {}
  <2>1. more \subseteq {Intact} \cup Nat
    BY Types
  <2>2. CASE o \in [end : {"satisfied", "unit"}, lbd : {0}, touched : {Intact}]
    BY <2>2 DEF OutcomeType
  <2>3. CASE o \in [end : {"kept"}, lbd : Lbds, touched : more]
    <3> HIDE DEF more
    <3> QED
      BY <2>1, <2>3, Types DEF OutcomeType
  <2> QED
    BY <2>2, <2>3 DEF Outcomes
<1>3. \A x : \A o \in MayBecome(m, x) :
         o \in Outcomes(m.ca[x].mark) /\ (locked(m, x) => o.end = "satisfied")
  BY DEF MayBecome
<1> QED
  BY <1>1, <1>2, <1>3

LEMMA Smaller ==
    ASSUME NEW a \in Nat, NEW b \in Nat
    PROVE  Min({a, b}) \in Nat
<1>1. \E x \in {a, b} : \A y \in {a, b} : x <= y
  OBVIOUS
<1>2. Min({a, b}) \in {a, b}
  BY <1>1 DEF Min
<1> QED
  BY <1>2

LEMMA VivifiedHeader ==
    ASSUME NEW last, NEW c \in HeaderType(last), NEW o \in OutcomeType
    PROVE  /\ Vivified(c, o) \in HeaderType(last)
           /\ Vivified(c, o).name = c.name /\ Vivified(c, o).mark = c.mark
           /\ Vivified(c, o).simplified = TRUE
<1>1. c.lbd \in Nat /\ o.lbd \in Nat /\ c.touched \in Nat /\ o.touched \in {Intact} \cup Nat
  BY DEF HeaderType, OutcomeType
<1> DEFINE l == Min({c.lbd, o.lbd})
           t == IF o.touched = Intact THEN c.touched ELSE o.touched
<1>2. l \in Nat /\ t \in Nat
  BY <1>1, Smaller
<1>3. Vivified(c, o) = [c EXCEPT !.lbd = l, !.simplified = TRUE, !.touched = t]
  BY DEF Vivified
<1> HIDE DEF l, t
<1> QED
  BY <1>2, <1>3 DEF HeaderType

LEMMA VivifiedMemory ==
    ASSUME NEW n \in Nat, NEW last, NEW m \in Memory(n, last), NEW x \in 1 .. n,
           NEW o \in OutcomeType
    PROVE  /\ VivifiedIn(m, x, o) \in Memory(n, last)
           /\ VivifiedIn(m, x, o).ca = [m.ca EXCEPT ![x] = Vivified(m.ca[x], o)]
           /\ VivifiedIn(m, x, o).reason = m.reason
           /\ VivifiedIn(m, x, o) = [m EXCEPT !.ca[x] = Vivified(m.ca[x], o)]
<1>1. m.ca \in [1 .. n -> HeaderType(last)]
  BY DEF Memory
<1> DEFINE h == Vivified(m.ca[x], o)
<1>2. h \in HeaderType(last)
  BY <1>1, VivifiedHeader
<1> HIDE DEF h
<1>3. VivifiedIn(m, x, o) = [m EXCEPT !.ca[x] = h]
  BY DEF VivifiedIn, h
<1>4. VivifiedIn(m, x, o) = [m EXCEPT !.ca = [@ EXCEPT ![x] = h]]
  BY <1>3
<1>5. [m.ca EXCEPT ![x] = h] \in [1 .. n -> HeaderType(last)]
  BY <1>1, <1>2
<1> QED
  BY <1>3, <1>4, <1>5 DEF Memory, h

LEMMA UnitMemory ==
    ASSUME NEW n \in Nat, NEW last, NEW m \in Memory(n, last), NEW x \in 1 .. n
    PROVE  /\ Unit(m, x) \in Memory(n, last)
           /\ Unit(m, x).ca = [m.ca EXCEPT ![x] = [@ EXCEPT !.mark = REMOVED]]
           /\ Unit(m, x).reason = m.reason /\ Unit(m, x).watches = Without(m.watches, x)
           /\ Unit(m, x).unexpected = m.unexpected
<1>1. /\ m.ca \in [1 .. n -> HeaderType(last)] /\ m.watches \in References
  BY DEF Memory
<1> DEFINE ca == [m.ca EXCEPT ![x] = [@ EXCEPT !.mark = REMOVED]]
           m2 == Unit(m, x)
<1>2. ca \in [1 .. n -> HeaderType(last)]
  <2>1. [m.ca[x] EXCEPT !.mark = REMOVED] \in HeaderType(last)
    BY <1>1 DEF HeaderType, Marks
  <2> QED
    BY <1>1, <2>1
<1>3. Without(m.watches, x) \in References
  BY <1>1, WithoutRefs
<1>4. m2 = [m EXCEPT !.ca = ca, !.watches = Without(@, x), !.wasted = TRUE]
  BY DEF Unit
<1> HIDE DEF ca, m2
<1>5. m2 = [ca |-> ca, watches |-> Without(m.watches, x), reason |-> m.reason, wasted |-> TRUE,
            unexpected |-> m.unexpected]
  BY <1>4 DEF Memory
<1> QED
  BY <1>1, <1>2, <1>3, <1>5 DEF Memory, ca, m2

LEMMA UnitGood ==
    ASSUME NEW n \in Nat, NEW last, NEW m, NEW C, NEW T, NEW L, Good(m, n, last, C, T, L),
           NEW x \in Live(m), ~locked(m, x),
           NEW T2, NEW L2, T \ {x} \subseteq T2, T2 \subseteq T, L \ {x} \subseteq L2, L2 \subseteq L
    PROVE  Good(Unit(m, x), n, last, C \ {x}, T2, L2)
<1>1. m \in Memory(n, last) /\ x \in 1 .. n /\ m.unexpected = FALSE
  BY MemoryTypes DEF Good
<1> DEFINE m2 == Unit(m, x)
<1>2. /\ m2 \in Memory(n, last)
      /\ m2.ca = [m.ca EXCEPT ![x] = [@ EXCEPT !.mark = REMOVED]]
      /\ m2.reason = m.reason /\ m2.watches = Without(m.watches, x)
      /\ m2.unexpected = FALSE
  BY <1>1, UnitMemory
<1> HIDE DEF m2
<1>3. Good(m2, n, last, C \ {x}, T2, L2)
  BY <1>2, Removal
<1> QED
  BY <1>3 DEF m2

(* The memory goes on shrinking.                                           *)
LEMMA ShrunkSteps ==
    ASSUME NEW n \in Nat, NEW last, NEW m0, NEW m \in Memory(n, last), Shrunk(m0, m),
           NEW x \in 1 .. n, x \in Live(m)
    PROVE  /\ Shrunk(m0, removeClause(m, x)) /\ Shrunk(m0, Unit(m, x))
           /\ \A o \in OutcomeType : Shrunk(m0, VivifiedIn(m, x, o))
<1>1. /\ m.ca \in [1 .. n -> HeaderType(last)] /\ m.reason \in References
      /\ Live(m) = {i \in 1 .. n : m.ca[i].mark # REMOVED}
  BY MemoryTypes DEF Memory
<1> DEFINE gone == [m.ca EXCEPT ![x] = [@ EXCEPT !.mark = REMOVED]]
<1>2. /\ DOMAIN gone = 1 .. n /\ gone[x].mark = REMOVED
      /\ \A i \in 1 .. n : i # x => gone[i] = m.ca[i]
  BY <1>1 DEF HeaderType
<1>3. Shrunk(m0, removeClause(m, x))
  <2> DEFINE m2 == removeClause(m, x)
  <2>1. m2.ca = gone /\ m2.reason = Without(m.reason, x)
    BY RemoveClause
  <2> HIDE DEF m2, gone
  <2>2. Live(m2) \subseteq Live(m) /\ \A i \in Live(m2) : m2.ca[i] = m.ca[i]
    BY <1>1, <1>2, <2>1 DEF Live
  <2>3. \A i : locked(m2, i) => locked(m, i)
    BY <1>1, <2>1, WithoutRefs DEF locked
  <2>4. Shrunk(m0, m2)
    BY <2>2, <2>3 DEF Shrunk
  <2> QED
    BY <2>4 DEF m2
<1>4. Shrunk(m0, Unit(m, x))
  <2> DEFINE m2 == Unit(m, x)
  <2>1. m2.ca = gone /\ m2.reason = m.reason
    BY UnitMemory
  <2> HIDE DEF m2, gone
  <2>2. Live(m2) \subseteq Live(m) /\ \A i \in Live(m2) : m2.ca[i] = m.ca[i]
    BY <1>1, <1>2, <2>1 DEF Live
  <2>3. \A i : locked(m2, i) => locked(m, i)
    BY <2>1 DEF locked
  <2>4. Shrunk(m0, m2)
    BY <2>2, <2>3 DEF Shrunk
  <2> QED
    BY <2>4 DEF m2
<1>5. ASSUME NEW o \in OutcomeType
      PROVE  Shrunk(m0, VivifiedIn(m, x, o))
  <2> DEFINE m2 == VivifiedIn(m, x, o)
             h == Vivified(m.ca[x], o)
  <2>1. m2.ca = [m.ca EXCEPT ![x] = h] /\ m2.reason = m.reason
    BY VivifiedMemory
  <2>2. h.mark = m.ca[x].mark /\ h.simplified = TRUE
    <3>1. m.ca[x] \in HeaderType(last)
      BY <1>1
    <3> QED
      BY <3>1, VivifiedHeader
  <2> HIDE DEF m2, h
  <2>3. /\ DOMAIN m2.ca = 1 .. n /\ m2.ca[x] = h
        /\ \A i \in 1 .. n : i # x => m2.ca[i] = m.ca[i]
    BY <1>1, <2>1
  <2>4. Live(m2) = Live(m) /\ \A i \in Live(m2) : m2.ca[i] = m.ca[i] \/ m2.ca[i].simplified
    BY <1>1, <2>2, <2>3 DEF Live
  <2>5. \A i : locked(m2, i) => locked(m, i)
    BY <2>1 DEF locked
  <2>6. Shrunk(m0, m2)
    BY <2>4, <2>5 DEF Shrunk
  <2> QED
    BY <2>6 DEF m2
<1> QED
  BY <1>3, <1>4, <1>5

(* What Try does to the memory and what it keeps.                          *)
TryKept(s, x, t) == t = Keep(s, x) /\ x \in Live(s.m) /\ s.m.ca[x].simplified
TryGone(s, x, t) ==
    t = Remove_(s, x) /\ x \in Live(s.m) /\ ~s.m.ca[x].simplified
TryUnit(s, x, t) ==
    /\ t = [s EXCEPT !.m = Unit(@, x)]
    /\ x \in Live(s.m) /\ ~s.m.ca[x].simplified /\ ~locked(s.m, x)
TryShorter(s, x, t, o) ==
    /\ t = Keep([s EXCEPT !.m.ca[x] = Vivified(@, o)], x) /\ o \in OutcomeType
    /\ x \in Live(s.m) /\ ~s.m.ca[x].simplified

LEMMA TryCases ==
    ASSUME NEW n \in Nat, NEW last, NEW m0 \in Memory(n, last), NEW cs \in Seq(1 .. n),
           NEW trial \in Trials(m0, cs), NEW x \in Elems(cs),
           NEW s, s.m \in Memory(n, last), Shrunk(m0, s.m)
    PROVE  \/ Try(s, x, trial) = s /\ x \notin Live(s.m)
           \/ TryKept(s, x, Try(s, x, trial))
           \/ TryGone(s, x, Try(s, x, trial))
           \/ TryUnit(s, x, Try(s, x, trial))
           \/ TryShorter(s, x, Try(s, x, trial), trial[x]) /\ x \in DOMAIN trial
<1>1. x \in 1 .. n /\ x \in ToSet(cs)
  BY DEF Elems, ToSet
<1>2. x \in Live(s.m) <=> s.m.ca[x].mark # REMOVED
  BY <1>1, MemoryTypes
<1>3. CASE s.m.ca[x].mark = REMOVED
  BY <1>2, <1>3 DEF Try
<1>4. CASE s.m.ca[x].mark # REMOVED /\ s.m.ca[x].simplified
  BY <1>2, <1>4 DEF Try, TryKept
<1>5. CASE s.m.ca[x].mark # REMOVED /\ ~s.m.ca[x].simplified
  <2>1. x \in Live(m0) /\ ~m0.ca[x].simplified
    BY <1>2, <1>5 DEF Shrunk
  <2>2. x \in ToTry(m0, cs)
    BY <1>1, <2>1 DEF ToTry
  <2>3. /\ x \in DOMAIN trial /\ trial[x] \in OutcomeType
        /\ locked(m0, x) => trial[x].end = "satisfied"
    BY <2>2, TrialTypes
  <2>4. trial[x].end \in {"satisfied", "unit", "kept"}
    BY <2>3 DEF OutcomeType
  <2>5. locked(s.m, x) => trial[x].end = "satisfied"
    BY <2>3 DEF Shrunk
  <2>6. CASE trial[x].end = "satisfied"
    BY <1>2, <1>5, <2>6 DEF Try, TryGone
  <2>7. CASE trial[x].end = "unit"
    BY <1>2, <1>5, <2>5, <2>7 DEF Try, TryUnit
  <2>8. CASE trial[x].end = "kept"
    BY <1>2, <1>5, <2>3, <2>8 DEF Try, TryShorter
  <2> QED
    BY <2>4, <2>6, <2>7, <2>8
<1>6. s.m.ca[x].simplified \in BOOLEAN
  BY <1>1, MemoryTypes DEF HeaderType
<1> QED
  BY <1>3, <1>4, <1>5, <1>6

(* The same in the loop over the core.                                     *)
ShrunkStates(m0, n, last) == {s \in LoopStates(n, last) : Shrunk(m0, s.m)}

TryFields(s, x, t, o) ==
    \/ t.m = s.m /\ t.kept = s.kept /\ x \notin Live(s.m)
    \/ t.m = s.m /\ t.kept = Append(s.kept, x) /\ x \in Live(s.m) /\ s.m.ca[x].simplified
    \/ /\ t.m = removeClause(s.m, x) /\ t.kept = s.kept
       /\ x \in Live(s.m) /\ ~s.m.ca[x].simplified
    \/ /\ t.m = Unit(s.m, x) /\ t.kept = s.kept
       /\ x \in Live(s.m) /\ ~s.m.ca[x].simplified /\ ~locked(s.m, x)
    \/ /\ t.m = VivifiedIn(s.m, x, o) /\ o \in OutcomeType /\ t.kept = Append(s.kept, x)
       /\ x \in Live(s.m) /\ ~s.m.ca[x].simplified

LEMMA TryCore ==
    ASSUME NEW n \in Nat, NEW last, NEW m0 \in Memory(n, last), NEW cs \in Seq(1 .. n),
           NEW trial \in Trials(m0, cs), NEW x \in Elems(cs),
           NEW s \in ShrunkStates(m0, n, last)
    PROVE  /\ Try(s, x, trial) \in ShrunkStates(m0, n, last)
           /\ TryFields(s, x, Try(s, x, trial), trial[x])
<1> DEFINE t == Try(s, x, trial)
           o == trial[x]
           a == s.m
<1>1. /\ s \in LoopStates(n, last) /\ Shrunk(m0, s.m)
      /\ s.m \in Memory(n, last) /\ s.kept \in Seq(Nat)
      /\ s = [m |-> s.m, kept |-> s.kept]
  BY DEF ShrunkStates, LoopStates
<1>2. x \in 1 .. n
  BY DEF Elems
<1>3. \/ t = s /\ x \notin Live(a)
      \/ TryKept(s, x, t) \/ TryGone(s, x, t) \/ TryUnit(s, x, t) \/ TryShorter(s, x, t, o)
  BY <1>1, TryCases
<1> HIDE DEF t, o
<1> SUFFICES t \in ShrunkStates(m0, n, last) /\ TryFields(s, x, t, o)
  BY DEF t, o
<1>4. Append(s.kept, x) \in Seq(Nat)
  BY <1>1, <1>2
<1>5. CASE t = s /\ x \notin Live(a)
  BY <1>5 DEF TryFields
<1>6. CASE TryKept(s, x, t)
  <2>1. t = [m |-> s.m, kept |-> Append(s.kept, x)]
    BY <1>1, <1>6 DEF TryKept, Keep
  <2> QED
    BY <1>1, <1>4, <1>6, <2>1 DEF TryKept, TryFields, ShrunkStates, LoopStates
<1>7. CASE TryGone(s, x, t)
  <2>1. /\ t = [m |-> removeClause(a, x), kept |-> s.kept]
        /\ x \in Live(a) /\ ~a.ca[x].simplified
    BY <1>1, <1>7 DEF TryGone, Remove_
  <2>2. removeClause(a, x) \in Memory(n, last) /\ Shrunk(m0, removeClause(a, x))
    BY <1>1, <1>2, <2>1, RemoveClause, ShrunkSteps
  <2> QED
    BY <1>1, <2>1, <2>2 DEF TryFields, ShrunkStates, LoopStates
<1>8. CASE TryUnit(s, x, t)
  <2>1. /\ t = [m |-> Unit(a, x), kept |-> s.kept]
        /\ x \in Live(a) /\ ~a.ca[x].simplified /\ ~locked(a, x)
    BY <1>1, <1>8 DEF TryUnit
  <2>2. Unit(a, x) \in Memory(n, last) /\ Shrunk(m0, Unit(a, x))
    BY <1>1, <1>2, <2>1, UnitMemory, ShrunkSteps
  <2> QED
    BY <1>1, <2>1, <2>2 DEF TryFields, ShrunkStates, LoopStates
<1>9. CASE TryShorter(s, x, t, o)
  <2>1. [s EXCEPT !.m.ca[x] = Vivified(@, o)] = [m |-> VivifiedIn(a, x, o), kept |-> s.kept]
    <3>1. [s EXCEPT !.m.ca[x] = Vivified(@, o)] = [s EXCEPT !.m = VivifiedIn(s.m, x, o)]
      BY DEF VivifiedIn
    <3> QED
      BY <1>1, <3>1
  <2>2. /\ t = [m |-> VivifiedIn(a, x, o), kept |-> Append(s.kept, x)]
        /\ x \in Live(a) /\ ~a.ca[x].simplified
    BY <1>9, <2>1 DEF TryShorter, Keep
  <2>3. o \in OutcomeType
    BY <1>9 DEF TryShorter
  <2>4. VivifiedIn(a, x, o) \in Memory(n, last) /\ Shrunk(m0, VivifiedIn(a, x, o))
    BY <1>1, <1>2, <2>2, <2>3, VivifiedMemory, ShrunkSteps
  <2> QED
    BY <1>1, <1>4, <2>2, <2>3, <2>4 DEF TryFields, ShrunkStates, LoopStates
<1> QED
  BY <1>3, <1>5, <1>6, <1>7, <1>8, <1>9

CoreTrying(r, cs, m, trial, n, last) ==
    /\ r \in [0 .. Len(cs) -> ShrunkStates(m, n, last)]
    /\ r[0] = Loop(m) /\ r[Len(cs)] = simplifyLearnt_core(m, cs, trial)
    /\ \A k \in 1 .. Len(cs) : r[k] = Try(r[k - 1], cs[k], trial)

LEMMA CoreRun ==
    ASSUME NEW n \in Nat, NEW last, NEW m \in Memory(n, last), NEW cs \in Seq(1 .. n),
           NEW trial \in Trials(m, cs)
    PROVE  \E r : CoreTrying(r, cs, m, trial, n, last)
<1> DEFINE U == 1 .. Len(cs)
           T == ShrunkStates(m, n, last)
           b == Loop(m)
           Op(s, cr) == Try(s, cr, trial)
           g == [p \in T \X U |-> Op(p[1], cs[p[2]])]
           Is(h) == h = [x \in SUBSET U |-> IF x = {} THEN b
                                            ELSE Op(h[x \ {Max(x)}], cs[Max(x)])]
<1>1. Len(cs) \in Nat /\ DOMAIN cs = U /\ \A k \in U : cs[k] \in Elems(cs)
  BY DEF Elems
<1>2. (\E f : Is(f)) => \E f : Is(f) /\ f[U] = simplifyLearnt_core(m, cs, trial)
  BY <1>1, ZenonT(60) DEF simplifyLearnt_core, FoldLeft, MapThenFoldSet
<1>3. \A s \in T : \A k \in U : Op(s, cs[k]) \in T
  BY <1>1, TryCore
<1> HIDE DEF Op
<1>4. g \in [T \X U -> T]
  BY <1>3
<1>5. \A s \in T : \A k \in U : g[<<s, k>>] = Op(s, cs[k])
  OBVIOUS
<1> HIDE DEF g
<1>6. b \in T
  BY LoopBegins DEF ShrunkStates, Shrunk
<1> HIDE DEF b
<1>7. PICK it \in [SUBSET U -> T] : LoopOf(it, Len(cs), b, g)
  BY <1>1, <1>4, <1>6, LoopExists
<1>8. \A x \in SUBSET U : x # {} => Max(x) \in x /\ x \ {Max(x)} \in SUBSET U
  BY <1>1, Greatest
<1>9. Is(it)
  BY <1>5, <1>7, <1>8 DEF LoopOf
<1>10. PICK f : Is(f) /\ f[U] = simplifyLearnt_core(m, cs, trial)
  <2> HIDE DEF Is
  <2> QED
    BY <1>2, <1>9
<1>11. Follows(f, Len(cs), b, g, T)
  <2>1. f[{}] = b
    BY <1>10
  <2>2. ASSUME NEW x \in SUBSET U, x # {}, f[x \ {Max(x)}] \in T
        PROVE  f[x] = g[<<f[x \ {Max(x)}], Max(x)>>]
    <3>1. Max(x) \in U
      BY <1>8, <2>2
    <3>2. f[x] = Op(f[x \ {Max(x)}], cs[Max(x)])
      BY <1>10, <2>2
    <3> QED
      BY <1>5, <2>2, <3>1, <3>2
  <2> QED
    BY <2>1, <2>2 DEF Follows
<1> HIDE DEF Is
<1>12. PICK r \in [0 .. Len(cs) -> T] : RunOf(r, Len(cs), b, g, f[U])
  BY <1>1, <1>4, <1>6, <1>11, LoopRun
<1>13. \A k \in U : k - 1 \in 0 .. Len(cs)
  BY <1>1
<1>14. \A k \in U : r[k] = Op(r[k - 1], cs[k])
  BY <1>5, <1>12, <1>13 DEF RunOf
<1> QED
  BY <1>10, <1>12, <1>14 DEF RunOf, CoreTrying, Op, b

LEMMA VivifiedGood ==
    ASSUME NEW n \in Nat, NEW last, NEW m, NEW C, NEW T, NEW L, Good(m, n, last, C, T, L),
           NEW x \in Live(m), NEW o \in OutcomeType
    PROVE  Good(VivifiedIn(m, x, o), n, last, C, T, L)
<1> DEFINE h == Vivified(m.ca[x], o)
<1>1. m \in Memory(n, last) /\ x \in 1 .. n /\ m.ca[x] \in HeaderType(last) /\ x \in DOMAIN m.ca
  BY MemoryTypes DEF Good
<1>2. h \in HeaderType(last) /\ h.name = m.ca[x].name /\ h.mark = m.ca[x].mark
  BY <1>1, VivifiedHeader
<1>3. h.mark # REMOVED /\ (x \in C <=> h.mark = CORE)
      /\ (h.mark = TIER2 => x \in T) /\ (x \in T => h.mark # LOCAL_MARK)
      /\ (h.mark = LOCAL_MARK => x \in L)
  <2> HIDE DEF h
  <2> QED
    BY <1>1, <1>2 DEF Good, InLists, Live
<1>4. VivifiedIn(m, x, o) = [m EXCEPT !.ca[x] = h]
  BY DEF VivifiedIn
<1> HIDE DEF h
<1>5. Good([m EXCEPT !.ca[x] = h], n, last, C, T, L)
  BY <1>1, <1>2, <1>3, HeaderChange
<1> QED
  BY <1>4, <1>5

(* Only the header of x changes.                                           *)
LEMMA OthersStay ==
    ASSUME NEW n \in Nat, NEW last, NEW m \in Memory(n, last), NEW x \in 1 .. n
    PROVE  /\ \A i \in 1 .. n : i # x => /\ removeClause(m, x).ca[i] = m.ca[i]
                                         /\ Unit(m, x).ca[i] = m.ca[i]
           /\ removeClause(m, x).ca[x].mark = REMOVED /\ Unit(m, x).ca[x].mark = REMOVED
           /\ \A o \in OutcomeType :
                /\ VivifiedIn(m, x, o).ca[x].simplified
                /\ VivifiedIn(m, x, o).ca[x].mark = m.ca[x].mark
                /\ \A i \in 1 .. n : i # x => VivifiedIn(m, x, o).ca[i] = m.ca[i]
<1>1. m.ca \in [1 .. n -> HeaderType(last)] /\ m.ca[x] \in HeaderType(last)
  BY DEF Memory
<1> DEFINE gone == [m.ca EXCEPT ![x] = [@ EXCEPT !.mark = REMOVED]]
<1>2. gone[x].mark = REMOVED /\ \A i \in 1 .. n : i # x => gone[i] = m.ca[i]
  BY <1>1 DEF HeaderType
<1>3. removeClause(m, x).ca = gone
  BY RemoveClause
<1>4. Unit(m, x).ca = gone
  BY UnitMemory
<1>5. ASSUME NEW o \in OutcomeType
      PROVE  /\ VivifiedIn(m, x, o).ca[x] = Vivified(m.ca[x], o)
             /\ \A i \in 1 .. n : i # x => VivifiedIn(m, x, o).ca[i] = m.ca[i]
  <2>1. VivifiedIn(m, x, o).ca = [m.ca EXCEPT ![x] = Vivified(m.ca[x], o)]
    BY VivifiedMemory
  <2> QED
    BY <1>1, <2>1
<1>6. \A o \in OutcomeType :
         Vivified(m.ca[x], o).simplified = TRUE /\ Vivified(m.ca[x], o).mark = m.ca[x].mark
  BY <1>1, VivifiedHeader
<1> HIDE DEF gone
<1> QED
  BY <1>2, <1>3, <1>4, <1>5, <1>6

CoreDone(m) == \A i \in DOMAIN m.ca : m.ca[i].mark = CORE => m.ca[i].simplified

CoreTried(a, x, t, n, last, C, T, L) ==
    /\ \/ t.kept = a.kept /\ Good(t.m, n, last, C \ {x}, T, L)
       \/ /\ t.kept = Append(a.kept, x) /\ Good(t.m, n, last, C, T, L)
          /\ t.m.ca[x].simplified
    /\ \A i \in 1 .. n : i # x => t.m.ca[i] = a.m.ca[i]

LEMMA CoreTryStep ==
    ASSUME NEW n \in Nat, NEW last, NEW a, NEW x, NEW t, NEW o, TryFields(a, x, t, o),
           a.m \in Memory(n, last), x \in 1 .. n, NEW C, NEW T, NEW L,
           Good(a.m, n, last, C, T, L), x \in C
    PROVE  CoreTried(a, x, t, n, last, C, T, L)
<1> USE DEF CoreTried
<1>1. x \in Live(a.m)
  BY MarksApart DEF Good, InLists, Live
<1>2. CASE t.m = a.m /\ t.kept = Append(a.kept, x) /\ x \in Live(a.m) /\ a.m.ca[x].simplified
  BY <1>2
<1>3. CASE t.m = removeClause(a.m, x) /\ t.kept = a.kept /\ x \in Live(a.m)
  <2>1. Good(removeClause(a.m, x), n, last, C \ {x}, T, L)
    BY <1>1, RemoveGood
  <2> QED
    BY <1>3, <2>1, OthersStay
<1>4. CASE t.m = Unit(a.m, x) /\ t.kept = a.kept /\ x \in Live(a.m) /\ ~locked(a.m, x)
  <2>1. Good(Unit(a.m, x), n, last, C \ {x}, T, L)
    BY <1>1, <1>4, UnitGood
  <2> QED
    BY <1>4, <2>1, OthersStay
<1>5. CASE /\ t.m = VivifiedIn(a.m, x, o) /\ o \in OutcomeType
           /\ t.kept = Append(a.kept, x) /\ x \in Live(a.m)
  <2>1. Good(VivifiedIn(a.m, x, o), n, last, C, T, L)
    BY <1>1, <1>5, VivifiedGood
  <2> QED
    BY <1>5, <2>1, OthersStay
<1> QED
  BY <1>1, <1>2, <1>3, <1>4, <1>5 DEF TryFields

LEMMA CoreKeeps ==
    ASSUME NEW n \in Nat, NEW last, NEW m, NEW cs \in Seq(1 .. n), NoRepeats(cs),
           NEW T, NEW L, Good(m, n, last, Elems(cs), T, L), NEW trial \in Trials(m, cs)
    PROVE  LET s == simplifyLearnt_core(m, cs, trial)
           IN  /\ Good(s.m, n, last, Elems(s.kept), T, L) /\ CoreDone(s.m)
               /\ s.kept \in Seq(1 .. n) /\ NoRepeats(s.kept)
<1> DEFINE s == simplifyLearnt_core(m, cs, trial)
           N == Len(cs)
<1>1. m \in Memory(n, last) /\ N \in Nat
  BY DEF Good
<1>2. PICK r : CoreTrying(r, cs, m, trial, n, last)
  BY <1>1, CoreRun
<1> DEFINE P(k) == /\ Good(r[k].m, n, last, Now(r[k].kept, cs, k), T, L)
                   /\ Kept(r[k].kept, cs, k)
                   /\ \A i \in Elems(r[k].kept) : r[k].m.ca[i].simplified
           S == {k \in 0 .. N : P(k)}
<1>3. 0 \in S
  <2>1. r[0].m = m /\ r[0].kept = <<>>
    BY <1>1, <1>2, LoopBegins DEF CoreTrying
  <2>2. Kept(<<>>, cs, 0) /\ Now(<<>>, cs, 0) = Elems(cs) /\ Elems(<<>>) = {}
    <3>1. Elems(<<>>) = {}
      BY DEF Elems
    <3>2. Kept(<<>>, cs, 0) /\ Now(<<>>, cs, 0) = Elems(cs)
      BY LoopEnds
    <3> QED
      BY <3>1, <3>2
  <2>3. P(0)
    BY <2>1, <2>2
  <2> HIDE DEF P
  <2> QED
    BY <1>1, <2>3
<1>4. ASSUME NEW k \in 1 .. N, k - 1 \in S
      PROVE  k \in S
  <2> DEFINE x == cs[k]
             a == r[k - 1]
             t == r[k]
             C == Now(a.kept, cs, k - 1)
  <2>1. /\ Good(a.m, n, last, C, T, L) /\ Kept(a.kept, cs, k - 1)
        /\ \A i \in Elems(a.kept) : a.m.ca[i].simplified
    BY <1>4
  <2>2. k - 1 \in 0 .. N /\ k \in 0 .. N /\ x \in 1 .. n /\ x \in Elems(cs)
    BY <1>1 DEF Elems
  <2>3. a \in ShrunkStates(m, n, last) /\ a.kept \in Seq(Nat) /\ a.m \in Memory(n, last)
    BY <1>2, <2>2 DEF CoreTrying, ShrunkStates, LoopStates
  <2>4. x \in C /\ Now(Append(a.kept, x), cs, k) = C
    BY <2>3, NowStep
  <2>5. /\ Kept(a.kept, cs, k) /\ Kept(Append(a.kept, x), cs, k)
        /\ Now(a.kept, cs, k) = C \ {x}
    BY <2>1, KeptStep
  <2>6. x \notin Elems(a.kept)
    <3>1. x \in Rest(cs, k - 1)
      BY RestStep
    <3> QED
      BY <2>1, <3>1 DEF Kept
  <2>7. t = Try(a, x, trial)
    BY <1>2 DEF CoreTrying
  <2> HIDE DEF x, a, t, C
  <2>8. TryFields(a, x, t, trial[x])
    BY <1>1, <2>2, <2>3, <2>7, TryCore
  <2>9. CoreTried(a, x, t, n, last, C, T, L)
    BY <2>1, <2>2, <2>3, <2>4, <2>8, CoreTryStep
  <2>10. Elems(a.kept) \subseteq 1 .. n /\ Elems(Append(a.kept, x)) = Elems(a.kept) \cup {x}
    <3>1. Elems(a.kept) \subseteq C
      BY DEF C, Now
    <3>2. C \subseteq 1 .. n
      BY <2>1, <2>3, MemoryTypes DEF Good, InLists
    <3>3. x \in Nat
      BY <2>2
    <3>4. Elems(Append(a.kept, x)) = Elems(a.kept) \cup {x}
      BY <2>3, <3>3, ElemsAppend
    <3> QED
      BY <3>1, <3>2, <3>4
  <2>11. \A i \in Elems(a.kept) : t.m.ca[i].simplified
    BY <2>1, <2>6, <2>9, <2>10 DEF CoreTried
  <2>12. /\ Good(t.m, n, last, Now(t.kept, cs, k), T, L)
         /\ Kept(t.kept, cs, k)
         /\ \A i \in Elems(t.kept) : t.m.ca[i].simplified
    BY <2>4, <2>5, <2>9, <2>10, <2>11 DEF CoreTried
  <2> QED
    BY <2>2, <2>12 DEF t
<1>5. N \in S
  <2> HIDE DEF S
  <2> QED
    BY <1>1, <1>3, <1>4, Counting
<1>6. r[N] = s /\ s \in LoopStates(n, last)
  <2>1. N \in 0 .. N
    BY <1>1
  <2> QED
    BY <1>2, <2>1 DEF CoreTrying, ShrunkStates
<1>7. /\ Good(s.m, n, last, Elems(s.kept), T, L) /\ Kept(s.kept, cs, N)
      /\ \A i \in Elems(s.kept) : s.m.ca[i].simplified
  <2>1. P(N)
    BY <1>5
  <2>2. Now(s.kept, cs, N) = Elems(s.kept)
    BY LoopEnds
  <2> HIDE DEF s
  <2> QED
    BY <1>6, <2>1, <2>2
<1> HIDE DEF s
<1>8. s.kept \in Seq(Nat) /\ NoRepeats(s.kept)
  BY <1>7 DEF Kept
<1>9. Elems(s.kept) \subseteq 1 .. n
  BY <1>7, MemoryTypes DEF Good, InLists
<1>10. s.kept \in Seq(1 .. n)
  BY <1>8, <1>9, SeqOver
<1>11. CoreDone(s.m)
  BY <1>7 DEF CoreDone, Good, InLists
<1> QED
  BY <1>7, <1>8, <1>10, <1>11 DEF s

-----------------------------------------------------------------------------
(* The loop over tier 2, which also fills the core.                        *)
PromotionStates(m0, n, last) ==
    {s \in [m : Memory(n, last), kept : Seq(Nat), core : Seq(Nat)] : Shrunk(m0, s.m)}

Raised(m, x) == [m EXCEPT !.ca[x] = [@ EXCEPT !.mark = CORE, !.touched = 0]]

LEMMA TryTier ==
    ASSUME NEW n \in Nat, NEW last, NEW m0 \in Memory(n, last), NEW cs \in Seq(1 .. n),
           NEW trial \in Trials(m0, cs), NEW x \in Elems(cs),
           NEW s \in PromotionStates(m0, n, last)
    PROVE  /\ Try(s, x, trial) \in PromotionStates(m0, n, last)
           /\ TryFields(s, x, Try(s, x, trial), trial[x])
           /\ Try(s, x, trial).core = s.core
<1> DEFINE t == Try(s, x, trial)
           o == trial[x]
           a == s.m
<1>1. /\ Shrunk(m0, s.m)
      /\ s.m \in Memory(n, last) /\ s.kept \in Seq(Nat) /\ s.core \in Seq(Nat)
      /\ s = [m |-> s.m, kept |-> s.kept, core |-> s.core]
  BY DEF PromotionStates
<1>2. x \in 1 .. n
  BY DEF Elems
<1>3. \/ t = s /\ x \notin Live(a)
      \/ TryKept(s, x, t) \/ TryGone(s, x, t) \/ TryUnit(s, x, t) \/ TryShorter(s, x, t, o)
  BY <1>1, TryCases
<1> HIDE DEF t, o
<1> SUFFICES /\ t \in PromotionStates(m0, n, last) /\ TryFields(s, x, t, o)
             /\ t.core = s.core
  BY DEF t, o
<1>4. Append(s.kept, x) \in Seq(Nat)
  BY <1>1, <1>2
<1>5. CASE t = s /\ x \notin Live(a)
  BY <1>5 DEF TryFields
<1>6. CASE TryKept(s, x, t)
  <2>1. t = [m |-> s.m, kept |-> Append(s.kept, x), core |-> s.core]
    BY <1>1, <1>6 DEF TryKept, Keep
  <2> QED
    BY <1>1, <1>4, <1>6, <2>1 DEF TryKept, TryFields, PromotionStates
<1>7. CASE TryGone(s, x, t)
  <2>1. /\ t = [m |-> removeClause(a, x), kept |-> s.kept, core |-> s.core]
        /\ x \in Live(a) /\ ~a.ca[x].simplified
    BY <1>1, <1>7 DEF TryGone, Remove_
  <2>2. removeClause(a, x) \in Memory(n, last) /\ Shrunk(m0, removeClause(a, x))
    BY <1>1, <1>2, <2>1, RemoveClause, ShrunkSteps
  <2> QED
    BY <1>1, <2>1, <2>2 DEF TryFields, PromotionStates
<1>8. CASE TryUnit(s, x, t)
  <2>1. /\ t = [m |-> Unit(a, x), kept |-> s.kept, core |-> s.core]
        /\ x \in Live(a) /\ ~a.ca[x].simplified /\ ~locked(a, x)
    BY <1>1, <1>8 DEF TryUnit
  <2>2. Unit(a, x) \in Memory(n, last) /\ Shrunk(m0, Unit(a, x))
    BY <1>1, <1>2, <2>1, UnitMemory, ShrunkSteps
  <2> QED
    BY <1>1, <2>1, <2>2 DEF TryFields, PromotionStates
<1>9. CASE TryShorter(s, x, t, o)
  <2>1. [s EXCEPT !.m.ca[x] = Vivified(@, o)]
           = [m |-> VivifiedIn(a, x, o), kept |-> s.kept, core |-> s.core]
    <3>1. [s EXCEPT !.m.ca[x] = Vivified(@, o)] = [s EXCEPT !.m = VivifiedIn(s.m, x, o)]
      BY DEF VivifiedIn
    <3> QED
      BY <1>1, <3>1
  <2>2. /\ t = [m |-> VivifiedIn(a, x, o), kept |-> Append(s.kept, x), core |-> s.core]
        /\ x \in Live(a) /\ ~a.ca[x].simplified
    BY <1>9, <2>1 DEF TryShorter, Keep
  <2>3. o \in OutcomeType
    BY <1>9 DEF TryShorter
  <2>4. VivifiedIn(a, x, o) \in Memory(n, last) /\ Shrunk(m0, VivifiedIn(a, x, o))
    BY <1>1, <1>2, <2>2, <2>3, VivifiedMemory, ShrunkSteps
  <2> QED
    BY <1>1, <1>4, <2>2, <2>3, <2>4 DEF TryFields, PromotionStates
<1> QED
  BY <1>3, <1>5, <1>6, <1>7, <1>8, <1>9

OnlyRaised(m, m2, x, n) ==
    /\ m2.reason = m.reason /\ m2.ca[x] = [m.ca[x] EXCEPT !.mark = CORE, !.touched = 0]
    /\ \A i \in 1 .. n : i # x => m2.ca[i] = m.ca[i]

LEMMA RaisedMemory ==
    ASSUME NEW n \in Nat, NEW last, NEW m \in Memory(n, last), NEW x \in 1 .. n
    PROVE  Raised(m, x) \in Memory(n, last) /\ OnlyRaised(m, Raised(m, x), x, n)
<1>1. m.ca \in [1 .. n -> HeaderType(last)]
  BY DEF Memory
<1> DEFINE h == [m.ca[x] EXCEPT !.mark = CORE, !.touched = 0]
<1>2. h \in HeaderType(last)
  BY <1>1 DEF HeaderType, Marks
<1> HIDE DEF h
<1>3. Raised(m, x) = [m EXCEPT !.ca = [@ EXCEPT ![x] = h]]
  BY DEF Raised, h, Memory
<1>4. /\ [m.ca EXCEPT ![x] = h] \in [1 .. n -> HeaderType(last)] /\ [m.ca EXCEPT ![x] = h][x] = h
      /\ \A i \in 1 .. n : i # x => [m.ca EXCEPT ![x] = h][i] = m.ca[i]
  BY <1>1, <1>2
<1>5. /\ Raised(m, x) \in Memory(n, last) /\ Raised(m, x).ca = [m.ca EXCEPT ![x] = h]
      /\ Raised(m, x).reason = m.reason
  BY <1>3, <1>4 DEF Memory
<1> QED
  BY <1>4, <1>5 DEF OnlyRaised, h

LEMMA RaisedShrunk ==
    ASSUME NEW n \in Nat, NEW last, NEW m \in Memory(n, last), NEW x \in Live(m),
           NEW m0, Shrunk(m0, m)
    PROVE  Shrunk(m0, Raised(m, x))
<1> DEFINE m2 == Raised(m, x)
<1>1. x \in 1 .. n /\ Live(m) = {i \in 1 .. n : m.ca[i].mark # REMOVED}
      /\ m.ca[x] \in HeaderType(last)
  BY MemoryTypes
<1>2. m2 \in Memory(n, last) /\ OnlyRaised(m, m2, x, n)
  BY <1>1, RaisedMemory
<1> HIDE DEF m2
<1>3. m2.ca[x].mark = CORE /\ m2.ca[x].simplified = m.ca[x].simplified
  BY <1>1, <1>2 DEF HeaderType, OnlyRaised
<1>4. Live(m2) = {i \in 1 .. n : m2.ca[i].mark # REMOVED}
  BY <1>2, MemoryTypes
<1>5. \A i \in 1 .. n : /\ m2.ca[i].simplified = m.ca[i].simplified
                        /\ m2.ca[i].mark # REMOVED <=> m.ca[i].mark # REMOVED
  <2>1. m.ca[x].mark # REMOVED /\ m2.ca[x].mark # REMOVED
    BY <1>1, <1>3, MarksApart
  <2> QED
    BY <1>2, <1>3, <2>1 DEF OnlyRaised
<1>6. Live(m2) = Live(m)
  BY <1>1, <1>4, <1>5
<1>7. \A i : locked(m2, i) => locked(m, i)
  BY <1>2 DEF locked, OnlyRaised
<1>8. Shrunk(m0, m2)
  BY <1>1, <1>5, <1>6, <1>7 DEF Shrunk
<1> QED
  BY <1>8 DEF m2

Promote(s, x, t) ==
    [t EXCEPT !.m.ca[x].mark = CORE, !.m.ca[x].touched = 0, !.kept = s.kept,
              !.core = Append(@, x)]

TierStep(s, x, trial) ==
    LET t == Try(s, x, trial)
    IN  IF /\ x \in DOMAIN trial /\ ~s.m.ca[x].simplified
           /\ x \in Live(t.m) /\ t.m.ca[x].lbd <= core_lbd_cut
        THEN Promote(s, x, t)
        ELSE t

TierFields(s, x, u, o) ==
    \/ TryFields(s, x, u, o) /\ u.core = s.core
    \/ /\ u.m = Raised(VivifiedIn(s.m, x, o), x) /\ u.kept = s.kept
       /\ u.core = Append(s.core, x) /\ o \in OutcomeType
       /\ x \in Live(s.m) /\ ~s.m.ca[x].simplified

LEMMA PromoteState ==
    ASSUME NEW n \in Nat, NEW last, NEW m \in Memory(n, last), NEW x \in 1 .. n,
           NEW s, NEW t, NEW kept, NEW core, t = [m |-> m, kept |-> kept, core |-> core]
    PROVE  Promote(s, x, t) = [m |-> Raised(m, x), kept |-> s.kept, core |-> Append(core, x)]
<1> DEFINE ca == m.ca
           h1 == [ca[x] EXCEPT !.mark = CORE]
           h2 == [h1 EXCEPT !.touched = 0]
           m1 == [m EXCEPT !.ca = [ca EXCEPT ![x] = h1]]
           m2 == [m1 EXCEPT !.ca = [m1.ca EXCEPT ![x] = h2]]
           s1 == [t EXCEPT !.m.ca[x].mark = CORE]
           s2 == [s1 EXCEPT !.m.ca[x].touched = 0]
<1>1. ca \in [1 .. n -> HeaderType(last)] /\ m1.ca = [ca EXCEPT ![x] = h1] /\ m1.ca[x] = h1
  BY DEF Memory
<1>2. Promote(s, x, t) = [s2 EXCEPT !.kept = s.kept, !.core = Append(@, x)]
  BY DEF Promote
<1>3. t.m = m
  OBVIOUS
<1>4. s1 = [t EXCEPT !.m = m1]
  <2>1. s1 = [t EXCEPT !.m = [t.m EXCEPT !.ca = [t.m.ca EXCEPT ![x] = [t.m.ca[x] EXCEPT !.mark = CORE]]]]
    OBVIOUS
  <2> HIDE DEF s1
  <2> QED
    BY <1>3, <2>1
<1>5. s1 = [m |-> m1, kept |-> kept, core |-> core]
  BY <1>4
<1> HIDE DEF s1, m1, h1
<1>6. s2 = [s1 EXCEPT !.m = m2]
  BY <1>1, <1>5
<1>7. m2 = Raised(m, x)
  <2>1. m2 = [m EXCEPT !.ca = [[ca EXCEPT ![x] = h1] EXCEPT ![x] = h2]]
    BY <1>1 DEF Memory, m1
  <2>2. [[ca EXCEPT ![x] = h1] EXCEPT ![x] = h2] = [ca EXCEPT ![x] = h2]
    BY <1>1
  <2>3. h2 = [ca[x] EXCEPT !.mark = CORE, !.touched = 0]
    BY DEF h1
  <2> QED
    BY <2>1, <2>2, <2>3 DEF Raised
<1> HIDE DEF s2, m2
<1> QED
  BY <1>2, <1>5, <1>6, <1>7

LEMMA TierStepCases ==
    ASSUME NEW n \in Nat, NEW last, NEW m0 \in Memory(n, last), NEW cs \in Seq(1 .. n),
           NEW trial \in Trials(m0, cs), NEW x \in Elems(cs),
           NEW s \in PromotionStates(m0, n, last)
    PROVE  /\ TierStep(s, x, trial) \in PromotionStates(m0, n, last)
           /\ TierFields(s, x, TierStep(s, x, trial), trial[x])
<1> DEFINE t == Try(s, x, trial)
           o == trial[x]
           u == TierStep(s, x, trial)
<1>1. t \in PromotionStates(m0, n, last) /\ TryFields(s, x, t, o) /\ t.core = s.core
  BY TryTier
<1>2. x \in 1 .. n /\ s.m \in Memory(n, last)
  BY DEF Elems, PromotionStates
<1>3. \/ u = t
      \/ u = Promote(s, x, t) /\ ~s.m.ca[x].simplified /\ x \in Live(t.m)
  BY DEF TierStep
<1> HIDE DEF t, o, u
<1> SUFFICES u \in PromotionStates(m0, n, last) /\ TierFields(s, x, u, o)
  BY DEF u, o
<1>4. CASE u = t
  BY <1>1, <1>4 DEF TierFields
<1>5. CASE u = Promote(s, x, t) /\ ~s.m.ca[x].simplified /\ x \in Live(t.m)
  <2>1. t.m.ca[x].mark # REMOVED
    BY <1>5 DEF Live
  <2>2. /\ t.m = VivifiedIn(s.m, x, o) /\ o \in OutcomeType
        /\ x \in Live(s.m) /\ ~s.m.ca[x].simplified
    <3>1. removeClause(s.m, x).ca[x].mark = REMOVED /\ Unit(s.m, x).ca[x].mark = REMOVED
      BY <1>2, OthersStay
    <3> QED
      BY <1>1, <1>5, <2>1, <3>1 DEF TryFields
  <2>3. /\ t.m \in Memory(n, last) /\ t = [m |-> t.m, kept |-> t.kept, core |-> s.core]
        /\ Shrunk(m0, t.m) /\ s.kept \in Seq(Nat) /\ s.core \in Seq(Nat)
    BY <1>1 DEF PromotionStates
  <2>4. u = [m |-> Raised(t.m, x), kept |-> s.kept, core |-> Append(s.core, x)]
    BY <1>2, <1>5, <2>3, PromoteState, SMTT(30)
  <2>5. Raised(t.m, x) \in Memory(n, last) /\ Shrunk(m0, Raised(t.m, x))
    BY <1>2, <1>5, <2>3, RaisedMemory, RaisedShrunk
  <2>6. Append(s.core, x) \in Seq(Nat)
    BY <1>2, <2>3
  <2> QED
    BY <2>2, <2>3, <2>4, <2>5, <2>6 DEF TierFields, PromotionStates
<1> QED
  BY <1>3, <1>4, <1>5

TierTried(a, x, u, n, last, X, L) ==
    /\ NoRepeats(u.core) /\ CoreDone(u.m)
    /\ \/ u.kept = a.kept /\ Good(u.m, n, last, Elems(u.core), X \ {x}, L)
       \/ u.kept = Append(a.kept, x) /\ Good(u.m, n, last, Elems(u.core), X, L)

LEMMA RaisedGood ==
    ASSUME NEW n \in Nat, NEW last, NEW m, NEW C, NEW T, NEW L, Good(m, n, last, C, T, L),
           NEW x \in T, x \in Live(m)
    PROVE  Good(Raised(m, x), n, last, C \cup {x}, T \ {x}, L)
<1> DEFINE h == [m.ca[x] EXCEPT !.mark = CORE, !.touched = 0]
<1>1. m \in Memory(n, last) /\ x \in 1 .. n
  BY MemoryTypes DEF Good
<1>2. h \in HeaderType(last) /\ h.name = m.ca[x].name /\ h.mark = CORE
  <2>1. m.ca[x] \in HeaderType(last)
    BY <1>1, MemoryTypes
  <2> QED
    BY <2>1, MarksApart DEF HeaderType, Marks
<1>3. Raised(m, x) = [m EXCEPT !.ca[x] = h]
  BY DEF Raised
<1> HIDE DEF h
<1>4. Good([m EXCEPT !.ca[x] = h], n, last, C \cup {x}, T \ {x}, L)
  BY <1>1, <1>2, MarksApart, HeaderChange
<1> QED
  BY <1>3, <1>4

LEMMA TierTryStep ==
    ASSUME NEW n \in Nat, NEW last, NEW a, NEW x, NEW u, NEW o, TierFields(a, x, u, o),
           a.m \in Memory(n, last), a.core \in Seq(Nat), x \in 1 .. n, NEW X, NEW L,
           Good(a.m, n, last, Elems(a.core), X, L), x \in X,
           CoreDone(a.m), NoRepeats(a.core)
    PROVE  TierTried(a, x, u, n, last, X, L)
<1> DEFINE C == Elems(a.core)
<1>1. DOMAIN a.m.ca = 1 .. n /\ a.m.ca[x] \in HeaderType(last)
      /\ Live(a.m) = {i \in 1 .. n : a.m.ca[i].mark # REMOVED}
  BY MemoryTypes
<1>2. x \in Live(a.m) /\ ~a.m.ca[x].simplified => a.m.ca[x].mark # CORE /\ x \notin C
  BY <1>1 DEF CoreDone, Good, InLists
<1> HIDE DEF C
<1>3. Good(a.m, n, last, C, X, L)
  BY DEF C
<1>4. CASE u.core = a.core /\ u.m = a.m /\ u.kept = a.kept /\ x \notin Live(a.m)
  <2>1. Good(a.m, n, last, C, X \ {x}, L)
    BY <1>1, <1>3, <1>4, MarksApart DEF Good, InLists
  <2> QED
    BY <1>4, <2>1 DEF TierTried, C
<1>5. CASE u.core = a.core /\ u.m = a.m /\ u.kept = Append(a.kept, x)
  BY <1>3, <1>5 DEF TierTried, C
<1>6. CASE /\ u.core = a.core /\ u.m \in {removeClause(a.m, x), Unit(a.m, x)}
           /\ u.kept = a.kept /\ x \in Live(a.m) /\ ~a.m.ca[x].simplified
           /\ u.m = removeClause(a.m, x) \/ ~locked(a.m, x)
  <2>1. C \ {x} = C
    BY <1>2, <1>6
  <2>2. Good(u.m, n, last, C \ {x}, X \ {x}, L)
    <3>1. CASE u.m = removeClause(a.m, x)
      <4>1. Good(removeClause(a.m, x), n, last, C \ {x}, X \ {x}, L)
        BY <1>3, <1>6, RemoveGood
      <4> QED
        BY <3>1, <4>1
    <3>2. CASE u.m = Unit(a.m, x) /\ ~locked(a.m, x)
      <4>1. Good(Unit(a.m, x), n, last, C \ {x}, X \ {x}, L)
        BY <1>3, <1>6, <3>2, UnitGood
      <4> QED
        BY <3>2, <4>1
    <3> QED
      BY <1>6, <3>1, <3>2
  <2>3. u.m \in Memory(n, last) /\ u.m.ca[x].mark = REMOVED
        /\ \A i \in 1 .. n : i # x => u.m.ca[i] = a.m.ca[i]
    <3>1. u.m \in Memory(n, last)
      BY <2>2 DEF Good
    <3>2. CASE u.m = removeClause(a.m, x)
      BY <3>1, <3>2, OthersStay
    <3>3. CASE u.m = Unit(a.m, x)
      BY <3>1, <3>3, OthersStay
    <3> QED
      BY <1>6, <3>2, <3>3
  <2>4. CoreDone(u.m)
    <3>1. DOMAIN u.m.ca = 1 .. n
      BY <2>3, MemoryTypes
    <3> QED
      BY <1>1, <2>3, <3>1, MarksApart DEF CoreDone
  <2> QED
    BY <1>6, <2>1, <2>2, <2>4 DEF TierTried, C
<1>7. CASE /\ u.core = a.core /\ u.m = VivifiedIn(a.m, x, o) /\ o \in OutcomeType
           /\ u.kept = Append(a.kept, x) /\ x \in Live(a.m)
  <2>1. Good(VivifiedIn(a.m, x, o), n, last, C, X, L)
    BY <1>3, <1>7, VivifiedGood
  <2>2. u.m \in Memory(n, last)
    BY <1>7, <2>1 DEF Good
  <2>3. CoreDone(u.m)
    <3>1. DOMAIN u.m.ca = 1 .. n
      BY <2>2, MemoryTypes
    <3>2. u.m.ca[x].simplified /\ \A i \in 1 .. n : i # x => u.m.ca[i] = a.m.ca[i]
      BY <1>7, OthersStay
    <3> QED
      BY <1>1, <3>1, <3>2 DEF CoreDone
  <2> QED
    BY <1>7, <2>1, <2>3 DEF TierTried, C
<1>8. CASE /\ u.m = Raised(VivifiedIn(a.m, x, o), x) /\ u.kept = a.kept
           /\ u.core = Append(a.core, x) /\ o \in OutcomeType
           /\ x \in Live(a.m) /\ ~a.m.ca[x].simplified
  <2> DEFINE m1 == VivifiedIn(a.m, x, o)
  <2>1. Good(m1, n, last, C, X, L)
    BY <1>3, <1>8, VivifiedGood
  <2>2. /\ m1.ca[x].simplified /\ m1.ca[x].mark = a.m.ca[x].mark
        /\ \A i \in 1 .. n : i # x => m1.ca[i] = a.m.ca[i]
    BY <1>8, OthersStay
  <2>3. u.m = Raised(m1, x)
    BY <1>8
  <2> HIDE DEF m1
  <2>4. m1 \in Memory(n, last) /\ x \in Live(m1)
    BY <1>1, <1>8, <2>1, <2>2, MemoryTypes DEF Good
  <2>5. Good(Raised(m1, x), n, last, C \cup {x}, X \ {x}, L)
    BY <2>1, <2>4, RaisedGood
  <2>6. CoreDone(u.m)
    <3>1. OnlyRaised(m1, u.m, x, n) /\ DOMAIN u.m.ca = 1 .. n
      BY <2>3, <2>4, RaisedMemory, MemoryTypes
    <3>2. m1.ca[x] \in HeaderType(last)
      BY <2>4, MemoryTypes
    <3>3. u.m.ca[x].simplified
      BY <2>2, <3>1, <3>2 DEF OnlyRaised, HeaderType
    <3> QED
      BY <1>1, <2>2, <3>1, <3>3 DEF CoreDone, OnlyRaised
  <2>7. NoRepeats(u.core) /\ Elems(u.core) = C \cup {x}
    <3>1. x \in Nat /\ x \notin Elems(a.core)
      BY <1>2, <1>8 DEF C
    <3> QED
      BY <1>8, <3>1, ElemsAppend DEF C
  <2> QED
    BY <1>8, <2>3, <2>5, <2>6, <2>7 DEF TierTried
<1> QED
  BY <1>4, <1>5, <1>6, <1>7, <1>8 DEF TierFields, TryFields

TierTrying(r, cs, m, core, trial, n, last) ==
    /\ r \in [0 .. Len(cs) -> PromotionStates(m, n, last)]
    /\ r[0] = [m |-> m, kept |-> <<>>, core |-> core]
    /\ r[Len(cs)] = simplifyLearnt_tier2(m, core, cs, trial)
    /\ \A k \in 1 .. Len(cs) : r[k] = TierStep(r[k - 1], cs[k], trial)

LEMMA TierRun ==
    ASSUME NEW n \in Nat, NEW last, NEW m \in Memory(n, last), NEW cs \in Seq(1 .. n),
           NEW core \in Seq(Nat), NEW trial \in Trials(m, cs)
    PROVE  \E r : TierTrying(r, cs, m, core, trial, n, last)
<1> DEFINE U == 1 .. Len(cs)
           T == PromotionStates(m, n, last)
           b == [m |-> m, kept |-> <<>>, core |-> core]
           Op(s, cr) == TierStep(s, cr, trial)
           g == [p \in T \X U |-> Op(p[1], cs[p[2]])]
           Is(h) == h = [x \in SUBSET U |-> IF x = {} THEN b
                                            ELSE Op(h[x \ {Max(x)}], cs[Max(x)])]
<1>1. Len(cs) \in Nat /\ DOMAIN cs = U /\ \A k \in U : cs[k] \in Elems(cs)
  BY DEF Elems
<1>2. (\E f : Is(f)) => \E f : Is(f) /\ f[U] = simplifyLearnt_tier2(m, core, cs, trial)
  BY <1>1, ZenonT(60) DEF simplifyLearnt_tier2, TierStep, Promote, FoldLeft, MapThenFoldSet
<1>3. \A s \in T : \A k \in U : Op(s, cs[k]) \in T
  BY <1>1, TierStepCases
<1> HIDE DEF Op
<1>4. g \in [T \X U -> T]
  BY <1>3
<1>5. \A s \in T : \A k \in U : g[<<s, k>>] = Op(s, cs[k])
  OBVIOUS
<1> HIDE DEF g
<1>6. b \in T
  BY DEF PromotionStates, Shrunk
<1> HIDE DEF b
<1>7. PICK it \in [SUBSET U -> T] : LoopOf(it, Len(cs), b, g)
  BY <1>1, <1>4, <1>6, LoopExists
<1>8. \A x \in SUBSET U : x # {} => Max(x) \in x /\ x \ {Max(x)} \in SUBSET U
  BY <1>1, Greatest
<1>9. Is(it)
  BY <1>5, <1>7, <1>8 DEF LoopOf
<1>10. PICK f : Is(f) /\ f[U] = simplifyLearnt_tier2(m, core, cs, trial)
  <2> HIDE DEF Is
  <2> QED
    BY <1>2, <1>9
<1>11. Follows(f, Len(cs), b, g, T)
  <2>1. f[{}] = b
    BY <1>10
  <2>2. ASSUME NEW x \in SUBSET U, x # {}, f[x \ {Max(x)}] \in T
        PROVE  f[x] = g[<<f[x \ {Max(x)}], Max(x)>>]
    <3>1. Max(x) \in U
      BY <1>8, <2>2
    <3>2. f[x] = Op(f[x \ {Max(x)}], cs[Max(x)])
      BY <1>10, <2>2
    <3> QED
      BY <1>5, <2>2, <3>1, <3>2
  <2> QED
    BY <2>1, <2>2 DEF Follows
<1> HIDE DEF Is
<1>12. PICK r \in [0 .. Len(cs) -> T] : RunOf(r, Len(cs), b, g, f[U])
  BY <1>1, <1>4, <1>6, <1>11, LoopRun
<1>13. \A k \in U : k - 1 \in 0 .. Len(cs)
  BY <1>1
<1>14. \A k \in U : r[k] = Op(r[k - 1], cs[k])
  BY <1>5, <1>12, <1>13 DEF RunOf
<1> QED
  BY <1>10, <1>12, <1>14 DEF RunOf, TierTrying, Op, b

LEMMA TierKeeps ==
    ASSUME NEW n \in Nat, NEW last, NEW m, NEW cs \in Seq(1 .. n), NoRepeats(cs),
           NEW core \in Seq(1 .. n), NoRepeats(core), NEW L,
           Good(m, n, last, Elems(core), Elems(cs), L), CoreDone(m),
           NEW trial \in Trials(m, cs)
    PROVE  LET s == simplifyLearnt_tier2(m, core, cs, trial)
           IN  /\ Good(s.m, n, last, Elems(s.core), Elems(s.kept), L)
               /\ s.kept \in Seq(1 .. n) /\ NoRepeats(s.kept)
               /\ s.core \in Seq(1 .. n) /\ NoRepeats(s.core)
<1> DEFINE s == simplifyLearnt_tier2(m, core, cs, trial)
           N == Len(cs)
<1>0. core \in Seq(Nat)
  BY SeqOver DEF Elems
<1>1. m \in Memory(n, last) /\ N \in Nat
  BY DEF Good
<1>2. PICK r : TierTrying(r, cs, m, core, trial, n, last)
  BY <1>0, <1>1, TierRun
<1> DEFINE P(k) == /\ Good(r[k].m, n, last, Elems(r[k].core), Now(r[k].kept, cs, k), L)
                   /\ Kept(r[k].kept, cs, k)
                   /\ NoRepeats(r[k].core) /\ CoreDone(r[k].m)
           S == {k \in 0 .. N : P(k)}
<1>3. 0 \in S
  <2>1. r[0].m = m /\ r[0].kept = <<>> /\ r[0].core = core
    BY <1>2 DEF TierTrying
  <2>2. Kept(<<>>, cs, 0) /\ Now(<<>>, cs, 0) = Elems(cs)
    BY LoopEnds
  <2>3. P(0)
    BY <2>1, <2>2
  <2> HIDE DEF P
  <2> QED
    BY <1>1, <2>3
<1>4. ASSUME NEW k \in 1 .. N, k - 1 \in S
      PROVE  k \in S
  <2> DEFINE x == cs[k]
             a == r[k - 1]
             u == r[k]
             X == Now(a.kept, cs, k - 1)
  <2>1. /\ Good(a.m, n, last, Elems(a.core), X, L) /\ Kept(a.kept, cs, k - 1)
        /\ NoRepeats(a.core) /\ CoreDone(a.m)
    BY <1>4
  <2>2. k - 1 \in 0 .. N /\ k \in 0 .. N /\ x \in 1 .. n /\ x \in Elems(cs)
    BY <1>1 DEF Elems
  <2>3. /\ a \in PromotionStates(m, n, last)
        /\ a.kept \in Seq(Nat) /\ a.m \in Memory(n, last) /\ a.core \in Seq(Nat)
    BY <1>2, <2>2 DEF TierTrying, PromotionStates
  <2>4. x \in X /\ Now(Append(a.kept, x), cs, k) = X
    BY <2>3, NowStep
  <2>5. /\ Kept(a.kept, cs, k) /\ Kept(Append(a.kept, x), cs, k)
        /\ Now(a.kept, cs, k) = X \ {x}
    BY <2>1, KeptStep
  <2>6. u = TierStep(a, x, trial)
    BY <1>2 DEF TierTrying
  <2> HIDE DEF x, a, u, X
  <2>7. TierFields(a, x, u, trial[x])
    BY <1>1, <2>2, <2>3, <2>6, TierStepCases
  <2>8. TierTried(a, x, u, n, last, X, L)
    BY <2>1, <2>2, <2>3, <2>4, <2>7, TierTryStep
  <2>9. /\ Good(u.m, n, last, Elems(u.core), Now(u.kept, cs, k), L)
        /\ Kept(u.kept, cs, k)
        /\ NoRepeats(u.core) /\ CoreDone(u.m)
    BY <2>4, <2>5, <2>8 DEF TierTried
  <2> QED
    BY <2>2, <2>9 DEF u
<1>5. N \in S
  <2> HIDE DEF S
  <2> QED
    BY <1>1, <1>3, <1>4, Counting
<1>6. r[N] = s /\ s \in PromotionStates(m, n, last)
  <2>1. N \in 0 .. N
    BY <1>1
  <2> QED
    BY <1>2, <2>1 DEF TierTrying
<1>7. /\ Good(s.m, n, last, Elems(s.core), Elems(s.kept), L) /\ Kept(s.kept, cs, N)
      /\ NoRepeats(s.core)
  <2>1. P(N)
    BY <1>5
  <2>2. Now(s.kept, cs, N) = Elems(s.kept)
    BY LoopEnds
  <2> HIDE DEF s
  <2> QED
    BY <1>6, <2>1, <2>2
<1> HIDE DEF s
<1>8. s.kept \in Seq(Nat) /\ NoRepeats(s.kept) /\ s.core \in Seq(Nat)
  BY <1>6, <1>7 DEF Kept, PromotionStates
<1>9. Elems(s.kept) \subseteq 1 .. n /\ Elems(s.core) \subseteq 1 .. n
  BY <1>7, MemoryTypes DEF Good, InLists
<1>10. s.kept \in Seq(1 .. n) /\ s.core \in Seq(1 .. n)
  BY <1>8, <1>9, SeqOver
<1> QED
  BY <1>7, <1>8, <1>10 DEF s

-----------------------------------------------------------------------------
(* The clauses that analyze resolves with.                                 *)
AnalyzeStates(n, last, m0, L) ==
    {a \in [m : Memory(n, last), core : Seq(1 .. n), tier2 : Seq(1 .. n)] :
        /\ Good(a.m, n, last, Elems(a.core), Elems(a.tier2), L)
        /\ NoRepeats(a.core) /\ NoRepeats(a.tier2)
        /\ Live(a.m) = Live(m0) /\ a.m.reason = m0.reason}

LEMMA LiveStays ==
    ASSUME NEW n, NEW last, NEW m \in Memory(n, last), NEW x \in Live(m), NEW h, h.mark # REMOVED
    PROVE  Live([m EXCEPT !.ca[x] = h]) = Live(m)
<1> DEFINE m2 == [m EXCEPT !.ca[x] = h]
<1>1. m.ca \in [1 .. n -> HeaderType(last)] /\ x \in 1 .. n
  BY MemoryTypes DEF Memory
<1>2. DOMAIN m2.ca = 1 .. n /\ m2.ca[x] = h /\ \A i \in 1 .. n : i # x => m2.ca[i] = m.ca[i]
  BY <1>1 DEF Memory
<1> HIDE DEF m2
<1>3. Live(m2) = Live(m)
  BY <1>1, <1>2 DEF Live
<1> QED
  BY <1>3 DEF m2

LEMMA ResolvedIn ==
    ASSUME NEW n \in Nat, NEW last, NEW m0, NEW L, NEW a \in AnalyzeStates(n, last, m0, L),
           NEW x \in Live(m0), NEW lbd \in Lbds, conflicts' \in Nat, core_lbd_cut' \in Nat
    PROVE  Resolved(a, x, lbd) \in AnalyzeStates(n, last, m0, L)
<1> DEFINE c == a.m.ca[x]
           toCore == Improved(c, lbd) /\ lbd <= core_lbd_cut'
           toTier2 == ToTier2(c, lbd)
           mark == IF toCore THEN CORE ELSE IF toTier2 THEN TIER2 ELSE c.mark
           h == [c EXCEPT !.mark = mark,
                          !.lbd = IF Improved(c, lbd) THEN lbd ELSE @,
                          !.removable = @ /\ ~(Improved(c, lbd) /\ c.lbd <= 30),
                          !.touched = IF mark = TIER2 THEN conflicts' ELSE 0]
           core == IF toCore THEN Append(a.core, x) ELSE a.core
           tier2 == IF toTier2 THEN Append(a.tier2, x) ELSE a.tier2
           b == Resolved(a, x, lbd)
<1>1. /\ a = [m |-> a.m, core |-> a.core, tier2 |-> a.tier2]
      /\ a.m \in Memory(n, last) /\ a.core \in Seq(1 .. n) /\ a.tier2 \in Seq(1 .. n)
      /\ Good(a.m, n, last, Elems(a.core), Elems(a.tier2), L)
      /\ NoRepeats(a.core) /\ NoRepeats(a.tier2)
      /\ Live(a.m) = Live(m0) /\ a.m.reason = m0.reason
  BY DEF AnalyzeStates
<1>2. x \in 1 .. n /\ c \in HeaderType(last) /\ c.mark # REMOVED
  BY <1>1, MemoryTypes
<1>3. lbd \in Nat
  BY Types
<1>4. /\ toCore => c.mark # CORE /\ ~toTier2
      /\ toTier2 => c.mark = LOCAL_MARK
  BY <1>3 DEF Improved, ToTier2
<1>5. b = [m |-> [a.m EXCEPT !.ca[x] = h], core |-> core, tier2 |-> tier2]
  <2> DEFINE m2 == [a.m EXCEPT !.ca[x] = h]
  <2>1. b = [a EXCEPT !.m = m2, !.core = core, !.tier2 = tier2]
    BY DEF Resolved
  <2> HIDE DEF b, m2, core, tier2
  <2>2. b = [m |-> m2, core |-> core, tier2 |-> tier2]
    BY <1>1, <2>1
  <2> QED
    BY <2>2 DEF m2
<1>6. mark \in Marks /\ mark # REMOVED
  BY <1>2, MarksApart DEF HeaderType, Marks
<1>7. h \in HeaderType(last) /\ h.name = c.name /\ h.mark = mark
  <2> DEFINE lbd2 == IF Improved(c, lbd) THEN lbd ELSE c.lbd
             rem2 == c.removable /\ ~(Improved(c, lbd) /\ c.lbd <= 30)
             tou2 == IF mark = TIER2 THEN conflicts' ELSE 0
  <2>1. lbd2 \in Nat /\ rem2 \in BOOLEAN /\ tou2 \in Nat
    BY <1>2, <1>3 DEF HeaderType
  <2>2. h = [c EXCEPT !.mark = mark, !.lbd = lbd2, !.removable = rem2, !.touched = tou2]
    OBVIOUS
  <2> HIDE DEF h, mark, lbd2, rem2, tou2, c
  <2> QED
    BY <1>2, <1>6, <2>1, <2>2 DEF HeaderType
<1> DEFINE C == Elems(a.core)
           T == Elems(a.tier2)
<1>8. /\ c.mark = CORE <=> x \in C
      /\ c.mark = TIER2 => x \in T
      /\ x \in T => c.mark # LOCAL_MARK
      /\ c.mark = LOCAL_MARK => x \in L
  BY <1>1, <1>2, MemoryTypes DEF Good, InLists
<1>9. /\ core \in Seq(1 .. n) /\ NoRepeats(core)
      /\ Elems(core) = IF toCore THEN C \cup {x} ELSE C
  <2>1. CASE toCore
    <3> DEFINE q == a.core
               more == Append(q, x)
    <3>1. x \notin Elems(q) /\ q \in Seq(1 .. n) /\ NoRepeats(q) /\ x \in 1 .. n
      BY <1>1, <1>2, <1>4, <1>8, <2>1
    <3> HIDE DEF q
    <3>2. more \in Seq(1 .. n) /\ NoRepeats(more) /\ Elems(more) = Elems(q) \cup {x}
      BY ONLY <3>1, ElemsAppend
    <3>3. core = more /\ C = Elems(q)
      BY <2>1 DEF q
    <3> HIDE DEF more, core, C, toCore
    <3> QED
      BY <2>1, <3>2, <3>3
  <2>2. CASE ~toCore
    BY <1>1, <2>2
  <2> QED
    BY <2>1, <2>2
<1>10. /\ tier2 \in Seq(1 .. n) /\ NoRepeats(tier2)
       /\ Elems(tier2) = IF toTier2 THEN T \cup {x} ELSE T
  <2>1. CASE toTier2
    <3> DEFINE q == a.tier2
               more == Append(q, x)
    <3>1. x \notin Elems(q) /\ q \in Seq(1 .. n) /\ NoRepeats(q) /\ x \in 1 .. n
      BY <1>1, <1>2, <1>4, <1>8, <2>1
    <3> HIDE DEF q
    <3>2. more \in Seq(1 .. n) /\ NoRepeats(more) /\ Elems(more) = Elems(q) \cup {x}
      BY ONLY <3>1, ElemsAppend
    <3>3. tier2 = more /\ T = Elems(q)
      BY <2>1 DEF q
    <3> HIDE DEF more, tier2, T, toTier2
    <3> QED
      BY <2>1, <3>2, <3>3
  <2>2. CASE ~toTier2
    BY <1>1, <2>2
  <2> QED
    BY <2>1, <2>2
<1> DEFINE C2 == Elems(core)
           T2 == Elems(tier2)
<1>11. /\ C2 \ {x} = C \ {x} /\ T2 \ {x} = T \ {x}
       /\ x \in C2 <=> mark = CORE
       /\ mark = TIER2 => x \in T2
       /\ x \in T2 => mark # LOCAL_MARK
       /\ mark = LOCAL_MARK => x \in L
  <2> HIDE DEF core, tier2, C, T, toCore, toTier2, c
  <2> QED
    BY <1>4, <1>8, <1>9, <1>10, MarksApart
<1> HIDE DEF h, mark, C2, T2, core, tier2, C, T, c, b
<1>12. Good(a.m, n, last, C, T, L)
  BY <1>1 DEF C, T
<1>13. x \in Live(a.m) /\ h.name = a.m.ca[x].name /\ h.mark # REMOVED
  BY <1>1, <1>6, <1>7 DEF c
<1>14. Good([a.m EXCEPT !.ca[x] = h], n, last, C2, T2, L)
  BY <1>7, <1>11, <1>12, <1>13, HeaderChange
<1>15. Live([a.m EXCEPT !.ca[x] = h]) = Live(m0)
  BY <1>1, <1>13, LiveStays
<1>16. b \in AnalyzeStates(n, last, m0, L)
  <2> DEFINE m2 == [a.m EXCEPT !.ca[x] = h]
  <2>1. m2 \in Memory(n, last) /\ m2.reason = m0.reason
    BY <1>1, <1>14 DEF Good, Memory
  <2> HIDE DEF m2
  <2>2. b.m = m2 /\ b.core = core /\ b.tier2 = tier2
        /\ b \in [m : Memory(n, last), core : Seq(1 .. n), tier2 : Seq(1 .. n)]
    BY <1>5, <1>9, <1>10, <2>1 DEF m2
  <2>3. Good(b.m, n, last, Elems(b.core), Elems(b.tier2), L) /\ Live(b.m) = Live(m0)
    BY <1>14, <1>15, <2>2 DEF m2, C2, T2
  <2> QED
    BY <1>9, <1>10, <2>1, <2>2, <2>3 DEF AnalyzeStates
<1> QED
  BY <1>16 DEF b

LEMMA AnalyzeKeeps ==
    ASSUME NEW n \in Nat, NEW last, NEW L, conflicts' \in Nat, core_lbd_cut' \in Nat,
           [m |-> mem, core |-> learnts.core, tier2 |-> learnts.tier2]
              \in AnalyzeStates(n, last, mem, L),
           NEW used \in SUBSET Live(mem), NEW lbds \in [used -> Lbds]
    PROVE  analyze(used, lbds) \in AnalyzeStates(n, last, mem, L)
<1> DEFINE T == AnalyzeStates(n, last, mem, L)
           b == [m |-> mem, core |-> learnts.core, tier2 |-> learnts.tier2]
           U == used
           ch == [x \in SUBSET U |-> CHOOSE y \in x : TRUE]
           Op(a, x) == Resolved(a, x, lbds[x])
           g == [p \in T \X U |-> Op(p[1], p[2])]
           Is(h) == h = [x \in SUBSET U |-> IF x = {} THEN b
                            ELSE Op(h[x \ {CHOOSE y \in x : TRUE}], CHOOSE y \in x : TRUE)]
<1>1. IsFiniteSet(U)
  <2>1. mem \in Memory(n, last)
    BY DEF AnalyzeStates, Good
  <2>2. U \subseteq 1 .. n
    BY <2>1, MemoryTypes
  <2> QED
    <3>1. IsFiniteSet(1 .. n)
      BY FS_Interval
    <3> QED
      BY <2>2, <3>1, FS_Subset
<1>2. (\E f : Is(f)) => \E f : Is(f) /\ f[U] = analyze(used, lbds)
  BY DEF analyze, FoldSet, MapThenFoldSet
<1>3. \A a \in T : \A x \in U : Op(a, x) \in T
  <2> SUFFICES ASSUME NEW a \in T, NEW x \in U
               PROVE  Resolved(a, x, lbds[x]) \in T
    OBVIOUS
  <2>1. x \in Live(mem) /\ lbds[x] \in Lbds
    OBVIOUS
  <2> QED
    BY <2>1, ResolvedIn
<1> HIDE DEF Op
<1>4. g \in [T \X U -> T]
  BY <1>3
<1>5. \A a \in T : \A x \in U : g[<<a, x>>] = Op(a, x)
  OBVIOUS
<1> HIDE DEF g
<1>6. b \in T
  OBVIOUS
<1> HIDE DEF b, T
<1>7. Chooses(ch, U) /\ \A x \in SUBSET U : ch[x] = CHOOSE y \in x : TRUE
  BY DEF Chooses
<1>8. \A x \in SUBSET U : x # {} => ch[x] \in U /\ x \ {ch[x]} \in SUBSET U
  BY <1>7 DEF Chooses
<1> HIDE DEF ch
<1>9. PICK it \in [SUBSET U -> T] : FoldOf(it, U, ch, b, g)
  <2> HIDE DEF U
  <2> QED
    BY <1>1, <1>4, <1>6, <1>7, FoldExists
<1>10. Is(it)
  <2> DEFINE F(x) == IF x = {} THEN b
                     ELSE Op(it[x \ {CHOOSE y \in x : TRUE}], CHOOSE y \in x : TRUE)
  <2>1. ASSUME NEW x \in SUBSET U
        PROVE  it[x] = F(x)
    <3>1. CASE x = {}
      BY <1>9, <3>1 DEF FoldOf
    <3>2. CASE x # {}
      <4> DEFINE y == ch[x]
      <4>1. y \in U /\ it[x \ {y}] \in T
        BY <1>8, <3>2
      <4>2. it[x] = g[<<it[x \ {y}], y>>]
        BY <1>9, <3>2 DEF FoldOf
      <4>3. y = CHOOSE z \in x : TRUE
        BY <1>7
      <4> HIDE DEF y
      <4>4. it[x] = Op(it[x \ {y}], y)
        BY <1>5, <4>1, <4>2
      <4> QED
        BY <3>2, <4>3, <4>4
    <3> QED
      BY <3>1, <3>2
  <2> HIDE DEF F
  <2>2. it = [x \in SUBSET U |-> F(x)]
    BY <2>1
  <2> QED
    BY <2>2 DEF F
<1>11. PICK f : Is(f) /\ f[U] = analyze(used, lbds)
  <2> HIDE DEF Is
  <2> QED
    BY <1>2, <1>10
<1>12. \A x \in SUBSET U : x = {} \/ f[x \ {ch[x]}] \in T => f[x] \in T
  <2> SUFFICES ASSUME NEW x \in SUBSET U, x = {} \/ f[x \ {ch[x]}] \in T
               PROVE  f[x] \in T
    OBVIOUS
  <2>1. f[x] = IF x = {} THEN b ELSE Op(f[x \ {ch[x]}], ch[x])
    BY <1>7, <1>11
  <2> QED
    BY <1>3, <1>6, <1>8, <2>1
<1> HIDE DEF Is, U
<1>13. f[U] \in T
  BY <1>1, <1>7, <1>12, FoldIn
<1> QED
  BY <1>11, <1>13 DEF T

-----------------------------------------------------------------------------
(* Garbage collection.  An order of the set X names each element once.     *)
Ordering(order, X) ==
    /\ order \in Seq(X)
    /\ \A i, j \in DOMAIN order : order[i] = order[j] => i = j
    /\ \A x \in X : \E i \in DOMAIN order : order[i] = x

LEMMA SetToSeqOrders ==
    ASSUME NEW X, IsFiniteSet(X)
    PROVE  Ordering(SetToSeq(X), X)
<1> DEFINE N == Cardinality(X)
           f == SetToSeq(X)
<1>1. N \in Nat /\ IsFiniteSet(1 .. N) /\ Cardinality(1 .. N) = N
  BY FS_CardinalityType, FS_Interval
<1>2. ExistsBijection(1 .. N, X)
  BY <1>1, FS_SameCardinalityBij
<1>3. \E g \in [1 .. N -> X] : IsInjective(g)
  BY <1>2 DEF ExistsBijection, Bijection, Injection
<1>4. f \in [1 .. N -> X] /\ IsInjective(f)
  BY <1>3 DEF SetToSeq
<1> HIDE DEF f
<1>5. f \in Injection(1 .. N, X)
  BY <1>4 DEF Injection
<1>6. f \in Surjection(1 .. N, X)
  <2> HIDE DEF N
  <2> QED
    BY <1>1, <1>5, FS_Injection DEF N
<1>7. f \in Seq(X) /\ DOMAIN f = 1 .. N
  <2> HIDE DEF N
  <2> QED
    BY <1>1, <1>4
<1>8. Ordering(f, X)
  BY <1>4, <1>6, <1>7 DEF Ordering, IsInjective, Surjection
<1> QED
  BY <1>8 DEF f

At(order, x) == SelectInSeq(order, LAMBDA cr : cr = x)

LEMMA AtPlace ==
    ASSUME NEW X, NEW order, Ordering(order, X), NEW x \in X
    PROVE  At(order, x) \in 1 .. Len(order) /\ order[At(order, x)] = x
<1> DEFINE I == {i \in 1 .. Len(order) : order[i] = x}
<1>1. Len(order) \in Nat /\ DOMAIN order = 1 .. Len(order)
  BY DEF Ordering
<1>2. I # {}
  BY <1>1 DEF Ordering
<1>3. \E i \in I : \A j \in I : i <= j
  <2>1. I \in SUBSET Nat
    BY <1>1
  <2> HIDE DEF I
  <2> QED
    BY <1>2, <2>1, LeastNumber
<1>4. Min(I) \in I
  <2> HIDE DEF I
  <2> QED
    BY <1>3 DEF Min
<1>5. At(order, x) = Min(I)
  BY <1>2 DEF At, SelectInSeq
<1> QED
  BY <1>4, <1>5

LEMMA RelocatedAt ==
    ASSUME NEW f, NEW order
    PROVE  /\ DOMAIN Relocated(f, order) = DOMAIN f
           /\ \A i \in DOMAIN f : Relocated(f, order)[i] = At(order, f[i])
BY DEF Relocated, At

MovedTo(C, C2, order) == \A j : j \in C2 <=> j \in 1 .. Len(order) /\ order[j] \in C

MovedList(q, q2, order) ==
    /\ q2 \in Seq(1 .. Len(order))
    /\ NoRepeats(q) => NoRepeats(q2)
    /\ MovedTo(Elems(q), Elems(q2), order)

LEMMA RelocatedList ==
    ASSUME NEW X, NEW order, Ordering(order, X), NEW n, NEW q \in Seq(1 .. n), Elems(q) \subseteq X
    PROVE  MovedList(q, Relocated(q, order), order)
<1> DEFINE q2 == Relocated(q, order)
           N == Len(order)
<1>1. N \in Nat /\ DOMAIN order = 1 .. N
      /\ \A i, j \in 1 .. N : order[i] = order[j] => i = j
  BY DEF Ordering
<1>2. Len(q) \in Nat /\ DOMAIN q = 1 .. Len(q) /\ \A i \in 1 .. Len(q) : q[i] \in X
  BY DEF Elems
<1>3. DOMAIN q2 = 1 .. Len(q) /\ \A i \in 1 .. Len(q) : q2[i] = At(order, q[i])
  BY <1>2, RelocatedAt
<1>4. q2 = [i \in 1 .. Len(q) |-> q2[i]]
  BY <1>2 DEF Relocated
<1> HIDE DEF q2
<1>5. \A i \in 1 .. Len(q) : q2[i] \in 1 .. N /\ order[q2[i]] = q[i]
  BY <1>2, <1>3, AtPlace
<1>6. q2 \in Seq(1 .. N) /\ Len(q2) = Len(q)
  <2> HIDE DEF N
  <2> QED
    BY <1>2, <1>4, <1>5
<1>7. NoRepeats(q) => NoRepeats(q2)
  BY <1>5, <1>6 DEF NoRepeats
<1>8. ASSUME NEW j
      PROVE  j \in Elems(q2) <=> j \in 1 .. N /\ order[j] \in Elems(q)
  <2>1. j \in Elems(q2) => j \in 1 .. N /\ order[j] \in Elems(q)
    BY <1>5, <1>6 DEF Elems
  <2>2. ASSUME j \in 1 .. N, order[j] \in Elems(q)
        PROVE  j \in Elems(q2)
    <3>1. PICK i \in 1 .. Len(q) : q[i] = order[j]
      BY <2>2 DEF Elems
    <3>2. q2[i] = j
      BY <1>1, <1>5, <2>2, <3>1
    <3> QED
      BY <1>6, <3>2 DEF Elems
  <2> QED
    BY <2>1, <2>2
<1>9. MovedTo(Elems(q), Elems(q2), order)
  BY <1>8 DEF MovedTo
<1> QED
  BY <1>6, <1>7, <1>9 DEF MovedList, q2

Cleaned(m) == [k \in {i \in DOMAIN m.watches : m.watches[i] \in Live(m)} |-> m.watches[k]]

MovedMemory(m, m2, order) ==
    /\ m2 = [ca |-> [i \in DOMAIN order |-> m.ca[order[i]]],
             watches |-> Relocated(Cleaned(m), order), reason |-> Relocated(m.reason, order),
             wasted |-> FALSE, unexpected |-> m.unexpected]

RelocatedTo(m, m2, order, last) ==
    /\ m2 \in Memory(Len(order), last) /\ m2.unexpected = FALSE
    /\ NamesApart(m2) /\ Lead(m2)
    /\ \A j \in 1 .. Len(order) : m2.ca[j] = m.ca[order[j]]

LEMMA RelocatedMemory ==
    ASSUME NEW n \in Nat, NEW last, NEW m, NEW C, NEW T, NEW L, Good(m, n, last, C, T, L),
           NEW X \in SUBSET (1 .. n), Live(m) \subseteq X,
           NEW order, Ordering(order, X), NEW m2, MovedMemory(m, m2, order)
    PROVE  RelocatedTo(m, m2, order, last)
<1> DEFINE N == Len(order)
           w == Cleaned(m)
<1>1. /\ m \in Memory(n, last) /\ DOMAIN m.ca = 1 .. n
      /\ m.reason \in References /\ m.watches \in References
      /\ \A i \in 1 .. n : m.ca[i] \in HeaderType(last)
      /\ Live(m) = {i \in 1 .. n : m.ca[i].mark # REMOVED}
  BY MemoryTypes DEF Good
<1>2. /\ N \in Nat /\ DOMAIN order = 1 .. N
      /\ \A i, j \in 1 .. N : order[i] = order[j] => i = j
      /\ \A j \in 1 .. N : order[j] \in X
      /\ \A x \in X : \E j \in 1 .. N : order[j] = x
  BY DEF Ordering
<1>3. \A x \in X : At(order, x) \in 1 .. N /\ order[At(order, x)] = x
  BY AtPlace
<1>4. /\ m2.ca = [i \in 1 .. N |-> m.ca[order[i]]] /\ m2.watches = Relocated(w, order)
      /\ m2.reason = Relocated(m.reason, order) /\ m2.wasted = FALSE
      /\ m2.unexpected = m.unexpected
      /\ m2 = [ca |-> m2.ca, watches |-> m2.watches, reason |-> m2.reason, wasted |-> FALSE,
               unexpected |-> m.unexpected]
  BY <1>2 DEF MovedMemory
<1>5. /\ \A k \in DOMAIN m.reason : m.reason[k] \in X
      /\ \A k \in DOMAIN w : k \in DOMAIN m.watches /\ w[k] = m.watches[k] /\ w[k] \in Live(m)
      /\ \A k \in DOMAIN m.watches : m.watches[k] \in Live(m) => k \in DOMAIN w
  BY DEF Cleaned, Good, Lead
<1>6. \E D \in SUBSET Nat : D = DOMAIN m.reason
  BY <1>1 DEF References
<1>7. \E D \in SUBSET Nat : D = DOMAIN m.watches
  BY <1>1 DEF References
<1> HIDE DEF w
<1>8. /\ DOMAIN m2.reason = DOMAIN m.reason
      /\ \A k \in DOMAIN m.reason : m2.reason[k] = At(order, m.reason[k])
  BY <1>4, RelocatedAt
<1>9. /\ DOMAIN m2.watches = DOMAIN w
      /\ \A k \in DOMAIN w : m2.watches[k] = At(order, w[k])
  BY <1>4, RelocatedAt
<1>10. /\ \A k \in DOMAIN m.reason : m2.reason[k] \in 1 .. N /\ order[m2.reason[k]] = m.reason[k]
       /\ \A k \in DOMAIN w : m2.watches[k] \in 1 .. N /\ order[m2.watches[k]] = w[k]
  <2>1. ASSUME NEW k \in DOMAIN m.reason
        PROVE  m2.reason[k] \in 1 .. N /\ order[m2.reason[k]] = m.reason[k]
    <3>1. m.reason[k] \in X
      BY <1>5
    <3> QED
      BY <1>3, <1>8, <3>1
  <2>2. ASSUME NEW k \in DOMAIN w
        PROVE  m2.watches[k] \in 1 .. N /\ order[m2.watches[k]] = w[k]
    <3>1. w[k] \in X
      BY <1>5
    <3> QED
      BY <1>3, <1>9, <3>1
  <2> QED
    BY <2>1, <2>2
<1>11. m2.reason \in References
  <2>1. m2.reason = [k \in DOMAIN m.reason |-> m2.reason[k]]
    BY <1>4 DEF Relocated
  <2>2. \A k \in DOMAIN m.reason : m2.reason[k] \in Nat
    BY <1>2, <1>10
  <2> QED
    BY <1>6, <2>1, <2>2 DEF References
<1>12. m2.watches \in References
  <2>1. m2.watches = [k \in DOMAIN w |-> m2.watches[k]]
    BY <1>4 DEF Relocated
  <2>2. \A k \in DOMAIN w : m2.watches[k] \in Nat
    BY <1>2, <1>10
  <2>3. DOMAIN w \in SUBSET Nat
    BY <1>5, <1>7
  <2> QED
    BY <2>1, <2>2, <2>3 DEF References
<1>13. /\ \A j \in 1 .. N : m2.ca[j] = m.ca[order[j]]
       /\ m2.ca \in [1 .. N -> HeaderType(last)]
  BY <1>1, <1>2, <1>4
<1>14. m2 \in Memory(N, last) /\ m2.unexpected = FALSE
  <2>1. m.unexpected = FALSE
    BY DEF Good
  <2> QED
    BY <1>4, <1>11, <1>12, <1>13, <2>1 DEF Memory
<1>15. NamesApart(m2)
  <2>1. \A i, j \in 1 .. N : m.ca[order[i]].name = m.ca[order[j]].name => i = j
    BY <1>1, <1>2 DEF Good, NamesApart
  <2> QED
    BY <1>13, <2>1 DEF NamesApart
<1>16. Live(m2) = {j \in 1 .. N : order[j] \in Live(m)}
  <2>1. \A j \in 1 .. N : order[j] \in 1 .. n
    BY <1>2
  <2>2. Live(m2) = {j \in 1 .. N : m2.ca[j].mark # REMOVED}
    BY <1>14, MemoryTypes
  <2> QED
    BY <1>1, <1>13, <2>1, <2>2
<1>17. Lead(m2)
  <2>1. ASSUME NEW k \in DOMAIN m2.reason
        PROVE  m2.reason[k] \in Live(m2) /\ m2.ca[m2.reason[k]].name = k
    BY <1>8, <1>10, <1>13, <1>16 DEF Good, Lead
  <2>2. ASSUME NEW k \in DOMAIN m2.watches
        PROVE  m2.watches[k] \in DOMAIN m2.ca /\ m2.ca[m2.watches[k]].name = k
    BY <1>5, <1>9, <1>10, <1>13 DEF Good, Lead
  <2>3. ASSUME NEW j \in Live(m2)
        PROVE  m2.ca[j].name \in DOMAIN m2.watches
    <3> DEFINE i == order[j]
               name == m.ca[i].name
    <3>1. i \in Live(m) /\ m2.ca[j].name = name
      BY <1>13, <1>16
    <3>2. name \in DOMAIN m.watches
      BY <3>1 DEF Good, Lead
    <3>3. m.watches[name] \in DOMAIN m.ca /\ m.ca[m.watches[name]].name = name
      BY <3>2 DEF Good, Lead
    <3>4. m.watches[name] = i
      BY <1>1, <3>1, <3>3 DEF Good, NamesApart
    <3> HIDE DEF i, name
    <3> QED
      BY <1>5, <1>9, <3>1, <3>2, <3>4
  <2> QED
    BY <2>1, <2>2, <2>3 DEF Lead
<1> QED
  BY <1>13, <1>14, <1>15, <1>17 DEF RelocatedTo

LEMMA RelocatedInLists ==
    ASSUME NEW n \in Nat, NEW last, NEW m, NEW C, NEW T, NEW L, Good(m, n, last, C, T, L),
           NEW X \in SUBSET (1 .. n), NEW order, Ordering(order, X),
           NEW m2, RelocatedTo(m, m2, order, last), NEW C2, NEW T2, NEW L2,
           MovedTo(C, C2, order), MovedTo(T, T2, order), MovedTo(L, L2, order)
    PROVE  InLists(m2, C2, T2, L2)
<1> DEFINE N == Len(order)
<1>1. \A j \in 1 .. N : order[j] \in 1 .. n
  <2>1. DOMAIN order = 1 .. N /\ \A j \in DOMAIN order : order[j] \in X
    BY DEF Ordering
  <2> QED
    BY <2>1
<1>2. \A j \in 1 .. N : m2.ca[j] = m.ca[order[j]]
  BY DEF RelocatedTo
<1>3. DOMAIN m2.ca = 1 .. N /\ DOMAIN m.ca = 1 .. n
  BY MemoryTypes DEF RelocatedTo, Good
<1>4. /\ \A j : j \in C2 <=> j \in 1 .. N /\ order[j] \in C
      /\ \A j : j \in T2 <=> j \in 1 .. N /\ order[j] \in T
      /\ \A j : j \in L2 <=> j \in 1 .. N /\ order[j] \in L
  BY DEF MovedTo
<1>5. /\ \A i \in C : m.ca[i].mark = CORE
      /\ \A i \in T : m.ca[i].mark # LOCAL_MARK
      /\ \A i \in 1 .. n : /\ m.ca[i].mark = CORE => i \in C
                           /\ m.ca[i].mark = TIER2 => i \in T
                           /\ m.ca[i].mark = LOCAL_MARK => i \in L
  BY <1>3 DEF Good, InLists
<1> HIDE DEF N
<1>6. C2 \subseteq 1 .. N /\ T2 \subseteq 1 .. N /\ L2 \subseteq 1 .. N
  BY ONLY <1>4
<1>7. \A j \in C2 : m2.ca[j].mark = CORE
  BY ONLY <1>2, <1>4, <1>5
<1>8. \A j \in T2 : m2.ca[j].mark # LOCAL_MARK
  BY ONLY <1>2, <1>4, <1>5
<1>9. \A j \in 1 .. N : /\ m2.ca[j].mark = CORE => j \in C2
                        /\ m2.ca[j].mark = TIER2 => j \in T2
                        /\ m2.ca[j].mark = LOCAL_MARK => j \in L2
  BY ONLY <1>1, <1>2, <1>4, <1>5
<1> QED
  BY <1>3, <1>6, <1>7, <1>8, <1>9 DEF InLists

(* The memory together with the lists.                                     *)
Lists == {"core", "tier2", "local"}

Listing(ls, n) ==
    /\ DOMAIN ls = Lists
    /\ ls.core \in Seq(1 .. n) /\ ls.tier2 \in Seq(1 .. n) /\ ls.local \in Seq(1 .. n)
    /\ NoRepeats(ls.core) /\ NoRepeats(ls.tier2)

Fine(m, ls, n, last) ==
    /\ Good(m, n, last, Elems(ls.core), Elems(ls.tier2), Elems(ls.local))
    /\ Listing(ls, n)

Met(m, ls) ==
    Range(Cleaned(m)) \cup ToSet(ls.core) \cup ToSet(ls.tier2) \cup ToSet(ls.local)

LEMMA ToSetElems ==
    ASSUME NEW S, NEW q \in Seq(S)
    PROVE  ToSet(q) = Elems(q) /\ Elems(q) \subseteq S
<1>1. DOMAIN q = 1 .. Len(q) /\ \A i \in 1 .. Len(q) : q[i] \in S
  OBVIOUS
<1> QED
  BY <1>1 DEF ToSet, Elems

LEMMA RelocatedFine ==
    ASSUME NEW n \in Nat, NEW last, NEW m, NEW ls, Fine(m, ls, n, last)
    PROVE  \E N \in Nat : Fine(relocAll(m, ls).m, relocAll(m, ls).ls, N, last)
<1> DEFINE X == Met(m, ls)
           order == SetToSeq(X)
           m2 == relocAll(m, ls).m
           ls2 == relocAll(m, ls).ls
           N == Len(order)
           C == Elems(ls.core)
           T == Elems(ls.tier2)
           L == Elems(ls.local)
<1>1. /\ Good(m, n, last, C, T, L) /\ m \in Memory(n, last)
      /\ DOMAIN m.ca = 1 .. n /\ Live(m) = {i \in 1 .. n : m.ca[i].mark # REMOVED}
      /\ \A i \in 1 .. n : m.ca[i] \in HeaderType(last)
  BY MemoryTypes DEF Fine, Good
<1>2. /\ DOMAIN ls = Lists /\ NoRepeats(ls.core) /\ NoRepeats(ls.tier2)
      /\ ls.core \in Seq(1 .. n) /\ ls.tier2 \in Seq(1 .. n) /\ ls.local \in Seq(1 .. n)
  BY DEF Fine, Listing
<1>3. /\ ToSet(ls.core) = C /\ ToSet(ls.tier2) = T /\ ToSet(ls.local) = L
      /\ C \subseteq 1 .. n /\ T \subseteq 1 .. n /\ L \subseteq 1 .. n
  <2> DEFINE Is(q) == ToSet(q) = Elems(q) /\ Elems(q) \subseteq 1 .. n
  <2>1. \A q \in Seq(1 .. n) : Is(q)
    BY ToSetElems
  <2>2. Is(ls.core) /\ Is(ls.tier2) /\ Is(ls.local)
    <3> HIDE DEF Is
    <3> QED
      BY <1>2, <2>1
  <2> QED
    BY <2>2
<1>4. Range(Cleaned(m)) \subseteq 1 .. n
  BY <1>1 DEF Cleaned, Range
<1>5. X \in SUBSET (1 .. n) /\ C \subseteq X /\ T \subseteq X /\ L \subseteq X
  BY <1>3, <1>4 DEF Met
<1>6. Live(m) \subseteq X
  <2>1. \A i \in Live(m) : i \in C \/ i \in T \/ i \in L
    BY <1>1 DEF Good, InLists, HeaderType, Marks
  <2> HIDE DEF X, C, T, L
  <2> QED
    BY <1>5, <2>1
<1>7. IsFiniteSet(X)
  <2>1. IsFiniteSet(1 .. n)
    BY FS_Interval
  <2> QED
    BY <1>5, <2>1, FS_Subset
<1>8. /\ m2 = [m EXCEPT !.ca = [i \in DOMAIN order |-> m.ca[order[i]]],
                        !.watches = Relocated(Cleaned(m), order),
                        !.reason = RelocatedReasons(@, order), !.wasted = FALSE]
      /\ ls2 = [list \in DOMAIN ls |-> Relocated(ls[list], order)]
  BY DEF relocAll, Met, Cleaned
<1> HIDE DEF X
<1>9. Ordering(order, X)
  BY <1>7, SetToSeqOrders
<1> HIDE DEF order, m2, ls2
<1>10. MovedMemory(m, m2, order)
  BY <1>1, <1>8 DEF MovedMemory, Memory, RelocatedReasons
<1>11. /\ DOMAIN ls2 = Lists /\ ls2.core = Relocated(ls.core, order)
       /\ ls2.tier2 = Relocated(ls.tier2, order) /\ ls2.local = Relocated(ls.local, order)
  BY <1>2, <1>8 DEF Lists
<1>12. /\ MovedList(ls.core, ls2.core, order) /\ MovedList(ls.tier2, ls2.tier2, order)
       /\ MovedList(ls.local, ls2.local, order)
  <2>1. MovedList(ls.core, Relocated(ls.core, order), order)
    BY <1>2, <1>5, <1>9, RelocatedList
  <2>2. MovedList(ls.tier2, Relocated(ls.tier2, order), order)
    BY <1>2, <1>5, <1>9, RelocatedList
  <2>3. MovedList(ls.local, Relocated(ls.local, order), order)
    BY <1>2, <1>5, <1>9, RelocatedList
  <2> QED
    BY <1>11, <2>1, <2>2, <2>3
<1>13. Listing(ls2, N)
  <2>1. ls2.core \in Seq(1 .. N) /\ ls2.tier2 \in Seq(1 .. N) /\ ls2.local \in Seq(1 .. N)
    BY <1>12 DEF MovedList
  <2>2. NoRepeats(ls2.core) /\ NoRepeats(ls2.tier2)
    BY <1>2, <1>12 DEF MovedList
  <2> HIDE DEF N
  <2> QED
    BY <1>11, <2>1, <2>2 DEF Listing
<1>14. RelocatedTo(m, m2, order, last)
  <2> HIDE DEF C, T, L, N
  <2> QED
    BY <1>1, <1>5, <1>6, <1>9, <1>10, RelocatedMemory
<1>15. N \in Nat
  BY <1>9 DEF Ordering
<1>16. InLists(m2, Elems(ls2.core), Elems(ls2.tier2), Elems(ls2.local))
  <2>1. /\ MovedTo(C, Elems(ls2.core), order) /\ MovedTo(T, Elems(ls2.tier2), order)
        /\ MovedTo(L, Elems(ls2.local), order)
    BY <1>12 DEF MovedList
  <2> HIDE DEF C, T, L, N
  <2> QED
    BY <1>1, <1>5, <1>9, <1>14, <2>1, RelocatedInLists
<1>17. Fine(m2, ls2, N, last)
  <2>1. m2 \in Memory(N, last) /\ m2.unexpected = FALSE /\ NamesApart(m2) /\ Lead(m2)
    BY <1>14 DEF RelocatedTo
  <2> HIDE DEF N
  <2> QED
    BY <1>13, <1>16, <2>1 DEF Fine, Good
<1> QED
  <2> HIDE DEF N
  <2> QED
    BY <1>15, <1>17 DEF m2, ls2

LEMMA GarbageFine ==
    ASSUME NEW n \in Nat, NEW last, NEW m, NEW ls, Fine(m, ls, n, last), checkGarbage(m, ls)
    PROVE  \E N \in Nat : Fine(mem', learnts', N, last)
<1>1. \/ mem' = m /\ learnts' = ls
      \/ mem' = relocAll(m, ls).m /\ learnts' = relocAll(m, ls).ls
  BY DEF checkGarbage
<1>2. CASE mem' = m /\ learnts' = ls
  BY <1>2
<1>3. CASE mem' = relocAll(m, ls).m /\ learnts' = relocAll(m, ls).ls
  BY <1>3, RelocatedFine
<1> QED
  BY <1>1, <1>2, <1>3

-----------------------------------------------------------------------------
(* Reasons come and go: the references change, the clauses do not.         *)
LeadsTo(f, m) == \A k \in DOMAIN f : f[k] \in Live(m) /\ m.ca[f[k]].name = k

LEMMA ReasonChange ==
    ASSUME NEW n, NEW last, NEW m, NEW C, NEW T, NEW L, Good(m, n, last, C, T, L),
           NEW reason \in References, LeadsTo(reason, m)
    PROVE  /\ Good([m EXCEPT !.reason = reason], n, last, C, T, L)
           /\ Live([m EXCEPT !.reason = reason]) = Live(m)
<1> DEFINE m2 == [m EXCEPT !.reason = reason]
<1>1. m \in Memory(n, last) /\ m.unexpected = FALSE
  BY DEF Good
<1>2. /\ m2 \in Memory(n, last) /\ m2.ca = m.ca /\ m2.watches = m.watches
      /\ m2.reason = reason /\ m2.unexpected = m.unexpected
  BY <1>1 DEF Memory
<1> HIDE DEF m2
<1>3. Live(m2) = Live(m)
  BY <1>2 DEF Live
<1>4. NamesApart(m2)
  BY <1>2 DEF Good, NamesApart
<1>5. InLists(m2, C, T, L)
  BY <1>2 DEF Good, InLists
<1>6. Lead(m2)
  BY <1>2, <1>3 DEF Good, Lead, LeadsTo
<1>7. Good(m2, n, last, C, T, L)
  BY <1>1, <1>2, <1>4, <1>5, <1>6 DEF Good
<1> QED
  BY <1>3, <1>7 DEF m2

LEMMA ReferenceTypes ==
    ASSUME NEW f
    PROVE  f \in References <=> /\ DOMAIN f \in SUBSET Nat /\ f = [k \in DOMAIN f |-> f[k]]
                                /\ \A k \in DOMAIN f : f[k] \in Nat
<1>1. ASSUME f \in References
      PROVE  /\ DOMAIN f \in SUBSET Nat /\ f = [k \in DOMAIN f |-> f[k]]
             /\ \A k \in DOMAIN f : f[k] \in Nat
  <2>1. PICK D \in SUBSET Nat : f \in [D -> Nat]
    BY <1>1 DEF References
  <2> QED
    BY <2>1
<1>2. ASSUME DOMAIN f \in SUBSET Nat, f = [k \in DOMAIN f |-> f[k]],
             \A k \in DOMAIN f : f[k] \in Nat
      PROVE  f \in References
  <2>1. f \in [DOMAIN f -> Nat]
    BY <1>2
  <2> QED
    BY <1>2, <2>1 DEF References
<1> QED
  BY <1>1, <1>2

IsJoined(f, g, h) ==
    /\ h \in References /\ DOMAIN h = DOMAIN f \cup DOMAIN g
    /\ \A k \in DOMAIN f : h[k] = f[k]
    /\ \A k \in DOMAIN g : k \notin DOMAIN f => h[k] = g[k]

LEMMA JoinedReferences ==
    ASSUME NEW f \in References, NEW g \in References
    PROVE  IsJoined(f, g, Joined(f, g))
<1> DEFINE h == Joined(f, g)
<1>1. /\ DOMAIN f \in SUBSET Nat /\ \A k \in DOMAIN f : f[k] \in Nat
      /\ DOMAIN g \in SUBSET Nat /\ \A k \in DOMAIN g : g[k] \in Nat
  BY ReferenceTypes
<1>2. DOMAIN h = DOMAIN f \cup DOMAIN g
  BY DEF Joined
<1>3. \A k \in DOMAIN f \cup DOMAIN g : h[k] = IF k \in DOMAIN f THEN f[k] ELSE g[k]
  BY DEF Joined
<1>4. h = [k \in DOMAIN h |-> h[k]]
  BY <1>2 DEF Joined
<1> HIDE DEF h
<1>5. \A k \in DOMAIN h : h[k] \in Nat
  BY <1>1, <1>2, <1>3
<1>6. h \in References
  BY <1>1, <1>2, <1>4, <1>5, ReferenceTypes
<1>7. IsJoined(f, g, h)
  BY <1>2, <1>3, <1>6 DEF IsJoined
<1> QED
  BY <1>7 DEF h

LEMMA JoinedLeads ==
    ASSUME NEW m, NEW f \in References, NEW g \in References, LeadsTo(f, m), LeadsTo(g, m)
    PROVE  Joined(f, g) \in References /\ LeadsTo(Joined(f, g), m)
<1>1. IsJoined(f, g, Joined(f, g))
  BY JoinedReferences
<1> QED
  BY <1>1 DEF IsJoined, LeadsTo

LEMMA BacktrackedGood ==
    ASSUME NEW n, NEW last, NEW m, NEW C, NEW T, NEW L, Good(m, n, last, C, T, L),
           NEW kept \in SUBSET DOMAIN m.reason
    PROVE  Good(Backtracked(m, kept), n, last, C, T, L) /\ Live(Backtracked(m, kept)) = Live(m)
<1> DEFINE f == Restrict(m.reason, kept)
<1>1. m.reason \in References
  BY MemoryTypes DEF Good
<1>2. DOMAIN f = kept /\ \A k \in kept : f[k] = m.reason[k]
  BY DEF Restrict
<1>3. f = [k \in DOMAIN f |-> f[k]]
  BY <1>2 DEF Restrict
<1>4. Backtracked(m, kept) = [m EXCEPT !.reason = f]
  BY DEF Backtracked
<1> HIDE DEF f
<1>5. f \in References
  BY <1>1, <1>2, <1>3, ReferenceTypes
<1>6. LeadsTo(f, m)
  BY <1>2 DEF Good, Lead, LeadsTo
<1> QED
  BY <1>4, <1>5, <1>6, ReasonChange

-----------------------------------------------------------------------------
(* A clause is learnt: a new place and a new name, in one list.            *)
Extended(m, n, last, c) ==
    LET reference == [k \in {last + 1} |-> n + 1]
    IN  [m EXCEPT !.ca = Append(@, c), !.watches = Joined(reference, @),
                  !.reason = Joined(reference, @)]

LEMMA LongerMemory ==
    ASSUME NEW n \in Nat, NEW last \in Nat, NEW m \in Memory(n, last),
           NEW c \in HeaderType(last + 1)
    PROVE  /\ Extended(m, n, last, c) \in Memory(n + 1, last + 1)
           /\ Extended(m, n, last, c).ca[n + 1] = c
           /\ \A i \in 1 .. n : Extended(m, n, last, c).ca[i] = m.ca[i]
           /\ Extended(m, n, last, c).unexpected = m.unexpected
<1> DEFINE m2 == Extended(m, n, last, c)
           reference == [k \in {last + 1} |-> n + 1]
<1>1. /\ m.ca \in [1 .. n -> HeaderType(last)] /\ m.watches \in References
      /\ m.reason \in References
  BY DEF Memory
<1>2. /\ m2.ca = Append(m.ca, c) /\ m2.watches = Joined(reference, m.watches)
      /\ m2.reason = Joined(reference, m.reason) /\ m2.unexpected = m.unexpected
      /\ m2 = [m EXCEPT !.ca = m2.ca, !.watches = m2.watches, !.reason = m2.reason]
  BY DEF Extended, Memory
<1>3. \A h \in HeaderType(last) : h \in HeaderType(last + 1)
  <2>1. \A i \in 1 .. last : i \in 1 .. last + 1
    OBVIOUS
  <2> QED
    BY <2>1 DEF HeaderType
<1>4. m.ca \in Seq(HeaderType(last + 1)) /\ Len(m.ca) = n
  <2>1. m.ca \in [1 .. n -> HeaderType(last + 1)]
    BY <1>1, <1>3
  <2> QED
    BY <2>1
<1>5. reference \in References
  <2>1. DOMAIN reference = {last + 1} /\ \A k \in DOMAIN reference : reference[k] = n + 1
    OBVIOUS
  <2> QED
    BY <2>1, ReferenceTypes
<1> HIDE DEF m2, reference
<1>6. /\ m2.ca \in [1 .. n + 1 -> HeaderType(last + 1)] /\ m2.ca[n + 1] = c
      /\ \A i \in 1 .. n : m2.ca[i] = m.ca[i]
  <2> DEFINE S == HeaderType(last + 1)
  <2>1. c \in S /\ m.ca \in Seq(S)
    BY <1>4
  <2> HIDE DEF S
  <2>2. /\ m2.ca \in Seq(S) /\ Len(m2.ca) = n + 1 /\ m2.ca[n + 1] = c
        /\ \A i \in 1 .. n : m2.ca[i] = m.ca[i]
    BY <1>2, <1>4, <2>1, AppendProperties
  <2>3. m2.ca \in [1 .. n + 1 -> S]
    BY <2>2
  <2> QED
    BY <2>2, <2>3 DEF S
<1>7. m2.watches \in References /\ m2.reason \in References
  <2>1. /\ IsJoined(reference, m.watches, m2.watches)
        /\ IsJoined(reference, m.reason, m2.reason)
    BY <1>1, <1>2, <1>5, JoinedReferences
  <2> QED
    BY <2>1 DEF IsJoined
<1>8. m2 \in Memory(n + 1, last + 1)
  BY <1>2, <1>6, <1>7 DEF Memory
<1> QED
  BY <1>2, <1>6, <1>8 DEF m2

LEMMA LearntGood ==
    ASSUME NEW n \in Nat, NEW last \in Nat, NEW m, NEW C, NEW T, NEW L,
           Good(m, n, last, C, T, L),
           NEW c \in HeaderType(last + 1), c.name = last + 1, c.mark # REMOVED,
           NEW C2, NEW T2, NEW L2,
           C2 = C \cup (IF c.mark = CORE THEN {n + 1} ELSE {}),
           T2 = T \cup (IF c.mark = TIER2 THEN {n + 1} ELSE {}),
           L2 = L \cup (IF c.mark = LOCAL_MARK THEN {n + 1} ELSE {})
    PROVE  Good(Extended(m, n, last, c), n + 1, last + 1, C2, T2, L2)
<1> DEFINE m2 == Extended(m, n, last, c)
           reference == [k \in {last + 1} |-> n + 1]
           N == n + 1
           new == last + 1
<1>1. /\ m \in Memory(n, last) /\ m.unexpected = FALSE /\ DOMAIN m.ca = 1 .. n
      /\ m.reason \in References /\ m.watches \in References
      /\ \A i \in 1 .. n : m.ca[i] \in HeaderType(last)
      /\ Live(m) = {i \in 1 .. n : m.ca[i].mark # REMOVED}
  BY MemoryTypes DEF Good
<1>2. /\ m2 \in Memory(N, new) /\ m2.ca[N] = c /\ \A i \in 1 .. n : m2.ca[i] = m.ca[i]
      /\ m2.unexpected = FALSE
  BY <1>1, LongerMemory
<1>3. /\ DOMAIN m2.ca = 1 .. N /\ Live(m2) = {i \in 1 .. N : m2.ca[i].mark # REMOVED}
  BY <1>2, MemoryTypes
<1>4. m2.watches = Joined(reference, m.watches) /\ m2.reason = Joined(reference, m.reason)
  BY <1>1 DEF Extended, Memory
<1>5. /\ reference \in References /\ DOMAIN reference = {new} /\ reference[new] = N
  <2>1. DOMAIN reference = {new} /\ \A k \in DOMAIN reference : reference[k] = N
    OBVIOUS
  <2> QED
    BY <2>1, ReferenceTypes
<1>6. /\ \A i \in 1 .. n : i \in 1 .. N /\ i # N
      /\ \A i \in 1 .. N : i \in 1 .. n \/ i = N
      /\ N \in 1 .. N
  OBVIOUS
<1>7. \A i \in 1 .. n : m.ca[i].name # new
  <2>1. \A i \in 1 .. n : m.ca[i].name \in 1 .. last
    BY <1>1 DEF HeaderType
  <2> QED
    BY <2>1
<1>8. c.mark \in {CORE, TIER2, LOCAL_MARK}
  BY DEF HeaderType, Marks
<1> HIDE DEF m2, reference, N, new
<1>9. Live(m2) = Live(m) \cup {N}
  BY <1>1, <1>2, <1>3, <1>6
<1>10. NamesApart(m2)
  <2>1. \A i, j \in 1 .. n : m.ca[i].name = m.ca[j].name => i = j
    BY <1>1 DEF Good, NamesApart
  <2>2. c.name = new
    BY DEF new
  <2>3. \A i, j \in 1 .. N : m2.ca[i].name = m2.ca[j].name => i = j
    BY <1>2, <1>6, <1>7, <2>1, <2>2
  <2> QED
    BY <1>3, <2>3 DEF NamesApart
<1>11. Lead(m2)
  <2>1. /\ DOMAIN m2.reason = {new} \cup DOMAIN m.reason /\ m2.reason[new] = N
        /\ \A k \in DOMAIN m.reason : k # new => m2.reason[k] = m.reason[k]
    <3>1. IsJoined(reference, m.reason, m2.reason)
      BY <1>1, <1>4, <1>5, JoinedReferences
    <3> QED
      BY <1>5, <3>1 DEF IsJoined
  <2>2. /\ DOMAIN m2.watches = {new} \cup DOMAIN m.watches /\ m2.watches[new] = N
        /\ \A k \in DOMAIN m.watches : k # new => m2.watches[k] = m.watches[k]
    <3>1. IsJoined(reference, m.watches, m2.watches)
      BY <1>1, <1>4, <1>5, JoinedReferences
    <3> QED
      BY <1>5, <3>1 DEF IsJoined
  <2>3. c.name = new
    BY DEF new
  <2>4. ASSUME NEW k \in DOMAIN m2.reason
        PROVE  m2.reason[k] \in Live(m2) /\ m2.ca[m2.reason[k]].name = k
    <3>1. CASE k = new
      BY <1>2, <1>9, <2>1, <2>3, <3>1
    <3>2. CASE k # new
      <4>1. k \in DOMAIN m.reason /\ m2.reason[k] = m.reason[k]
        BY <2>1, <3>2
      <4>2. m.reason[k] \in Live(m) /\ m.ca[m.reason[k]].name = k
        BY <4>1 DEF Good, Lead
      <4> QED
        BY <1>1, <1>2, <1>9, <4>1, <4>2
    <3> QED
      BY <3>1, <3>2
  <2>5. ASSUME NEW k \in DOMAIN m2.watches
        PROVE  m2.watches[k] \in DOMAIN m2.ca /\ m2.ca[m2.watches[k]].name = k
    <3>1. CASE k = new
      BY <1>2, <1>3, <1>6, <2>2, <2>3, <3>1
    <3>2. CASE k # new
      <4>1. k \in DOMAIN m.watches /\ m2.watches[k] = m.watches[k]
        BY <2>2, <3>2
      <4>2. m.watches[k] \in 1 .. n /\ m.ca[m.watches[k]].name = k
        BY <1>1, <4>1 DEF Good, Lead
      <4> QED
        BY <1>2, <1>3, <1>6, <4>1, <4>2
    <3> QED
      BY <3>1, <3>2
  <2>6. ASSUME NEW i \in Live(m2)
        PROVE  m2.ca[i].name \in DOMAIN m2.watches
    <3>1. CASE i = N
      BY <1>2, <2>2, <2>3, <3>1
    <3>2. CASE i # N
      <4>1. i \in Live(m) /\ m.ca[i].name \in DOMAIN m.watches
        BY <1>9, <3>2 DEF Good, Lead
      <4> QED
        BY <1>1, <1>2, <2>2, <4>1
    <3> QED
      BY <3>1, <3>2
  <2> QED
    BY <2>4, <2>5, <2>6 DEF Lead
<1>12. InLists(m2, C2, T2, L2)
  <2>1. /\ C \subseteq 1 .. n /\ T \subseteq 1 .. n /\ L \subseteq 1 .. n
        /\ \A i \in C : m.ca[i].mark = CORE
        /\ \A i \in T : m.ca[i].mark # LOCAL_MARK
        /\ \A i \in 1 .. n : /\ m.ca[i].mark = CORE => i \in C
                             /\ m.ca[i].mark = TIER2 => i \in T
                             /\ m.ca[i].mark = LOCAL_MARK => i \in L
    BY <1>1 DEF Good, InLists
  <2>2. /\ C2 \subseteq C \cup {N} /\ T2 \subseteq T \cup {N} /\ L2 \subseteq L \cup {N}
        /\ C \subseteq C2 /\ T \subseteq T2 /\ L \subseteq L2
        /\ N \in C2 => N \in C \/ c.mark = CORE
        /\ N \in T2 => N \in T \/ c.mark = TIER2
        /\ c.mark = CORE => N \in C2
        /\ c.mark = TIER2 => N \in T2
        /\ c.mark = LOCAL_MARK => N \in L2
    BY DEF N
  <2>3. C2 \subseteq 1 .. N /\ T2 \subseteq 1 .. N /\ L2 \subseteq 1 .. N
    BY <1>6, <2>1, <2>2
  <2>4. N \notin C /\ N \notin T
    BY <1>6, <2>1
  <2>5. \A i \in C2 : m2.ca[i].mark = CORE
    BY <1>2, <2>1, <2>2, <2>4
  <2>6. \A i \in T2 : m2.ca[i].mark # LOCAL_MARK
    BY <1>2, <2>1, <2>2, <2>4, MarksApart
  <2>7. \A i \in 1 .. N : /\ m2.ca[i].mark = CORE => i \in C2
                          /\ m2.ca[i].mark = TIER2 => i \in T2
                          /\ m2.ca[i].mark = LOCAL_MARK => i \in L2
    BY <1>2, <1>6, <2>1, <2>2
  <2> QED
    BY <1>3, <2>3, <2>5, <2>6, <2>7 DEF InLists
<1>13. Good(m2, N, new, C2, T2, L2)
  BY <1>2, <1>10, <1>11, <1>12 DEF Good
<1> QED
  BY <1>13 DEF m2, N, new

-----------------------------------------------------------------------------
(* The invariant: names go up to nLearnt, and the memory and the lists fit *)
(* together.                                                               *)
Stored == \E n \in Nat : Fine(mem, learnts, n, nLearnt)

IInv == conflicts \in Nat /\ core_lbd_cut \in Nat /\ nLearnt \in Nat /\ Stored

LEMMA InitIInv == Init => IInv
<1> SUFFICES ASSUME Init
             PROVE  IInv
  OBVIOUS
<1>1. /\ mem = [ca |-> <<>>, watches |-> <<>>, reason |-> <<>>, wasted |-> FALSE,
                unexpected |-> FALSE]
      /\ learnts = [core |-> <<>>, tier2 |-> <<>>, local |-> <<>>]
      /\ conflicts = 0 /\ core_lbd_cut = 3 /\ nLearnt = 0
  BY DEF Init
<1>2. /\ mem.ca = <<>> /\ mem.watches = <<>> /\ mem.reason = <<>> /\ mem.unexpected = FALSE
      /\ learnts.core = <<>> /\ learnts.tier2 = <<>> /\ learnts.local = <<>>
      /\ DOMAIN learnts = Lists
  BY <1>1 DEF Lists
<1>3. DOMAIN <<>> = {} /\ Elems(<<>>) = {} /\ NoRepeats(<<>>) /\ <<>> \in Seq(1 .. 0)
  BY DEF Elems, NoRepeats
<1>4. <<>> \in References
  <2>1. <<>> \in [1 .. 0 -> Nat] /\ 1 .. 0 \in SUBSET Nat
    BY <1>3
  <2> QED
    BY <2>1 DEF References
<1>5. <<>> \in [1 .. 0 -> HeaderType(0)]
  BY <1>3
<1>6. mem \in Memory(0, 0)
  BY <1>1, <1>4, <1>5 DEF Memory
<1>7. NamesApart(mem) /\ Lead(mem) /\ InLists(mem, {}, {}, {})
  BY <1>2, <1>3 DEF NamesApart, Lead, InLists, Live
<1>8. Good(mem, 0, 0, {}, {}, {})
  BY <1>2, <1>6, <1>7 DEF Good
<1>9. Fine(mem, learnts, 0, nLearnt)
  BY <1>1, <1>2, <1>3, <1>8 DEF Fine, Listing
<1> QED
  BY <1>1, <1>9 DEF IInv, Stored

(* What a change of the reasons alone leaves.                              *)
LEMMA ReasonFine ==
    ASSUME NEW n, NEW last, NEW m, NEW ls, Fine(m, ls, n, last),
           NEW kept \in SUBSET DOMAIN m.reason
    PROVE  Fine(Backtracked(m, kept), ls, n, last)
BY BacktrackedGood DEF Fine

LEMMA CountTypes ==
    ASSUME IInv, CountConflict
    PROVE  conflicts' \in Nat /\ core_lbd_cut' \in Nat
BY DEF IInv, CountConflict

LEMMA PropagateStep ==
    ASSUME IInv, propagate
    PROVE  IInv'
<1>1. PICK n \in Nat : Fine(mem, learnts, n, nLearnt)
  BY DEF IInv, Stored
<1>2. PICK implying \in SUBSET {cr \in Live(mem) : ~locked(mem, cr)} :
         mem' = [mem EXCEPT !.reason =
                    Joined([k \in {mem.ca[cr].name : cr \in implying} |->
                               CHOOSE cr \in implying : mem.ca[cr].name = k], @)]
  BY DEF propagate
<1> DEFINE new == [k \in {mem.ca[cr].name : cr \in implying} |->
                      CHOOSE cr \in implying : mem.ca[cr].name = k]
           C == Elems(learnts.core)
           T == Elems(learnts.tier2)
           L == Elems(learnts.local)
<1>3. /\ Good(mem, n, nLearnt, C, T, L) /\ Listing(learnts, n)
      /\ nLearnt \in Nat /\ implying \subseteq Live(mem) /\ mem.reason \in References
      /\ Live(mem) \subseteq 1 .. n /\ \A i \in 1 .. n : mem.ca[i] \in HeaderType(nLearnt)
  BY <1>1, MemoryTypes DEF Fine, Good, IInv
<1>4. mem' = [mem EXCEPT !.reason = Joined(new, mem.reason)]
  BY <1>2
<1>5. \A k \in DOMAIN new : /\ k \in Nat /\ new[k] \in implying /\ mem.ca[new[k]].name = k
  <2> SUFFICES ASSUME NEW k \in DOMAIN new
               PROVE  k \in Nat /\ new[k] \in implying /\ mem.ca[new[k]].name = k
    OBVIOUS
  <2>1. PICK x \in implying : mem.ca[x].name = k
    OBVIOUS
  <2>2. new[k] \in implying /\ mem.ca[new[k]].name = k
    BY <2>1
  <2>3. mem.ca[x].name \in 1 .. nLearnt
    BY <1>3 DEF HeaderType
  <2> QED
    BY <1>3, <2>1, <2>2, <2>3
<1>6. new = [k \in DOMAIN new |-> new[k]]
  OBVIOUS
<1> HIDE DEF new, C, T, L
<1>7. \A k \in DOMAIN new : new[k] \in Nat
  BY <1>3, <1>5
<1>8. new \in References /\ LeadsTo(new, mem)
  BY <1>3, <1>5, <1>6, <1>7, ReferenceTypes DEF LeadsTo
<1>9. LeadsTo(mem.reason, mem)
  BY <1>3 DEF Good, Lead, LeadsTo
<1>10. Joined(new, mem.reason) \in References /\ LeadsTo(Joined(new, mem.reason), mem)
  BY <1>3, <1>8, <1>9, JoinedLeads
<1>11. Good(mem', n, nLearnt, C, T, L)
  BY <1>3, <1>4, <1>10, ReasonChange
<1>12. UNCHANGED <<learnts, conflicts, core_lbd_cut, nLearnt>>
  BY DEF propagate
<1>13. Fine(mem', learnts', n, nLearnt')
  BY <1>3, <1>11, <1>12 DEF Fine, C, T, L
<1> QED
  BY <1>12, <1>13 DEF IInv, Stored

LEMMA OnlyBacktrackStep ==
    ASSUME IInv, onlyBacktrack
    PROVE  IInv'
<1>1. PICK n \in Nat : Fine(mem, learnts, n, nLearnt)
  BY DEF IInv, Stored
<1>2. PICK kept \in SUBSET DOMAIN mem.reason : mem' = Backtracked(mem, kept)
  BY DEF onlyBacktrack
<1>3. UNCHANGED <<learnts, nLearnt>> /\ CountConflict
  BY DEF onlyBacktrack
<1>4. Fine(mem', learnts', n, nLearnt')
  BY <1>1, <1>2, <1>3, ReasonFine
<1>5. conflicts' \in Nat /\ core_lbd_cut' \in Nat /\ nLearnt' \in Nat
  BY <1>3, CountTypes DEF IInv
<1> QED
  BY <1>4, <1>5 DEF IInv, Stored

LEMMA RestartStep ==
    ASSUME IInv, restart
    PROVE  IInv'
<1>1. PICK n \in Nat : Fine(mem, learnts, n, nLearnt)
  BY DEF IInv, Stored
<1>2. PICK kept \in SUBSET DOMAIN mem.reason : mem' = Backtracked(mem, kept)
  BY DEF restart
<1>3. UNCHANGED <<learnts, conflicts, core_lbd_cut, nLearnt>>
  BY DEF restart
<1>4. Fine(mem', learnts', n, nLearnt')
  BY <1>1, <1>2, <1>3, ReasonFine
<1> QED
  BY <1>3, <1>4 DEF IInv, Stored

LEMMA GarbageStored ==
    ASSUME NEW n \in Nat, NEW m, NEW ls, Fine(m, ls, n, nLearnt), checkGarbage(m, ls),
           UNCHANGED nLearnt
    PROVE  Stored'
<1>1. \E N \in Nat : Fine(mem', learnts', N, nLearnt)
  BY GarbageFine
<1> QED
  BY <1>1 DEF Stored

(* The core is done before tier 2, so a clause of the core that tier 2     *)
(* still lists is not tried again.                                         *)
LEMMA VivifyStep ==
    ASSUME IInv, vivify
    PROVE  IInv'
<1>1. PICK n \in Nat : Fine(mem, learnts, n, nLearnt)
  BY DEF IInv, Stored
<1> DEFINE core == learnts.core
           tier2 == learnts.tier2
           L == Elems(learnts.local)
<1>2. PICK coreTrial \in Trials(mem, core) :
         LET c == simplifyLearnt_core(mem, core, coreTrial)
         IN  \E tierTrial \in Trials(c.m, tier2) :
                LET t == simplifyLearnt_tier2(c.m, c.kept, tier2, tierTrial)
                IN  checkGarbage(t.m, [learnts EXCEPT !.core = t.core, !.tier2 = t.kept])
  BY DEF vivify, simplifyAll
<1> DEFINE c == simplifyLearnt_core(mem, core, coreTrial)
<1>3. PICK tierTrial \in Trials(c.m, tier2) :
         LET t == simplifyLearnt_tier2(c.m, c.kept, tier2, tierTrial)
         IN  checkGarbage(t.m, [learnts EXCEPT !.core = t.core, !.tier2 = t.kept])
  BY <1>2
<1> DEFINE t == simplifyLearnt_tier2(c.m, c.kept, tier2, tierTrial)
           ls == [learnts EXCEPT !.core = t.core, !.tier2 = t.kept]
<1>4. checkGarbage(t.m, ls)
  BY <1>3
<1>5. /\ Good(mem, n, nLearnt, Elems(core), Elems(tier2), L) /\ DOMAIN learnts = Lists
      /\ core \in Seq(1 .. n) /\ tier2 \in Seq(1 .. n) /\ learnts.local \in Seq(1 .. n)
      /\ NoRepeats(core) /\ NoRepeats(tier2)
  BY <1>1 DEF Fine, Listing
<1>6. /\ Good(c.m, n, nLearnt, Elems(c.kept), Elems(tier2), L) /\ CoreDone(c.m)
      /\ c.kept \in Seq(1 .. n) /\ NoRepeats(c.kept)
  <2> HIDE DEF L
  <2> QED
    BY <1>5, CoreKeeps
<1> HIDE DEF c
<1>7. /\ Good(t.m, n, nLearnt, Elems(t.core), Elems(t.kept), L)
      /\ t.kept \in Seq(1 .. n) /\ NoRepeats(t.kept)
      /\ t.core \in Seq(1 .. n) /\ NoRepeats(t.core)
  <2> HIDE DEF L
  <2> QED
    BY <1>5, <1>6, TierKeeps
<1> HIDE DEF t
<1>8. /\ DOMAIN ls = Lists /\ ls.core = t.core /\ ls.tier2 = t.kept /\ ls.local = learnts.local
  BY <1>5 DEF Lists
<1> HIDE DEF ls
<1>9. Fine(t.m, ls, n, nLearnt)
  BY <1>5, <1>7, <1>8 DEF Fine, Listing
<1>10. UNCHANGED <<conflicts, core_lbd_cut, nLearnt>>
  BY DEF vivify
<1>11. Stored'
  BY <1>4, <1>9, <1>10, GarbageStored
<1> QED
  BY <1>10, <1>11 DEF IInv

LEMMA SimplifyStep ==
    ASSUME IInv, simplify
    PROVE  IInv'
<1>1. PICK n \in Nat : Fine(mem, learnts, n, nLearnt)
  BY DEF IInv, Stored
<1>2. PICK satisfied \in SUBSET Live(mem) :
        LET core == removeSatisfied(mem, learnts.core, satisfied)
            tier2 == safeRemoveSatisfied(core.m, learnts.tier2, TIER2, satisfied)
            local == safeRemoveSatisfied(tier2.m, learnts.local, LOCAL_MARK, satisfied)
        IN  checkGarbage(local.m, [core |-> core.kept, tier2 |-> tier2.kept,
                                   local |-> local.kept])
  BY DEF simplify
<1> DEFINE c == removeSatisfied(mem, learnts.core, satisfied)
           t == safeRemoveSatisfied(c.m, learnts.tier2, TIER2, satisfied)
           l == safeRemoveSatisfied(t.m, learnts.local, LOCAL_MARK, satisfied)
           ls == [core |-> c.kept, tier2 |-> t.kept, local |-> l.kept]
           T == Elems(learnts.tier2)
           L == Elems(learnts.local)
<1>3. checkGarbage(l.m, ls)
  BY <1>2
<1>4. /\ Good(mem, n, nLearnt, Elems(learnts.core), T, L)
      /\ learnts.core \in Seq(1 .. n) /\ learnts.tier2 \in Seq(1 .. n)
      /\ learnts.local \in Seq(1 .. n)
      /\ NoRepeats(learnts.core) /\ NoRepeats(learnts.tier2)
  BY <1>1 DEF Fine, Listing
<1>5. /\ Good(c.m, n, nLearnt, Elems(c.kept), T, L)
      /\ c.kept \in Seq(1 .. n) /\ NoRepeats(c.kept)
  <2> HIDE DEF T, L
  <2> QED
    BY <1>4, RemoveSatisfiedKeeps
<1> HIDE DEF c
<1>6. /\ Good(t.m, n, nLearnt, Elems(c.kept), Elems(t.kept), L)
      /\ t.kept \in Seq(1 .. n) /\ NoRepeats(t.kept)
  <2> DEFINE C == Elems(c.kept)
  <2>1. ListGood(TIER2, c.m, n, nLearnt, C, T, L, T)
    BY <1>5 DEF ListGood
  <2> HIDE DEF C, L
  <2>2. ListGood(TIER2, t.m, n, nLearnt, C, T, L, Elems(t.kept))
        /\ t.kept \in Seq(1 .. n) /\ NoRepeats(t.kept)
    BY <1>4, <2>1, SafeRemoveSatisfiedKeeps
  <2> QED
    BY <2>2 DEF ListGood, C
<1> HIDE DEF t
<1>7. /\ Good(l.m, n, nLearnt, Elems(c.kept), Elems(t.kept), Elems(l.kept))
      /\ l.kept \in Seq(1 .. n)
  <2> DEFINE C == Elems(c.kept)
             T2 == Elems(t.kept)
  <2>1. ListGood(LOCAL_MARK, t.m, n, nLearnt, C, T2, L, L)
    BY <1>6, MarksApart DEF ListGood
  <2> HIDE DEF C, T2
  <2>2. ListGood(LOCAL_MARK, l.m, n, nLearnt, C, T2, L, Elems(l.kept))
        /\ l.kept \in Seq(1 .. n)
    BY <1>4, <2>1, SafeRemoveSatisfiedKeeps
  <2> QED
    BY <2>2, MarksApart DEF ListGood, C, T2
<1> HIDE DEF l
<1>8. Fine(l.m, ls, n, nLearnt)
  BY <1>5, <1>6, <1>7 DEF Fine, Listing, Lists
<1> HIDE DEF ls
<1>9. UNCHANGED <<conflicts, core_lbd_cut, nLearnt>>
  BY DEF simplify
<1>10. Stored'
  BY <1>3, <1>8, <1>9, GarbageStored
<1> QED
  BY <1>9, <1>10 DEF IInv

LEMMA ReduceTier2Step ==
    ASSUME IInv, reduceDB_Tier2
    PROVE  IInv'
<1>1. PICK n \in Nat : Fine(mem, learnts, n, nLearnt)
  BY DEF IInv, Stored
<1> DEFINE s == DemotedAll(mem, learnts.tier2, learnts.local)
           ls == [learnts EXCEPT !.tier2 = s.kept, !.local = s.local]
           C == Elems(learnts.core)
<1>2. mem' = s.m /\ learnts' = ls
  BY DEF reduceDB_Tier2, DemotedAll
<1>3. /\ Good(mem, n, nLearnt, C, Elems(learnts.tier2), Elems(learnts.local))
      /\ DOMAIN learnts = Lists
      /\ learnts.core \in Seq(1 .. n) /\ learnts.tier2 \in Seq(1 .. n)
      /\ learnts.local \in Seq(1 .. n)
      /\ NoRepeats(learnts.core) /\ NoRepeats(learnts.tier2)
  BY <1>1 DEF Fine, Listing
<1>4. /\ Good(s.m, n, nLearnt, C, Elems(s.kept), Elems(s.local))
      /\ s.kept \in Seq(1 .. n) /\ NoRepeats(s.kept) /\ s.local \in Seq(1 .. n)
  <2> HIDE DEF C
  <2> QED
    BY <1>3, DemotedKeeps
<1> HIDE DEF s
<1>5. DOMAIN ls = Lists /\ ls.core = learnts.core /\ ls.tier2 = s.kept /\ ls.local = s.local
  BY <1>3 DEF Lists
<1> HIDE DEF ls
<1>6. Fine(s.m, ls, n, nLearnt)
  BY <1>3, <1>4, <1>5 DEF Fine, Listing
<1>7. UNCHANGED <<conflicts, core_lbd_cut, nLearnt>>
  BY DEF reduceDB_Tier2
<1> QED
  BY <1>2, <1>6, <1>7 DEF IInv, Stored

(* The local list in another order.                                        *)
LEMMA Permuted ==
    ASSUME NEW S, NEW q \in Seq(S), NEW order \in Bijection(DOMAIN q, DOMAIN q)
    PROVE  LET cs == [i \in DOMAIN q |-> q[order[i]]]
           IN  cs \in Seq(S) /\ Elems(cs) = Elems(q) /\ Len(cs) = Len(q)
<1> DEFINE cs == [i \in DOMAIN q |-> q[order[i]]]
<1>1. Len(q) \in Nat /\ DOMAIN q = 1 .. Len(q) /\ \A i \in 1 .. Len(q) : q[i] \in S
  OBVIOUS
<1>2. /\ \A i \in 1 .. Len(q) : order[i] \in 1 .. Len(q)
      /\ \A j \in 1 .. Len(q) : \E i \in 1 .. Len(q) : order[i] = j
  BY <1>1 DEF Bijection, Surjection
<1>3. cs = [i \in 1 .. Len(q) |-> q[order[i]]]
  BY <1>1
<1>4. cs \in Seq(S) /\ Len(cs) = Len(q)
  <2> HIDE DEF cs
  <2> QED
    BY <1>1, <1>2, <1>3
<1>5. Elems(cs) = Elems(q)
  <2> HIDE DEF cs
  <2>1. Elems(cs) \subseteq Elems(q)
    BY <1>2, <1>3, <1>4 DEF Elems
  <2>2. Elems(q) \subseteq Elems(cs)
    BY <1>2, <1>3, <1>4 DEF Elems
  <2> QED
    BY <2>1, <2>2
<1> QED
  BY <1>4, <1>5

LEMMA ReduceStep ==
    ASSUME IInv, reduceDB
    PROVE  IInv'
<1>1. PICK n \in Nat : Fine(mem, learnts, n, nLearnt)
  BY DEF IInv, Stored
<1> DEFINE local == learnts.local
<1>2. PICK order \in Bijection(DOMAIN local, DOMAIN local) :
         LET cs == [i \in DOMAIN local |-> local[order[i]]]
             s == ReducedAll(mem, cs)
         IN  checkGarbage(s.m, [learnts EXCEPT !.local = s.kept])
  BY DEF reduceDB, ReducedAll
<1> DEFINE cs == [i \in DOMAIN local |-> local[order[i]]]
           s == ReducedAll(mem, cs)
           ls == [learnts EXCEPT !.local = s.kept]
           C == Elems(learnts.core)
           T == Elems(learnts.tier2)
<1>3. checkGarbage(s.m, ls)
  BY <1>2
<1>4. /\ Good(mem, n, nLearnt, C, T, Elems(local)) /\ DOMAIN learnts = Lists
      /\ learnts.core \in Seq(1 .. n) /\ learnts.tier2 \in Seq(1 .. n)
      /\ local \in Seq(1 .. n)
      /\ NoRepeats(learnts.core) /\ NoRepeats(learnts.tier2)
  BY <1>1 DEF Fine, Listing
<1>5. cs \in Seq(1 .. n) /\ Elems(cs) = Elems(local)
  BY <1>4, Permuted
<1> HIDE DEF cs
<1>6. Good(s.m, n, nLearnt, C, T, Elems(s.kept)) /\ s.kept \in Seq(1 .. n)
  <2> HIDE DEF C, T
  <2> QED
    BY <1>4, <1>5, ReducedKeeps
<1> HIDE DEF s
<1>7. /\ DOMAIN ls = Lists /\ ls.core = learnts.core /\ ls.tier2 = learnts.tier2
      /\ ls.local = s.kept
  BY <1>4 DEF Lists
<1> HIDE DEF ls
<1>8. Fine(s.m, ls, n, nLearnt)
  BY <1>4, <1>6, <1>7 DEF Fine, Listing
<1>9. UNCHANGED <<conflicts, core_lbd_cut, nLearnt>>
  BY DEF reduceDB
<1>10. Stored'
  BY <1>3, <1>8, <1>9, GarbageStored
<1> QED
  BY <1>9, <1>10 DEF IInv

(* The new clause has the next place, and is in the list of its mark.      *)
AddedTo(list, x, added, n) ==
    LET more == IF added THEN Append(list, x) ELSE list
    IN  /\ more \in Seq(1 .. n) /\ (NoRepeats(list) => NoRepeats(more))
        /\ Elems(more) = Elems(list) \cup IF added THEN {x} ELSE {}

LEMMA Added ==
    ASSUME NEW n \in Nat, NEW list \in Seq(1 .. n), NEW added \in BOOLEAN
    PROVE  AddedTo(list, n + 1, added, n + 1)
<1> DEFINE N == n + 1
           more == Append(list, N)
<1>1. list \in Seq(1 .. N) /\ N \in 1 .. N /\ N \notin Elems(list)
  <2>1. \A i \in 1 .. n : i \in 1 .. N /\ i # N
    OBVIOUS
  <2>2. Len(list) \in Nat /\ list = [i \in 1 .. Len(list) |-> list[i]]
        /\ \A i \in 1 .. Len(list) : list[i] \in 1 .. n
    OBVIOUS
  <2> HIDE DEF N
  <2>3. Elems(list) \subseteq 1 .. N /\ list \in Seq(Nat)
    BY <2>1, <2>2 DEF Elems
  <2>4. list \in Seq(1 .. N)
    BY <2>3, SeqOver
  <2>5. N \in 1 .. N
    BY DEF N
  <2>6. N \notin Elems(list)
    BY <2>1, <2>2 DEF Elems
  <2> QED
    BY <2>4, <2>5, <2>6
<1> HIDE DEF N
<1>2. /\ more \in Seq(1 .. N) /\ Elems(more) = Elems(list) \cup {N}
      /\ NoRepeats(list) => NoRepeats(more)
  BY <1>1, ElemsAppend
<1> HIDE DEF more
<1>3. AddedTo(list, N, added, N)
  <2>1. CASE added
    BY <1>2, <2>1 DEF AddedTo, more
  <2>2. CASE ~added
    BY <1>1, <2>2 DEF AddedTo
  <2> QED
    BY <2>1, <2>2
<1> QED
  BY <1>3 DEF N

LEMMA LearntStored ==
    ASSUME NEW n \in Nat, NEW b, NEW lbd \in Lbds, Learnt(b, lbd),
           nLearnt \in Nat, conflicts' \in Nat,
           Good(b.m, n, nLearnt, Elems(b.core), Elems(b.tier2), Elems(learnts.local)),
           b.core \in Seq(1 .. n), b.tier2 \in Seq(1 .. n), learnts.local \in Seq(1 .. n),
           NoRepeats(b.core), NoRepeats(b.tier2)
    PROVE  Stored' /\ nLearnt' \in Nat
<1> DEFINE local == learnts.local
           mark == IF lbd <= core_lbd_cut' THEN CORE ELSE IF lbd <= 6 THEN TIER2
                   ELSE LOCAL_MARK
           c == [Header(nLearnt + 1, lbd) EXCEPT
                    !.mark = mark, !.touched = IF mark = TIER2 THEN conflicts' ELSE 0]
           N == n + 1
           core2 == IF mark = CORE THEN Append(b.core, N) ELSE b.core
           tier2 == IF mark = TIER2 THEN Append(b.tier2, N) ELSE b.tier2
           local2 == IF mark = LOCAL_MARK THEN Append(local, N) ELSE local
           ls == [core |-> core2, tier2 |-> tier2, local |-> local2]
<1>1. Len(b.m.ca) = n
  <2>1. b.m.ca \in [1 .. n -> HeaderType(nLearnt)]
    BY DEF Good, Memory
  <2> DEFINE q == b.m.ca
  <2> HIDE DEF q
  <2>2. q \in Seq(HeaderType(nLearnt)) /\ DOMAIN q = 1 .. n
    BY <2>1 DEF q
  <2> QED
    BY <2>2 DEF q
<1>2. /\ mem' = [b.m EXCEPT !.ca = Append(@, c),
                            !.watches = Joined([k \in {nLearnt + 1} |-> n + 1], @),
                            !.reason = Joined([k \in {nLearnt + 1} |-> n + 1], @)]
      /\ learnts' = ls /\ nLearnt' = nLearnt + 1
  BY <1>1 DEF Learnt
<1>3. mem' = Extended(b.m, n, nLearnt, c)
  BY <1>2 DEF Extended
<1>4. mark \in {CORE, TIER2, LOCAL_MARK} /\ mark \in Marks /\ mark # REMOVED
  BY MarksApart DEF Marks
<1> HIDE DEF mark
<1>5. c \in HeaderType(nLearnt + 1) /\ c.name = nLearnt + 1 /\ c.mark = mark
  <2> DEFINE touched == IF mark = TIER2 THEN conflicts' ELSE 0
  <2>1. lbd \in Nat /\ touched \in Nat /\ nLearnt + 1 \in 1 .. nLearnt + 1
    BY Types
  <2> HIDE DEF touched
  <2> DEFINE h == Header(nLearnt + 1, lbd)
  <2>2. h = [name |-> nLearnt + 1, mark |-> LOCAL_MARK, lbd |-> lbd, removable |-> TRUE,
             simplified |-> FALSE, touched |-> 0]
    BY DEF Header
  <2>3. c = [h EXCEPT !.mark = mark, !.touched = touched]
    BY DEF touched
  <2> HIDE DEF c, h
  <2>4. c = [name |-> nLearnt + 1, mark |-> mark, lbd |-> lbd, removable |-> TRUE,
             simplified |-> FALSE, touched |-> touched]
    BY <2>2, <2>3
  <2> QED
    BY <1>4, <2>1, <2>4 DEF HeaderType
<1>6. /\ AddedTo(b.core, N, mark = CORE, N) /\ AddedTo(b.tier2, N, mark = TIER2, N)
      /\ AddedTo(local, N, mark = LOCAL_MARK, N)
  BY Added
<1>7. /\ Elems(core2) = Elems(b.core) \cup (IF c.mark = CORE THEN {N} ELSE {})
      /\ Elems(tier2) = Elems(b.tier2) \cup (IF c.mark = TIER2 THEN {N} ELSE {})
      /\ Elems(local2) = Elems(local) \cup (IF c.mark = LOCAL_MARK THEN {N} ELSE {})
      /\ core2 \in Seq(1 .. N) /\ tier2 \in Seq(1 .. N) /\ local2 \in Seq(1 .. N)
      /\ NoRepeats(core2) /\ NoRepeats(tier2)
  <2> HIDE DEF c, N
  <2> QED
    BY <1>5, <1>6 DEF AddedTo
<1> HIDE DEF c, core2, tier2, local2
<1>8. Good(mem', N, nLearnt + 1, Elems(core2), Elems(tier2), Elems(local2))
  <2>1. c.mark # REMOVED
    BY <1>4, <1>5
  <2> QED
    BY <1>3, <1>5, <1>7, <2>1, LearntGood
<1>9. N \in Nat /\ nLearnt + 1 \in Nat
  OBVIOUS
<1> HIDE DEF N
<1>10. Fine(mem', ls, N, nLearnt + 1)
  BY <1>7, <1>8 DEF Fine, Listing, Lists
<1> HIDE DEF ls
<1> QED
  BY <1>2, <1>9, <1>10 DEF Stored

LEMMA LearnStep ==
    ASSUME IInv, learn
    PROVE  IInv'
<1>1. PICK n \in Nat : Fine(mem, learnts, n, nLearnt)
  BY DEF IInv, Stored
<1>2. conflicts' \in Nat /\ core_lbd_cut' \in Nat
  BY CountTypes DEF learn
<1>3. PICK used \in SUBSET Live(mem) :
        \E lbds \in [used -> Lbds] : \E kept \in SUBSET DOMAIN mem.reason :
           LET a == analyze(used, lbds)
               b == [a EXCEPT !.m = Backtracked(@, kept)]
           IN  \/ /\ mem' = b.m
                  /\ learnts' = [learnts EXCEPT !.core = b.core, !.tier2 = b.tier2]
                  /\ UNCHANGED nLearnt
               \/ \E lbd \in Lbds : Learnt(b, lbd)
  BY DEF learn
<1>4. PICK lbds \in [used -> Lbds], kept \in SUBSET DOMAIN mem.reason :
         LET a == analyze(used, lbds)
             b == [a EXCEPT !.m = Backtracked(@, kept)]
         IN  \/ /\ mem' = b.m
                /\ learnts' = [learnts EXCEPT !.core = b.core, !.tier2 = b.tier2]
                /\ UNCHANGED nLearnt
             \/ \E lbd \in Lbds : Learnt(b, lbd)
  BY <1>3
<1> DEFINE a == analyze(used, lbds)
           b == [a EXCEPT !.m = Backtracked(@, kept)]
           L == Elems(learnts.local)
           ls == [learnts EXCEPT !.core = b.core, !.tier2 = b.tier2]
<1>5. \/ mem' = b.m /\ learnts' = ls /\ UNCHANGED nLearnt
      \/ \E lbd \in Lbds : Learnt(b, lbd)
  BY <1>4
<1>6. /\ Good(mem, n, nLearnt, Elems(learnts.core), Elems(learnts.tier2), L)
      /\ DOMAIN learnts = Lists
      /\ learnts.core \in Seq(1 .. n) /\ learnts.tier2 \in Seq(1 .. n)
      /\ learnts.local \in Seq(1 .. n)
      /\ NoRepeats(learnts.core) /\ NoRepeats(learnts.tier2)
  BY <1>1 DEF Fine, Listing
<1>7. [m |-> mem, core |-> learnts.core, tier2 |-> learnts.tier2]
        \in AnalyzeStates(n, nLearnt, mem, L)
  <2>1. mem \in Memory(n, nLearnt)
    BY <1>6 DEF Good
  <2> HIDE DEF L
  <2> QED
    BY <1>6, <2>1 DEF AnalyzeStates
<1>8. a \in AnalyzeStates(n, nLearnt, mem, L)
  <2> HIDE DEF L
  <2> QED
    BY <1>2, <1>7, AnalyzeKeeps
<1> HIDE DEF a, L
<1>9. /\ Good(a.m, n, nLearnt, Elems(a.core), Elems(a.tier2), L)
      /\ NoRepeats(a.core) /\ NoRepeats(a.tier2)
      /\ a.core \in Seq(1 .. n) /\ a.tier2 \in Seq(1 .. n)
      /\ a = [m |-> a.m, core |-> a.core, tier2 |-> a.tier2]
      /\ kept \in SUBSET DOMAIN a.m.reason
  BY <1>8 DEF AnalyzeStates
<1>10. b.m = Backtracked(a.m, kept) /\ b.core = a.core /\ b.tier2 = a.tier2
  BY <1>9
<1> HIDE DEF b
<1>11. Good(b.m, n, nLearnt, Elems(b.core), Elems(b.tier2), L)
  BY <1>9, <1>10, BacktrackedGood
<1>12. nLearnt \in Nat
  BY DEF IInv
<1>13. Stored' /\ nLearnt' \in Nat
  <2>1. CASE mem' = b.m /\ learnts' = ls /\ UNCHANGED nLearnt
    <3>1. DOMAIN ls = Lists /\ ls.core = b.core /\ ls.tier2 = b.tier2 /\ ls.local = learnts.local
      BY <1>6 DEF Lists
    <3> HIDE DEF ls
    <3>2. Fine(b.m, ls, n, nLearnt)
      BY <1>6, <1>9, <1>10, <1>11, <3>1 DEF Fine, Listing, L
    <3> QED
      BY <1>12, <2>1, <3>2 DEF Stored
  <2>2. CASE \E lbd \in Lbds : Learnt(b, lbd)
    <3>1. PICK lbd \in Lbds : Learnt(b, lbd)
      BY <2>2
    <3>2. /\ Good(b.m, n, nLearnt, Elems(b.core), Elems(b.tier2), Elems(learnts.local))
          /\ b.core \in Seq(1 .. n) /\ b.tier2 \in Seq(1 .. n)
          /\ NoRepeats(b.core) /\ NoRepeats(b.tier2)
      BY <1>9, <1>10, <1>11 DEF L
    <3> QED
      BY <1>2, <1>6, <1>12, <3>1, <3>2, LearntStored
  <2> QED
    BY <1>5, <2>1, <2>2
<1> QED
  BY <1>2, <1>13 DEF IInv

LEMMA NextIInv == IInv /\ [Next]_vars => IInv'
<1> SUFFICES ASSUME IInv, [Next]_vars
             PROVE  IInv'
  OBVIOUS
<1>1. CASE UNCHANGED <<mem, learnts, conflicts, core_lbd_cut, nLearnt>>
  BY <1>1 DEF IInv, Stored
<1>2. CASE vivify
  BY <1>2, VivifyStep
<1>3. CASE propagate
  BY <1>3, PropagateStep
<1>4. CASE onlyBacktrack
  BY <1>4, OnlyBacktrackStep
<1>5. CASE learn
  BY <1>5, LearnStep
<1>6. CASE restart
  BY <1>6, RestartStep
<1>7. CASE simplify
  BY <1>7, SimplifyStep
<1>8. CASE skipSimplify
  BY <1>1, <1>8 DEF skipSimplify
<1>9. CASE reduceDB_Tier2
  BY <1>9, ReduceTier2Step
<1>10. CASE reduceDB
  BY <1>10, ReduceStep
<1>11. CASE decide
  BY <1>1, <1>11 DEF decide
<1>12. CASE answer
  BY <1>1, <1>12 DEF answer
<1>13. CASE UNCHANGED vars
  BY <1>1, <1>13 DEF vars
<1> QED
  BY <1>2, <1>3, <1>4, <1>5, <1>6, <1>7, <1>8, <1>9, <1>10, <1>11, <1>12, <1>13 DEF Next

LEMMA InvariantHolds == Spec => []IInv
<1>1. Init => IInv
  BY InitIInv
<1>2. IInv /\ [Next]_vars => IInv'
  BY NextIInv
<1> QED
  BY <1>1, <1>2, PTL DEF Spec

-----------------------------------------------------------------------------
LEMMA IInvRemovedOnce == IInv => RemovedOnce
BY DEF IInv, Stored, Fine, Good, RemovedOnce

LEMMA IInvReferences == IInv => ReferencesFollow
BY DEF IInv, Stored, Fine, Good, Lead, ReferencesFollow

LEMMA IInvListed == IInv => Listed
<1> SUFFICES ASSUME IInv, NEW cr \in Live(mem)
             PROVE  LET mark == mem.ca[cr].mark
                        entries == Occurrences(ListOf(mark), cr)
                    IN  entries # {} /\ (mark # LOCAL_MARK => Cardinality(entries) = 1)
  BY DEF Listed
<1>1. PICK n \in Nat : Fine(mem, learnts, n, nLearnt)
  BY DEF IInv, Stored
<1> DEFINE mark == mem.ca[cr].mark
           cs == ListOf(mark)
           entries == Occurrences(cs, cr)
<1>2. /\ InLists(mem, Elems(learnts.core), Elems(learnts.tier2), Elems(learnts.local))
      /\ DOMAIN mem.ca = 1 .. n /\ cr \in 1 .. n /\ mark \in Marks /\ mark # REMOVED
  BY <1>1, MemoryTypes DEF Fine, Good, HeaderType
<1>3. /\ learnts.core \in Seq(1 .. n) /\ learnts.tier2 \in Seq(1 .. n)
      /\ learnts.local \in Seq(1 .. n)
      /\ NoRepeats(learnts.core) /\ NoRepeats(learnts.tier2)
  BY <1>1 DEF Fine, Listing
<1>4. mark = CORE \/ mark = TIER2 \/ mark = LOCAL_MARK
  BY <1>2 DEF Marks
<1>5. cs \in Seq(1 .. n) /\ cr \in Elems(cs) /\ (mark # LOCAL_MARK => NoRepeats(cs))
  <2>1. CASE mark = CORE
    BY <1>2, <1>3, <2>1, MarksApart DEF ListOf, InLists
  <2>2. CASE mark = TIER2
    BY <1>2, <1>3, <2>2, MarksApart DEF ListOf, InLists
  <2>3. CASE mark = LOCAL_MARK
    BY <1>2, <1>3, <2>3, MarksApart DEF ListOf, InLists
  <2> QED
    BY <1>4, <2>1, <2>2, <2>3
<1> HIDE DEF mark, cs
<1>6. PICK i \in 1 .. Len(cs) : cs[i] = cr
  BY <1>5 DEF Elems
<1>7. i \in entries /\ DOMAIN cs = 1 .. Len(cs)
  BY <1>5, <1>6 DEF Occurrences
<1>8. ASSUME mark # LOCAL_MARK
      PROVE  Cardinality(entries) = 1
  <2>1. entries = {i}
    BY <1>5, <1>6, <1>7, <1>8 DEF NoRepeats, Occurrences
  <2> QED
    BY <2>1, FS_Singleton
<1> QED
  BY <1>7, <1>8 DEF mark, cs

(* Every learnt clause that was not removed is in the list its mark names, *)
(* and once there if that is the core or tier 2: what removeSatisfied,     *)
(* safeRemoveSatisfied and the reductions rely on.                         *)
THEOREM LearntsListed == Spec => []Listed
<1>1. IInv => Listed
  BY IInvListed
<1> QED
  BY <1>1, InvariantHolds, PTL

(* removeClause never meets a removed clause, whatever was learnt,         *)
(* promoted, demoted, vivified and collected before: its message "I don't  *)
(* expect this to happen" is never written.                                *)
THEOREM NoClauseRemovedTwice == Spec => []RemovedOnce
<1>1. IInv => RemovedOnce
  BY IInvRemovedOnce
<1> QED
  BY <1>1, InvariantHolds, PTL

(* After any garbage collection in any order, watchers and reasons lead to *)
(* the clauses they led to: no reason is a removed or another clause.      *)
THEOREM NoReferenceLost == Spec => []ReferencesFollow
<1>1. IInv => ReferencesFollow
  BY IInvReferences
<1> QED
  BY <1>1, InvariantHolds, PTL
=============================================================================
