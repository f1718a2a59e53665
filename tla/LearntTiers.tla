---------------------------- MODULE LearntTiers ----------------------------
(***************************************************************************)
(* Where the solver keeps its learnt clauses: the lists learnts_core,      *)
(* learnts_tier2 and learnts_local, the clause headers that say which of   *)
(* them a clause belongs to, and the clause memory that garbage collection *)
(* moves (core/Solver.cc, ClauseAllocator of core/SolverTypes.h).  A       *)
(* clause changes its tier in conflict analysis, in reduceDB_Tier2 and in  *)
(* vivification, and its old entry may stay behind in the old list.        *)
(*                                                                         *)
(* The literals are left out (ChronoSearch has them): a clause is a name,  *)
(* and what its literals decide is any choice: which clauses are conflicts *)
(* and reasons, how their LBDs change, which are satisfied at level 0 and  *)
(* what vivification leaves of them.  Levels only count the decisions that *)
(* a row of conflicts can take back.                                       *)
(***************************************************************************)
EXTENDS Integers, Sequences, FiniteSets, Functions, FiniteSetsExt, SequencesExt

CONSTANTS
    Lbds,           \* the LBDs clauses may have
    Tier2Every,     \* conflicts between calls of reduceDB_Tier2: 10000
    LocalEvery,     \* conflicts between calls of reduceDB: 15000
    Untouched,      \* conflicts after which a tier-2 clause is demoted: 30000
    RaiseAt,        \* the conflict at which core_lbd_cut may be raised: 100000
    RaiseBelow,     \* raised when there are fewer core clauses: 100
    VivifyEvery,    \* the first nbconfbeforesimplify, and incSimplify: 1000
    MaxLevel, MaxLearnts, MaxConflicts      \* bounds of the model

ASSUME TiersAssumption ==
    /\ Lbds \subseteq Nat /\ Lbds # {}
    /\ {Tier2Every, LocalEvery, Untouched, RaiseAt, VivifyEvery} \subseteq Nat \ {0}
    /\ {RaiseBelow, MaxLevel, MaxLearnts, MaxConflicts} \subseteq Nat

LOCAL_MARK == 0     \* LOCAL, TIER2 and CORE of core/Solver.h
REMOVED == 1
TIER2 == 2
CORE == 3

(* touched() of a clause that has lost literals.  shrink moves the first   *)
(* of the two extra words only; the second is then what stood behind the   *)
(* new end: the bits of the activity (0, or more than any number of        *)
(* conflicts), or a literal, a small number.                               *)
Intact == -1
Leftovers == {0, MaxConflicts}

VARIABLES
    mem,            \* ca: the headers, as a sequence; watches, reason: for the
                    \* clauses watched and locked, their references; wasted: whether
                    \* anything was freed; unexpected: removeClause met a removed clause
    learnts,        \* the lists learnts_core, learnts_tier2 and learnts.local
    conflicts, level, core_lbd_cut, next_T2_reduce, next_L_reduce,
    curSimplify, nbconfbeforesimplify,
    nLearnt,        \* history: how many clauses have been learnt
    pc

schedule == <<next_T2_reduce, next_L_reduce, curSimplify, nbconfbeforesimplify>>
vars == <<mem, learnts, conflicts, level, core_lbd_cut, schedule, nLearnt, pc>>

Init ==
    /\ mem = [ca |-> <<>>, watches |-> <<>>, reason |-> <<>>, wasted |-> FALSE,
              unexpected |-> FALSE]
    /\ learnts = [core |-> <<>>, tier2 |-> <<>>, local |-> <<>>]
    /\ conflicts = 0 /\ level = 0 /\ core_lbd_cut = 3
    /\ next_T2_reduce = Tier2Every /\ next_L_reduce = LocalEvery
    /\ curSimplify = 1 /\ nbconfbeforesimplify = VivifyEvery
    /\ nLearnt = 0
    /\ pc = "propagate"

-----------------------------------------------------------------------------
(* Operations on the clause memory.                                        *)

(* touched() is read in tier 2 only and set when a clause gets there; in   *)
(* the other tiers it is 0 here.                                           *)
Header(name, lbd) ==
    [name |-> name, mark |-> LOCAL_MARK, lbd |-> lbd, removable |-> TRUE,
     simplified |-> FALSE, touched |-> 0]

Live(m) == {cr \in DOMAIN m.ca : m.ca[cr].mark # REMOVED}
locked(m, cr) == \E n \in DOMAIN m.reason : m.reason[n] = cr
Without(f, cr) == [n \in {k \in DOMAIN f : f[k] # cr} |-> f[n]]
Joined(f, g) == [n \in DOMAIN f \cup DOMAIN g |-> IF n \in DOMAIN f THEN f[n] ELSE g[n]]

(* removeClause detaches lazily: the watchers stay until they are cleaned. *)
removeClause(m, cr) ==
    [m EXCEPT !.ca[cr].mark = REMOVED, !.reason = Without(@, cr), !.wasted = TRUE,
              !.unexpected = @ \/ m.ca[cr].mark = REMOVED]

(* A loop over a list keeps some entries and removes some clauses.         *)
Loop(m) == [m |-> m, kept |-> <<>>]
Keep(s, cr) == [s EXCEPT !.kept = Append(@, cr)]
Remove_(s, cr) == [s EXCEPT !.m = removeClause(@, cr)]

removeSatisfied(m, cs, satisfied) ==
    FoldLeft(LAMBDA s, cr : IF cr \in satisfied THEN Remove_(s, cr) ELSE Keep(s, cr),
             Loop(m), cs)

safeRemoveSatisfied(m, cs, valid_mark, satisfied) ==
    FoldLeft(LAMBDA s, cr : IF s.m.ca[cr].mark # valid_mark THEN s
                            ELSE IF cr \in satisfied THEN Remove_(s, cr) ELSE Keep(s, cr),
             Loop(m), cs)

(* The references in f, after the clauses have moved in this order.        *)
Relocated(f, order) == [i \in DOMAIN f |-> SelectInSeq(order, LAMBDA cr : cr = f[i])]

(* Mutant: the reasons are forgotten.                                      *)
RelocatedReasonsNot(reason, order) == reason

RelocatedReasons(reason, order) == Relocated(reason, order)

(* relocAll moves each clause once, when it first meets it: in the         *)
(* watchers, when these have been cleaned, among the reasons (a locked     *)
(* clause is watched), or in the lists, where it meets removed clauses     *)
(* too.  A header is copied with all that is in it.  The order of the new  *)
(* places is any one, as no reference is compared for it.                  *)
relocAll(m, ls) ==
    LET cleaned == [n \in {k \in DOMAIN m.watches : m.watches[k] \in Live(m)} |->
                        m.watches[n]]
        order == SetToSeq(Range(cleaned) \cup ToSet(ls.core)
                              \cup ToSet(ls.tier2) \cup ToSet(ls.local))
    IN  [m |-> [m EXCEPT !.ca = [i \in DOMAIN order |-> m.ca[order[i]]],
                         !.watches = Relocated(cleaned, order),
                         !.reason = RelocatedReasons(@, order), !.wasted = FALSE],
         ls |-> [list \in DOMAIN ls |-> Relocated(ls[list], order)]]

(* checkGarbage collects when enough of the memory is wasted.  How much    *)
(* that is depends on the sizes of all clauses, so either may happen.      *)
checkGarbage(m, ls) ==
    \E collect \in IF m.wasted THEN BOOLEAN ELSE {FALSE} :
        LET r == IF collect THEN relocAll(m, ls) ELSE [m |-> m, ls |-> ls]
        IN  mem' = r.m /\ learnts' = r.ls

-----------------------------------------------------------------------------
(* Vivification, at the start of a search.                                 *)

(* What becomes of a clause that is tried: it is satisfied at level 0, a   *)
(* unit is left of it, or it is kept, with the LBD it has now.             *)
Outcomes(mark) ==
    [end : {"satisfied", "unit"}, lbd : {0}, touched : {Intact}]
        \cup [end : {"kept"}, lbd : Lbds,
              touched : {Intact} \cup IF mark = TIER2 THEN Leftovers ELSE {}]

(* A locked clause has a true literal, at level 0.                         *)
MayBecome(m, cr) ==
    {o \in Outcomes(m.ca[cr].mark) : locked(m, cr) => o.end = "satisfied"}

ToTry(m, cs) == {cr \in ToSet(cs) \cap Live(m) : ~m.ca[cr].simplified}
Trials(m, cs) ==
    LET outcomes == UNION {MayBecome(m, cr) : cr \in ToTry(m, cs)}
    IN  {f \in [ToTry(m, cs) -> outcomes] : \A cr \in DOMAIN f : f[cr] \in MayBecome(m, cr)}

Unit(m, cr) ==
    [m EXCEPT !.ca[cr].mark = REMOVED, !.watches = Without(@, cr), !.wasted = TRUE]

Vivified(c, o) ==
    [c EXCEPT !.lbd = Min({@, o.lbd}), !.simplified = TRUE,
              !.touched = IF o.touched = Intact THEN @ ELSE o.touched]

(* What both loops do with a clause.                                       *)
Try(s, cr, trial) ==
    LET c == s.m.ca[cr]
    IN  CASE c.mark = REMOVED -> s
          [] c.mark # REMOVED /\ c.simplified -> Keep(s, cr)
          [] c.mark # REMOVED /\ ~c.simplified ->
                CASE trial[cr].end = "satisfied" -> Remove_(s, cr)
                  [] trial[cr].end = "unit" -> [s EXCEPT !.m = Unit(@, cr)]
                  [] trial[cr].end = "kept" ->
                        Keep([s EXCEPT !.m.ca[cr] = Vivified(@, trial[cr])], cr)

simplifyLearnt_core(m, core, trial) ==
    FoldLeft(LAMBDA s, cr : Try(s, cr, trial), Loop(m), core)

(* A tier-2 clause with a small LBD moves to the core.                     *)
simplifyLearnt_tier2(m, core, tier2, trial) ==
    LET Step(s, cr) ==
            LET t == Try(s, cr, trial)
            IN  IF /\ cr \in DOMAIN trial /\ ~s.m.ca[cr].simplified
                   /\ cr \in Live(t.m) /\ t.m.ca[cr].lbd <= core_lbd_cut
                THEN [t EXCEPT !.m.ca[cr].mark = CORE, !.m.ca[cr].touched = 0, !.kept = s.kept,
                               !.core = Append(@, cr)]
                ELSE t
    IN  FoldLeft(Step, [m |-> m, kept |-> <<>>, core |-> core], tier2)

simplifyAll ==
    \E coreTrial \in Trials(mem, learnts.core) :
        LET c == simplifyLearnt_core(mem, learnts.core, coreTrial)
        IN  \E tierTrial \in Trials(c.m, learnts.tier2) :
                LET t == simplifyLearnt_tier2(c.m, c.kept, learnts.tier2, tierTrial)
                IN  checkGarbage(t.m, [learnts EXCEPT !.core = t.core, !.tier2 = t.kept])

(* A search begins at level 0, with vivification when it is due.           *)
VivifyDue == conflicts >= curSimplify * nbconfbeforesimplify

vivify ==
    /\ pc = "vivify"
    /\ simplifyAll
    /\ curSimplify' = (conflicts \div nbconfbeforesimplify) + 1
    /\ nbconfbeforesimplify' = nbconfbeforesimplify + VivifyEvery
    /\ pc' = "propagate"
    /\ UNCHANGED <<conflicts, level, core_lbd_cut, next_T2_reduce, next_L_reduce, nLearnt>>

-----------------------------------------------------------------------------
(* Propagation and conflicts.                                              *)

(* Clauses become reasons; the end is a conflict or none.                  *)
propagate ==
    /\ pc = "propagate"
    /\ \E implying \in SUBSET {cr \in Live(mem) : ~locked(mem, cr)} :
           mem' = [mem EXCEPT !.reason =
                      Joined([n \in {mem.ca[cr].name : cr \in implying} |->
                                 CHOOSE cr \in implying : mem.ca[cr].name = n], @)]
    /\ pc' \in IF conflicts < MaxConflicts THEN {"conflict", "settled"} ELSE {"settled"}
    /\ UNCHANGED <<learnts, conflicts, level, core_lbd_cut, schedule, nLearnt>>

(* Backtracking to a lower level unassigns some literals with reasons.     *)
Backtracked(m, kept) == [m EXCEPT !.reason = Restrict(@, kept)]

CountConflict ==
    /\ conflicts' = conflicts + 1
    /\ core_lbd_cut' = IF conflicts' = RaiseAt /\ Len(learnts.core) < RaiseBelow THEN 5
                       ELSE core_lbd_cut

(* The conflict has one literal of its highest level: only backtracking.   *)
onlyBacktrack ==
    /\ pc = "conflict" /\ level > 0
    /\ CountConflict
    /\ level' \in 0 .. level - 1
    /\ \E kept \in SUBSET DOMAIN mem.reason : mem' = Backtracked(mem, kept)
    /\ pc' = "propagate"
    /\ UNCHANGED <<learnts, schedule, nLearnt>>

(* Mutant: clauses of the core are promoted too.                           *)
ImprovedAny(c, lbd) == lbd < c.lbd

Improved(c, lbd) == c.mark # CORE /\ lbd < c.lbd

ToTier2(c, lbd) ==
    Improved(c, lbd) /\ lbd > core_lbd_cut' /\ lbd <= 6 /\ c.mark = LOCAL_MARK

(* A clause that analyze resolves with.  a is the memory and two lists.    *)
Resolved(a, cr, lbd) ==
    LET c == a.m.ca[cr]
        toCore == Improved(c, lbd) /\ lbd <= core_lbd_cut'
        mark == IF toCore THEN CORE ELSE IF ToTier2(c, lbd) THEN TIER2 ELSE c.mark
    IN  [a EXCEPT !.m.ca[cr] =
                      [c EXCEPT !.mark = mark,
                                !.lbd = IF Improved(c, lbd) THEN lbd ELSE @,
                                !.removable = @ /\ ~(Improved(c, lbd) /\ c.lbd <= 30),
                                !.touched = IF mark = TIER2 THEN conflicts' ELSE 0],
                  !.core = IF toCore THEN Append(@, cr) ELSE @,
                  !.tier2 = IF ToTier2(c, lbd) THEN Append(@, cr) ELSE @]

analyze(used, lbds) ==
    FoldSet(LAMBDA cr, a : Resolved(a, cr, lbds[cr]),
            [m |-> mem, core |-> learnts.core, tier2 |-> learnts.tier2], used)

(* The new clause is put into a list, attached, and implies its first      *)
(* literal.  A unit clause is not stored.                                  *)
Learnt(a, lbd) ==
    LET cr == Len(a.m.ca) + 1
        name == nLearnt + 1
        mark == IF lbd <= core_lbd_cut' THEN CORE ELSE IF lbd <= 6 THEN TIER2 ELSE LOCAL_MARK
        c == [Header(name, lbd) EXCEPT !.mark = mark,
                                       !.touched = IF mark = TIER2 THEN conflicts' ELSE 0]
        AddTo(list, m) == IF mark = m THEN Append(list, cr) ELSE list
        reference == [n \in {name} |-> cr]
    IN  /\ mem' = [a.m EXCEPT !.ca = Append(@, c), !.watches = Joined(reference, @),
                              !.reason = Joined(reference, @)]
        /\ learnts' = [core |-> AddTo(a.core, CORE), tier2 |-> AddTo(a.tier2, TIER2),
                       local |-> AddTo(learnts.local, LOCAL_MARK)]
        /\ nLearnt' = name

(* The clauses that took part in the conflict: the one that was false and  *)
(* reasons; any of them may be a problem clause.                           *)
learn ==
    /\ pc = "conflict" /\ level > 0
    /\ CountConflict
    /\ level' \in 0 .. level - 1
    /\ \E used \in SUBSET Live(mem) :
        /\ Cardinality({cr \in used : ~locked(mem, cr)}) <= 1
        /\ \E lbds \in [used -> Lbds] :
           \E kept \in SUBSET DOMAIN mem.reason :
              LET a == analyze(used, lbds)
                  b == [a EXCEPT !.m = Backtracked(@, kept)]
              IN  \/ /\ mem' = b.m
                     /\ learnts' = [learnts EXCEPT !.core = b.core, !.tier2 = b.tier2]
                     /\ UNCHANGED nLearnt
                  \/ /\ nLearnt < MaxLearnts
                     /\ \E lbd \in Lbds : Learnt(b, lbd)
    /\ pc' = "propagate"
    /\ UNCHANGED schedule

-----------------------------------------------------------------------------
(* No conflict.                                                            *)

(* The next search begins.                                                 *)
restart ==
    /\ pc = "settled"
    /\ level' = 0
    /\ \E kept \in SUBSET DOMAIN mem.reason : mem' = Backtracked(mem, kept)
    /\ pc' = IF VivifyDue THEN "vivify" ELSE "propagate"
    /\ UNCHANGED <<learnts, conflicts, core_lbd_cut, schedule, nLearnt>>

(* What search goes on with: the reductions that are due.                  *)
AfterTier2 == IF conflicts >= next_L_reduce THEN "reduceLocal" ELSE "decide"
AfterSimplify == IF conflicts >= next_T2_reduce THEN "reduceTier2" ELSE AfterTier2

(* Every locked clause has a true literal at level 0.                      *)
simplify ==
    /\ pc = "settled" /\ level = 0
    /\ \E satisfied \in SUBSET Live(mem) :
        /\ \A cr \in Live(mem) : locked(mem, cr) => cr \in satisfied
        /\ LET core == removeSatisfied(mem, learnts.core, satisfied)
               tier2 == safeRemoveSatisfied(core.m, learnts.tier2, TIER2, satisfied)
               local == safeRemoveSatisfied(tier2.m, learnts.local, LOCAL_MARK, satisfied)
           IN  checkGarbage(local.m, [core |-> core.kept, tier2 |-> tier2.kept,
                                     local |-> local.kept])
    /\ pc' = AfterSimplify
    /\ UNCHANGED <<conflicts, level, core_lbd_cut, schedule, nLearnt>>

(* Above level 0, or when nothing was assigned since the last time.        *)
skipSimplify ==
    /\ pc = "settled"
    /\ pc' = AfterSimplify
    /\ UNCHANGED <<mem, learnts, conflicts, level, core_lbd_cut, schedule, nLearnt>>

(* Mutant: a demoted clause stays in the list of tier 2.                   *)
DemotedKept(s, cr) ==
    IF s.m.ca[cr].mark # TIER2 THEN s
    ELSE IF ~locked(s.m, cr) /\ s.m.ca[cr].touched + Untouched < conflicts
         THEN Keep([s EXCEPT !.m.ca[cr].mark = LOCAL_MARK, !.local = Append(@, cr)], cr)
         ELSE Keep(s, cr)

Demoted(s, cr) ==
    IF s.m.ca[cr].mark # TIER2 THEN s
    ELSE IF ~locked(s.m, cr) /\ s.m.ca[cr].touched + Untouched < conflicts
         THEN [s EXCEPT !.m.ca[cr].mark = LOCAL_MARK, !.m.ca[cr].touched = 0,
                        !.local = Append(@, cr)]
         ELSE Keep(s, cr)

reduceDB_Tier2 ==
    /\ pc = "reduceTier2"
    /\ LET s == FoldLeft(Demoted, [m |-> mem, kept |-> <<>>, local |-> learnts.local],
                         learnts.tier2)
       IN  /\ mem' = s.m
           /\ learnts' = [learnts EXCEPT !.tier2 = s.kept, !.local = s.local]
    /\ next_T2_reduce' = conflicts + Tier2Every
    /\ pc' = AfterTier2
    /\ UNCHANGED <<conflicts, level, core_lbd_cut, next_L_reduce, curSimplify,
                   nbconfbeforesimplify, nLearnt>>

(* One entry of learnts.local; i is its position.                          *)
Reduced(s, cr) ==
    LET c == s.m.ca[cr]
        t == [s EXCEPT !.i = @ + 1]
    IN  IF c.mark # LOCAL_MARK THEN t
        ELSE IF c.removable /\ ~locked(s.m, cr) /\ s.i < s.limit THEN Remove_(t, cr)
        ELSE Keep([t EXCEPT !.limit = @ + IF c.removable THEN 0 ELSE 1,
                            !.m.ca[cr].removable = TRUE], cr)

(* The activities are left out: the list may be sorted in any order.       *)
reduceDB ==
    /\ pc = "reduceLocal"
    /\ \E order \in Bijection(DOMAIN learnts.local, DOMAIN learnts.local) :
         LET cs == [i \in DOMAIN learnts.local |-> learnts.local[order[i]]]
             s == FoldLeft(Reduced, [m |-> mem, kept |-> <<>>, i |-> 0,
                                     limit |-> Len(cs) \div 2], cs)
         IN  checkGarbage(s.m, [learnts EXCEPT !.local = s.kept])
    /\ next_L_reduce' = conflicts + LocalEvery
    /\ pc' = "decide"
    /\ UNCHANGED <<conflicts, level, core_lbd_cut, next_T2_reduce, curSimplify,
                   nbconfbeforesimplify, nLearnt>>

decide ==
    /\ pc = "decide" /\ level < MaxLevel
    /\ level' = level + 1
    /\ pc' = "propagate"
    /\ UNCHANGED <<mem, learnts, conflicts, core_lbd_cut, schedule, nLearnt>>

(* A conflict of level 0, or a model.                                      *)
answer ==
    /\ pc \in {"conflict", "decide"}
    /\ pc' = "answered"
    /\ UNCHANGED <<mem, learnts, conflicts, level, core_lbd_cut, schedule, nLearnt>>

Next ==
    \/ vivify \/ propagate \/ onlyBacktrack \/ learn \/ restart
    \/ simplify \/ skipSimplify \/ reduceDB_Tier2 \/ reduceDB \/ decide \/ answer

Spec == Init /\ [][Next]_vars

-----------------------------------------------------------------------------
(* Properties.                                                             *)

ListOf(mark) ==
    CASE mark = CORE -> learnts.core [] mark = TIER2 -> learnts.tier2
      [] mark = LOCAL_MARK -> learnts.local

Occurrences(cs, cr) == {i \in DOMAIN cs : cs[i] = cr}

(* A learnt clause that was not removed is in the list its mark names, so  *)
(* that reduction and simplification reach it, and those of the core and   *)
(* of tier 2 are there once, although promoted clauses leave their entries *)
(* in other lists.  The comment in analyze (Solver.cc:1133) fears that a   *)
(* clause is in tier 2 twice; reduceDB_Tier2 and simplifyLearnt_tier2 take *)
(* what they move off the list, and removeSatisfied relies on it: it would *)
(* remove a clause that is in the core twice two times.                    *)
Listed ==
    \A cr \in Live(mem) :
        LET mark == mem.ca[cr].mark
            entries == Occurrences(ListOf(mark), cr)
        IN  entries # {} /\ (mark # LOCAL_MARK => Cardinality(entries) = 1)

(* removeClause never meets a removed clause, what its message "I don't    *)
(* expect this to happen" says (Solver.cc:915), although removed clauses   *)
(* stay in lists, removeSatisfied looks at no mark and garbage collection  *)
(* copies what is removed.                                                 *)
RemovedOnce == ~mem.unexpected

(* After any garbage collection, watchers and reasons lead to the clauses  *)
(* they led to before: no reason is a removed or another clause, and every *)
(* clause of the lists is watched.                                         *)
ReferencesFollow ==
    /\ \A n \in DOMAIN mem.reason :
           mem.reason[n] \in Live(mem) /\ mem.ca[mem.reason[n]].name = n
    /\ \A n \in DOMAIN mem.watches :
           mem.watches[n] \in DOMAIN mem.ca /\ mem.ca[mem.watches[n]].name = n
    /\ \A cr \in Live(mem) : mem.ca[cr].name \in DOMAIN mem.watches

(* analyze protects a clause whose LBD has improved "once from reduction"  *)
(* (Solver.cc:1127): the next reduceDB keeps it.                           *)
ProtectedOnce ==
    [][pc = "reduceLocal" =>
         \A cr \in Live(mem) :
            mem.ca[cr].mark = LOCAL_MARK /\ ~mem.ca[cr].removable =>
                \E kept \in Live(mem') : mem'.ca[kept].name = mem.ca[cr].name]_vars
=============================================================================
