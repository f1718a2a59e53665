# Verification of MapleLCMDist_ChronoBT with its proof tracer

The repository holds a CDCL SAT solver with chronological backtracking
(`src/maplechronobt_proof_analyze/sources`) and, compiled in by
`COMPLETESATANALYZER_ANALYZE`, a proof tracing backend (`ptb/`, namespace `PTB`). While
it searches, the solver gives the tracer for every clause it derives the *hints* the
derivation used. The tracer writes them to a log on disk; when the empty clause has
been derived it marks, backwards, the records the refutation needs and writes them as a
GRIT, LRAT, DRAT or trace file. The rest of the repository (`misc/`) holds benchmark
outputs and plotting scripts.

The program is sequential. What makes it hard is not concurrency but long sequences of
legal steps over redundant state: assignments out of level order on the trail, watcher
lists that are repaired while they are iterated over, reasons that must outlive the
reduction of the clause database, and a second, parallel account of all of it (hint
buffers, clause identifiers, unit records) that has to match at every clause the
solver derives, shortens or deletes. A missing hint shows up, if at all, hours later in
a proof checker.

## Inventory

| part | state | operations | what makes it correct |
|---|---|---|---|
| tracer `PTB::Analyzer` (`ptb/ProofTracingBackend.hpp`) | pending hints, unit hints, revert markers, count of unordered hints, the file names | `addHint`, `addUnorderedHint`, `addUnitHint`, `markRevertableHints`, `revertHints`, `addResolvent`, `removeResolvent`, `analyzeUnsat`, `collect*` | a record has exactly the hints of its derivation; hints point backwards and never at a DELETE record; marking marks what is needed; the numbers in a written file are defined before use |
| hint ordering (`makeUpOrdered`, `isGritOrdered`, `ptb/TmpVarState.hpp`) | seen marks, per-variable dependency lists, per-hint counters | one call per UNORDERED record | every hint comes out once, in propagation order |
| clause log `PTB::ClauseDatabase`, `PTB::MmapStorage` | up to four memory-mapped files, the file being filled, a capacity that grows | `addClause`, `addDeleteClause`, `begin`/`next`, `open`/`reserve`/`alloc` | an iteration meets every record once, in order; a record keeps its address |
| DRAT writer `DratPrint`, `Timer` | a buffer, a file | `addClause`, `removeClause` | the file says what the log says |
| solver core (`core/Solver.cc`, `core/Solver.h`) | clauses, watchers, trail, levels, reasons, queue head, `seen`, learnt tiers, `unitCids` | `addClause_`, `propagate`, `analyze`, `cancelUntil`, `simplify`, `reduceDB`, `search`, `solve_` | right answers, an answer in the end, records that can be checked |
| vivification (`simplifyLearnt`, `simplifyAll`) | assumptions on top of level 0, without a level of their own | shortens learnt clauses | shortened clauses follow from their hints; no trace left |
| learnt clauses (`reduceDB`, `reduceDB_Tier2`, part of `analyze`) | three lists, the marks, LBDs and flags in the clause headers, the schedule of the reductions | promotion, demotion, removal, relocation | a clause is in the list of its tier, is removed once, and references follow it |
| heuristics | activities, three order heaps, LBD averages (`MyQueue`), phases | decision order, restarts | every unassigned variable stays in the heap in use |
| preprocessing (`simp/SimpSolver.cc`) | occurrence lists, touched variables, subsumption queue, eliminated clauses | subsumption, strengthening, variable elimination, `extendModel`, `implied` | exact occurrence lists, equisatisfiable formula, models extend |
| clause memory (`core/SolverTypes.h`, `mtl/Alloc.h`), `OccLists`, containers | arena, forwarding references | `alloc`, `free`, `relocAll` | references survive garbage collection |
| front end (`Main.cc`, `core/Dimacs.h`, `utils/`) | options | parse, report | pure I/O |

Calls go one way: front end -> SimpSolver -> Solver -> tracer -> clause log. State is
shared in two places: `SimpSolver` writes the clause database and watcher lists of
`Solver`, and `add_tmp` is a scratch vector that `addClause_`, `cancelUntil`, `analyze`
and the tracing hooks all use.

## Modules

| module | models | state and actions |
|---|---|---|
| `Tracer` | the tracer's operations on buffers and log, as operators | no state; used by `ProofTracer` and by the solver modules |
| `ProofTracer` | `PTB::Analyzer` under any client | `db` (log), `an` (buffers), `used`/`work` (marking), `saved`/`tags` (history, for the properties only); an action per public operation, and `backtrackStep` per iteration of the marking loop |
| `ProofLemmas` | numbers, sequences and finite sets, for the proofs | no state |
| `HintOrder` | `makeUpOrdered` and `TmpVarStates` as operators on their scratch state | no state |
| `HintOrdering` | `makeUpOrdered` called again and again | `s` (scratch state), `rec` (the record being ordered); an action per outcome of the loop body |
| `HintOrdering_proofs` | theorems about it | |
| `ProofDump` | `analyzeAndPrint`: TRACE, LRAT, DRAT and GRIT files written from the marked log | extends `ProofTracer` with the file being written, the reading position, the counter, the pending deletions and the lines; an action per branch of `collect*` |
| `ProofTracer_proofs` | theorems about both: the log and the marking; the buffers, markers and numbers; the numbers in GRIT and LRAT files | |
| `ClauseLog` | what the clause database promises: a sequence of records that grows, then is read in order | `log`, `mode`, `place` |
| `ClauseStorage` | `ClauseDatabase` on `MmapStorage`, sizes in bytes | `storages` (per file: limit, mapped size, fill level, records), `curDataId`, the call in progress, the cid an iteration is at; an action per outcome of `alloc` on one file and of `next` |
| `ClauseStorage_proofs` | theorems about it: the files; that it implements `ClauseLog` | |
| `Cnf` | literals, models, reverse unit propagation, `isGritOrdered` | reference definitions |
| `CertifiedSolving` | what the solver promises | a clause set that keeps the models of the input on the variables `kept`; answers |
| `SolverState` | the data of `Solver` and the operations everything shares | `ca`, `watches`, `trail`, `vardata`, ...; `uncheckedEnqueue`, `cancelUntil`, `removeClauses`, the hooks into the tracer |
| `Propagation` | `propagate` | an action per loop iteration and outcome |
| `ConflictAnalysis` | `FindConflictLevel`, `analyze`, `litRedundant`, `binResMinimize`, backtracking, learning | an action per resolution step, per step of the minimization of a literal, per clause learnt |
| `LearntVivify` | `simplifyAll`: vivification of learnt clauses at the start of a search | extends `ConflictAnalysis` with `viv` (the clause in hand, the literals kept and found false, `trailRecord`) and `due` (when it is called); an action per literal of a clause and per outcome; it propagates with the actions of `Propagation` in their simple form |
| `ChronoSearch` | `addClause_`, `search`, `simplify`, `reduceDB`, `solve_`: the whole solver | extends the four above and uses `Tracer` for the log |
| `CertifiedSearch` | what the solver owes to the readers of its log | extends `ChronoSearch` with no state: the refinement of `CertifiedSolving`, and the properties that check the records by unit propagation |
| `ChronoSearch_proofs`, `SearchInvariant_proofs`, `SearchTheorems_proofs` | one proof in three parts: the invariant of the solver and propagation; backtracking, removal, decisions, reading and resolution; minimization, learning, vivification, the numbering of the input, and the theorems | |
| `SimpSolver` | preprocessing in front of that search | extends `CertifiedSearch` with `occ` (occurrence lists, counters, touched variables, heap, subsumption queue), `eliminated`, `elimclauses` and `simp` (where `eliminate` is); an action per clause taken from the queue, per clause subsumed or strengthened, per variable taken from the heap, per resolvent |
| `ImpliedCheck` | reading the formula with `-rcheck` | extends `SimpSolver` with `asked` (where `implied` is) |
| `LearntTiers` | the three lists of learnt clauses, their headers, reduction and garbage collection | `mem` (headers, and the references in watchers and reasons), `learnts` (the lists), the schedule; literals are left out, what they decide is any choice |
| `LearntTiers_proofs` | theorems about it | |
| `MC*` | instances for TLC: formulas, derivations, bounds | |

Names follow the source (`uncheckedEnqueue`, `trail_lim`, `addResolvent`, ...). A literal
is a non-zero integer as in DIMACS; `LitBefore` gives the order of `mkLit`. A `Cid` is the
place of a record in the log, a `CRef` the place of a clause in `ca`; freed clauses stay in
`ca` with a flag, because lazily cleaned watchers still refer to them. Definitions that a
comment calls a mutant are deliberately wrong versions of a definition; the
specifications do not use them, they show that a property would notice that bug.

### What is abstracted, and why that is sound

* In `ChronoSearch` decisions take any unassigned literal, restarts may happen whenever the
  queue is empty, `reduceDB` may forget any long unlocked learnt clause. Activities, LBD averages,
  tiers and phases only select among these, so every run of the code is among the runs modelled.
  `collectFirstUIP` only changes activities. (Two of the formulas of `search_chrono` decide on
  negative literals only, to keep the instance small.)
* In `LearntTiers` the literals are left out: which clauses are conflicts, reasons or satisfied, how
  LBDs change, and what vivification leaves of a clause is any choice that the literals could make.
  That a locked clause has a true literal is kept, because `reduceDB` and relocation rest on it.
  Garbage collection may happen or not whenever something was freed: the fraction of wasted
  memory depends on sizes that are not modelled.
* `restart` at level 0 changes nothing and is left out; the propagation at the start of
  `simplify` finds an empty queue, since `simplify` follows a propagation.
* The learnt clause is recorded by one action with its enqueueing; nothing observes the
  moment between. In the code `uncheckedEnqueue` comes first and writes no record when
  the backtrack level is above 0.
* `simplifyAll` takes the learnt clauses in any order in `LearntVivify`; at these sizes every LBD is
  small enough for the two lists it visits.
* In `SimpSolver` the order of a resolvent's literals is fixed by a library operator and the order of
  variables of equal cost is left open; `-sub-lim` (1000 literals) never binds. No variable is
  frozen and nothing interrupts. The mark 2 that `gatherTouchedClauses` sets and resets is a test for
  membership in the queue.
* `ProofTracer` leaves its client free, but for two rules the solver keeps: hints name
  records that are not deleted, and a record that is a pending hint is not deleted. That the
  solver keeps them is checked in `search_chrono` (`RecordsCheckable`).
* `HintOrdering` is fed derivations: the first hint is the clause in conflict, the others
  are reasons that, in some order, each make one more variable known (`IsDerivation`).
  Without that `makeUpOrdered` could add a hint twice and write into the record that
  follows in the log. `search_chrono` checks the conclusion on the records of the solver (`UnorderedOrderable`).
* RAT hints (`addRatHint`, `makeRatOrdered`) are never produced by the solver.

## Runs

| run | instance | what it shows |
|---|---|---|
| `tracer` | 2 records, 3 hints, 1 unit, 2 markers | `revertHints` brings back exactly the buffers of the marker, also with stale markers below (`MarkersExact`), and the count that decides between ORDERED and UNORDERED is right (`UnorderedCounted`) |
| `proof_dump` | 5 records, 2 hints, all four files | the log stays well-founded (`HintsPointBack`), inputs are numbered in order (`InitialNumbered`), marking marks all that is needed (`MarkedClosed`) and no more (`MarkedNeeded`); numbers in GRIT and LRAT lines denote the clauses the log names, and LRAT deletes only clauses that are there (`NumbersResolve`) |
| `hint_ordering` | all derivations with up to 3 reasons over 4 variables, in any stored order, one after the other | `makeUpOrdered` adds each hint once and loses none (`EachHintOnce`, the code's two assertions), in the order of a unit propagation (`OrderedPropagates`); its counters are exact (`CountsExact`), its scratch state is clean after a call (`CleanBetweenCalls`), and it ends (`OrderingEnds`) |
| `search_chrono` | 4 formulas over 5 variables, every conflict backtracks chronologically, one clause forgotten; 2 more with a restart and vivification after every conflict | the structural invariants of the search (`TrailOK`, `ReasonSound`, `NoMissedImplication`, `LearntAsserting`, `WatchesPaired`), the promises to the tracer (`RecordsCheckable`, `CidCoherent`, `NoTraceOfAnalysis`), that records which need ordering can be ordered (`UnorderedOrderable`) and that the DRAT file, which leaves out propagated units, still checks (`DratChecks`), over every decision order |
| `search_restart` | 8 formulas over 3 or 4 variables, four of them with duplicates, tautologies, satisfied, shortened and empty clauses; backjumping, one restart with vivification, one clause forgotten, `-ccmin-mode=1` | inputs are numbered as in the file (`InputNumbering`); unit records exist exactly for what is assigned at level 0 (`UnitCidsLevelZero`), also after restarts; `Termination`, and that the solver with its log refines `CertifiedSolving`: the clauses keep the models of the input and the answer is right |
| `clause_storage` | files of up to 192, 64 and 128 bytes with pages of 16, records of 24 and 56 bytes; any growth may fail | each file is filled without gaps or overlaps and stays mapped also after a failure to grow (`StorageOK`), cids keep naming their records (`CidsResolve`), adding and reading end (`CallsEnd`), and the whole implements `ClauseLog` (`ImplementsLog`) |
| `preprocess` | 10 formulas over 5 variables: 4 that preprocessing answers, 3 with eliminations of several resolvents, 3 that leave clauses for the search, with a restart | occurrence lists and counters are exact at every step (`OccurrencesExact`); when subsumption has run dry nothing is subsumed or can be strengthened (`NothingSubsumed`); every record can be checked (`RecordsCheckable`, the invariant of the search); preprocessing, search and `extendModel` together refine `CertifiedSolving`, on the variables that are kept (`ImplementsCertifiedSimp`); it ends (`SimpTermination`) |
| `learnt_tiers` | 2 learnt clauses, 6 conflicts, LBDs of every tier | each clause is in the list of its tier, in the core and in tier 2 once (`Listed`); no clause is removed twice (`RemovedOnce`, a message in the code); garbage collection moves reasons, watchers and lists together (`ReferencesFollow`) |
| `basic_minimization`, `trace_numbers`, `rcheck`, `protected_once` | | the disagreements below |

Bounds. The interesting cases of chronological backtracking need three decision levels and
a literal implied below the top one; five variables give them, and the formulas were chosen
from random ones for reaching the actions that are rare (a conflict with one literal of the
highest level, an implication below the decision level with a watch to move, a learnt clause
of three literals to forget). The formulas for vivification reach each outcome of a literal and of
a clause. The formulas of `preprocess` were chosen the same way for its rare actions (strengthening
to a unit in the course of an elimination, another round of eliminations, a candidate list that
shrinks under the loop); `clause_lim` comes with the formula, and `IterateFrom = 1` stands for the
10000 variables the code asks for before it goes on with a larger limit. In `learnt_tiers` the numbers
of conflicts are scaled down (`Tier2Every`, `LocalEvery`, `Untouched`, `RaiseAt` and `VivifyEvery` are 2, 3, 3, 3 and
4 for 10000, 15000, 30000, 100000 and 1000), with demotion possible between two reductions of the
local list, and a vivification between promotion and demotion, as in the code; two clauses are
enough for one to move in memory because the other has gone. A log of five records holds the shortest refutation with a
derived clause that is deleted, one that is not needed, and an input that is not needed.
The files of `clause_storage` are scaled down: one grows twice, one not at all, one once, and
the larger record fills a new file exactly. Three reasons are the least number with which a hint
waits for two variables. The bounds are guards (`MaxRecords`, `MaxHints`, `MaxLearnts`,
`MaxConflicts`, `restarts` and `reductions` of a problem, ...), so that liveness is checked on complete behaviours. The tracer's log and
the files are full at some point (the program ends with an exception): those runs end and set
`CHECK_DEADLOCK FALSE`, and so does `learnt_tiers`, whose behaviours end with an answer. The runs of the
solver, with and without preprocessing, and `hint_ordering` check for deadlock.

Fairness. The program is one thread; `FairSpec` (`SimpSpec` in `SimpSolver`) says that it takes a next step if it has one
(weak fairness of the whole step, not of single actions): no choice of the heuristics is
assumed. `Termination` therefore also covers unlucky decision orders; only the bounds on
restarts and forgotten clauses, which the growing limits of the code play in reality, are needed.
`ClauseStorage` is fair only to a call that has begun; `ProofTracer`, `ProofDump` and `LearntTiers` state no
fairness: nothing is said there about what must happen in the end.

## Proofs

All theorems hold for every value of the constants that meets the assumptions named with them:
logs of any length, any number of hints and markers, files of any size and number, records with
any number of reasons. `tlapm M.tla` checks each module; `ProofLemmas` has the facts about
numbers, sequences and finite sets they share. An induction is stated there over a *set* of
numbers (`NatSetInduction`), since the theorems of the library that take a predicate cannot be
instantiated with the provers used.

**The tracer** (`ProofTracer_proofs`; assumption: the empty clause is one
of the clauses).

* `TypeCorrect`: `Spec => []TypeOK`.
* `WellFounded`: every hint names an earlier record that is not a DELETE record. Marking,
  ordering and dumping rest on it.
* `MarkingComplete`, `MarkingMinimal`: when marking is over the marked records are closed under
  hints, and only records the empty clause needs are marked.
* `MarkersStayExact`, `UnorderedCountExact`: a revert brings back what was pending when the marker was taken, and the
  count that decides between ORDERED and UNORDERED is that of the unordered hints.
* `InputsNumbered`: the inputs have the numbers 1, 2, ... in the order of the file.

`HintsPointBack` is not inductive: what will be written into a record is in the buffers, and
what is in the buffers after a revert depends on the markers. `LogInv` therefore adds that
pending hints and unit hints name clause records (`PendingInLog`), that the markers on the
stack do not decrease and do not exceed the buffers (`MarkersNested`), and the length of the
history (`SavedMatches`). `MarkInv` adds to `MarkedNeeded` that a marked record that is not on the work
list has all its hints marked (`MarkProgress`); it is inductive relative to `LogInv`. `HistoryInv` says of every
marker, not only of the top one, that it cuts the buffers back to its snapshot: a marker may only be
used after those above it have gone. Each has one lemma per action.

**The proof files** (`ProofTracer_proofs` too; the assumption in addition that hints are put in order if and only if a GRIT
or LRAT file is wanted, as in `analyzeUnsat`). `NumbersHold`: every number in a hint of a GRIT or LRAT file stands, at its
line, for the one clause that the log names, and a number that is deleted stands for one clause. The numbers
are kept in the log and given anew for every file, so nothing of this can be said of *the* numbers of a
file in terms of the log. `DumpInv` speaks of the file that is being written, whose lines have the numbers that are
in the log now (`Writing`: which records have been numbered, that no two share a number, which were deleted or will be
with the next line), and of all files by their own lines and the numbers of the inputs, which no file changes
(`FileOK`). That an LRAT line does not use what was deleted before it rests on the log: after its DELETE record no
record, and no pending hint, names a clause (`DeletionInv`). `NumbersHold` covers no DRAT and no trace file: DRAT has no
numbers, and for the trace file the run `trace_numbers` shows that it is false.

**Hint ordering** (`HintOrdering_proofs`; assumptions: finitely many variables, and records are derivations, see
`IsDerivation`). `HintsAddedOnce`, `HintsPropagate`, `CountersExact`, `CleanAfterwards` and `OrderingTypes` are the five invariants of
`hint_ordering`. The loop adds hints only when one variable of theirs is unknown, but nothing in it prevents
a hint from losing its last two unknown variables at once, being added twice, or the stack from running empty
with hints left. The reason that none of this happens is a count: each reason of a derivation brings a variable of its
own, so no more reasons can be closed (all of their variables known) than variables were learnt, and each hint added
learns one. Hence exactly the added hints are closed. The invariant `OrderInv` has four parts: `Shape` (a hint is
stacked or done once, the conflict at the bottom of the stack), `Known` (one variable from each hint added), `Lists` (a hint
is in the lists of all its unknown variables or in none, its counter says in how many) and `Delayed` (a
hint that is neither stacked nor done waits for two variables or more).

**The clause log** (`ClauseStorage_proofs`; assumptions: sizes are multiples of the page, a page is a multiple of
a word and larger than one, each file has room for a page).

* `RecordsStayMapped`: files are filled without gaps and overlaps and every record is in mapped memory, whichever growth
  fails. Pages longer than a word are needed: when a file cannot grow, `reserve` maps it again with `capacity()` bytes
  (MmapStorage.hpp:116), 8 fewer than before, which are the same pages only if a page is longer than 8 bytes. Real pages have 4096.
* `CidsKeepResolving`: every cid handed out keeps naming its record. Hypothesis: at most `FileIds` files, which
  `getCID` asserts (`fId < 4`, ClauseDatabase.hpp:124); a fifth one would alias the first.
* `DatabaseIsLog`: `ClauseStorage` implements `ClauseLog` (initial states map to initial states and every step to a step or a
  stutter). Hypotheses: at most `FileIds` files, and room for any one record in a new file (`RoomForOne`; 50 MB, or the limit, in the
  code), without which an iteration ends at an empty file (see below).

`StoreInv` describes each file (`Gapless`, `Mapped`, `WholePages`), the call in progress and the handles; the refinement adds that
no file before the current one is empty (`FilledInOrder`) and that the log has as many records as places (`Counted`).

**The learnt clauses** (`LearntTiers_proofs`; assumption: LBDs, periods and bounds are natural numbers). `LearntsListed`,
`NoClauseRemovedTwice` and `NoReferenceLost` are the three invariants of `learnt_tiers`, for any number of clauses,
LBDs and conflicts. None of the three is inductive. The invariant `IInv` says of the memory and of what is in the three lists
(`Good`): names are those of one clause each (`NamesApart`), references lead to the clauses they are for (`Lead`), and
(`InLists`) all that is in the core has the mark CORE, nothing in tier 2 has the mark LOCAL (an entry of tier 2 may
be of a removed clause or of one that is in the core now), and each clause is in the list of its mark; the local list
may hold anything. This is why `removeSatisfied`, which looks at no mark, may only be used on the core, and
`safeRemoveSatisfied` is needed for the other lists. In vivification the entries of promoted clauses in tier 2
do no harm only because `simplifyLearnt_core` runs first: when tier 2 is tried, all of the core is marked
as simplified (`CoreDone`), so that no clause of the core is tried, and possibly removed, from its old entry. Each loop over a
list is a fold; it is unfolded into the sequence of states it goes through, and in each of them `Good` holds of the entries kept
so far together with those not visited yet (`Now`). Garbage collection may move the clauses in any
order (`Ordering`).

**The solver** (`ChronoSearch_proofs`, `SearchInvariant_proofs`, `SearchTheorems_proofs`; assumptions: a variable or
more, options in their ranges, and formulas over the literals of these variables with a decision allowed on
each variable). The theorems hold for any number of variables, formulas with any clauses, every setting of the
modelled options and every choice of the heuristics:

* `TrailStaysOK` (`TrailOK`), with the type invariant: `analyze` never counts below zero, finds a reason for each
  literal it resolves on and reads no level that is not there. `ReasonsStaySound`, `UnitsAreRecorded`, `WatchersStayPaired`,
  `NothingIsMissed`, `LearntIsAsserting`: the invariants of the search that the two runs of it check.
* `AnalysisLeavesNoTrace`, `ClausesMatchRecords`, `InputsStayNumbered`: what the tracer is owed.

None of the invariants of the search is inductive, and they need each other: that a reason implies its literal, at its
level, is what makes `analyze` end with one literal of the conflict level, hence what makes the learnt clause asserting and the
trail it extends well-formed; and that no implication is missed rests on `cancelUntil`, when it keeps a literal of
a low level that stood high on the trail, moving `qhead` back far enough. The invariant `IInv` has these parts:

* `KernelInv`, about trail, clauses and watchers, in all phases. `Trailing` says of the trail that each assignment stands
  on it once, not before the decision of its level (`Levels`), after all that its reason needs (`Reasons`), with a unit record
  if its level is 0 (`UnitsOK`). Its last part, `Complete`, is the argument of the two watched literals, restated for
  chronological backtracking: a clause with a watched literal that is false, and has been propagated, has a literal that is true and of no
  higher level than the *place* of the false one on the trail, so that no backtracking takes back the true one and leaves the
  false one propagated. `Watchful` says that each clause is in the lists it should be in, and that it has no
  variable twice.
* `ScanInv`: what is different while `propagate` is in the middle of a list, or has found a conflict: what has been visited
  of the lists of the literal being propagated is covered in the same sense (`Visited`), and the last decision is not
  propagated over.
* `ControlInv`: what holds where in the program (a conflict is a clause that is there and all false, the lists are clean of freed
  clauses while they are read, reading and vivification are at level 0, ...).
* `AnalysisInv`: the loop of `analyze` and the work stack of `litRedundant`. The marks in `seen` are those of the literals learnt
  and of as many literals of the conflict level, not yet resolved, as `pathC` counts, none of them above the place of the trail
  that is examined next (`ResolveInv`); what `litRedundant` has added since its marker can be taken back, and a hint is left when it
  is (`RedundantInv`); the literals learnt are false and, but for the first, of lower levels (`LearntInv`).
* `VivInv` and `HandInv`: the clause that vivification has in hand is in no list of watchers and not freed, the literals
  kept and assumed false are its own, and the assumptions above `trailRecord` have no level of their own, so that what is
  *settled* is only the trail below; above it, propagation is the simple form, which sets no levels.
* `NoTraceOfAnalysis`, which is needed for itself.

The argument has three layers. Facts about the operators (`uncheckedEnqueue`, `cancelUntil`, lists of watchers)
speak of values, not of variables. Above them is a lemma for each kind of step that moves the trail or the clauses (a step of
`propagate`, an assignment at a level, going back, freeing clauses, putting a literal first), which says what `KernelInv` and `ScanInv` need of
it. Then each action has a lemma that it keeps them and one (`...Rest`) that it keeps the other parts; `StepKeeps` puts them
together. Selections from a sequence, the sorting in `addClause_` and the hints of `binResMinimize` are written in the model as functions
over the places selected (`Selected`, `Places`, `sorted`), which the provers can expand.

`ClausesMatchRecords` is `CidCoherent`: the record a clause's `cid` names is that of a clause with the same literals, and
it is deleted exactly if the clause is freed. Solver and tracer are told of everything separately (a clause is
allocated and `addAnalyze` called, freed and `removeAnalyze` called, given new literals and `replaceAnalyze` called), so
this is about every place in the solver that does one of the two. `CidInv` adds (`Coherent`) that no two
clauses share a cid, without which deleting the record of one would delete that of the other, and that only
records of freed clauses are deleted, also of units; and (`InHandOK`) what vivification has in hand: the clause
stays allocated until vivification puts it back, no search and so no reduction runs meanwhile, and outside the phases that shorten
it, it is a unit about to be freed. Units are the exception the invariant has to make room for: `simplifyLearnt`
frees a clause that became a unit without deleting its record, because the unit keeps it. There is a lemma for each
way clauses and log change (`QuietStep`, `RemovalStep`, `ReplaceStep`, `UnusedStep`, `ShortStep`), and
one for each action. It rests on the types of the state (`CoherentWhenTyped`), which `IInv` supplies.

`InputsStayNumbered` is `InputNumbering`: the INITIAL records are the clauses read so far, in the order of the file. The
log only grows (`GrowsFrom`), so what has to be shown of each step is which of the records it appends are INITIAL
(`NumberedStep`). Outside `parseClause` none is: what search and vivification derive has a hint waiting when it is recorded,
and the others are REDUNDANT or DELETE (`NoInput`). `parseClause` appends exactly one (`OneInput`): a clause that
`addClause_` shortens is recorded as it came, and the shorter one has that record as its hint. The
places of the INITIAL records, enumerated in ascending order, are then those of the shorter log, with one place after them
or none (`InputsKept`, `InputCounted`). Only the hints before and after reading enter from `IInv`.

Only model-checked:

* Liveness (`OrderingEnds`, `CallsEnd`, `Termination`, `SimpTermination`): the prover has no rules for fairness and `ENABLED`.
* `RecordsCheckable`, `UnorderedOrderable`, `DratChecks`: the reference definitions they use compute a fixpoint (unit propagation over a set of clauses), whose value on every input is an
  induction over data that the prover cannot do.
* `ImplementsCertified`, `ImplementsCertifiedSimp`: that the clauses keep the models of the input follows from
  the records being derivations, so from `RecordsCheckable`.
* The invariants of preprocessing (`SimpSolver`): no obstacle is known; not done.

## Disagreements found

Shown by a run each:

1. `basic_minimization`. With `-ccmin-mode=1` (Solver.cc:1197) literals are dropped without hints, so
   that records fail the assertion of the proof writers.
2. `trace_numbers`. In `collectTrace` (ProofTracingBackend.hpp:541) `curId++` numbers the first derived
   clause like the last input clause.
3. `rcheck`. With `-rcheck`, `implied` (SimpSolver.cc:342) enqueues the negated literals of a clause at
   level 0, and since chronological backtracking `cancelUntil(0)` keeps what has level 0: after the
   first clause was asked for, its negation is part of the formula, and a satisfiable formula is
   answered UNSATISFIABLE. `asymm` (SimpSolver.cc:439, option `-asymm`) does the same.
4. `protected_once`. `Clause::shrink` (SolverTypes.h:202) moves one of the two words behind the literals
   of a learnt clause; `touched()` then reads an old literal or activity. A tier-2 clause that
   vivification has shortened can be demoted in the next `reduceDB_Tier2`, although it took part in
   a recent conflict. Its entry from before the promotion is still in the local list, so that it is
   there twice, and one `reduceDB` first takes away the protection that `analyze` gives it "once" and then
   removes it. No answer or proof is wrong; a clause meant to be kept is lost. (When the model keeps
   `touched` intact, `ProtectedOnce` holds.)

Read in the code and modelled as it is, without a run of its own:

* `propagate` (Solver.cc:1420): the comment promises an empty queue even after a conflict;
  a binary conflict returns at once (`LOOSE_PROP_STAT`). Harmless: each conflict backtracks
  and moves `qhead` back (`NoMissedImplication` holds).
* `next` (ClauseDatabase.hpp:436) reads the type of the first record of the next file from the end of
  the file it leaves (`nextFile`); when that is exactly full, past its mapping.
* A fifth file (ClauseDatabase.hpp:333) aliases the first: `Cid` keeps two bits.
* `next` (ClauseDatabase.hpp:434) ends at a file that stayed empty: allocation skips a file that is too
  small for one record, or cannot grow, but iteration does not. This is why `clause_storage` has room
  for any record in every new file (in the code a new file has 50 MB, or its limit).
* `analyzeUnsat` (ProofTracingBackend.hpp:599) puts hints in order only when a GRIT or LRAT file is asked for;
  with a trace file alone the assertion in `dumpGritClause` is not met.
* The comment in `analyze` (Solver.cc:1133) says a clause may already be in `learnts_tier2` when it is
  pushed. It cannot: both loops that move a clause out of tier 2 take it off the list (`Listed`). In
  `learnts_local` a clause can be twice.
* `analyzeAddUnit` (Solver.h:536) does not ask whether the tracer is active, as the other hooks do.
* With no `-det-heuristic` the message of `solve_` (Solver.cc:2057) speaks of switching between heuristics, but
  `useVsids` stays true, so LRB never runs, and the flag that SIGALRM sets is never tested with it.
* `DratPrint::writeLit` (DratPrint.hpp:73) tests an unsigned variable for a negative number.
* In eliminations no resolvent is a unit, empty or satisfied when it is added in the instances
  checked: units and subsumed clauses are dealt with before a variable is eliminated.
* The option `-max-analyzer-mb` reaches the constructor of `Analyzer`, which does not use it.

## Not modelled, and the plan

Planned, in this order:

1. Proofs: `OccurrencesExact` of preprocessing.
2. `OrderHeaps`: the three order heaps, `insertVarOrder` and `pickBranchLit`, for the one hazard of the
   search that no property covers. `ProofEncoding`: the binary format of `DratPrint`.

Left out of the modelled components, with the reason: `asymm` and `asymmVar` (off by default; the flaw of
`implied`, which a run shows); `substitute` (nobody calls it); frozen variables and `analyzeFinal` (assumptions are
commented out in `search`); `asynch_interrupt` and budgets; the `BIN_DRUP` output, which is used only when the
tracer is not active; `addRatHint` and `makeRatOrdered`.

Never to be modelled: parsing and options, resource limits, timers and messages (I/O around one call);
the containers (used as sequences and sets); the benchmark data in `misc/`.
