------------------------------ MODULE HintOrder ------------------------------
(***************************************************************************)
(* makeUpOrdered (ptb/ProofTracingBackend.hpp) with its bookkeeping        *)
(* TmpVarStates (ptb/TmpVarState.hpp), as operators on values.  Only the   *)
(* variables of a clause matter to it, so a clause is a set of variables;  *)
(* a hint is named by its place in the record (the rid of the code).       *)
(*                                                                         *)
(* The state of a run: the variables known so far, per variable the hints  *)
(* that wait for it, per hint how many variables it waits for, the hints   *)
(* still to be examined, and the hints in the order they were added.       *)
(***************************************************************************)
EXTENDS Integers, Sequences, FiniteSets

Idle(vars) == [seen |-> {}, varDepend |-> [v \in vars |-> <<>>], nClDeps |-> <<>>,
               tmpResolvents |-> <<>>, tmpOrdered |-> <<>>]

(* Mutant: the places of the hints are counted from 0.                     *)
BeginFromZero(s, lits, hints) ==
    [s EXCEPT !.seen = @ \cup lits,
              !.nClDeps = [rid \in DOMAIN hints |-> 0],
              !.tmpResolvents = [rid \in DOMAIN hints |-> rid - 1],
              !.tmpOrdered = <<>>]

(* The variables of the clause to be derived are known from the start.     *)
Begin(s, lits, hints) ==
    [s EXCEPT !.seen = @ \cup lits,
              !.nClDeps = [rid \in DOMAIN hints |-> IF rid \in DOMAIN @ THEN @[rid] ELSE 0],
              !.tmpResolvents = [rid \in DOMAIN hints |-> rid],
              !.tmpOrdered = <<>>]

Top(s) == s.tmpResolvents[Len(s.tmpResolvents)]
Unseen(s, hints, rid) == hints[rid] \ s.seen

(* Mutant: a clause with two unknown variables counts as asserting.        *)
IsNearlyAsserting(s, hints, rid) == Cardinality(Unseen(s, hints, rid)) < 3

IsAsserting(s, hints, rid) == Cardinality(Unseen(s, hints, rid)) < 2

Popped(s) == [s EXCEPT !.tmpResolvents = SubSeq(@, 1, Len(@) - 1)]

(* Mutant: the hint that has to wait is left where it is.                  *)
WaitUnpopped(s, hints) == s

(* A hint with several unknown variables waits for all of them.            *)
Wait(s, hints) ==
    LET rid == Top(s)
        unseen == Unseen(s, hints, rid)
    IN  [Popped(s) EXCEPT
           !.varDepend = [v \in DOMAIN @ |->
                            IF v \in unseen THEN Append(@[v], rid) ELSE @[v]],
           !.nClDeps[rid] = @ + Cardinality(unseen)]

Added(s) == [Popped(s) EXCEPT !.tmpOrdered = Append(@, Top(s))]

(* The elements of a sequence that are in a set, in their order.           *)
Selected(q, R) ==
    LET upto[k \in 0 .. Len(q)] ==
            IF k = 0 THEN <<>>
            ELSE IF q[k] \in R THEN Append(upto[k - 1], q[k])
            ELSE upto[k - 1]
    IN  upto[Len(q)]

(* Mutants: the hint just added is released once more; a hint is released  *)
(* when it waits for no variable rather than for at most one.              *)
ReadySelf(s, v) ==
    Selected(s.varDepend[v], {rid \in DOMAIN s.nClDeps : s.nClDeps[rid] - 1 \in {0, 1}})
ReadyLate(s, v) ==
    Selected(s.varDepend[v],
             {rid \in DOMAIN s.nClDeps : s.nClDeps[rid] - 1 = 0 /\ rid # Top(s)})

(* The hints that wait for at most one variable once v is known; removeDep *)
(* returns an unsigned number, so a negative count would not pass.         *)
Ready(s, v) ==
    Selected(s.varDepend[v],
             {rid \in DOMAIN s.nClDeps : s.nClDeps[rid] - 1 \in {0, 1} /\ rid # Top(s)})

(* Mutant: a hint that waits for v keeps its count.                        *)
LearnUncounted(s, v) ==
    [Added(s) EXCEPT !.seen = @ \cup {v},
                     !.tmpResolvents = @ \o Ready(s, v)]

(* The hint on top is added and its last variable becomes known.           *)
Learn(s, v) ==
    LET waiting == {s.varDepend[v][k] : k \in DOMAIN s.varDepend[v]}
    IN  [Added(s) EXCEPT
           !.seen = @ \cup {v},
           !.nClDeps = [rid \in DOMAIN @ |-> @[rid] - (IF rid \in waiting THEN 1 ELSE 0)],
           !.tmpResolvents = @ \o Ready(s, v)]

(* Mutant: the lists of waiting hints survive the call.                    *)
ClearSeenOnly(s) == [s EXCEPT !.seen = {}]

(* TmpVarStates::clear resets what was set for the variables seen.         *)
Clear(s) ==
    [s EXCEPT !.seen = {},
              !.varDepend = [v \in DOMAIN @ |-> IF v \in s.seen THEN <<>> ELSE @[v]]]

(* The hints are stored last one first: a record is read from its end.     *)
Stored(s) == [k \in DOMAIN s.tmpOrdered |-> s.tmpOrdered[Len(s.tmpOrdered) + 1 - k]]

-----------------------------------------------------------------------------
(* One iteration of the loop.                                              *)
Examine(s, hints) ==
    LET unseen == Unseen(s, hints, Top(s))
    IN  IF ~IsAsserting(s, hints, Top(s)) THEN Wait(s, hints)
        ELSE IF unseen = {} THEN Added(s)
        ELSE Learn(s, CHOOSE v \in unseen : TRUE)
=============================================================================
