---------------------------- MODULE HintOrdering ----------------------------
(***************************************************************************)
(* makeUpOrdered called again and again, as backtrackSolution does for     *)
(* every UNORDERED record, with its scratch state TmpVarStates that        *)
(* outlives the calls.                                                     *)
(***************************************************************************)
EXTENDS HintOrder

CONSTANTS
    Vars,
    Records         \* what may be ordered: [lits |-> set of variables,
                    \*                       hints |-> sequence of such sets]

(* What the solver records: the first hint is the conflicting clause; the  *)
(* others are the reasons of the variables resolved away, so that there is *)
(* an order p in which each of them makes one more variable known, and the *)
(* first one has no other variables.                                       *)
Orders(m) == {p \in [1 .. m -> 2 .. m + 1] : \A j, k \in 1 .. m : p[j] = p[k] => j = k}

KnownBefore(rec, p, k) == rec.lits \cup UNION {rec.hints[p[j]] : j \in 1 .. k - 1}

IsDerivation(rec) ==
    LET m == Len(rec.hints) - 1
    IN  \E p \in Orders(m) :
          /\ \A k \in 1 .. m : Cardinality(rec.hints[p[k]] \ KnownBefore(rec, p, k)) = 1
          /\ rec.hints[1] \subseteq KnownBefore(rec, p, m + 1)

ASSUME VarsAssumption == IsFiniteSet(Vars)
ASSUME RecordsAssumption ==
    \A rec \in Records :
        /\ rec \in [lits : SUBSET Vars, hints : Seq(SUBSET Vars) \ {<<>>}]
        /\ IsDerivation(rec)

VARIABLES
    pc,             \* "idle" or "order"
    rec,            \* the record being ordered
    s               \* the scratch state

vars == <<pc, rec, s>>

NoRecord == [lits |-> {}, hints |-> <<>>]

Init ==
    /\ pc = "idle"
    /\ rec = NoRecord
    /\ s = Idle(Vars)

makeUpOrdered(c) ==
    /\ pc = "idle"
    /\ pc' = "order"
    /\ rec' = c
    /\ s' = Begin(s, c.lits, c.hints)

Examining == pc = "order" /\ s.tmpResolvents # <<>> /\ UNCHANGED <<pc, rec>>

wait ==
    /\ Examining
    /\ ~IsAsserting(s, rec.hints, Top(s))
    /\ s' = Wait(s, rec.hints)

addAsserting ==
    /\ Examining
    /\ IsAsserting(s, rec.hints, Top(s))
    /\ \E v \in Unseen(s, rec.hints, Top(s)) : s' = Learn(s, v)

addClosed ==
    /\ Examining
    /\ Unseen(s, rec.hints, Top(s)) = {}
    /\ s' = Added(s)

store ==
    /\ pc = "order"
    /\ s.tmpResolvents = <<>>
    /\ pc' = "idle"
    /\ rec' = NoRecord
    /\ s' = Clear(s)

LoopStep == wait \/ addAsserting \/ addClosed \/ store
Next == (\E c \in Records : makeUpOrdered(c)) \/ LoopStep
Spec == Init /\ [][Next]_vars

(* The loop of a sequential program keeps running.                         *)
FairSpec == Spec /\ WF_vars(LoopStep)

-----------------------------------------------------------------------------
Rids == DOMAIN rec.hints
VarsBefore(k) == rec.lits \cup UNION {rec.hints[s.tmpOrdered[j]] : j \in 1 .. k - 1}

(* The record being ordered and the scratch state have their types.        *)
TypeOK ==
    /\ pc \in {"idle", "order"}
    /\ rec \in [lits : SUBSET Vars, hints : Seq(SUBSET Vars)]
    /\ s.seen \subseteq Vars
    /\ s.varDepend \in [Vars -> Seq(Nat)]
    /\ s.nClDeps \in Seq(Int)
    /\ s.tmpResolvents \in Seq(Rids)
    /\ s.tmpOrdered \in Seq(Nat \ {0})

(* No hint is added twice, and none is lost.  The loop writes as many      *)
(* hints back into the record as it added, checked by an assertion only: a *)
(* hint more would overwrite the record that follows in the log, one less  *)
(* would leave an old one in its place.  A hint that brings nothing new is *)
(* the last one, as the loop asserts too.                                  *)
EachHintOnce ==
    pc = "order" =>
        /\ \A j, k \in DOMAIN s.tmpOrdered : s.tmpOrdered[j] = s.tmpOrdered[k] => j = k
        /\ s.tmpResolvents = <<>> => Len(s.tmpOrdered) = Len(rec.hints)
        /\ s.tmpResolvents # <<>> /\ Unseen(s, rec.hints, Top(s)) = {}
              => Len(s.tmpResolvents) = 1

(* Each hint added makes at most one more variable known: read in this     *)
(* order, the hints are a unit propagation that ends in a conflict.        *)
OrderedPropagates ==
    pc = "order" =>
      \A k \in DOMAIN s.tmpOrdered :
        Cardinality(rec.hints[s.tmpOrdered[k]] \ VarsBefore(k)) <= 1

(* The counter of a hint is the number of lists of unknown variables it is *)
(* in; for a hint that was added or never had to wait it is 0.             *)
CountsExact ==
    pc = "order" =>
        \A rid \in Rids :
            s.nClDeps[rid] = Cardinality({v \in Vars \ s.seen :
                                            \E k \in DOMAIN s.varDepend[v] : s.varDepend[v][k] = rid})

(* A call leaves nothing behind that the next one, or isGritOrdered, which *)
(* shares the scratch state, could trip over.                              *)
CleanBetweenCalls ==
    pc = "idle" =>
        /\ s.seen = {}
        /\ \A v \in Vars : s.varDepend[v] = <<>>
        /\ \A rid \in DOMAIN s.nClDeps : s.nClDeps[rid] = 0
        /\ s.tmpResolvents = <<>>

(* Every call returns.                                                     *)
OrderingEnds == pc = "order" ~> pc = "idle"
=============================================================================
