----------------------------- MODULE ProofTracer -----------------------------
(***************************************************************************)
(* PTB::Analyzer under an arbitrary client: hints are collected, taken     *)
(* back and turned into clause records; the record of the empty clause     *)
(* starts the backward marking of the clauses the refutation needs         *)
(* (analyzeUnsat, backtrackSolution).  The client only uses identifiers it *)
(* was given and has not removed, and removes none that is a pending hint, *)
(* which ChronoSearch shows of the solver (RecordsCheckable).              *)
(***************************************************************************)
EXTENDS Tracer, FiniteSets

CONSTANTS
    Clauses,        \* the contents a recorded clause can have
    EmptyClause,    \* the clause without literals
    Reorder         \* a GRIT or LRAT file is to be written

ASSUME EmptyClauseAssumption == EmptyClause \in Clauses
ASSUME ReorderAssumption == Reorder \in BOOLEAN

VARIABLES
    db,             \* the log of clause records
    pid,            \* the proofId in the header of each record, 0 when unset
    numInitCl,      \* number of INITIAL records
    an,             \* the hint buffers
    phase,          \* "collect", then "mark", then "done"
    used,           \* records whose usedInProof flag is set
    work,           \* the cids still to be visited by backtrackSolution
    tags,           \* history: which pending hints were added as unordered
    saved           \* history: the buffers as they were at each marker

tracerVars == <<db, pid, numInitCl, an>>
markVars == <<phase, used, work>>
historyVars == <<tags, saved>>
vars == <<db, pid, numInitCl, an, phase, used, work, tags, saved>>

Cids == 1 .. Len(db)
Snapshot == [hints |-> an.hints, units |-> an.units, tags |-> tags]

Init ==
    /\ db = <<>>
    /\ pid = <<>>
    /\ numInitCl = 0
    /\ an = NoHints
    /\ phase = "collect"
    /\ used = {}
    /\ work = {}
    /\ tags = <<>>
    /\ saved = <<>>

-----------------------------------------------------------------------------
(* The operations of the client.                                           *)

Collecting == phase = "collect" /\ UNCHANGED markVars

addHint(cid) ==
    /\ Collecting
    /\ an' = AddHint(an, cid)
    /\ tags' = Append(tags, FALSE)
    /\ UNCHANGED <<db, pid, numInitCl, saved>>

addUnorderedHint(cid) ==
    /\ Collecting
    /\ an' = AddUnorderedHint(an, cid)
    /\ tags' = Append(tags, TRUE)
    /\ UNCHANGED <<db, pid, numInitCl, saved>>

addUnitHint(cid) ==
    /\ Collecting
    /\ an' = AddUnitHint(an, cid)
    /\ UNCHANGED <<db, pid, numInitCl, historyVars>>

markRevertableHints ==
    /\ Collecting
    /\ an' = MarkRevertableHints(an)
    /\ saved' = Append(saved, Snapshot)
    /\ UNCHANGED <<db, pid, numInitCl, tags>>

revertHints ==
    /\ Collecting
    /\ an.reverts # <<>>
    /\ an' = RevertHints(an)
    /\ tags' = saved[Len(saved)].tags
    /\ saved' = SubSeq(saved, 1, Len(saved) - 1)
    /\ UNCHANGED <<db, pid, numInitCl>>

(* Mutant: the proof id is taken before the counter moves.                 *)
addResolventLateCount(lits, origin) ==
    /\ phase = "collect"
    /\ db' = Append(db, Resolvent(an, lits, origin))
    /\ numInitCl' = IF origin = "INITIAL" THEN numInitCl + 1 ELSE numInitCl
    /\ pid' = Append(pid, IF origin = "INITIAL" THEN numInitCl ELSE 0)
    /\ an' = NoHints
    /\ tags' = <<>>
    /\ saved' = <<>>
    /\ IF lits = EmptyClause
         THEN phase' = "mark" /\ used' = {Len(db')} /\ work' = {Len(db')}
         ELSE UNCHANGED markVars

(* addResolvent takes all pending hints into the new record and clears the *)
(* buffers; the record of the empty clause starts analyzeUnsat.            *)
addResolvent(lits, origin) ==
    /\ phase = "collect"
    /\ db' = Append(db, Resolvent(an, lits, origin))
    /\ numInitCl' = IF origin = "INITIAL" THEN numInitCl + 1 ELSE numInitCl
    /\ pid' = Append(pid, IF origin = "INITIAL" THEN numInitCl' ELSE 0)
    /\ an' = NoHints
    /\ tags' = <<>>
    /\ saved' = <<>>
    /\ IF lits = EmptyClause
         THEN /\ phase' = "mark"
              /\ used' = {Len(db')}
              /\ work' = {Len(db')}
         ELSE UNCHANGED markVars

(* Mutant: the DELETE record is marked as used when it is written.         *)
removeResolventUsed(cid) ==
    /\ phase = "collect"
    /\ db' = Append(db, DeleteRecord(cid))
    /\ pid' = Append(pid, 0)
    /\ used' = used \cup {Len(db')}
    /\ UNCHANGED <<numInitCl, an, phase, work, historyVars>>

(* Mutant: the header of the DELETE record gets no proof id.               *)
removeResolventNoId(cid) ==
    /\ Collecting
    /\ db' = Append(db, DeleteRecord(cid))
    /\ UNCHANGED <<pid, numInitCl, an, historyVars>>

removeResolvent(cid) ==
    /\ Collecting
    /\ db' = Append(db, DeleteRecord(cid))
    /\ pid' = Append(pid, 0)
    /\ UNCHANGED <<numInitCl, an, historyVars>>

-----------------------------------------------------------------------------
(* backtrackSolution: any pending cid is visited next (the code takes the  *)
(* last one pushed, which makes no difference to what gets marked).        *)

HintSet(r) == {r.hints[k] : k \in DOMAIN r.hints}

(* makeUpOrdered permutes the hints of the record; HintOrder says which    *)
(* permutation it chooses.                                                 *)
Reorderings(s) ==
    {[k \in DOMAIN s |-> s[p[k]]] :
        p \in {q \in [DOMAIN s -> DOMAIN s] : {q[k] : k \in DOMAIN s} = DOMAIN s}}

(* Mutant: the loop over the hints starts at the second one.               *)
backtrackSkipsFirst(cid) ==
    /\ phase = "mark"
    /\ cid \in work
    /\ LET new == {db[cid].hints[k] : k \in DOMAIN db[cid].hints \ {1}} \ used
       IN  /\ used' = used \cup new
           /\ work' = (work \ {cid}) \cup new
    /\ UNCHANGED <<tracerVars, phase, historyVars>>

backtrackStep(cid) ==
    /\ phase = "mark"
    /\ cid \in work
    /\ LET new == HintSet(db[cid]) \ used
       IN  /\ used' = used \cup new
           /\ work' = (work \ {cid}) \cup new
    /\ \/ /\ Reorder /\ db[cid].type = "UNORDERED"
          /\ \E hs \in Reorderings(db[cid].hints) :
                db' = [db EXCEPT ![cid].type = "ORDERED", ![cid].hints = hs]
       \/ /\ ~(Reorder /\ db[cid].type = "UNORDERED")
          /\ UNCHANGED db
    /\ UNCHANGED <<pid, numInitCl, an, phase, historyVars>>

backtrackDone ==
    /\ phase = "mark"
    /\ work = {}
    /\ phase' = "done"
    /\ UNCHANGED <<tracerVars, used, work, historyVars>>

-----------------------------------------------------------------------------
(* No caller removes a clause it has just given as a hint.                 *)
Pending == {an.hints[k] : k \in DOMAIN an.hints} \cup {an.units[k] : k \in DOMAIN an.units}

ClientStep ==
    \/ \E cid \in LiveCids(db) :
         addHint(cid) \/ addUnorderedHint(cid) \/ addUnitHint(cid)
    \/ markRevertableHints
    \/ revertHints
    \/ \E lits \in Clauses : addResolvent(lits, GetOrigin(an))
    \/ \E lits \in Clauses \ {EmptyClause} :
         HasResolvents(an) /\ addResolvent(lits, "REDUNDANT")
    \/ \E cid \in LiveCids(db) \ Pending : removeResolvent(cid)

MarkStep ==
    \/ \E cid \in Cids : backtrackStep(cid)
    \/ backtrackDone

Next == ClientStep \/ MarkStep

Spec == Init /\ [][Next]_vars

-----------------------------------------------------------------------------
RecordType == [type : ClauseOrigin, lits : Clauses \cup {<<>>}, hints : Seq(Nat)]
BufferType == [hints : Seq(Nat), units : Seq(Nat), reverts : Seq(RevertMarker),
               nUnordered : Nat]

(* The types of the log, of the buffers and of the marking.                *)
TypeOK ==
    /\ db \in Seq(RecordType)
    /\ pid \in Seq(Nat)
    /\ Len(pid) = Len(db)
    /\ numInitCl \in Nat
    /\ an \in BufferType
    /\ phase \in {"collect", "mark", "done"}
    /\ used \subseteq Cids
    /\ work \subseteq used
    /\ tags \in Seq(BOOLEAN)
    /\ saved \in Seq([hints : Seq(Nat), units : Seq(Nat), tags : Seq(BOOLEAN)])

(* Every hint of a record names an earlier record that is no DELETE        *)
(* record: the refutation is well-founded and the assertion of             *)
(* backtrackSolution that it never meets a DELETE record holds.            *)
HintsPointBack ==
    \A i \in Cids : \A h \in HintSet(db[i]) : h \in 1 .. i - 1 /\ ~IsDelete(db[h])

(* revertHints would bring back exactly what was pending when its marker   *)
(* was taken, also for markers that a successful litRedundant left behind  *)
(* under it.                                                               *)
MarkersExact ==
    /\ Len(saved) = Len(an.reverts)
    /\ \A k \in 1 .. Len(saved) :
         LET m == an.reverts[k]
         IN  /\ SubSeq(an.hints, 1, m.nHints) = saved[k].hints
             /\ SubSeq(an.units, 1, m.nUnitHints) = saved[k].units
             /\ m.nUnordered = Cardinality({i \in DOMAIN saved[k].tags : saved[k].tags[i]})

(* nUnordered counts the pending hints that are not in propagation order,  *)
(* so a derived clause is recorded as ORDERED only if all its hints are.   *)
UnorderedCounted ==
    /\ Len(tags) = Len(an.hints)
    /\ an.nUnordered = Cardinality({i \in DOMAIN tags : tags[i]})

(* The proof ids of the INITIAL records are 1 .. numInitCl in the order of *)
(* the log: the numbering of the clauses of the input file.                *)
InitialNumbered ==
    /\ \A i \in Cids : db[i].type = "INITIAL" => pid[i] \in 1 .. numInitCl
    /\ \A n \in 1 .. numInitCl : \E i \in Cids : db[i].type = "INITIAL" /\ pid[i] = n
    /\ \A i, j \in Cids : (i < j /\ db[i].type = "INITIAL" /\ db[j].type = "INITIAL")
                              => pid[i] < pid[j]

(* When marking is over, everything a marked record refers to is marked.   *)
MarkedClosed ==
    phase = "done" => \A i \in used : HintSet(db[i]) \subseteq used

(* Nothing is marked that the empty clause does not need: each marked      *)
(* record is the empty clause or a hint of a later marked record.          *)
MarkedNeeded ==
    \A i \in used : \/ db[i].lits = EmptyClause
                    \/ \E j \in used : i < j /\ i \in HintSet(db[j])
=============================================================================
