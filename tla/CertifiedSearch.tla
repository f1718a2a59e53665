-------------------------- MODULE CertifiedSearch ---------------------------
(* What the solver owes to the readers of its log: each record follows     *)
(* from its hints, records that need it can be put in order, and what is   *)
(* written of the log is a proof of the answer.                            *)
EXTENDS ChronoSearch

(* What the solver promises: CertifiedSolving, with the clauses of the log *)
(* that are not deleted as its clause set.                                 *)
Certified == INSTANCE CertifiedSolving WITH
    kept <- Vars,
    read <- next - 1,
    live <- {ToSet(db[i].lits) : i \in LiveCids(db)},
    verdict <- IF Answered THEN pc ELSE "none"

(* The solver with its tracer implements CertifiedSolving.                 *)
ImplementsCertified == Certified!Spec

-----------------------------------------------------------------------------
(* The records the last step can have added.                               *)
Newest == {k \in Len(db) - 1 .. Len(db) : k >= 1}
HintLits(r) == [i \in DOMAIN r.hints |-> db[r.hints[i]].lits]

(* A derived clause follows from its hints by reverse unit propagation: in *)
(* the order of the hints, or in some order if it is UNORDERED; and its    *)
(* hints name earlier clauses that are not deleted.                        *)
RecordsCheckable ==
    \A k \in Newest :
        LET r == db[k]
            dead == DeletedCids(SubSeq(db, 1, k - 1))
        IN  /\ \A i \in DOMAIN r.hints :
                  r.hints[i] \in 1 .. k - 1 /\ r.hints[i] \notin dead
            /\ CASE r.type = "UNORDERED" -> ClosureRefutes(r.lits, HintLits(r))
                 [] r.type \in {"ORDERED", "REDUNDANT"} ->
                        ChainRefutes(r.lits, HintLits(r))
                 [] OTHER -> TRUE

Ordering == INSTANCE HintOrder

(* makeUpOrdered run to its end on a record: each hint is examined at most *)
(* twice, once before and once after what it waits for is known.           *)
UpOrdered(r) ==
    LET hints == [i \in DOMAIN r.hints |-> VarsOf(db[r.hints[i]].lits)]
        Examined(s, n) == IF s.tmpResolvents = <<>> THEN s ELSE Ordering!Examine(s, hints)
    IN  FoldLeft(Examined, Ordering!Begin(Ordering!Idle(Vars), VarsOf(r.lits), hints),
                 [n \in 1 .. 2 * Len(hints) |-> n])

(* makeUpOrdered can order every UNORDERED record the solver makes: it     *)
(* examines no hint without end, adds each exactly once, and in the order  *)
(* it stores them the hints derive the clause step by step.                *)
UnorderedOrderable ==
    \A k \in Newest : db[k].type = "UNORDERED" =>
        LET end == UpOrdered(db[k])
            order == Ordering!Stored(end)
        IN  /\ end.tmpResolvents = <<>>
            /\ Len(order) = Len(db[k].hints) /\ ToSet(order) = DOMAIN db[k].hints
            /\ ChainRefutes(db[k].lits, [i \in DOMAIN order |-> HintLits(db[k])[order[i]]])

(* The records the empty clause at the end of the log needs.               *)
Needed ==
    FoldLeft(LAMBDA need, k : IF k \in need THEN need \cup ToSet(db[k].hints) ELSE need,
             {Len(db)}, Reverse([k \in DOMAIN db |-> k]))

(* dumpGritClause and dumpLratClause assert that a record they write is    *)
(* isGritOrdered; backtrackSolution orders only the UNORDERED ones before. *)
DumpedGritOrdered ==
    pc = "unsat" => \A k \in Needed :
        db[k].type # "UNORDERED" => isGritOrdered(db[k].lits, HintLits(db[k]))

(* The DRAT file collectDrat writes can be checked: every clause in it     *)
(* follows by unit propagation from the formula and the clauses before it, *)
(* although the unit clauses found by propagation, and all that the hints  *)
(* of the empty clause do not reach, are left out.                         *)
DratChecks ==
    pc = "unsat" =>
        LET needed == Needed
            Dumped(k) == k \in needed /\ db[k].type \in {"ORDERED", "UNORDERED"}
            dumped == SelectSeq([k \in DOMAIN db |-> k], Dumped)
        IN  /\ dumped # <<>> => db[dumped[Len(dumped)]].lits = <<>>
            /\ \A n \in DOMAIN dumped :
                 ClosureRefutes(db[dumped[n]].lits,
                                formula \o [j \in 1 .. n - 1 |-> db[dumped[j]].lits])
=============================================================================
