------------------------------ MODULE ProofDump ------------------------------
(***************************************************************************)
(* analyzeAndPrint (ptb/ProofTracingBackend.hpp): after the marking, the   *)
(* log is read once per requested file, in the order TRACE, LRAT, DRAT,    *)
(* GRIT, and the marked records are written.  The numbers of the clauses   *)
(* (proofId) are kept in the records themselves, and every file but DRAT   *)
(* gives new ones to the derived clauses.                                  *)
(*                                                                         *)
(* A line is abstracted to what it defines, uses or deletes; its cid       *)
(* stands for the literals.                                                *)
(***************************************************************************)
EXTENDS ProofTracer

CONSTANT Files      \* the files requested

FileOrder == <<"trace", "lrat", "drat", "grit">>

ASSUME FilesAssumption ==
    /\ Files \subseteq {FileOrder[n] : n \in DOMAIN FileOrder}
    /\ Reorder <=> (Files \cap {"lrat", "grit"} # {})

VARIABLES
    file,           \* how many of FileOrder were opened
    pos,            \* the record to be read next, 0 when no file is open
    curId,          \* the number given last
    deleteCls,      \* numbers collectLrat has to delete before the next line
    out             \* the lines of each file

dumpVars == <<file, pos, curId, deleteCls, out>>
allVars == <<db, pid, numInitCl, an, phase, used, work, tags, saved,
             file, pos, curId, deleteCls, out>>

DumpInit ==
    /\ Init
    /\ file = 0 /\ pos = 0 /\ curId = 0
    /\ deleteCls = <<>>
    /\ out = [f \in Files |-> <<>>]

Wanted(n) == FileOrder[n] \in Files

(* The next file that is wanted is opened.                                 *)
openFile ==
    /\ phase = "done" /\ pos = 0
    /\ \E n \in file + 1 .. Len(FileOrder) :
         /\ Wanted(n)
         /\ \A m \in file + 1 .. n - 1 : ~Wanted(m)
         /\ file' = n
    /\ pos' = 1
    /\ curId' = numInitCl
    /\ deleteCls' = <<>>
    /\ UNCHANGED <<vars, out>>

closeFile ==
    /\ pos > Len(db)
    /\ pos' = 0
    /\ UNCHANGED <<vars, file, curId, deleteCls, out>>

-----------------------------------------------------------------------------
(* The record read and the line written for it.                            *)

Reading(f) ==
    /\ file \in DOMAIN FileOrder
    /\ f = FileOrder[file]
    /\ pos \in Cids
    /\ pos' = pos + 1
    /\ UNCHANGED <<db, numInitCl, an, markVars, historyVars, file>>

(* The record is of a clause the refutation needs.                         *)
InProof == pos \in used /\ ~IsDelete(db[pos])
Derived == db[pos].type # "INITIAL"

UsedIds(ids) ==
    LET hs == db[pos].hints
    IN  [k \in DOMAIN hs |-> ids[hs[Len(hs) + 1 - k]]]
AddLine(ids) == [kind |-> "add", cid |-> pos, id |-> ids[pos], ids |-> UsedIds(ids)]
DeleteLine == [kind |-> "delete", cid |-> NoCid, id |-> 0, ids |-> deleteCls]

write(f, lines) == out' = [out EXCEPT ![f] = @ \o lines]

skip(f) == UNCHANGED <<pid, curId, deleteCls, out>>

(* dumpGritClause for a record that has its number.                        *)
dumpInitial(f) ==
    /\ Reading(f)
    /\ InProof /\ ~Derived
    /\ write(f, <<AddLine(pid)>>)
    /\ UNCHANGED <<pid, curId, deleteCls>>

collectGritDerived ==
    /\ Reading("grit")
    /\ InProof /\ Derived
    /\ curId' = curId + 1
    /\ pid' = [pid EXCEPT ![pos] = curId']
    /\ write("grit", <<AddLine(pid')>>)
    /\ UNCHANGED deleteCls

(* collectTrace counts with curId++ where the others have ++curId.         *)
collectTraceDerived ==
    /\ Reading("trace")
    /\ InProof /\ Derived
    /\ curId' = curId + 1
    /\ pid' = [pid EXCEPT ![pos] = curId]
    /\ write("trace", <<AddLine(pid')>>)
    /\ UNCHANGED deleteCls

skipNotInProof(f) ==
    /\ f \in {"grit", "trace"}
    /\ Reading(f)
    /\ ~InProof
    /\ skip(f)

Deletions == IF deleteCls = <<>> THEN <<>> ELSE <<DeleteLine>>

collectLratAdd ==
    /\ Reading("lrat")
    /\ InProof /\ Derived
    /\ curId' = curId + 1
    /\ pid' = [pid EXCEPT ![pos] = curId']
    /\ deleteCls' = <<>>
    /\ write("lrat", Append(Deletions, AddLine(pid')))

(* Mutant: a clause is deleted wherever a DELETE record names it, with the *)
(* number it has, if any.                                                  *)
DeletedHereAny ==
    IF IsDelete(db[pos]) THEN {db[pos].hints[1]}
    ELSE IF db[pos].type = "INITIAL" /\ pos \notin used THEN {pos} ELSE {}

(* A derived clause of the proof is deleted where its DELETE record        *)
(* stands, an input clause the proof does not need where it was read.      *)
DeletedHere ==
    IF IsDelete(db[pos])
      THEN LET c == db[pos].hints[1]
           IN  IF c \in used /\ db[c].type # "INITIAL" THEN {c} ELSE {}
      ELSE IF db[pos].type = "INITIAL" /\ pos \notin used THEN {pos} ELSE {}

collectLratDelete ==
    /\ Reading("lrat")
    /\ \E c \in DeletedHere : deleteCls' = Append(deleteCls, pid[c])
    /\ UNCHANGED <<pid, curId, out>>

collectLratSkip ==
    /\ Reading("lrat")
    /\ ~(InProof /\ Derived)
    /\ DeletedHere = {}
    /\ skip("lrat")

(* DRAT leaves out what unit propagation finds (REDUNDANT), and the        *)
(* deletions, which DratPrint::removeClause does not write.                *)
InDrat == InProof /\ db[pos].type \notin {"INITIAL", "REDUNDANT"}

collectDratAdd ==
    /\ Reading("drat")
    /\ InDrat
    /\ write("drat", <<[AddLine(pid) EXCEPT !.ids = <<>>]>>)
    /\ UNCHANGED <<pid, curId, deleteCls>>

collectDratSkip ==
    /\ Reading("drat")
    /\ ~InDrat
    /\ skip("drat")

collectGrit == dumpInitial("grit") \/ collectGritDerived \/ skipNotInProof("grit")
collectTrace == dumpInitial("trace") \/ collectTraceDerived \/ skipNotInProof("trace")
collectLrat == collectLratAdd \/ collectLratDelete \/ collectLratSkip
collectDrat == collectDratAdd \/ collectDratSkip

DumpStep ==
    openFile \/ closeFile \/ collectTrace \/ collectLrat \/ collectDrat \/ collectGrit

DumpNext == (Next /\ UNCHANGED dumpVars) \/ DumpStep
DumpSpec == DumpInit /\ [][DumpNext]_allVars

-----------------------------------------------------------------------------
AddLines(f) == {n \in DOMAIN out[f] : out[f][n].kind = "add"}

(* What a number stands for before line n of a file: the clauses that got  *)
(* it in an earlier line or, in LRAT, which does not repeat the formula,   *)
(* the input clause it counts; without those deleted again.                *)
DeletedBetween(f, m, n, id) ==
    \E j \in m .. n - 1 : out[f][j].kind = "delete" /\ \E k \in DOMAIN out[f][j].ids :
                             out[f][j].ids[k] = id

Denoted(f, n, id) ==
    {out[f][m].cid : m \in {j \in AddLines(f) : /\ j < n
                                                /\ out[f][j].id = id
                                                /\ ~DeletedBetween(f, j + 1, n, id)}}
    \cup {i \in Cids : /\ f = "lrat" /\ db[i].type = "INITIAL" /\ pid[i] = id
                       /\ ~DeletedBetween(f, 1, n, id)}

HintsResolveIn(f) ==
    \A n \in AddLines(f) :
        LET line == out[f][n]
            hs == db[line.cid].hints
        IN  \A k \in DOMAIN line.ids :
                Denoted(f, n, line.ids[k]) = {hs[Len(hs) + 1 - k]}

(* Every number in the hints of a line of a GRIT or LRAT file stands for   *)
(* the clause the record names and for no other, however often the clauses *)
(* were numbered anew for other files and whatever was deleted in between; *)
(* and a number an LRAT file deletes stands for a clause at this place.    *)
NumbersResolve ==
    /\ \A f \in Files \cap {"grit", "lrat"} : HintsResolveIn(f)
    /\ "lrat" \in Files => \A n \in DOMAIN out["lrat"] :
         LET line == out["lrat"][n]
         IN  line.kind = "delete" =>
                 \A k \in DOMAIN line.ids : Cardinality(Denoted("lrat", n, line.ids[k])) = 1

(* The trace file is documented as a "TRACE CHECK proof file": there too a *)
(* number has to stand for one clause.                                     *)
TraceHintsResolve == "trace" \in Files => HintsResolveIn("trace")
=============================================================================
