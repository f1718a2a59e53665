---------------------------- MODULE ClauseStorage ----------------------------
(***************************************************************************)
(* The clause database (ptb/ClauseDatabase.hpp) on its memory-mapped files *)
(* (ptb/MmapStorage.hpp).  Each file starts with a word that holds its     *)
(* mapped size; the records follow without gaps.  A file grows when a      *)
(* record does not fit, up to its limit; then the next file is used.       *)
(*                                                                         *)
(* Sizes are in bytes, as in the code.  What a record holds is abstracted  *)
(* to its type and to how many literals and hints it has.                  *)
(***************************************************************************)
EXTENDS Integers, Sequences, FiniteSets, FiniteSetsExt, SequencesExt

CONSTANTS
    Config,         \* per file, the number of bytes the user allows
    Shapes,         \* records: [type, nLits, nHints]
    PageSize, MinFileSize, InitialSize

SizeWord == 8       \* sizeof(size_type)
FileIds == 4        \* the field fId of a cid has two bits

ASSUME SizeAssumption ==
    /\ PageSize \in Nat /\ PageSize % SizeWord = 0 /\ PageSize > SizeWord
    /\ MinFileSize \in Nat /\ MinFileSize % PageSize = 0
    /\ InitialSize \in Nat \ {0} /\ InitialSize % PageSize = 0
ASSUME ConfigAssumption ==
    Config \in Seq(Nat) \ {<<>>} /\ \A f \in DOMAIN Config : Config[f] >= PageSize
ASSUME ShapesAssumption ==
    \A r \in Shapes : r.nLits \in Nat /\ r.nHints \in Nat

(* The size of a record: a header of 16 bytes, one word at least, and the  *)
(* rest rounded up to words (make64Bit).                                   *)
nBytes(r) ==
    LET needed == 4 * r.nLits + 8 * r.nHints
    IN  24 + IF needed > 8 THEN ((needed - 8 + 7) \div 8) * 8 ELSE 0

-----------------------------------------------------------------------------
VARIABLES
    storages,       \* per file: [maxBytes, mapped, sz, recs]; recs is what the
                    \* file holds, as a sequence of [pos, rec]
    curDataId,      \* the file records are added to
    pc,             \* "idle", "alloc", "read", "failed"
    pending,        \* the record being added
    cids,           \* history: the cids handed out, with their records
    cur             \* where an iteration is

storeVars == <<storages, curDataId>>
vars == <<storages, curDataId, pc, pending, cids, cur>>

Files == DOMAIN Config
PageDown(n) == (n \div PageSize) * PageSize
PageUp(n) == PageDown(n + PageSize - 1)

(* open: the file is created and mapped with its first size.               *)
Opened(bytes) ==
    LET maxBytes == PageDown(bytes)
    IN  [maxBytes |-> maxBytes, mapped |-> Min({maxBytes, InitialSize}), sz |-> 0,
         recs |-> <<>>]

capacity(s) == s.mapped - SizeWord
nMaxBytes(s) == s.maxBytes - SizeWord

(* Mutant: every cid is one of the first file.                             *)
CidFirstFile(f, type, pos) == [fId |-> 0, type |-> type, id |-> pos]

Cid(f, type, pos) == [fId |-> (f - 1) % FileIds, type |-> type, id |-> pos]

Cid_Undef == [fId |-> FileIds - 1, type |-> "UNDEF", id |-> -1]
NoRecord == [type |-> "UNDEF", nLits |-> 0, nHints |-> 0]

Init ==
    /\ storages = [f \in Files |-> Opened(Config[f])]
    /\ curDataId = 1
    /\ pc = "idle"
    /\ pending = NoRecord
    /\ cids = <<>>
    /\ cur = Cid_Undef

-----------------------------------------------------------------------------
(* Adding a record: allocateStorage tries alloc on one file after the      *)
(* other.                                                                  *)

addClause(r) ==
    /\ pc = "idle"
    /\ pc' = "alloc"
    /\ pending' = r
    /\ UNCHANGED <<storeVars, cids, cur>>

Current == storages[curDataId]
Fits(s) == s.sz + nBytes(pending) <= capacity(s)
Allowed(s) == s.sz + nBytes(pending) <= nMaxBytes(s)

(* The record is written at the end of the file s, which becomes Current.  *)
store(s) ==
    /\ storages' = [storages EXCEPT ![curDataId] =
                      [s EXCEPT !.sz = @ + nBytes(pending),
                                !.recs = Append(@, [pos |-> s.sz, rec |-> pending])]]
    /\ cids' = Append(cids, [cid |-> Cid(curDataId, pending.type, s.sz), rec |-> pending])
    /\ pc' = "idle"
    /\ pending' = NoRecord
    /\ UNCHANGED curDataId

(* Mutant: the files are tried without end.                                *)
nextStorageWraps ==
    /\ curDataId' = (curDataId % Len(storages)) + 1
    /\ UNCHANGED <<pc, cids, pending>>

(* After the last file an exception ends the program.                      *)
nextStorage ==
    /\ curDataId' = curDataId + 1
    /\ pc' = IF curDataId' > Len(storages) THEN "failed" ELSE "alloc"
    /\ UNCHANGED <<cids, pending>>

allocFits ==
    /\ pc = "alloc"
    /\ Fits(Current)
    /\ store(Current)
    /\ UNCHANGED cur

allocFull ==
    /\ pc = "alloc"
    /\ ~Fits(Current) /\ ~Allowed(Current)
    /\ nextStorage
    /\ UNCHANGED <<storages, cur>>

(* The size reserve asks for when `more' bytes are to be added: in pages.   *)
Reserved(s, more) ==
    LET wanted == capacity(s) + more + SizeWord
    IN  Max({wanted + PageSize - (wanted % PageSize), MinFileSize})

(* Five eighths of the capacity, made even.                                *)
Step5(s) == (((capacity(s) \div 2) + (capacity(s) \div 8) + 2) \div 2) * 2

(* A file grows by its own measure or by what the record needs, up to its  *)
(* limit.                                                                  *)
Growth(s) == Min({Reserved(s, Max({Step5(s), nBytes(pending)})), s.maxBytes})

(* Mutant: a file that cannot grow is mapped with its first size.          *)
UnresizedInitial(s) == [s EXCEPT !.mapped = Min({s.maxBytes, InitialSize})]

(* A file that cannot grow is mapped again, with its capacity as its size. *)
Unresized(s) == [s EXCEPT !.mapped = capacity(s)]

Grown(s) == [s EXCEPT !.mapped = Growth(s)]

MustGrow == pc = "alloc" /\ ~Fits(Current) /\ Allowed(Current)

allocGrows ==
    /\ MustGrow
    /\ Fits(Grown(Current))
    /\ store(Grown(Current))
    /\ UNCHANGED cur

(* ftruncate fails, or the file grew but not enough.                       *)
allocGivesUp ==
    /\ MustGrow
    /\ \/ storages' = [storages EXCEPT ![curDataId] = Unresized(@)]
       \/ /\ ~Fits(Grown(Current))
          /\ storages' = [storages EXCEPT ![curDataId] = Grown(@)]
    /\ nextStorage
    /\ UNCHANGED cur

alloc == allocFits \/ allocFull \/ allocGrows \/ allocGivesUp

-----------------------------------------------------------------------------
(* Reading the log.                                                        *)

RecordsAt(f, pos) == {k \in DOMAIN storages[f].recs : storages[f].recs[k].pos = pos}

(* The record a cid names; the type getPos would read at a position where  *)
(* there is no record is whatever the memory holds.                        *)
Deref(f, pos) == storages[f].recs[CHOOSE k \in RecordsAt(f, pos) : TRUE].rec
TypesAt(f, pos) ==
    IF RecordsAt(f, pos) # {} THEN {Deref(f, pos).type}
    ELSE {r.type : r \in Shapes}

FileOf(cid) == cid.fId + 1
Valid(cid) == FileOf(cid) \in Files /\ RecordsAt(FileOf(cid), cid.id) # {}

begin ==
    /\ pc = "idle" \/ (pc = "read" /\ cur = Cid_Undef)
    /\ pc' = "read"
    /\ IF storages[1].sz > 0
         THEN \E t \in TypesAt(1, 0) : cur' = Cid(1, t, 0)
         ELSE cur' = Cid_Undef
    /\ UNCHANGED <<storeVars, pending, cids>>

Moving == pc = "read" /\ cur # Cid_Undef /\ Valid(cur)
newPos == cur.id + nBytes(Deref(FileOf(cur), cur.id))
moved == UNCHANGED <<storeVars, pc, pending, cids>>

nextHere ==
    /\ Moving
    /\ newPos < storages[FileOf(cur)].sz
    /\ \E t \in TypesAt(FileOf(cur), newPos) : cur' = Cid(FileOf(cur), t, newPos)
    /\ moved

HasNextFile == FileOf(cur) + 1 \in Files /\ storages[FileOf(cur) + 1].sz > 0

(* The type is read from the file that has just been left.                 *)
nextFile ==
    /\ Moving
    /\ newPos >= storages[FileOf(cur)].sz
    /\ HasNextFile
    /\ \E t \in TypesAt(FileOf(cur), newPos) : cur' = Cid(FileOf(cur) + 1, t, 0)
    /\ moved

(* Mutant: the iteration ends with the file it is in.                      *)
nextEndHere ==
    /\ Moving
    /\ newPos >= storages[FileOf(cur)].sz
    /\ cur' = Cid_Undef
    /\ moved

nextEnd ==
    /\ Moving
    /\ newPos >= storages[FileOf(cur)].sz
    /\ ~HasNextFile
    /\ cur' = Cid_Undef
    /\ moved

next == nextHere \/ nextFile \/ nextEnd

-----------------------------------------------------------------------------
Step == alloc \/ next
Next == (\E r \in Shapes : addClause(r)) \/ begin \/ Step
Spec == Init /\ [][Next]_vars

(* A call that has begun goes on to its end.                               *)
FairSpec == Spec /\ WF_vars(Step)
-----------------------------------------------------------------------------
RecordsOf(f) == [k \in DOMAIN storages[f].recs |-> storages[f].recs[k].rec]
AllRecords == FlattenSeq([f \in Files |-> RecordsOf(f)])
Places == UNION {{[f |-> f, k |-> k] : k \in DOMAIN storages[f].recs} : f \in Files}

(* How many records come before the one the iteration is at, and that one. *)
PlaceOf(cid) ==
    Cardinality({p \in Places :
                   \/ p.f < FileOf(cid)
                   \/ p.f = FileOf(cid) /\ storages[p.f].recs[p.k].pos <= cid.id})

(* To its users the database is ClauseLog, if every file has room for any  *)
(* one record: no record is lost or met twice when the log goes on in      *)
(* another file, after a file could not grow, or in a later iteration.     *)
Log == INSTANCE ClauseLog WITH
    log <- AllRecords,
    mode <- IF pc \in {"idle", "alloc"} THEN "write" ELSE pc,
    place <- IF cur = Cid_Undef THEN 0 ELSE PlaceOf(cur)
ImplementsLog == Log!Spec

Types == {r.type : r \in Shapes} \cup {"UNDEF"}

(* Types, and the sizes of the files within their limits.                  *)
TypeOK ==
    /\ \A f \in Files :
         LET s == storages[f]
         IN  /\ s.maxBytes \in Nat /\ s.sz \in Nat
             /\ s.mapped \in SizeWord .. s.maxBytes
             /\ s.recs \in Seq([pos : Nat, rec : Shapes])
    /\ curDataId \in 1 .. Len(Config) + 1
    /\ pc \in {"idle", "alloc", "read", "failed"}
    /\ pending \in Shapes \cup {NoRecord}
    /\ cids \in Seq([cid : [fId : 0 .. FileIds - 1, type : Types, id : Nat], rec : Shapes])
    /\ cur \in [fId : 0 .. FileIds - 1, type : Types, id : Int]

(* The records of a file follow each other without gaps up to its fill     *)
(* level; each has room for its header, literals and hints, as getHint     *)
(* asserts; and all are in pages that are mapped, also after a failure to  *)
(* grow took capacity away.                                                *)
RecordsMapped ==
    \A f \in Files :
        LET s == storages[f]
            End(k) == IF k = Len(s.recs) THEN s.sz ELSE s.recs[k + 1].pos
        IN  /\ s.sz # 0 => s.recs # <<>> /\ s.recs[1].pos = 0
            /\ \A k \in DOMAIN s.recs :
                 LET r == s.recs[k].rec
                 IN  /\ End(k) = s.recs[k].pos + nBytes(r)
                     /\ s.recs[k].pos + 16 + 4 * r.nLits + 8 * r.nHints <= End(k)
            /\ SizeWord + s.sz <= PageUp(s.mapped)

(* A cid that was handed out keeps naming its record and its type.         *)
CidsResolve ==
    \A k \in DOMAIN cids :
        LET c == cids[k].cid
        IN  /\ Valid(c)
            /\ Deref(FileOf(c), c.id) = cids[k].rec
            /\ c.type = cids[k].rec.type

(* The sizes stay within their limits and the records in mapped memory.    *)
StorageOK == TypeOK /\ RecordsMapped

(* Adding a record and reading the log come to an end.                     *)
CallsEnd ==
    /\ pc = "alloc" ~> pc # "alloc"
    /\ pc = "read" ~> cur = Cid_Undef
=============================================================================
