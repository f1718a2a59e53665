------------------------- MODULE ProofTracer_proofs -------------------------
(***************************************************************************)
(* Proofs about ProofTracer and ProofDump for every set of clause          *)
(* contents, with or without reordering, and without the bounds of the TLC *)
(* runs.                                                                   *)
(*                                                                         *)
(* The log does not change any more when the files are written, but the    *)
(* numbers in it do, with every file. The invariant of ProofDump therefore *)
(* speaks of a file that is being written, whose lines have the numbers    *)
(* that are in the log now (Writing), and of all files, in terms of their  *)
(* own lines and of the numbers of the input clauses, which stay (FileOK). *)
(***************************************************************************)
EXTENDS ProofDump, ProofLemmas

(* What the buffers hold: identifiers of clause records of the log.        *)
ClauseCids == {i \in Cids : ~IsDelete(db[i])}

PendingInLog == an.hints \in Seq(ClauseCids) /\ an.units \in Seq(ClauseCids)

(* A marker never points past the end of a buffer, and markers are nested. *)
MarkersNested ==
    /\ \A k \in DOMAIN an.reverts :
         /\ an.reverts[k].nHints <= Len(an.hints)
         /\ an.reverts[k].nUnitHints <= Len(an.units)
    /\ \A k, l \in DOMAIN an.reverts :
         k < l => /\ an.reverts[k].nHints <= an.reverts[l].nHints
                  /\ an.reverts[k].nUnitHints <= an.reverts[l].nUnitHints

(* The part of the markers' exactness that typing the history needs.       *)
SavedMatches == Len(saved) = Len(an.reverts)

(* The log and the buffers.                                                *)
LogInv == TypeOK /\ PendingInLog /\ MarkersNested /\ SavedMatches /\ HintsPointBack

-----------------------------------------------------------------------------
(* The buffers keep their type.                                            *)
LEMMA BufferTypes ==
    ASSUME NEW a \in BufferType, NEW cid \in Nat
    PROVE  /\ AddHint(a, cid) \in BufferType
           /\ AddUnorderedHint(a, cid) \in BufferType
           /\ AddUnitHint(a, cid) \in BufferType
           /\ MarkRevertableHints(a) \in BufferType
           /\ NoHints \in BufferType
<1>1. /\ Append(a.hints, cid) \in Seq(Nat)
      /\ Append(a.units, cid) \in Seq(Nat)
      /\ a.nUnordered + 1 \in Nat
  BY DEF BufferType
<1>2. AddHint(a, cid) \in BufferType
  BY <1>1 DEF BufferType, AddHint
<1>3. AddUnorderedHint(a, cid) \in BufferType
  BY <1>1 DEF BufferType, AddUnorderedHint
<1>4. AddUnitHint(a, cid) \in BufferType
  BY <1>1 DEF BufferType, AddUnitHint
<1>5. MarkRevertableHints(a) \in BufferType
  <2> DEFINE m == [nUnordered |-> a.nUnordered, nUnitHints |-> Len(a.units),
                   nHints |-> Len(a.hints)]
  <2>1. m \in RevertMarker
    BY DEF BufferType, RevertMarker
  <2>2. Append(a.reverts, m) \in Seq(RevertMarker)
    BY <2>1 DEF BufferType
  <2> QED
    BY <2>2 DEF BufferType, MarkRevertableHints
<1>6. NoHints \in BufferType
  BY DEF BufferType, NoHints
<1> QED
  BY <1>2, <1>3, <1>4, <1>5, <1>6

(* A caller that holds an identifier holds that of a clause record.        *)
LEMMA LiveIsClause == ASSUME NEW cid \in LiveCids(db) PROVE cid \in ClauseCids
BY DEF LiveCids, ClauseCids, Cids

(* The empty log satisfies the invariant.                                  *)
LEMMA InitLog == Init => LogInv
BY DEF Init, LogInv, TypeOK, PendingInLog, MarkersNested, SavedMatches, HintsPointBack,
       NoHints, BufferType, Cids

(* Longer buffers do no harm to the markers.                               *)
LEMMA NestedGrow ==
    ASSUME MarkersNested, an \in BufferType, an'.reverts = an.reverts,
           Len(an'.hints) \in Nat, Len(an'.hints) >= Len(an.hints),
           Len(an'.units) \in Nat, Len(an'.units) >= Len(an.units)
    PROVE  MarkersNested'
<1>1. /\ Len(an.hints) \in Nat /\ Len(an.units) \in Nat
      /\ \A k \in DOMAIN an.reverts : /\ an.reverts[k].nHints \in Nat
                                      /\ an.reverts[k].nUnitHints \in Nat
  <2>1. /\ Len(an.hints) \in Nat /\ Len(an.units) \in Nat
        /\ an.reverts \in Seq(RevertMarker)
    BY DEF BufferType
  <2>2. \A k \in DOMAIN an.reverts : an.reverts[k] \in RevertMarker
    BY <2>1
  <2> QED
    BY <2>1, <2>2 DEF RevertMarker
<1> QED
  BY <1>1 DEF MarkersNested

(* An operation on the buffers alone keeps LogInv if it keeps the buffers  *)
(* typed, their contents in the log and their markers nested.              *)
SnapshotType == [hints : Seq(Nat), units : Seq(Nat), tags : Seq(BOOLEAN)]

LEMMA BufferStep ==
    ASSUME LogInv, Collecting, db' = db, pid' = pid, numInitCl' = numInitCl,
           an' \in BufferType, tags' \in Seq(BOOLEAN), saved' \in Seq(SnapshotType),
           an'.hints \in Seq(ClauseCids), an'.units \in Seq(ClauseCids),
           Len(saved') = Len(an'.reverts), MarkersNested'
    PROVE  LogInv'
<1>1. Cids' = Cids /\ ClauseCids' = ClauseCids
  BY DEF Cids, ClauseCids
<1>2. TypeOK' /\ HintsPointBack'
  BY DEF LogInv, TypeOK, HintsPointBack, Cids, Collecting, markVars, SnapshotType
<1>3. PendingInLog' /\ SavedMatches'
  BY <1>1 DEF PendingInLog, SavedMatches
<1> QED
  BY <1>2, <1>3 DEF LogInv

(* The types LogInv gives, as the leaves below need them.                  *)
LogTyped ==
    /\ db \in Seq(RecordType) /\ an \in BufferType
    /\ an.hints \in Seq(Nat) /\ an.units \in Seq(Nat)
    /\ an.hints \in Seq(ClauseCids) /\ an.units \in Seq(ClauseCids)
    /\ an.reverts \in Seq(RevertMarker) /\ an.nUnordered \in Nat
    /\ tags \in Seq(BOOLEAN) /\ saved \in Seq(SnapshotType)
    /\ Len(saved) = Len(an.reverts)
    /\ ClauseCids \subseteq Nat

LEMMA LogTypes == LogInv => LogTyped /\ MarkersNested
BY DEF LogInv, TypeOK, BufferType, PendingInLog, SavedMatches, ClauseCids, Cids,
       SnapshotType, LogTyped

(* addHint, addUnorderedHint and addUnitHint keep the invariant.           *)
LEMMA AddHintLog ==
    ASSUME LogInv, NEW cid \in ClauseCids,
           addHint(cid) \/ addUnorderedHint(cid) \/ addUnitHint(cid)
    PROVE  LogInv'
<1>0. LogTyped /\ MarkersNested
  BY LogTypes
<1> USE <1>0 DEF LogTyped
<1>1. CASE addHint(cid) \/ addUnorderedHint(cid)
  <2>1. /\ an'.hints = Append(an.hints, cid)
        /\ an'.units = an.units /\ an'.reverts = an.reverts
    BY <1>1 DEF addHint, addUnorderedHint, AddHint, AddUnorderedHint, BufferType
  <2>2. an' \in BufferType
    BY <1>1, BufferTypes DEF addHint, addUnorderedHint
  <2>3. /\ tags' \in Seq(BOOLEAN) /\ saved' \in Seq(SnapshotType)
        /\ an'.hints \in Seq(ClauseCids) /\ an'.units \in Seq(ClauseCids)
    <3>1. Append(tags, FALSE) \in Seq(BOOLEAN) /\ Append(tags, TRUE) \in Seq(BOOLEAN)
      OBVIOUS
    <3>2. tags' \in Seq(BOOLEAN)
      BY <1>1, <3>1 DEF addHint, addUnorderedHint
    <3>3. saved' = saved
      BY <1>1 DEF addHint, addUnorderedHint
    <3>4. an'.hints \in Seq(ClauseCids) /\ an'.units \in Seq(ClauseCids)
      BY <2>1
    <3> QED
      BY <3>2, <3>3, <3>4
  <2>4. MarkersNested'
    BY <2>1, NestedGrow
  <2> QED
    BY <1>1, <2>1, <2>2, <2>3, <2>4, BufferStep DEF addHint, addUnorderedHint
<1>2. CASE addUnitHint(cid)
  <2>1. /\ an'.units = Append(an.units, cid)
        /\ an'.hints = an.hints /\ an'.reverts = an.reverts
    BY <1>2 DEF addUnitHint, AddUnitHint, BufferType
  <2>2. an' \in BufferType
    BY <1>2, BufferTypes DEF addUnitHint
  <2>3. /\ tags' \in Seq(BOOLEAN) /\ saved' \in Seq(SnapshotType)
        /\ an'.hints \in Seq(ClauseCids) /\ an'.units \in Seq(ClauseCids)
    BY <1>2, <2>1 DEF addUnitHint, historyVars
  <2>4. MarkersNested'
    BY <2>1, NestedGrow
  <2> QED
    BY <1>2, <2>1, <2>2, <2>3, <2>4, BufferStep DEF addUnitHint, historyVars
<1> QED
  BY <1>1, <1>2

(* markRevertableHints keeps it: the new marker is the snapshot just taken. *)
LEMMA MarkLog == ASSUME LogInv, markRevertableHints PROVE LogInv'
<1>0. LogTyped /\ MarkersNested
  BY LogTypes
<1> USE <1>0 DEF LogTyped
<1> DEFINE m == [nUnordered |-> an.nUnordered, nUnitHints |-> Len(an.units),
                 nHints |-> Len(an.hints)]
<1>1. /\ an'.reverts = Append(an.reverts, m)
      /\ an'.hints = an.hints /\ an'.units = an.units
  BY DEF markRevertableHints, MarkRevertableHints, BufferType
<1>2. an' \in BufferType
  BY BufferTypes DEF markRevertableHints
<1>3. saved' = Append(saved, Snapshot) /\ Snapshot \in SnapshotType
  BY DEF markRevertableHints, Snapshot, SnapshotType
<1>4. saved' \in Seq(SnapshotType) /\ Len(saved') = Len(an'.reverts)
  BY <1>1, <1>3
<1>5. MarkersNested'
  <2>1. \A k \in DOMAIN an.reverts : an.reverts[k].nHints \in Nat /\ an.reverts[k].nUnitHints \in Nat
    <3>1. \A k \in DOMAIN an.reverts : an.reverts[k] \in RevertMarker
      OBVIOUS
    <3> QED
      BY <3>1 DEF RevertMarker
  <2>2. /\ DOMAIN an'.reverts = 1 .. Len(an.reverts) + 1
        /\ DOMAIN an.reverts = 1 .. Len(an.reverts)
        /\ \A k \in 1 .. Len(an.reverts) : an'.reverts[k] = an.reverts[k]
        /\ an'.reverts[Len(an.reverts) + 1] = m
        /\ Len(an.reverts) \in Nat
    BY <1>1
  <2>3. /\ m.nHints = Len(an.hints) /\ m.nUnitHints = Len(an.units)
        /\ Len(an.hints) \in Nat /\ Len(an.units) \in Nat
    OBVIOUS
  <2> HIDE DEF m
  <2>4. \A k \in DOMAIN an'.reverts : /\ an'.reverts[k].nHints <= Len(an'.hints)
                                      /\ an'.reverts[k].nUnitHints <= Len(an'.units)
    <3> TAKE k \in DOMAIN an'.reverts
    <3>1. CASE k = Len(an.reverts) + 1
      BY <3>1, <1>1, <2>2, <2>3
    <3>2. CASE k \in 1 .. Len(an.reverts)
      BY <3>2, <1>1, <2>2 DEF MarkersNested
    <3> QED
      BY <3>1, <3>2, <2>2
  <2>5. \A k, l \in DOMAIN an'.reverts :
          k < l => /\ an'.reverts[k].nHints <= an'.reverts[l].nHints
                   /\ an'.reverts[k].nUnitHints <= an'.reverts[l].nUnitHints
    <3> TAKE k, l \in DOMAIN an'.reverts
    <3> HAVE k < l
    <3>1. k \in 1 .. Len(an.reverts)
      BY <2>2
    <3>2. CASE l = Len(an.reverts) + 1
      BY <3>1, <3>2, <2>1, <2>2, <2>3 DEF MarkersNested
    <3>3. CASE l \in 1 .. Len(an.reverts)
      BY <3>1, <3>3, <2>2 DEF MarkersNested
    <3> QED
      BY <3>2, <3>3, <2>2
  <2> QED
    BY <2>4, <2>5 DEF MarkersNested
<1> QED
  BY <1>1, <1>2, <1>4, <1>5, BufferStep DEF markRevertableHints

(* The first n elements of a sequence.                                     *)
LEMMA Prefix ==
    ASSUME NEW S, NEW s \in Seq(S), NEW n \in Nat, n <= Len(s)
    PROVE  /\ SubSeq(s, 1, n) \in Seq(S)
           /\ Len(SubSeq(s, 1, n)) = n
           /\ \A i \in 1 .. n : SubSeq(s, 1, n)[i] = s[i]
<1>1. \A i \in 1 .. n : s[i] \in S
  OBVIOUS
<1> QED
  BY <1>1, SubSeqProperties

(* revertHints keeps it: what the marker cuts back to is the snapshot.     *)
LEMMA RevertLog == ASSUME LogInv, revertHints PROVE LogInv'
<1>0. LogTyped /\ MarkersNested
  BY LogTypes
<1> USE <1>0 DEF LogTyped
<1> DEFINE n == Len(an.reverts)
           m == an.reverts[n]
<1>1. /\ n \in Nat \ {0} /\ n \in DOMAIN an.reverts /\ DOMAIN an.reverts = 1 .. n
      /\ m \in RevertMarker
  BY DEF revertHints
<1>2. /\ an'.hints = SubSeq(an.hints, 1, m.nHints)
      /\ an'.units = SubSeq(an.units, 1, m.nUnitHints)
      /\ an'.reverts = SubSeq(an.reverts, 1, n - 1)
      /\ an'.nUnordered = m.nUnordered
      /\ an' = [hints |-> an'.hints, units |-> an'.units, reverts |-> an'.reverts,
                nUnordered |-> an'.nUnordered]
  BY DEF revertHints, RevertHints
<1>3. /\ m.nHints \in Nat /\ m.nUnitHints \in Nat /\ m.nUnordered \in Nat
      /\ m.nHints <= Len(an.hints) /\ m.nUnitHints <= Len(an.units)
  <2>1. m.nHints \in Nat /\ m.nUnitHints \in Nat /\ m.nUnordered \in Nat
    BY <1>1 DEF RevertMarker
  <2> QED
    BY <2>1, <1>1 DEF MarkersNested
<1> HIDE DEF n, m
<1>4. /\ an'.hints \in Seq(ClauseCids) /\ an'.hints \in Seq(Nat)
      /\ Len(an'.hints) = m.nHints
  <2>1. SubSeq(an.hints, 1, m.nHints) \in Seq(ClauseCids)
    BY <1>3, Prefix
  <2>2. an.hints \in Seq(Nat) /\ m.nHints \in Nat /\ m.nHints <= Len(an.hints)
    BY <1>3
  <2>3. SubSeq(an.hints, 1, m.nHints) \in Seq(Nat) /\ Len(SubSeq(an.hints, 1, m.nHints)) = m.nHints
    BY ONLY <2>2, Prefix
  <2> QED
    BY <1>2, <2>1, <2>3
<1>5. /\ an'.units \in Seq(ClauseCids) /\ an'.units \in Seq(Nat)
      /\ Len(an'.units) = m.nUnitHints
  <2>1. SubSeq(an.units, 1, m.nUnitHints) \in Seq(ClauseCids)
    BY <1>3, Prefix
  <2>2. an.units \in Seq(Nat) /\ m.nUnitHints \in Nat /\ m.nUnitHints <= Len(an.units)
    BY <1>3
  <2>3. SubSeq(an.units, 1, m.nUnitHints) \in Seq(Nat) /\ Len(SubSeq(an.units, 1, m.nUnitHints)) = m.nUnitHints
    BY ONLY <2>2, Prefix
  <2> QED
    BY <1>2, <2>1, <2>3
<1>6. /\ an'.reverts \in Seq(RevertMarker) /\ Len(an'.reverts) = n - 1
      /\ \A k \in 1 .. n - 1 : an'.reverts[k] = an.reverts[k]
  BY <1>1, <1>2, Prefix DEF n
<1>7. an' \in BufferType
  BY <1>2, <1>3, <1>4, <1>5, <1>6 DEF BufferType
<1>8. /\ saved' \in Seq(SnapshotType) /\ Len(saved') = Len(an'.reverts)
      /\ tags' \in Seq(BOOLEAN)
  <2>1. saved[n] \in SnapshotType
    BY <1>1 DEF n
  <2>2. tags' = saved[n].tags /\ saved' = SubSeq(saved, 1, n - 1)
    BY DEF revertHints, n
  <2>3. tags' \in Seq(BOOLEAN)
    BY <2>1, <2>2 DEF SnapshotType
  <2>4. saved' \in Seq(SnapshotType) /\ Len(saved') = n - 1
    BY <2>2, <1>1, Prefix DEF n
  <2> QED
    BY <2>3, <2>4, <1>6
<1>9. MarkersNested'
  <2>1. DOMAIN an'.reverts = 1 .. n - 1
    BY <1>1, <1>6
  <2>0. n \in DOMAIN an.reverts /\ \A k \in 1 .. n - 1 : k \in DOMAIN an.reverts /\ k < n
    BY <1>1
  <2>2. \A k \in 1 .. n - 1 : /\ an.reverts[k].nHints <= an.reverts[n].nHints
                              /\ an.reverts[k].nUnitHints <= an.reverts[n].nUnitHints
    BY ONLY MarkersNested, <2>0 DEF MarkersNested
  <2>3. \A k, l \in 1 .. n - 1 :
          k < l => /\ an.reverts[k].nHints <= an.reverts[l].nHints
                   /\ an.reverts[k].nUnitHints <= an.reverts[l].nUnitHints
    BY ONLY MarkersNested, <2>0 DEF MarkersNested
  <2>4. m = an.reverts[n]
    BY DEF m
  <2> QED
    BY <2>1, <2>2, <2>3, <2>4, <1>4, <1>5, <1>6 DEF MarkersNested
<1> QED
  BY <1>4, <1>5, <1>7, <1>8, <1>9, BufferStep DEF revertHints

(* A new record that refers to clause records only keeps the log sound.    *)
LEMMA AppendRecord ==
    ASSUME LogInv, NEW r \in RecordType, db' = Append(db, r),
           \A h \in HintSet(r) : h \in ClauseCids
    PROVE  /\ db' \in Seq(RecordType) /\ Len(db') = Len(db) + 1
           /\ Cids \subseteq Cids' /\ ClauseCids \subseteq ClauseCids'
           /\ \A i \in Cids : db'[i] = db[i]
           /\ db'[Len(db')] = r
           /\ HintsPointBack'
<1>0. db \in Seq(RecordType)
  BY DEF LogInv, TypeOK
<1>1. /\ db' \in Seq(RecordType) /\ Len(db') = Len(db) + 1 /\ Len(db) \in Nat
      /\ Cids' = Cids \cup {Len(db) + 1} /\ Cids = 1 .. Len(db)
      /\ \A i \in Cids : db'[i] = db[i]
      /\ db'[Len(db) + 1] = r
  BY <1>0 DEF Cids
<1>2. ClauseCids \subseteq ClauseCids'
  BY <1>1 DEF ClauseCids
<1>3. HintsPointBack'
  <2> SUFFICES ASSUME NEW i \in Cids', NEW h \in HintSet(db'[i])
               PROVE  h \in 1 .. i - 1 /\ ~IsDelete(db'[h])
    BY DEF HintsPointBack, HintSet
  <2>1. CASE i \in Cids
    <3>1. h \in 1 .. i - 1 /\ ~IsDelete(db[h])
      BY <1>1, <2>1 DEF HintsPointBack, LogInv
    <3>2. h \in Cids
      BY <1>1, <2>1, <3>1
    <3> QED
      BY <1>1, <3>1, <3>2
  <2>2. CASE i = Len(db) + 1
    <3>1. h \in ClauseCids
      BY <1>1, <2>2
    <3> QED
      BY <1>1, <2>2, <3>1 DEF ClauseCids
  <2> QED
    BY <1>1, <2>1, <2>2
<1> QED
  BY <1>1, <1>2, <1>3

(* What addResolvent writes is a clause record whose hints are clauses.    *)
LEMMA ResolventRecord ==
    ASSUME LogInv, NEW lits \in Clauses, NEW origin \in ClauseOrigin
    PROVE  /\ Resolvent(an, lits, origin) \in RecordType
           /\ \A h \in HintSet(Resolvent(an, lits, origin)) : h \in ClauseCids
<1>0. LogTyped
  BY LogTypes
<1>1. /\ an.hints \o an.units \in Seq(Nat)
      /\ an.hints \o an.units \in Seq(ClauseCids)
  <2>1. an.hints \o an.units \in Seq(Nat)
    BY <1>0, ConcatProperties DEF LogTyped
  <2>2. an.hints \o an.units \in Seq(ClauseCids)
    BY <1>0, ConcatProperties DEF LogTyped
  <2> QED
    BY <2>1, <2>2
<1>2. Resolvent(an, lits, origin) \in RecordType
  BY <1>1 DEF Resolvent, RecordType
<1>3. \A h \in HintSet(Resolvent(an, lits, origin)) : h \in ClauseCids
  <2>1. Resolvent(an, lits, origin).hints \in Seq(ClauseCids)
    BY <1>1 DEF Resolvent
  <2> QED
    BY <2>1 DEF HintSet
<1> QED
  BY <1>2, <1>3

(* addResolvent keeps it: only clauses can be pending, so only clauses are *)
(* hinted at.                                                              *)
LEMMA AddResolventLog ==
    ASSUME LogInv, NEW lits \in Clauses, NEW origin \in ClauseOrigin,
           addResolvent(lits, origin)
    PROVE  LogInv'
<1> DEFINE r == Resolvent(an, lits, origin)
<1>1. /\ db' = Append(db, r) /\ an' = NoHints /\ tags' = <<>> /\ saved' = <<>>
      /\ phase = "collect"
  BY DEF addResolvent
<1>2. /\ db' \in Seq(RecordType) /\ Len(db') = Len(db) + 1
      /\ Cids \subseteq Cids' /\ HintsPointBack'
  BY <1>1, ResolventRecord, AppendRecord
<1>3. PendingInLog' /\ MarkersNested' /\ SavedMatches'
  BY <1>1 DEF PendingInLog, MarkersNested, SavedMatches, NoHints
<1>4. /\ numInitCl' \in Nat /\ pid' \in Seq(Nat) /\ Len(pid') = Len(db')
  <2>1. numInitCl' \in Nat
    BY DEF addResolvent, LogInv, TypeOK
  <2>2. pid \in Seq(Nat) /\ Len(pid) = Len(db)
    BY DEF LogInv, TypeOK
  <2>3. PICK n \in Nat : pid' = Append(pid, n)
    BY <2>1 DEF addResolvent
  <2> QED
    BY <2>1, <2>2, <2>3, <1>2
<1>5. /\ phase' \in {"collect", "mark", "done"}
      /\ used' \subseteq Cids' /\ work' \subseteq used'
  <2>1. Len(db') \in Cids'
    <3>1. Len(db) \in Nat
      BY DEF LogInv, TypeOK
    <3> QED
      BY <1>2, <3>1 DEF Cids
  <2>2. CASE lits = EmptyClause
    BY <2>1, <2>2 DEF addResolvent
  <2>3. CASE lits # EmptyClause
    BY <1>2, <2>3 DEF addResolvent, markVars, LogInv, TypeOK
  <2> QED
    BY <2>2, <2>3
<1>6. /\ an' \in BufferType /\ tags' \in Seq(BOOLEAN)
      /\ saved' \in Seq([hints : Seq(Nat), units : Seq(Nat), tags : Seq(BOOLEAN)])
  BY <1>1 DEF NoHints, BufferType
<1>7. TypeOK'
  BY <1>2, <1>4, <1>5, <1>6 DEF TypeOK
<1> QED
  BY <1>2, <1>3, <1>7 DEF LogInv

(* removeResolvent keeps it: no pending hint is deleted.                   *)
LEMMA RemoveResolventLog ==
    ASSUME LogInv, NEW cid \in ClauseCids, removeResolvent(cid)
    PROVE  LogInv'
<1>1. /\ db' = Append(db, DeleteRecord(cid)) /\ pid' = Append(pid, 0)
      /\ UNCHANGED <<numInitCl, an, tags, saved, phase, used, work>>
  BY DEF removeResolvent, Collecting, markVars, historyVars
<1>2. /\ DeleteRecord(cid) \in RecordType
      /\ \A h \in HintSet(DeleteRecord(cid)) : h \in ClauseCids
  <2>1. cid \in Nat
    BY DEF ClauseCids, Cids
  <2> QED
    BY <2>1 DEF DeleteRecord, RecordType, ClauseOrigin, HintSet
<1>3. /\ db' \in Seq(RecordType) /\ Len(db') = Len(db) + 1
      /\ Cids \subseteq Cids' /\ ClauseCids \subseteq ClauseCids' /\ HintsPointBack'
  BY <1>1, <1>2, AppendRecord
<1>4. TypeOK'
  <2>1. pid' \in Seq(Nat) /\ Len(pid') = Len(db')
    BY <1>1, <1>3 DEF LogInv, TypeOK
  <2> QED
    BY <1>1, <1>3, <2>1 DEF LogInv, TypeOK
<1>5. PendingInLog'
  BY <1>1, <1>3, SeqMonotonic DEF LogInv, PendingInLog
<1>6. MarkersNested' /\ SavedMatches'
  BY <1>1 DEF LogInv, MarkersNested, SavedMatches
<1> QED
  BY <1>3, <1>4, <1>5, <1>6 DEF LogInv

(* Reordering keeps the hints and their number.                            *)
LEMMA ReorderHints ==
    ASSUME NEW S, NEW s \in Seq(S), NEW hs \in Reorderings(s)
    PROVE  /\ hs \in Seq(S) /\ DOMAIN hs = DOMAIN s
           /\ \A k \in DOMAIN s : \E l \in DOMAIN s : hs[k] = s[l]
           /\ \A k \in DOMAIN s : \E l \in DOMAIN s : s[k] = hs[l]
<1>1. PICK p \in [DOMAIN s -> DOMAIN s] : /\ {p[k] : k \in DOMAIN s} = DOMAIN s
                                         /\ hs = [k \in DOMAIN s |-> s[p[k]]]
  BY DEF Reorderings
<1>2. DOMAIN s = 1 .. Len(s) /\ Len(s) \in Nat /\ \A k \in DOMAIN s : s[k] \in S
  OBVIOUS
<1>3. hs \in [1 .. Len(s) -> S]
  BY <1>1, <1>2
<1>4. hs \in Seq(S) /\ DOMAIN hs = DOMAIN s
  BY <1>2, <1>3
<1>5. \A k \in DOMAIN s : \E l \in DOMAIN s : p[l] = k
  BY <1>1
<1>6. /\ \A k \in DOMAIN s : \E l \in DOMAIN s : hs[k] = s[l]
      /\ \A k \in DOMAIN s : \E l \in DOMAIN s : s[k] = hs[l]
  BY <1>1, <1>5
<1> QED
  BY <1>4, <1>6

(* Visiting a record changes the log at most by reordering its hints.      *)
LEMMA BacktrackDb ==
    ASSUME LogInv, NEW cid \in Cids, backtrackStep(cid)
    PROVE  /\ db' \in Seq(RecordType) /\ Cids' = Cids /\ Len(db') = Len(db)
           /\ \A i \in Cids : /\ HintSet(db'[i]) = HintSet(db[i])
                              /\ IsDelete(db'[i]) <=> IsDelete(db[i])
                              /\ db'[i].lits = db[i].lits
                              /\ db'[i].type = "INITIAL" <=> db[i].type = "INITIAL"
<1>0. db \in Seq(RecordType) /\ Cids = 1 .. Len(db) /\ Len(db) \in Nat
      /\ db[cid] \in RecordType
  BY DEF LogInv, TypeOK, Cids
<1>1. CASE db' = db
  BY <1>0, <1>1 DEF Cids
<1>2. CASE db' # db
  <2>1. PICK hs \in Reorderings(db[cid].hints) :
          /\ db[cid].type = "UNORDERED"
          /\ db' = [db EXCEPT ![cid].type = "ORDERED", ![cid].hints = hs]
    BY <1>2 DEF backtrackStep
  <2> DEFINE r == [db[cid] EXCEPT !.type = "ORDERED", !.hints = hs]
  <2>2. db' = [db EXCEPT ![cid] = r]
    BY <1>0, <2>1
  <2>3. /\ r.type = "ORDERED" /\ r.lits = db[cid].lits /\ r.hints = hs
        /\ db[cid].hints \in Seq(Nat)
    BY <1>0 DEF RecordType
  <2>4. hs \in Seq(Nat) /\ HintSet(r) = HintSet(db[cid])
    <3> HIDE DEF r
    <3> DEFINE s == db[cid].hints
    <3>1. s \in Seq(Nat) /\ hs \in Reorderings(s) /\ r.hints = hs
      BY <2>3
    <3>2. /\ hs \in Seq(Nat) /\ DOMAIN hs = DOMAIN s
          /\ \A k \in DOMAIN s : \E l \in DOMAIN s : hs[k] = s[l]
          /\ \A k \in DOMAIN s : \E l \in DOMAIN s : s[k] = hs[l]
      <4> HIDE DEF s
      <4> QED
        BY <3>1, ReorderHints
    <3>3. HintSet(r) = {hs[k] : k \in DOMAIN hs}
      BY <3>1 DEF HintSet
    <3>4. HintSet(db[cid]) = {s[k] : k \in DOMAIN s}
      BY DEF HintSet
    <3> HIDE DEF s
    <3>5. {hs[k] : k \in DOMAIN hs} = {s[k] : k \in DOMAIN s}
      BY <3>2
    <3> QED
      BY <3>2, <3>3, <3>4, <3>5
  <2>5. r \in RecordType
    BY <1>0, <2>4 DEF RecordType, ClauseOrigin
  <2> HIDE DEF r
  <2>6. db' \in Seq(RecordType) /\ Len(db') = Len(db)
        /\ db'[cid] = r /\ \A i \in Cids \ {cid} : db'[i] = db[i]
    BY <1>0, <2>2, <2>5
  <2>7. \A i \in Cids : /\ HintSet(db'[i]) = HintSet(db[i])
                        /\ IsDelete(db'[i]) <=> IsDelete(db[i])
                        /\ db'[i].lits = db[i].lits
                        /\ db'[i].type = "INITIAL" <=> db[i].type = "INITIAL"
    <3> TAKE i \in Cids
    <3>1. CASE i = cid
      BY <3>1, <2>1, <2>3, <2>4, <2>6 DEF IsDelete
    <3>2. CASE i # cid
      BY <3>2, <2>6
    <3> QED
      BY <3>1, <3>2
  <2> QED
    BY <2>6, <2>7 DEF Cids
<1> QED
  BY <1>1, <1>2

(* A marking step keeps it: the log changes only in the order of hints.    *)
LEMMA BacktrackLog ==
    ASSUME LogInv, NEW cid \in Cids, backtrackStep(cid)
    PROVE  LogInv'
<1>1. /\ db' \in Seq(RecordType) /\ Cids' = Cids /\ Len(db') = Len(db)
      /\ \A i \in Cids : /\ HintSet(db'[i]) = HintSet(db[i])
                         /\ IsDelete(db'[i]) <=> IsDelete(db[i])
  BY BacktrackDb
<1>2. UNCHANGED <<pid, numInitCl, an, phase, tags, saved>>
  BY DEF backtrackStep, historyVars
<1>3. HintsPointBack'
  <2> SUFFICES ASSUME NEW i \in Cids, NEW h \in HintSet(db[i])
               PROVE  h \in 1 .. i - 1 /\ ~IsDelete(db'[h])
    BY <1>1 DEF HintsPointBack
  <2>1. h \in 1 .. i - 1 /\ ~IsDelete(db[h])
    BY DEF LogInv, HintsPointBack
  <2>2. h \in Cids
    BY <2>1 DEF Cids, LogInv, TypeOK
  <2> QED
    BY <1>1, <2>1, <2>2
<1>4. used' \subseteq Cids /\ work' \subseteq used'
  <2>1. HintSet(db[cid]) \subseteq Cids
    BY DEF LogInv, HintsPointBack, Cids, TypeOK
  <2> QED
    BY <2>1 DEF backtrackStep, LogInv, TypeOK
<1>5. TypeOK'
  BY <1>1, <1>2, <1>4 DEF LogInv, TypeOK
<1>6. PendingInLog' /\ MarkersNested' /\ SavedMatches'
  <2>1. ClauseCids' = ClauseCids
    BY <1>1 DEF ClauseCids
  <2> QED
    BY <1>2, <2>1 DEF LogInv, PendingInLog, MarkersNested, SavedMatches
<1> QED
  BY <1>3, <1>5, <1>6 DEF LogInv

(* LogInv is inductive.                                                    *)
LEMMA NextLog == LogInv /\ [Next]_vars => LogInv'
<1> SUFFICES ASSUME LogInv, [Next]_vars PROVE LogInv'
  OBVIOUS
<1>1. ASSUME NEW cid \in LiveCids(db),
             addHint(cid) \/ addUnorderedHint(cid) \/ addUnitHint(cid)
      PROVE  LogInv'
  BY <1>1, LiveIsClause, AddHintLog
<1>2. CASE markRevertableHints
  BY <1>2, MarkLog
<1>3. CASE revertHints
  BY <1>3, RevertLog
<1>4. ASSUME NEW lits \in Clauses, addResolvent(lits, GetOrigin(an))
      PROVE  LogInv'
  <2>1. GetOrigin(an) \in ClauseOrigin
    BY DEF GetOrigin, ClauseOrigin
  <2> QED
    BY <1>4, <2>1, AddResolventLog
<1>5. ASSUME NEW lits \in Clauses, addResolvent(lits, "REDUNDANT")
      PROVE  LogInv'
  BY <1>5, AddResolventLog DEF ClauseOrigin
<1>6. ASSUME NEW cid \in LiveCids(db) \ Pending, removeResolvent(cid)
      PROVE  LogInv'
  BY <1>6, LiveIsClause, RemoveResolventLog
<1>7. ASSUME NEW cid \in Cids, backtrackStep(cid)
      PROVE  LogInv'
  BY <1>7, BacktrackLog
<1>8. CASE backtrackDone
  BY <1>8 DEF backtrackDone, tracerVars, historyVars, LogInv, TypeOK, PendingInLog,
     MarkersNested, SavedMatches, HintsPointBack, Cids, ClauseCids
<1>9. CASE UNCHANGED vars
  BY <1>9 DEF vars, LogInv, TypeOK, PendingInLog, MarkersNested, SavedMatches,
     HintsPointBack, Cids, ClauseCids
<1> QED
  BY <1>1, <1>2, <1>3, <1>4, <1>5, <1>6, <1>7, <1>8, <1>9
     DEF Next, ClientStep, MarkStep

(* LogInv holds in every reachable state.                                  *)
LEMMA LogInvariant == Spec => []LogInv
BY InitLog, NextLog, PTL DEF Spec

(* The types hold for every set of clauses and logs of every length.       *)
THEOREM TypeCorrect == Spec => []TypeOK
<1>1. LogInv => TypeOK
  BY DEF LogInv
<1> QED
  BY <1>1, LogInvariant, PTL

(* Every hint names an earlier clause record, whatever the client does     *)
(* with markers and reverts, and marking keeps it so.                      *)
THEOREM WellFounded == Spec => []HintsPointBack
<1>1. LogInv => HintsPointBack
  BY DEF LogInv
<1> QED
  BY <1>1, LogInvariant, PTL

-----------------------------------------------------------------------------
(* How far backward marking has come: what is marked and not waiting to be *)
(* visited has all its hints marked.                                       *)
MarkProgress ==
    /\ phase = "collect" => used = {} /\ work = {}
    /\ phase = "done" => work = {}
    /\ \A i \in used \ work : HintSet(db[i]) \subseteq used

MarkInv == MarkProgress /\ MarkedNeeded

(* Collecting hints leaves the marking invariant alone.                    *)
LEMMA CollectMark ==
    ASSUME MarkInv, Collecting, phase = "collect"
    PROVE  MarkInv'
<1>1. used' = {} /\ work' = {} /\ phase' = "collect"
  BY DEF MarkInv, MarkProgress, Collecting, markVars
<1> QED
  BY <1>1 DEF MarkInv, MarkProgress, MarkedNeeded

(* addResolvent keeps it; the empty clause starts the marking with itself. *)
LEMMA AddResolventMark ==
    ASSUME LogInv, MarkInv, NEW lits \in Clauses, NEW origin \in ClauseOrigin,
           addResolvent(lits, origin)
    PROVE  MarkInv'
<1>1. CASE lits = EmptyClause
  <2>1. used' = {Len(db')} /\ work' = used' /\ phase' = "mark"
    BY <1>1 DEF addResolvent
  <2>2. db'[Len(db')] = Resolvent(an, lits, origin)
    <3>1. db' = Append(db, Resolvent(an, lits, origin))
      BY DEF addResolvent
    <3> QED
      BY <3>1, ResolventRecord, AppendRecord
  <2>3. Resolvent(an, lits, origin).lits = EmptyClause
    BY <1>1 DEF Resolvent
  <2> QED
    BY <2>1, <2>2, <2>3 DEF MarkInv, MarkProgress, MarkedNeeded
<1>2. CASE lits # EmptyClause
  <2>1. used' = {} /\ work' = {} /\ phase' = "collect"
    BY <1>2 DEF addResolvent, MarkInv, MarkProgress, markVars
  <2> QED
    BY <2>1 DEF MarkInv, MarkProgress, MarkedNeeded
<1> QED
  BY <1>1, <1>2

(* A marking step keeps it: what is newly marked is a hint of a needed record. *)
LEMMA BacktrackMark ==
    ASSUME LogInv, MarkInv, NEW cid \in Cids, backtrackStep(cid)
    PROVE  MarkInv'
<1> DEFINE new == HintSet(db[cid]) \ used
<1>1. /\ phase = "mark" /\ phase' = "mark" /\ cid \in work /\ cid \in used
      /\ used' = used \cup new /\ work' = (work \ {cid}) \cup new
  BY DEF backtrackStep, LogInv, TypeOK
<1>2. /\ used \subseteq Cids /\ used' \subseteq Cids
      /\ \A i \in Cids : /\ HintSet(db'[i]) = HintSet(db[i])
                         /\ db'[i].lits = db[i].lits
  <2>1. /\ Cids' = Cids
        /\ \A i \in Cids : /\ HintSet(db'[i]) = HintSet(db[i])
                           /\ db'[i].lits = db[i].lits
    BY BacktrackDb
  <2>2. used \subseteq Cids
    BY DEF LogInv, TypeOK
  <2>3. TypeOK'
    BY BacktrackLog DEF LogInv
  <2> QED
    BY <2>1, <2>2, <2>3 DEF TypeOK
<1>3. MarkProgress'
  <2>1. \A i \in used' \ work' : HintSet(db[i]) \subseteq used'
    BY <1>1 DEF MarkInv, MarkProgress
  <2> QED
    BY <1>1, <1>2, <2>1 DEF MarkProgress
<1>4. MarkedNeeded'
  <2> SUFFICES ASSUME NEW i \in used', db[i].lits # EmptyClause
               PROVE  \E j \in used' : i < j /\ i \in HintSet(db[j])
    BY <1>2 DEF MarkedNeeded
  <2>1. CASE i \in used
    BY <1>1, <2>1 DEF MarkInv, MarkedNeeded
  <2>2. CASE i \in new
    <3>1. i \in HintSet(db[cid])
      BY <2>2
    <3>2. i < cid
      <4>1. i \in 1 .. cid - 1 /\ cid \in Int
        BY <3>1 DEF LogInv, HintsPointBack, Cids
      <4> QED
        BY <4>1
    <3> QED
      BY <1>1, <3>1, <3>2
  <2> QED
    BY <1>1, <2>1, <2>2
<1> QED
  BY <1>3, <1>4 DEF MarkInv

(* MarkInv is inductive relative to LogInv.                                *)
LEMMA NextMark == LogInv /\ MarkInv /\ [Next]_vars => MarkInv'
<1> SUFFICES ASSUME LogInv, MarkInv, [Next]_vars PROVE MarkInv'
  OBVIOUS
<1>1. ASSUME NEW cid,
             \/ addHint(cid) \/ addUnorderedHint(cid) \/ addUnitHint(cid)
             \/ removeResolvent(cid)
      PROVE  MarkInv'
  BY <1>1, CollectMark
     DEF addHint, addUnorderedHint, addUnitHint, removeResolvent, Collecting
<1>2. CASE markRevertableHints \/ revertHints
  BY <1>2, CollectMark DEF markRevertableHints, revertHints, Collecting
<1>3. ASSUME NEW lits \in Clauses,
             addResolvent(lits, GetOrigin(an)) \/ addResolvent(lits, "REDUNDANT")
      PROVE  MarkInv'
  <2>1. GetOrigin(an) \in ClauseOrigin /\ "REDUNDANT" \in ClauseOrigin
    BY DEF GetOrigin, ClauseOrigin
  <2> QED
    BY <1>3, <2>1, AddResolventMark
<1>4. ASSUME NEW cid \in Cids, backtrackStep(cid)
      PROVE  MarkInv'
  BY <1>4, BacktrackMark
<1>5. CASE backtrackDone
  BY <1>5 DEF backtrackDone, tracerVars, MarkInv, MarkProgress, MarkedNeeded
<1>6. CASE UNCHANGED vars
  BY <1>6 DEF vars, MarkInv, MarkProgress, MarkedNeeded
<1> QED
  BY <1>1, <1>2, <1>3, <1>4, <1>5, <1>6 DEF Next, ClientStep, MarkStep

(* MarkInv holds in every reachable state.                                 *)
LEMMA MarkInvariant == Spec => []MarkInv
<1>1. Init => MarkInv
  BY DEF Init, MarkInv, MarkProgress, MarkedNeeded
<1> QED
  BY <1>1, NextMark, LogInvariant, PTL DEF Spec

(* When marking is over the marked records contain every hint they need:   *)
(* what is dumped is a complete refutation.                                *)
THEOREM MarkingComplete == Spec => []MarkedClosed
<1>1. MarkInv => MarkedClosed
  BY DEF MarkInv, MarkProgress, MarkedClosed
<1> QED
  BY <1>1, MarkInvariant, PTL

(* Only what the empty clause needs is marked.                             *)
THEOREM MarkingMinimal == Spec => []MarkedNeeded
<1>1. MarkInv => MarkedNeeded
  BY DEF MarkInv
<1> QED
  BY <1>1, MarkInvariant, PTL

-----------------------------------------------------------------------------
(* The hint buffers and the log related to how they came about: markers    *)
(* bring back what was pending when they were taken, the counter of        *)
(* unordered hints is exact, and the input clauses are numbered in their   *)
(* order.                                                                  *)

(* The marker m cuts the buffers back to what the snapshot sn holds.       *)
Exact(m, sn, hints, units) ==
    /\ SubSeq(hints, 1, m.nHints) = sn.hints
    /\ SubSeq(units, 1, m.nUnitHints) = sn.units
    /\ m.nUnordered = Trues(sn.tags)
    /\ Len(sn.tags) = m.nHints

HistoryInv ==
    /\ Len(tags) = Len(an.hints)
    /\ an.nUnordered = Trues(tags)
    /\ \A k \in 1 .. Len(saved) : Exact(an.reverts[k], saved[k], an.hints, an.units)

LEMMA HistoryPrimed ==
    ASSUME Len(tags') = Len(an'.hints), an'.nUnordered = Trues(tags'),
           \A k \in 1 .. Len(saved') : Exact(an'.reverts[k], saved'[k], an'.hints, an'.units)
    PROVE  HistoryInv'
BY DEF HistoryInv, Trues, Exact

(* A marker's lengths are within the buffers.                              *)
LEMMA MarkerTypes ==
    ASSUME LogInv, NEW k \in 1 .. Len(saved)
    PROVE  /\ k \in DOMAIN an.reverts
           /\ an.reverts[k] \in RevertMarker
           /\ an.reverts[k].nHints \in Nat /\ an.reverts[k].nHints <= Len(an.hints)
           /\ an.reverts[k].nUnitHints \in Nat /\ an.reverts[k].nUnitHints <= Len(an.units)
<1>1. LogTyped /\ MarkersNested
  BY LogTypes
<1>2. k \in DOMAIN an.reverts /\ an.reverts[k] \in RevertMarker
  <2>1. k \in 1 .. Len(an.reverts) /\ an.reverts \in Seq(RevertMarker)
    BY <1>1 DEF LogTyped
  <2> QED
    BY <2>1, ElementOfSeq, LenProperties
<1> QED
  BY <1>1, <1>2 DEF RevertMarker, MarkersNested

(* Longer buffers leave the markers exact.                                 *)
LEMMA ExactGrow ==
    ASSUME LogInv, NEW k \in 1 .. Len(saved), NEW sn, NEW cid \in Nat,
           Exact(an.reverts[k], sn, an.hints, an.units)
    PROVE  /\ Exact(an.reverts[k], sn, Append(an.hints, cid), an.units)
           /\ Exact(an.reverts[k], sn, an.hints, Append(an.units, cid))
<1>1. LogTyped
  BY LogTypes
<1>2. /\ SubSeq(Append(an.hints, cid), 1, an.reverts[k].nHints)
           = SubSeq(an.hints, 1, an.reverts[k].nHints)
      /\ SubSeq(Append(an.units, cid), 1, an.reverts[k].nUnitHints)
           = SubSeq(an.units, 1, an.reverts[k].nUnitHints)
  <2> DEFINE a == an.reverts[k].nHints
             b == an.reverts[k].nUnitHints
  <2>1. /\ an.hints \in Seq(Nat) /\ a \in 0 .. Len(an.hints)
        /\ an.units \in Seq(Nat) /\ b \in 0 .. Len(an.units)
    BY <1>1, MarkerTypes DEF LogTyped
  <2> HIDE DEF a, b
  <2>2. SubSeq(Append(an.hints, cid), 1, a) = SubSeq(an.hints, 1, a)
    BY <2>1, FirstOfMore
  <2>3. SubSeq(Append(an.units, cid), 1, b) = SubSeq(an.units, 1, b)
    BY <2>1, FirstOfMore
  <2> QED
    BY <2>2, <2>3 DEF a, b
<1> QED
  BY <1>2 DEF Exact

LEMMA AddHistory ==
    ASSUME LogInv, HistoryInv, NEW cid \in Nat,
           addHint(cid) \/ addUnorderedHint(cid) \/ addUnitHint(cid)
    PROVE  HistoryInv'
<1>1. LogTyped
  BY LogTypes
<1>2. saved' = saved /\ an'.reverts = an.reverts
  BY <1>1 DEF addHint, addUnorderedHint, addUnitHint, AddHint, AddUnorderedHint, AddUnitHint,
              LogTyped, BufferType, historyVars
<1>3. CASE addHint(cid) \/ addUnorderedHint(cid)
  <2>1. PICK b \in BOOLEAN :
          /\ an'.hints = Append(an.hints, cid) /\ an'.units = an.units
          /\ tags' = Append(tags, b)
          /\ an'.nUnordered = IF b THEN an.nUnordered + 1 ELSE an.nUnordered
    BY <1>1, <1>3 DEF addHint, addUnorderedHint, AddHint, AddUnorderedHint, LogTyped, BufferType
  <2>2. Len(tags') = Len(an'.hints)
    BY <1>1, <2>1 DEF LogTyped, HistoryInv
  <2>3. an'.nUnordered = Trues(tags')
    BY <1>1, <2>1, TruesAppend DEF LogTyped, HistoryInv
  <2>4. \A k \in 1 .. Len(saved) : Exact(an.reverts[k], saved[k], an'.hints, an'.units)
    BY <2>1, ExactGrow DEF HistoryInv
  <2> QED
    BY <1>2, <2>2, <2>3, <2>4, HistoryPrimed
<1>4. CASE addUnitHint(cid)
  <2>1. /\ an'.hints = an.hints /\ an'.units = Append(an.units, cid) /\ tags' = tags
        /\ an'.nUnordered = an.nUnordered
    BY <1>1, <1>4 DEF addUnitHint, AddUnitHint, historyVars, LogTyped, BufferType
  <2>2. \A k \in 1 .. Len(saved) : Exact(an.reverts[k], saved[k], an'.hints, an'.units)
    BY <2>1, ExactGrow DEF HistoryInv
  <2>3. Len(tags') = Len(an'.hints) /\ an'.nUnordered = Trues(tags')
    BY <2>1 DEF HistoryInv
  <2> QED
    BY <1>2, <2>2, <2>3, HistoryPrimed
<1> QED
  BY <1>3, <1>4

(* A marker is exact when it is taken.                                     *)
LEMMA MarkHistory == ASSUME LogInv, HistoryInv, markRevertableHints PROVE HistoryInv'
<1>1. LogTyped
  BY LogTypes
<1> DEFINE n == Len(saved)
           m == [nUnordered |-> an.nUnordered, nUnitHints |-> Len(an.units),
                 nHints |-> Len(an.hints)]
<1>2. /\ an'.hints = an.hints /\ an'.units = an.units /\ an'.nUnordered = an.nUnordered
      /\ an'.reverts = Append(an.reverts, m) /\ saved' = Append(saved, Snapshot)
      /\ tags' = tags
  BY <1>1 DEF markRevertableHints, MarkRevertableHints, LogTyped, BufferType
<1>3. Exact(m, Snapshot, an.hints, an.units)
  BY <1>1, FirstOf, LenProperties DEF Exact, Snapshot, HistoryInv, LogTyped
<1>4. /\ Len(saved') = n + 1 /\ n \in Nat
      /\ \A k \in 1 .. n : saved'[k] = saved[k] /\ an'.reverts[k] = an.reverts[k]
      /\ saved'[n + 1] = Snapshot /\ an'.reverts[n + 1] = m
  <2>1. m \in RevertMarker /\ Snapshot \in SnapshotType /\ n = Len(an.reverts)
    BY <1>1 DEF RevertMarker, Snapshot, SnapshotType, LogTyped
  <2>2. saved \in Seq(SnapshotType) /\ an.reverts \in Seq(RevertMarker)
    BY <1>1 DEF LogTyped
  <2> HIDE DEF m
  <2> QED
    BY <1>2, <2>1, <2>2, AppendProperties, LenProperties
<1> HIDE DEF m, n
<1>5. \A k \in 1 .. n + 1 : Exact(an'.reverts[k], saved'[k], an.hints, an.units)
  <2> SUFFICES ASSUME NEW k \in 1 .. n + 1
               PROVE  Exact(an'.reverts[k], saved'[k], an.hints, an.units)
    OBVIOUS
  <2>1. CASE k = n + 1
    BY <1>3, <1>4, <2>1
  <2>2. CASE k \in 1 .. n
    BY <1>4, <2>2 DEF HistoryInv, n
  <2> QED
    BY <1>4, <2>1, <2>2
<1> QED
  BY <1>2, <1>4, <1>5, ZenonT(30) DEF HistoryInv, Trues, Exact

(* Going back to a marker leaves the earlier ones exact.                   *)
LEMMA RevertHistory == ASSUME LogInv, HistoryInv, revertHints PROVE HistoryInv'
<1> DEFINE n == Len(saved)
           m == an.reverts[n]
<1>1. LogTyped /\ MarkersNested /\ Len(an.reverts) = n
  BY LogTypes DEF LogTyped
<1>2. n \in 1 .. n /\ n \in Nat
  BY <1>1, LenProperties, EmptySeq DEF LogTyped, revertHints
<1>3. /\ an'.hints = SubSeq(an.hints, 1, m.nHints)
      /\ an'.units = SubSeq(an.units, 1, m.nUnitHints)
      /\ an'.reverts = SubSeq(an.reverts, 1, n - 1)
      /\ an'.nUnordered = m.nUnordered
      /\ tags' = saved[n].tags /\ saved' = SubSeq(saved, 1, n - 1)
  BY <1>1 DEF revertHints, RevertHints
<1>4. /\ m.nHints \in Nat /\ m.nHints <= Len(an.hints)
      /\ m.nUnitHints \in Nat /\ m.nUnitHints <= Len(an.units)
  BY <1>2, MarkerTypes
<1>5. Exact(m, saved[n], an.hints, an.units)
  BY <1>2 DEF HistoryInv
<1>6. Len(an'.hints) = m.nHints
  BY <1>1, <1>3, <1>4, FirstOf DEF LogTyped
<1>7. Len(tags') = Len(an'.hints) /\ an'.nUnordered = Trues(tags')
  BY <1>3, <1>5, <1>6 DEF Exact
<1>8. /\ Len(saved') = n - 1
      /\ \A k \in 1 .. n - 1 : saved'[k] = saved[k] /\ an'.reverts[k] = an.reverts[k]
  <2>1. n - 1 \in Nat /\ n - 1 <= Len(saved) /\ n - 1 <= Len(an.reverts)
    BY <1>1, <1>2
  <2> HIDE DEF n
  <2> QED
    BY <1>1, <1>3, <2>1, FirstOf DEF LogTyped
<1>9. ASSUME NEW k \in 1 .. n - 1
      PROVE  Exact(an.reverts[k], saved[k], an'.hints, an'.units)
  <2>1. k \in 1 .. n /\ k < n
    BY <1>2
  <2>2. Exact(an.reverts[k], saved[k], an.hints, an.units)
    BY <2>1 DEF HistoryInv
  <2>3. /\ an.reverts[k].nHints \in Nat /\ an.reverts[k].nUnitHints \in Nat
        /\ an.reverts[k].nHints <= m.nHints /\ an.reverts[k].nUnitHints <= m.nUnitHints
    BY <1>2, <2>1, MarkerTypes, <1>1 DEF MarkersNested
  <2>4. SubSeq(an'.hints, 1, an.reverts[k].nHints) = SubSeq(an.hints, 1, an.reverts[k].nHints)
    <3>1. an.hints \in Seq(Nat)
      BY <1>1 DEF LogTyped
    <3> HIDE DEF m
    <3>2. SubSeq(SubSeq(an.hints, 1, m.nHints), 1, an.reverts[k].nHints)
            = SubSeq(an.hints, 1, an.reverts[k].nHints)
      BY ONLY <1>4, <2>3, <3>1, FirstOfFirst
    <3> QED
      BY <1>3, <3>2
  <2>5. SubSeq(an'.units, 1, an.reverts[k].nUnitHints)
          = SubSeq(an.units, 1, an.reverts[k].nUnitHints)
    <3>1. an.units \in Seq(Nat)
      BY <1>1 DEF LogTyped
    <3> HIDE DEF m
    <3>2. SubSeq(SubSeq(an.units, 1, m.nUnitHints), 1, an.reverts[k].nUnitHints)
            = SubSeq(an.units, 1, an.reverts[k].nUnitHints)
      BY ONLY <1>4, <2>3, <3>1, FirstOfFirst
    <3> QED
      BY <1>3, <3>2
  <2> QED
    BY <2>2, <2>4, <2>5 DEF Exact
<1> HIDE DEF m, n
<1> QED
  BY <1>3, <1>7, <1>8, <1>9, HistoryPrimed

LEMMA HistoryStep == LogInv /\ HistoryInv /\ [Next]_vars => HistoryInv'
<1> SUFFICES ASSUME LogInv, HistoryInv, [Next]_vars
             PROVE  HistoryInv'
  OBVIOUS
<1>1. ASSUME NEW cid \in LiveCids(db),
             addHint(cid) \/ addUnorderedHint(cid) \/ addUnitHint(cid)
      PROVE  HistoryInv'
  <2>1. cid \in Nat
    BY LiveIsClause DEF ClauseCids, Cids
  <2> QED
    BY <1>1, <2>1, AddHistory
<1>2. CASE markRevertableHints
  BY <1>2, MarkHistory
<1>3. CASE revertHints
  BY <1>3, RevertHistory
<1>4. ASSUME NEW lits, NEW origin, addResolvent(lits, origin)
      PROVE  HistoryInv'
  <2>1. an' = NoHints /\ tags' = <<>> /\ saved' = <<>>
    BY <1>4 DEF addResolvent
  <2> QED
    BY <2>1, TruesEmpty DEF HistoryInv, NoHints, Trues
<1>5. CASE UNCHANGED <<an, tags, saved>>
  BY <1>5 DEF HistoryInv, Trues, Exact
<1> QED
  BY <1>1, <1>2, <1>3, <1>4, <1>5
     DEF Next, ClientStep, MarkStep, removeResolvent, backtrackStep, backtrackDone,
         tracerVars, historyVars, vars

LEMMA HistoryInvariant == Spec => []HistoryInv
<1>1. Init => HistoryInv
  BY TruesEmpty DEF Init, HistoryInv, NoHints
<1> QED
  BY <1>1, HistoryStep, LogInvariant, PTL DEF Spec

(* revertHints would bring back exactly what was pending when its marker   *)
(* was taken, for buffers of any length and markers nested to any depth.   *)
THEOREM MarkersStayExact == Spec => []MarkersExact
<1>1. LogInv /\ HistoryInv => MarkersExact
  BY DEF LogInv, SavedMatches, HistoryInv, Exact, MarkersExact, Trues
<1> QED
  BY <1>1, LogInvariant, HistoryInvariant, PTL

(* nUnordered counts the hints that are not in propagation order, also     *)
(* after reverts: what is recorded as ORDERED has none.                    *)
THEOREM UnorderedCountExact == Spec => []UnorderedCounted
<1>1. HistoryInv => UnorderedCounted
  BY DEF HistoryInv, UnorderedCounted, Trues
<1> QED
  BY <1>1, HistoryInvariant, PTL

-----------------------------------------------------------------------------
(* The numbering of the input clauses.                                     *)

(* A record added to the log, with the proof id its header gets.           *)
LEMMA NumberedAppend ==
    ASSUME LogInv, InitialNumbered, NEW r \in RecordType,
           db' = Append(db, r),
           numInitCl' = IF r.type = "INITIAL" THEN numInitCl + 1 ELSE numInitCl,
           pid' = Append(pid, IF r.type = "INITIAL" THEN numInitCl' ELSE 0)
    PROVE  InitialNumbered'
<1> DEFINE n == Len(db)
           new == n + 1
           x == IF r.type = "INITIAL" THEN numInitCl' ELSE 0
<1>1. /\ db \in Seq(RecordType) /\ pid \in Seq(Nat) /\ Len(pid) = n /\ n \in Nat
      /\ numInitCl \in Nat /\ x \in Nat
  BY DEF LogInv, TypeOK
<1>2. /\ Len(db') = new /\ Len(pid') = new
      /\ \A i \in 1 .. n : db'[i] = db[i] /\ pid'[i] = pid[i]
      /\ db'[new] = r /\ pid'[new] = x
  <2>1. pid' = Append(pid, x)
    OBVIOUS
  <2> HIDE DEF x
  <2> QED
    BY <1>1, <2>1
<1>3. Cids = 1 .. n /\ Cids' = 1 .. new
  BY <1>2 DEF Cids
<1>4. \A i \in Cids : db[i].type = "INITIAL" => pid[i] \in 1 .. numInitCl
  BY DEF InitialNumbered
<1> HIDE DEF n, x
<1>5. \A i \in 1 .. new : i = new \/ i \in 1 .. n
  BY <1>1
<1>6. \A i \in Cids' : db'[i].type = "INITIAL" => pid'[i] \in 1 .. numInitCl'
  BY <1>1, <1>2, <1>3, <1>4, <1>5 DEF x
<1>7. \A k \in 1 .. numInitCl' : \E i \in Cids' : db'[i].type = "INITIAL" /\ pid'[i] = k
  <2> SUFFICES ASSUME NEW k \in 1 .. numInitCl'
               PROVE  \E i \in Cids' : db'[i].type = "INITIAL" /\ pid'[i] = k
    OBVIOUS
  <2>1. CASE k \in 1 .. numInitCl
    <3>1. PICK i \in Cids : db[i].type = "INITIAL" /\ pid[i] = k
      BY <2>1 DEF InitialNumbered
    <3>2. i \in 1 .. n /\ i \in Cids'
      BY <1>1, <1>3, <3>1
    <3> QED
      BY <1>2, <3>1, <3>2
  <2>2. CASE r.type = "INITIAL" /\ k = numInitCl + 1
    <3>1. new \in Cids' /\ pid'[new] = k
      BY <1>1, <1>2, <1>3, <2>2 DEF x
    <3> QED
      BY <1>2, <2>2, <3>1
  <2>3. k \in 1 .. numInitCl \/ (r.type = "INITIAL" /\ k = numInitCl + 1)
    <3>1. k \in 1 .. IF r.type = "INITIAL" THEN numInitCl + 1 ELSE numInitCl
      OBVIOUS
    <3> QED
      BY ONLY <1>1, <3>1
  <2> QED
    BY <2>1, <2>2, <2>3
<1>8. ASSUME NEW i \in Cids', NEW j \in Cids', i < j,
             db'[i].type = "INITIAL", db'[j].type = "INITIAL"
      PROVE  pid'[i] < pid'[j]
  <2>1. i \in 1 .. n
    BY <1>1, <1>3, <1>8
  <2>2. CASE j \in 1 .. n
    BY <1>2, <1>3, <1>8, <2>1, <2>2 DEF InitialNumbered
  <2>3. CASE j = new
    <3>1. pid'[i] \in 1 .. numInitCl
      BY <1>2, <1>3, <1>4, <1>8, <2>1
    <3>2. pid'[j] = numInitCl + 1
      BY <1>2, <1>8, <2>3 DEF x
    <3>3. pid'[i] \in Nat /\ pid'[i] <= numInitCl
      BY ONLY <1>1, <3>1
    <3> QED
      BY ONLY <1>1, <3>2, <3>3
  <2> QED
    BY <1>3, <1>5, <2>2, <2>3
<1> QED
  BY <1>6, <1>7, <1>8 DEF InitialNumbered

LEMMA NumberedStep == LogInv /\ InitialNumbered /\ [Next]_vars => InitialNumbered'
<1> SUFFICES ASSUME LogInv, InitialNumbered, [Next]_vars
             PROVE  InitialNumbered'
  OBVIOUS
<1>1. ASSUME NEW lits \in Clauses, NEW origin \in ClauseOrigin, addResolvent(lits, origin)
      PROVE  InitialNumbered'
  <2>1. /\ Resolvent(an, lits, origin) \in RecordType
        /\ Resolvent(an, lits, origin).type = origin
    BY ResolventRecord DEF Resolvent
  <2> QED
    BY <1>1, <2>1, NumberedAppend DEF addResolvent
<1>2. ASSUME NEW cid \in LiveCids(db), removeResolvent(cid)
      PROVE  InitialNumbered'
  <2>1. DeleteRecord(cid) \in RecordType /\ DeleteRecord(cid).type = "DELETE"
    <3>1. cid \in Nat
      BY LiveIsClause DEF ClauseCids, Cids
    <3> QED
      BY <3>1 DEF DeleteRecord, RecordType, ClauseOrigin
  <2> QED
    BY <1>2, <2>1, NumberedAppend DEF removeResolvent
<1>3. ASSUME NEW cid \in Cids, backtrackStep(cid)
      PROVE  InitialNumbered'
  <2>1. /\ Cids' = Cids /\ UNCHANGED <<pid, numInitCl>>
        /\ \A i \in Cids : db'[i].type = "INITIAL" <=> db[i].type = "INITIAL"
    BY <1>3, BacktrackDb DEF backtrackStep
  <2> QED
    BY <2>1 DEF InitialNumbered
<1>4. CASE UNCHANGED <<db, pid, numInitCl>>
  BY <1>4 DEF InitialNumbered, Cids
<1>5. GetOrigin(an) \in ClauseOrigin /\ "REDUNDANT" \in ClauseOrigin
  BY DEF GetOrigin, ClauseOrigin
<1> QED
  BY <1>1, <1>2, <1>3, <1>4, <1>5
     DEF Next, ClientStep, MarkStep, addHint, addUnorderedHint, addUnitHint,
         markRevertableHints, revertHints, backtrackDone, tracerVars, vars

(* The proof ids of the input clauses are their numbers in the input file, *)
(* however many clauses are derived and removed between them.              *)
THEOREM InputsNumbered == Spec => []InitialNumbered
<1>1. Init => InitialNumbered
  BY DEF Init, InitialNumbered, Cids
<1> QED
  BY <1>1, NumberedStep, LogInvariant, PTL DEF Spec

-----------------------------------------------------------------------------
(* The files: in a GRIT or LRAT file every number stands for the one       *)
(* clause the log means, whichever other files were asked for.             *)
-----------------------------------------------------------------------------
(* Deletions in the log.  A DELETE record names one clause, and from then  *)
(* on no record and no pending hint does.                                  *)
Deletes(d, c) == IsDelete(db[d]) /\ db[d].hints[1] = c

DeletionInv ==
    /\ \A d \in Cids : IsDelete(db[d]) => Len(db[d].hints) = 1
    /\ \A d, i \in Cids : IsDelete(db[d]) /\ d < i => db[d].hints[1] \notin HintSet(db[i])
    /\ \A d \in Cids : IsDelete(db[d]) => db[d].hints[1] \notin Pending

(* What is pending after more hints, or after fewer.                       *)
LEMMA PendingStep ==
    ASSUME LogInv, DeletionInv, db' = db,
           \A h \in Pending' : h \in Pending \/ h \in LiveCids(db)
    PROVE  DeletionInv'
<1>1. \A d \in Cids : IsDelete(db[d]) => db[d].hints[1] \notin LiveCids(db)
  BY DEF LiveCids, DeletedCids, Cids
<1>2. Cids' = Cids
  BY DEF Cids
<1>3. \A d \in Cids : IsDelete(db[d]) => db[d].hints[1] \notin Pending'
  BY <1>1 DEF DeletionInv
<1> QED
  BY <1>2, <1>3 DEF DeletionInv

LEMMA AddHintDeletion ==
    ASSUME LogInv, DeletionInv, NEW cid \in LiveCids(db),
           addHint(cid) \/ addUnorderedHint(cid) \/ addUnitHint(cid)
    PROVE  DeletionInv'
<1>1. LogTyped
  BY LogTypes
<1>2. cid \in Nat
  BY LiveIsClause DEF ClauseCids, Cids
<1>3. db' = db
  BY DEF addHint, addUnorderedHint, addUnitHint
<1>4. \/ an'.hints = Append(an.hints, cid) /\ an'.units = an.units
      \/ an'.hints = an.hints /\ an'.units = Append(an.units, cid)
  BY <1>1 DEF addHint, addUnorderedHint, addUnitHint, AddHint, AddUnorderedHint, AddUnitHint,
              LogTyped, BufferType
<1>5. \A h \in Pending' : h \in Pending \/ h = cid
  <2>1. an.hints \in Seq(Nat) /\ an.units \in Seq(Nat)
    BY <1>1 DEF LogTyped
  <2>2. CASE an'.hints = Append(an.hints, cid) /\ an'.units = an.units
    <3>1. \A k \in DOMAIN an'.hints :
            an'.hints[k] = cid \/ (k \in DOMAIN an.hints /\ an'.hints[k] = an.hints[k])
      BY <1>2, <2>1, <2>2, AppendProperties
    <3> QED
      BY <2>2, <3>1 DEF Pending
  <2>3. CASE an'.hints = an.hints /\ an'.units = Append(an.units, cid)
    <3>1. \A k \in DOMAIN an'.units :
            an'.units[k] = cid \/ (k \in DOMAIN an.units /\ an'.units[k] = an.units[k])
      BY <1>2, <2>1, <2>3, AppendProperties
    <3> QED
      BY <2>3, <3>1 DEF Pending
  <2> QED
    BY <1>4, <2>2, <2>3
<1> QED
  BY <1>3, <1>5, PendingStep

LEMMA RevertDeletion == ASSUME LogInv, DeletionInv, revertHints PROVE DeletionInv'
<1> DEFINE n == Len(an.reverts)
           m == an.reverts[n]
<1>1. LogTyped /\ MarkersNested
  BY LogTypes
<1>2. n \in 1 .. Len(saved)
  BY <1>1, EmptySeq, LenProperties DEF LogTyped, revertHints
<1>3. /\ m.nHints \in Nat /\ m.nHints <= Len(an.hints)
      /\ m.nUnitHints \in Nat /\ m.nUnitHints <= Len(an.units)
  BY <1>2, MarkerTypes
<1>4. /\ an'.hints = SubSeq(an.hints, 1, m.nHints)
      /\ an'.units = SubSeq(an.units, 1, m.nUnitHints)
      /\ db' = db
  BY <1>1 DEF revertHints, RevertHints
<1> HIDE DEF m
<1>5. /\ \A k \in DOMAIN an'.hints : k \in DOMAIN an.hints /\ an'.hints[k] = an.hints[k]
      /\ \A k \in DOMAIN an'.units : k \in DOMAIN an.units /\ an'.units[k] = an.units[k]
  <2>1. an.hints \in Seq(Nat) /\ an.units \in Seq(Nat)
    BY <1>1 DEF LogTyped
  <2>2. /\ SubSeq(an.hints, 1, m.nHints) \in Seq(Nat)
        /\ Len(SubSeq(an.hints, 1, m.nHints)) = m.nHints
        /\ \A i \in 1 .. m.nHints : SubSeq(an.hints, 1, m.nHints)[i] = an.hints[i]
    BY <1>3, <2>1, Prefix
  <2>3. /\ SubSeq(an.units, 1, m.nUnitHints) \in Seq(Nat)
        /\ Len(SubSeq(an.units, 1, m.nUnitHints)) = m.nUnitHints
        /\ \A i \in 1 .. m.nUnitHints : SubSeq(an.units, 1, m.nUnitHints)[i] = an.units[i]
    BY <1>3, <2>1, Prefix
  <2>4. /\ \A k \in 1 .. m.nHints : k \in DOMAIN an.hints
        /\ \A k \in 1 .. m.nUnitHints : k \in DOMAIN an.units
    <3>1. DOMAIN an.hints = 1 .. Len(an.hints) /\ DOMAIN an.units = 1 .. Len(an.units)
      BY <2>1
    <3>2. Len(an.hints) \in Nat /\ Len(an.units) \in Nat
      BY <2>1
    <3> QED
      BY ONLY <1>3, <3>1, <3>2
  <2>5. DOMAIN an'.hints = 1 .. m.nHints /\ DOMAIN an'.units = 1 .. m.nUnitHints
    <3>1. an'.hints \in Seq(Nat) /\ Len(an'.hints) = m.nHints
      BY <1>4, <2>2
    <3>2. an'.units \in Seq(Nat) /\ Len(an'.units) = m.nUnitHints
      BY <1>4, <2>3
    <3> QED
      BY <3>1, <3>2
  <2> QED
    BY <1>4, <2>2, <2>3, <2>4, <2>5
<1>6. \A h \in Pending' : h \in Pending
  BY <1>5 DEF Pending
<1> QED
  BY <1>4, <1>6, PendingStep

LEMMA AddResolventDeletion ==
    ASSUME LogInv, DeletionInv, NEW lits \in Clauses, NEW origin \in ClauseOrigin \ {"DELETE"},
           addResolvent(lits, origin)
    PROVE  DeletionInv'
<1> DEFINE r == Resolvent(an, lits, origin)
<1>1. LogTyped
  BY LogTypes
<1>2. r \in RecordType /\ \A h \in HintSet(r) : h \in ClauseCids
  BY ResolventRecord
<1>3. ~IsDelete(r) /\ r.hints = an.hints \o an.units
  BY DEF Resolvent, IsDelete
<1>4. \A h \in HintSet(r) : h \in Pending
  <2>1. an.hints \in Seq(Nat) /\ an.units \in Seq(Nat)
    BY <1>1 DEF LogTyped
  <2>2. /\ an.hints \o an.units \in Seq(Nat)
        /\ Elems(an.hints \o an.units) = Elems(an.hints) \cup Elems(an.units)
    BY <2>1, ElemsConcat
  <2>3. HintSet(r) = Elems(an.hints \o an.units)
    <3> DEFINE both == an.hints \o an.units
    <3>1. both \in Seq(Nat) /\ r.hints = both
      BY <1>3, <2>2
    <3> HIDE DEF both, r
    <3>2. DOMAIN both = 1 .. Len(both)
      BY <3>1
    <3>3. \A x : x \in HintSet(r) <=> \E k \in DOMAIN both : x = both[k]
      BY <3>1 DEF HintSet
    <3>4. \A x : x \in Elems(both) <=> \E k \in DOMAIN both : x = both[k]
      BY <3>2 DEF Elems
    <3> QED
      BY <3>3, <3>4 DEF both
  <2>4. Pending = Elems(an.hints) \cup Elems(an.units)
    BY <2>1 DEF Pending, Elems
  <2> QED
    BY <2>2, <2>3, <2>4
<1>5. db' = Append(db, r) /\ an' = NoHints
  BY DEF addResolvent
<1> HIDE DEF r
<1>6. /\ Len(db') = Len(db) + 1 /\ \A i \in Cids : db'[i] = db[i]
      /\ db'[Len(db')] = r
  BY <1>2, <1>5, AppendRecord
<1>7. Pending' = {}
  BY <1>5 DEF Pending, NoHints
<1>8. Cids' = Cids \cup {Len(db')} /\ \A i \in Cids : i \in Nat /\ i < Len(db')
  BY <1>1, <1>6 DEF Cids, LogTyped
<1>9. ASSUME NEW d \in Cids', IsDelete(db'[d])
      PROVE  d \in Cids /\ IsDelete(db[d]) /\ db'[d] = db[d]
  BY <1>3, <1>6, <1>8, <1>9
<1>10. \A d, i \in Cids' : IsDelete(db'[d]) /\ d < i => db'[d].hints[1] \notin HintSet(db'[i])
  <2> SUFFICES ASSUME NEW d \in Cids', NEW i \in Cids', IsDelete(db'[d]), d < i
               PROVE  db[d].hints[1] \notin HintSet(db'[i])
    BY <1>9
  <2>1. CASE i \in Cids
    BY <1>6, <1>9, <2>1 DEF DeletionInv
  <2>2. CASE i = Len(db')
    BY <1>4, <1>6, <1>9, <2>2 DEF DeletionInv
  <2> QED
    BY <1>8, <2>1, <2>2
<1> QED
  BY <1>7, <1>9, <1>10 DEF DeletionInv

LEMMA RemoveResolventDeletion ==
    ASSUME LogInv, DeletionInv, NEW cid \in LiveCids(db) \ Pending, removeResolvent(cid)
    PROVE  DeletionInv'
<1> DEFINE r == DeleteRecord(cid)
<1>1. LogTyped /\ cid \in ClauseCids /\ cid \in Nat
  BY LogTypes, LiveIsClause DEF ClauseCids, Cids
<1>2. /\ r \in RecordType /\ IsDelete(r) /\ Len(r.hints) = 1 /\ r.hints[1] = cid
      /\ HintSet(r) = {cid}
  BY <1>1 DEF DeleteRecord, RecordType, ClauseOrigin, IsDelete, HintSet
<1>3. db' = Append(db, r) /\ an' = an
  BY DEF removeResolvent
<1> HIDE DEF r
<1>4. /\ Len(db') = Len(db) + 1 /\ \A i \in Cids : db'[i] = db[i]
      /\ db'[Len(db')] = r
  BY <1>1, <1>2, <1>3, AppendRecord
<1>5. Pending' = Pending
  BY <1>3 DEF Pending
<1>6. Cids' = Cids \cup {Len(db')} /\ \A i \in Cids : i \in Nat /\ i < Len(db')
  BY <1>1, <1>4 DEF Cids, LogTyped
<1>7. \A d \in Cids : IsDelete(db[d]) => db[d].hints[1] # cid
  BY DEF LiveCids, DeletedCids, Cids
<1>8. \A d, i \in Cids' : IsDelete(db'[d]) /\ d < i => db'[d].hints[1] \notin HintSet(db'[i])
  <2> SUFFICES ASSUME NEW d \in Cids', NEW i \in Cids', IsDelete(db'[d]), d < i
               PROVE  db'[d].hints[1] \notin HintSet(db'[i])
    OBVIOUS
  <2>0. d \in Cids
    <3>1. ~(Len(db') < i)
      <4>1. Len(db') \in Nat /\ i <= Len(db')
        BY <1>1, <1>4, <1>6 DEF LogTyped
      <4> QED
        BY <1>6, <4>1
    <3> QED
      BY <1>6, <3>1
  <2>1. CASE i \in Cids
    BY <1>4, <2>0, <2>1 DEF DeletionInv
  <2>2. CASE i = Len(db')
    BY <1>2, <1>4, <1>7, <2>0, <2>2
  <2> QED
    BY <1>6, <2>1, <2>2
<1>9. \A d \in Cids' : IsDelete(db'[d]) =>
        Len(db'[d].hints) = 1 /\ db'[d].hints[1] \notin Pending
  BY <1>2, <1>4, <1>6 DEF DeletionInv
<1> QED
  BY <1>5, <1>8, <1>9 DEF DeletionInv

LEMMA BacktrackDeletion ==
    ASSUME LogInv, DeletionInv, NEW cid \in Cids, backtrackStep(cid)
    PROVE  DeletionInv'
<1>1. /\ Cids' = Cids
      /\ \A i \in Cids : /\ HintSet(db'[i]) = HintSet(db[i])
                         /\ IsDelete(db'[i]) <=> IsDelete(db[i])
  BY BacktrackDb
<1>2. Pending' = Pending
  BY DEF backtrackStep, Pending
<1>3. \A d \in Cids : IsDelete(db[d]) => db'[d] = db[d]
  BY DEF backtrackStep, IsDelete, LogInv, TypeOK, Cids
<1> QED
  BY <1>1, <1>2, <1>3 DEF DeletionInv

LEMMA DeletionStep == LogInv /\ DeletionInv /\ [Next]_vars => DeletionInv'
<1> SUFFICES ASSUME LogInv, DeletionInv, [Next]_vars
             PROVE  DeletionInv'
  OBVIOUS
<1>1. CASE markRevertableHints
  <2>1. an'.hints = an.hints /\ an'.units = an.units /\ db' = db
    BY <1>1, LogTypes DEF markRevertableHints, MarkRevertableHints, LogTyped, BufferType
  <2> QED
    BY <2>1, PendingStep DEF Pending
<1>2. CASE UNCHANGED <<db, an>>
  BY <1>2, PendingStep DEF Pending
<1>3. /\ GetOrigin(an) \in ClauseOrigin \ {"DELETE"}
      /\ "REDUNDANT" \in ClauseOrigin \ {"DELETE"}
  BY DEF GetOrigin, ClauseOrigin
<1>4. ASSUME NEW lits \in Clauses, NEW origin \in ClauseOrigin \ {"DELETE"},
             addResolvent(lits, origin)
      PROVE  DeletionInv'
  BY <1>4, AddResolventDeletion
<1> QED
  BY <1>1, <1>2, <1>3, <1>4, AddHintDeletion, RevertDeletion, RemoveResolventDeletion,
     BacktrackDeletion
     DEF Next, ClientStep, MarkStep, backtrackDone, tracerVars, vars

-----------------------------------------------------------------------------
(* The files.                                                              *)
Line == [kind : {"add", "delete"}, cid : Nat, id : Nat, ids : Seq(Nat)]

DumpTyped ==
    /\ file \in 0 .. 4 /\ pos \in 0 .. Len(db) + 1 /\ curId \in Nat
    /\ deleteCls \in Seq(Nat)
    /\ out \in [Files -> Seq(Line)]

(* Files are written when marking is over, one after the other.            *)
InTurn ==
    /\ phase # "done" => file = 0
    /\ pos > 0 => file > 0 /\ Wanted(file)
    /\ \A n \in 1 .. 4 : n > file /\ Wanted(n) => out[FileOrder[n]] = <<>>

Adds(q) == {n \in DOMAIN q : q[n].kind = "add"}
Removals(q) == {n \in DOMAIN q : q[n].kind = "delete"}
Numbers(line) == {line.ids[k] : k \in DOMAIN line.ids}

(* In what follows p are the numbers in the log and q the lines of file f. *)
(* Before line n the number id is one of clause c: c got it in an earlier  *)
(* line or, in LRAT, in the formula, and no line deleted it.               *)
Named(f, p, q, n, id, c) ==
    /\ c \in Cids
    /\ \/ f = "lrat" /\ db[c].type = "INITIAL" /\ p[c] = id
       \/ \E m \in Adds(q) : m < n /\ q[m].cid = c /\ q[m].id = id
    /\ \A j \in Removals(q) : j < n => id \notin Numbers(q[j])

(* No number is given twice.                                               *)
NumberedOnce(f, q) ==
    /\ \A m, n \in Adds(q) : q[m].id = q[n].id => q[m].cid = q[n].cid
    /\ f = "lrat" => \A n \in Adds(q) : numInitCl < q[n].id

(* The numbers in a line name the clauses that the log has there.          *)
AddResolves(f, p, q, n) ==
    LET hs == db[q[n].cid].hints
    IN  /\ q[n].cid \in Cids
        /\ Len(q[n].ids) = Len(hs)
        /\ \A k \in 1 .. Len(hs) : Named(f, p, q, n, q[n].ids[k], hs[Len(hs) + 1 - k])

DeleteResolves(f, p, q, n) ==
    /\ f = "lrat"
    /\ \A id \in Numbers(q[n]) : \E c \in Cids : Named(f, p, q, n, id, c)

LinesResolve(f, p, q) ==
    /\ \A n \in Adds(q) : AddResolves(f, p, q, n)
    /\ \A n \in Removals(q) : DeleteResolves(f, p, q, n)

(* The file being written, up to record i: Read are the records of the     *)
(* proof before it, Given those that have got a number for this file.      *)
Read(i) == {c \in used : c < i /\ ~IsDelete(db[c])}
Given(i) == {c \in Read(i) : db[c].type # "INITIAL"}

(* LRAT does not repeat the formula.                                       *)
Due(f, i) == IF f = "lrat" THEN Given(i) ELSE Read(i)

Numbering(p, i, id) ==
    /\ numInitCl <= id
    /\ \A c \in Given(i) : numInitCl < p[c] /\ p[c] <= id
    /\ \A b, c \in Given(i) : p[b] = p[c] => b = c

Written(f, p, q, i) ==
    /\ \A n \in Adds(q) : q[n].cid \in Due(f, i) /\ q[n].id = p[q[n].cid]
    /\ \A c \in Due(f, i) : \E n \in Adds(q) : q[n].cid = c

(* The clauses collectLrat has deleted, or will with the next line.        *)
Gone(i) ==
    {c \in Cids : /\ c < i
                  /\ \/ db[c].type = "INITIAL" /\ c \notin used
                     \/ c \in Given(i) /\ \E d \in Cids : d < i /\ Deletes(d, c)}

DeletedGone(p, q, i) ==
    \A n \in Removals(q) : \A id \in Numbers(q[n]) : \E c \in Gone(i) : p[c] = id

ToBeDeleted(p, q, i, ids) ==
    \A k \in DOMAIN ids : \E c \in Gone(i) :
        p[c] = ids[k] /\ Named("lrat", p, q, Len(q) + 1, ids[k], c)

Writing(f, p, q, i, id, ids) ==
    /\ Numbering(p, i, id)
    /\ Written(f, p, q, i)
    /\ f = "lrat" => DeletedGone(p, q, i) /\ ToBeDeleted(p, q, i, ids)

FileOK(f, p, q) == NumberedOnce(f, q) /\ LinesResolve(f, p, q)

Checked == Files \cap {"grit", "lrat"}
TracerInv == LogInv /\ MarkInv /\ InitialNumbered /\ DeletionInv
FilesInv == \A f \in Checked : FileOK(f, pid, out[f])
WritingInv ==
    \A f \in Checked :
        pos > 0 /\ f = FileOrder[file] => Writing(f, pid, out[f], pos, curId, deleteCls)

DumpInv == TracerInv /\ DumpTyped /\ InTurn /\ FilesInv /\ WritingInv

-----------------------------------------------------------------------------
(* What is known of the log while the files are written.                   *)
Done == TracerInv /\ phase = "done"

LEMMA LogFacts ==
    ASSUME TracerInv
    PROVE  /\ db \in Seq(RecordType) /\ Len(db) \in Nat /\ Cids = 1 .. Len(db)
           /\ pid \in Seq(Nat) /\ Len(pid) = Len(db) /\ numInitCl \in Nat
           /\ \A c \in Cids : pid[c] \in Nat /\ db[c].hints \in Seq(Nat)
           /\ used \subseteq Cids
<1>1. db \in Seq(RecordType) /\ pid \in Seq(Nat) /\ Len(pid) = Len(db) /\ numInitCl \in Nat
      /\ used \subseteq Cids
  BY DEF TracerInv, LogInv, TypeOK
<1>2. Len(db) \in Nat /\ Cids = 1 .. Len(db)
  BY <1>1 DEF Cids
<1>3. ASSUME NEW c \in Cids
      PROVE  pid[c] \in Nat /\ db[c].hints \in Seq(Nat)
  <2>1. db[c] \in RecordType /\ pid[c] \in Nat
    BY <1>1, <1>2
  <2> QED
    BY <2>1 DEF RecordType
<1> QED
  BY <1>1, <1>2, <1>3

(* The numbers of the input clauses, which no file changes.                *)
Inputs(p) ==
    /\ \A c \in Cids : db[c].type = "INITIAL" => p[c] <= numInitCl
    /\ \A b, c \in Cids : db[b].type = "INITIAL" /\ db[c].type = "INITIAL" /\ p[b] = p[c] => b = c

LEMMA InputsApart == ASSUME TracerInv PROVE Inputs(pid)
<1>1. \A c \in Cids : db[c].type = "INITIAL" => pid[c] <= numInitCl
  BY LogFacts DEF TracerInv, InitialNumbered
<1>2. ASSUME NEW b \in Cids, NEW c \in Cids, db[b].type = "INITIAL", db[c].type = "INITIAL",
             pid[b] = pid[c]
      PROVE  b = c
  <2>1. b \in Nat /\ c \in Nat /\ pid[b] \in Nat
    BY LogFacts
  <2>2. ~(b < c) /\ ~(c < b)
    BY <1>2, <2>1 DEF TracerInv, InitialNumbered
  <2> QED
    BY <2>1, <2>2
<1> QED
  BY <1>1, <1>2 DEF Inputs

(* Clauses that have a number have it for themselves.                      *)
LEMMA OwnNumber ==
    ASSUME TracerInv, NEW p \in Seq(Nat), Len(p) = Len(db), Inputs(p),
           NEW i, NEW id \in Nat, Numbering(p, i, id),
           NEW b \in Cids, db[b].type = "INITIAL" \/ b \in Given(i),
           NEW c \in Cids, db[c].type = "INITIAL" \/ c \in Given(i),
           p[b] = p[c]
    PROVE  b = c
<1>0. Cids = 1 .. Len(p) /\ numInitCl \in Nat
  BY LogFacts
<1>1. p[b] \in Nat /\ p[c] \in Nat /\ numInitCl \in Nat
  BY ONLY <1>0, b \in Cids, c \in Cids, p \in Seq(Nat)
<1>2. \A x \in Cids : x \in Given(i) => ~(p[x] <= numInitCl)
  <2>1. \A x \in Cids : p[x] \in Nat
    BY ONLY <1>0, p \in Seq(Nat)
  <2> QED
    BY <1>1, <2>1 DEF Numbering
<1> QED
  BY <1>2 DEF Numbering, Inputs

(* What a file writes keeps its numbers apart.                             *)
LEMMA NumbersApart ==
    ASSUME TracerInv, NEW p \in Seq(Nat), Len(p) = Len(db), Inputs(p),
           NEW i, NEW id \in Nat, Numbering(p, i, id),
           NEW f, NEW q \in Seq(Line), Written(f, p, q, i)
    PROVE  NumberedOnce(f, q)
<1>1. \A n \in Adds(q) : /\ q[n].cid \in Cids
                         /\ db[q[n].cid].type = "INITIAL" \/ q[n].cid \in Given(i)
                         /\ q[n].id = p[q[n].cid]
                         /\ f = "lrat" => q[n].cid \in Given(i)
  BY LogFacts DEF Written, Due, Given, Read
<1>2. ASSUME NEW m \in Adds(q), NEW n \in Adds(q), q[m].id = q[n].id
      PROVE  q[m].cid = q[n].cid
  <2> DEFINE b == q[m].cid
             c == q[n].cid
  <2>1. /\ b \in Cids /\ c \in Cids
        /\ db[b].type = "INITIAL" \/ b \in Given(i)
        /\ db[c].type = "INITIAL" \/ c \in Given(i)
        /\ p[b] = p[c]
    BY <1>1, <1>2
  <2> HIDE DEF b, c
  <2>2. b = c
    BY ONLY <2>1, TracerInv, p \in Seq(Nat), Len(p) = Len(db), Inputs(p), id \in Nat,
            Numbering(p, i, id), OwnNumber
  <2> QED
    BY <2>2 DEF b, c
<1>3. ASSUME f = "lrat", NEW n \in Adds(q)
      PROVE  numInitCl < q[n].id
  BY <1>1, <1>3 DEF Numbering
<1> QED
  BY <1>2, <1>3 DEF NumberedOnce

(* What a file has named stays named when more is written to it and when   *)
(* the derived clauses are numbered anew.                                  *)
LEMMA NamedStays ==
    ASSUME NEW f, NEW p, NEW p2,
           \A c \in Cids : db[c].type = "INITIAL" => p2[c] = p[c],
           NEW q \in Seq(Line), NEW q2 \in Seq(Line), Len(q) <= Len(q2),
           \A j \in 1 .. Len(q) : q2[j] = q[j],
           NEW n \in 1 .. Len(q) + 1, NEW id, NEW c, Named(f, p, q, n, id, c)
    PROVE  Named(f, p2, q2, n, id, c)
<1>1. DOMAIN q = 1 .. Len(q) /\ DOMAIN q2 = 1 .. Len(q2) /\ Len(q) \in Nat /\ Len(q2) \in Nat
  OBVIOUS
<1>2. \A j \in DOMAIN q2 : j < n => j \in DOMAIN q /\ q2[j] = q[j]
  BY <1>1
<1>3. \A m \in Adds(q) : m \in Adds(q2) /\ q2[m] = q[m]
  BY <1>1 DEF Adds
<1>4. \A j \in Removals(q2) : j < n => j \in Removals(q) /\ q2[j] = q[j]
  BY <1>2 DEF Removals
<1> QED
  BY <1>3, <1>4 DEF Named

LEMMA LinesStay ==
    ASSUME TracerInv, NEW f, NEW p, NEW p2,
           \A c \in Cids : db[c].type = "INITIAL" => p2[c] = p[c],
           NEW q \in Seq(Line), NEW q2 \in Seq(Line), Len(q) <= Len(q2),
           \A j \in 1 .. Len(q) : q2[j] = q[j],
           LinesResolve(f, p, q)
    PROVE  /\ \A n \in Adds(q2) : n <= Len(q) => AddResolves(f, p2, q2, n)
           /\ \A n \in Removals(q2) : n <= Len(q) => DeleteResolves(f, p2, q2, n)
<1>1. DOMAIN q = 1 .. Len(q) /\ DOMAIN q2 = 1 .. Len(q2) /\ Len(q) \in Nat /\ Len(q2) \in Nat
  OBVIOUS
<1>2. \A n \in 1 .. Len(q) : n \in 1 .. Len(q) + 1
  BY <1>1
<1>3. \A n \in 1 .. Len(q) : \A id, c : Named(f, p, q, n, id, c) => Named(f, p2, q2, n, id, c)
  BY <1>2, NamedStays
<1>4. ASSUME NEW n \in Adds(q2), n <= Len(q)
      PROVE  AddResolves(f, p2, q2, n)
  <2>1. n \in 1 .. Len(q) /\ n \in Adds(q) /\ q2[n] = q[n]
    BY <1>1, <1>4 DEF Adds
  <2>2. AddResolves(f, p, q, n)
    BY <2>1 DEF LinesResolve
  <2> QED
    BY <1>3, <2>1, <2>2 DEF AddResolves
<1>5. ASSUME NEW n \in Removals(q2), n <= Len(q)
      PROVE  DeleteResolves(f, p2, q2, n)
  <2>1. n \in 1 .. Len(q) /\ n \in Removals(q) /\ q2[n] = q[n]
    BY <1>1, <1>5 DEF Removals
  <2>2. DeleteResolves(f, p, q, n)
    BY <2>1 DEF LinesResolve
  <2> QED
    BY <1>3, <2>1, <2>2 DEF DeleteResolves
<1> QED
  BY <1>4, <1>5

(* A file nobody writes to.                                                *)
LEMMA FileStays ==
    ASSUME TracerInv, NEW f, NEW p, NEW p2,
           \A c \in Cids : db[c].type = "INITIAL" => p2[c] = p[c],
           NEW q \in Seq(Line), FileOK(f, p, q)
    PROVE  FileOK(f, p2, q)
<1>1. /\ \A n \in Adds(q) : n <= Len(q) => AddResolves(f, p2, q, n)
      /\ \A n \in Removals(q) : n <= Len(q) => DeleteResolves(f, p2, q, n)
  <2>1. Len(q) <= Len(q)
    OBVIOUS
  <2> QED
    BY <2>1, LinesStay DEF FileOK
<1>2. \A n \in DOMAIN q : n <= Len(q)
  OBVIOUS
<1> QED
  BY <1>1, <1>2 DEF FileOK, LinesResolve, Adds, Removals

-----------------------------------------------------------------------------
(* The next record is read.                                                *)

(* Records the file has nothing to number for.                             *)
LEMMA SameGiven ==
    ASSUME TracerInv, NEW i \in Cids, ~(i \in used /\ ~IsDelete(db[i]) /\ db[i].type # "INITIAL")
    PROVE  Given(i + 1) = Given(i)
<1>1. used \subseteq Nat /\ i \in Nat
  BY LogFacts
<1>2. \A c \in used : c < i + 1 <=> c < i \/ c = i
  BY <1>1
<1> QED
  BY <1>2 DEF Given, Read

LEMMA SameRead ==
    ASSUME TracerInv, NEW i \in Cids, ~(i \in used /\ ~IsDelete(db[i]))
    PROVE  Read(i + 1) = Read(i)
<1>1. used \subseteq Nat /\ i \in Nat
  BY LogFacts
<1>2. \A c \in used : c < i + 1 <=> c < i \/ c = i
  BY <1>1
<1> QED
  BY <1>2 DEF Read

LEMMA MoreGiven ==
    ASSUME TracerInv, NEW i \in Cids, i \in used, ~IsDelete(db[i])
    PROVE  /\ Read(i + 1) = Read(i) \cup {i} /\ i \notin Read(i)
           /\ db[i].type # "INITIAL" => Given(i + 1) = Given(i) \cup {i}
<1>1. used \subseteq Nat /\ i \in Nat
  BY LogFacts
<1>2. \A c \in used : c < i + 1 <=> c < i \/ c = i
  BY <1>1
<1>3. ~(i < i)
  BY <1>1
<1> QED
  BY <1>2, <1>3 DEF Given, Read

(* What is gone stays so, under the number it had.                         *)
LEMMA GoneStays ==
    ASSUME TracerInv, NEW i \in Cids, NEW c \in Gone(i)
    PROVE  c \in Gone(i + 1) /\ c \in Cids /\ c # i
<1>1. i \in Nat /\ \A d \in Cids : d \in Nat
  BY LogFacts
<1>2. \A d \in Cids : d < i => d < i + 1
  BY <1>1
<1>3. c \in Given(i) => c \in Given(i + 1)
  BY <1>2, LogFacts DEF Given, Read
<1>4. ~(i < i)
  BY <1>1
<1> QED
  BY <1>2, <1>3, <1>4 DEF Gone

(* No clause that a record of the proof refers to is gone when the record  *)
(* is read: input clauses of the proof are never deleted, and the DELETE   *)
(* record of a derived one comes after all that use it.                    *)
LEMMA NotGone ==
    ASSUME TracerInv, NEW i \in Cids, NEW h \in used, ~IsDelete(db[h]), h < i,
           h \in HintSet(db[i]), NEW id \in Nat, Numbering(pid, i, id)
    PROVE  \A c \in Gone(i) : pid[c] # pid[h]
<1> SUFFICES ASSUME NEW c \in Gone(i), pid[c] = pid[h]
             PROVE  FALSE
  OBVIOUS
<1>1. h \in Cids /\ c \in Cids
  BY LogFacts DEF Gone
<1>2. db[h].type = "INITIAL" \/ h \in Given(i)
  BY DEF Given, Read
<1>3. db[c].type = "INITIAL" \/ c \in Given(i)
  BY DEF Gone
<1>4. c = h
  <2>1. pid \in Seq(Nat) /\ Len(pid) = Len(db) /\ Inputs(pid)
    BY LogFacts, InputsApart
  <2> QED
    BY <1>1, <1>2, <1>3, <2>1, OwnNumber
<1>5. PICK d \in Cids : d < i /\ Deletes(d, h)
  BY <1>4 DEF Gone
<1> QED
  BY <1>5 DEF TracerInv, DeletionInv, Deletes

(* The numbers of the hints of a record of the proof name the hints.       *)
LEMMA HintNamed ==
    ASSUME Done, NEW f, NEW q \in Seq(Line), NEW i \in Cids, i \in used,
           NEW id \in Nat, Numbering(pid, i, id), Written(f, pid, q, i),
           DeletedGone(pid, q, i), NEW h \in HintSet(db[i])
    PROVE  Named(f, pid, q, Len(q) + 1, pid[h], h) /\ h < i
<1>1. h \in 1 .. i - 1 /\ ~IsDelete(db[h])
  BY DEF Done, TracerInv, LogInv, HintsPointBack
<1>2. h \in used
  BY DEF Done, TracerInv, MarkInv, MarkProgress
<1>3. h \in Cids /\ h < i
  BY <1>1, <1>2, LogFacts DEF Done
<1>4. h \in Read(i) /\ (db[h].type # "INITIAL" => h \in Given(i))
  BY <1>1, <1>2, <1>3 DEF Read, Given
<1>5. \A j \in Removals(q) : pid[h] \notin Numbers(q[j])
  <2>1. \A c \in Gone(i) : pid[c] # pid[h]
    BY <1>1, <1>2, <1>3, NotGone DEF Done
  <2> QED
    BY <2>1 DEF DeletedGone
<1>6. \/ f = "lrat" /\ db[h].type = "INITIAL"
      \/ \E m \in Adds(q) : m < Len(q) + 1 /\ q[m].cid = h /\ q[m].id = pid[h]
  <2>1. \A m \in Adds(q) : m < Len(q) + 1
    BY DEF Adds
  <2>2. CASE h \in Due(f, i)
    <3>1. PICK m \in Adds(q) : q[m].cid = h
      BY <2>2 DEF Written
    <3> QED
      BY <2>1, <3>1 DEF Written
  <2>3. CASE h \notin Due(f, i)
    BY <1>4, <2>3 DEF Due
  <2> QED
    BY <2>2, <2>3
<1> QED
  BY <1>3, <1>5, <1>6 DEF Named

-----------------------------------------------------------------------------
(* A line is written.                                                      *)
LEMMA OneMore ==
    ASSUME NEW q \in Seq(Line), NEW line \in Line
    PROVE  /\ Append(q, line) \in Seq(Line) /\ Len(Append(q, line)) = Len(q) + 1
           /\ Append(q, line)[Len(q) + 1] = line /\ Len(q) <= Len(q) + 1
           /\ \A j \in 1 .. Len(q) : Append(q, line)[j] = q[j]
           /\ line.kind = "add" => Adds(Append(q, line)) = Adds(q) \cup {Len(q) + 1}
           /\ line.kind # "add" => Adds(Append(q, line)) = Adds(q)
           /\ line.kind = "delete" => Removals(Append(q, line)) = Removals(q) \cup {Len(q) + 1}
           /\ line.kind # "delete" => Removals(Append(q, line)) = Removals(q)
           /\ \A j \in Adds(q) \cup Removals(q) : Append(q, line)[j] = q[j] /\ j <= Len(q)
<1> DEFINE q2 == Append(q, line)
           n == Len(q) + 1
<1>1. /\ q2 \in Seq(Line) /\ Len(q2) = n /\ q2[n] = line /\ Len(q) \in Nat /\ n \in Nat
      /\ \A j \in 1 .. Len(q) : q2[j] = q[j]
      /\ DOMAIN q = 1 .. Len(q) /\ DOMAIN q2 = 1 .. n /\ Len(q) <= n
  BY AppendProperties
<1>2. \A j : j \in 1 .. n <=> j \in 1 .. Len(q) \/ j = n
  BY <1>1
<1> HIDE DEF q2, n
<1>3. /\ line.kind = "add" => Adds(q2) = Adds(q) \cup {n}
      /\ line.kind # "add" => Adds(q2) = Adds(q)
  BY <1>1, <1>2 DEF Adds
<1>4. /\ line.kind = "delete" => Removals(q2) = Removals(q) \cup {n}
      /\ line.kind # "delete" => Removals(q2) = Removals(q)
  BY <1>1, <1>2 DEF Removals
<1>5. \A j \in Adds(q) \cup Removals(q) : q2[j] = q[j] /\ j <= Len(q)
  BY <1>1 DEF Adds, Removals
<1> QED
  BY <1>1, <1>3, <1>4, <1>5 DEF q2, n

(* The numbers collected are deleted: each was of a clause not deleted     *)
(* before.                                                                 *)
LEMMA DeleteLineWritten ==
    ASSUME Done, NEW q \in Seq(Line), NEW i \in Cids, NEW id, NEW ids \in Seq(Nat),
           Writing("lrat", pid, q, i, id, ids), LinesResolve("lrat", pid, q),
           NEW line \in Line, line.kind = "delete", line.ids = ids
    PROVE  LET q2 == Append(q, line)
           IN  /\ Written("lrat", pid, q2, i) /\ DeletedGone(pid, q2, i)
               /\ LinesResolve("lrat", pid, q2)
<1> DEFINE q2 == Append(q, line)
           n == Len(q) + 1
<1>1. /\ q2 \in Seq(Line) /\ q2[n] = line /\ Len(q) <= Len(q2) /\ Len(q2) = n
      /\ \A j \in 1 .. Len(q) : q2[j] = q[j]
      /\ Adds(q2) = Adds(q) /\ Removals(q2) = Removals(q) \cup {n}
      /\ \A j \in Adds(q) \cup Removals(q) : q2[j] = q[j] /\ j <= Len(q)
  <2>1. line.kind # "add"
    OBVIOUS
  <2> QED
    BY ONLY OneMore, <2>1, line.kind = "delete", q \in Seq(Line), line \in Line
<1>0. n \in 1 .. Len(q) + 1 /\ Len(q) + 1 = n
  OBVIOUS
<1> HIDE DEF q2, n
<1>2. Written("lrat", pid, q2, i)
  BY <1>1 DEF Writing, Written
<1>3. ASSUME NEW x \in Numbers(line)
      PROVE  \E c \in Gone(i) : c \in Cids /\ pid[c] = x /\ Named("lrat", pid, q, n, x, c)
  <2>1. PICK k \in DOMAIN ids : x = ids[k]
    BY DEF Numbers
  <2> QED
    BY <1>0, <2>1 DEF Writing, ToBeDeleted, Gone
<1>4. DeletedGone(pid, q2, i)
  BY <1>1, <1>3 DEF Writing, DeletedGone
<1>5. DeleteResolves("lrat", pid, q2, n)
  <2>1. ASSUME NEW x \in Numbers(line)
        PROVE  \E c \in Cids : Named("lrat", pid, q2, n, x, c)
    <3>1. PICK c \in Gone(i) : c \in Cids /\ Named("lrat", pid, q, n, x, c)
      BY <1>3
    <3>2. Named("lrat", pid, q2, n, x, c)
      BY <1>0, <1>1, <3>1, NamedStays
    <3> QED
      BY <3>1, <3>2
  <2> QED
    BY <1>1, <2>1 DEF DeleteResolves
<1>6. /\ \A j \in Adds(q2) : j <= Len(q) => AddResolves("lrat", pid, q2, j)
      /\ \A j \in Removals(q2) : j <= Len(q) => DeleteResolves("lrat", pid, q2, j)
  BY <1>1, LinesStay DEF Done
<1>7. LinesResolve("lrat", pid, q2)
  BY <1>1, <1>5, <1>6 DEF LinesResolve
<1> QED
  BY <1>2, <1>4, <1>7 DEF q2

LEMMA FunctionIsSeq ==
    ASSUME NEW S, NEW n \in Nat, NEW s \in [1 .. n -> S]
    PROVE  s \in Seq(S) /\ Len(s) = n
<1>1. s \in Seq(S)
  OBVIOUS
<1>2. DOMAIN s = 1 .. n /\ DOMAIN s = 1 .. Len(s) /\ Len(s) \in Nat
  BY <1>1, LenProperties
<1> QED
  BY <1>1, <1>2

(* A line with the numbers of its clause and of its hints.                 *)
LEMMA AddLineTypes ==
    ASSUME TracerInv, pos \in Cids, NEW p2 \in Seq(Nat), Len(p2) = Len(db)
    PROVE  /\ UsedIds(p2) \in Seq(Nat) /\ Len(UsedIds(p2)) = Len(db[pos].hints)
           /\ \A k \in 1 .. Len(db[pos].hints) :
                /\ db[pos].hints[Len(db[pos].hints) + 1 - k] \in HintSet(db[pos])
                /\ UsedIds(p2)[k] = p2[db[pos].hints[Len(db[pos].hints) + 1 - k]]
           /\ AddLine(p2) \in Line
           /\ AddLine(p2).kind = "add" /\ AddLine(p2).cid = pos /\ AddLine(p2).id = p2[pos]
           /\ AddLine(p2).ids = UsedIds(p2)
<1> DEFINE hs == db[pos].hints
           u == UsedIds(p2)
<1>1. hs \in Seq(Nat) /\ Len(hs) \in Nat /\ DOMAIN hs = 1 .. Len(hs)
  <2>1. hs \in Seq(Nat)
    BY LogFacts
  <2> HIDE DEF hs
  <2> QED
    BY <2>1
<1>2. ASSUME NEW c \in Cids
      PROVE  p2[c] \in Nat
  <2>1. Cids = 1 .. Len(p2)
    BY LogFacts
  <2> QED
    BY ONLY <2>1, p2 \in Seq(Nat), c \in Cids
<1>3. ASSUME NEW k \in 1 .. Len(hs)
      PROVE  /\ hs[Len(hs) + 1 - k] \in HintSet(db[pos])
             /\ u[k] = p2[hs[Len(hs) + 1 - k]]
             /\ u[k] \in Nat
  <2> DEFINE j == Len(hs) + 1 - k
             h == hs[j]
  <2>1. j \in DOMAIN hs /\ k \in DOMAIN hs
    <3> HIDE DEF hs
    <3> QED
      BY <1>1
  <2>2. h \in HintSet(db[pos])
    BY <2>1 DEF HintSet
  <2>3. u[k] = p2[h]
    BY <2>1 DEF UsedIds
  <2>4. h \in Cids
    <3> HIDE DEF h
    <3>1. h \in 1 .. pos - 1
      BY <2>2 DEF TracerInv, LogInv, HintsPointBack
    <3> QED
      BY <3>1, LogFacts
  <2> QED
    BY <1>2, <2>2, <2>3, <2>4
<1>4. DOMAIN u = 1 .. Len(hs) /\ u = [k \in DOMAIN u |-> u[k]]
  BY <1>1 DEF UsedIds
<1>5. u \in Seq(Nat) /\ Len(u) = Len(hs)
  <2> HIDE DEF u, hs
  <2>1. u \in [1 .. Len(hs) -> Nat]
    BY <1>3, <1>4
  <2> QED
    BY <1>1, <2>1, FunctionIsSeq
<1>6. p2[pos] \in Nat /\ pos \in Nat
  BY <1>2, LogFacts
<1>7. /\ AddLine(p2) \in Line
      /\ AddLine(p2).kind = "add" /\ AddLine(p2).cid = pos /\ AddLine(p2).id = p2[pos]
      /\ AddLine(p2).ids = u
  <2>1. AddLine(p2) = [kind |-> "add", cid |-> pos, id |-> p2[pos], ids |-> u]
    BY DEF AddLine
  <2> HIDE DEF u
  <2> QED
    BY <1>5, <1>6, <2>1 DEF Line
<1> QED
  BY <1>3, <1>5, <1>7

(* A clause of the proof is written: its hints have names.                 *)
LEMMA AddLineWritten ==
    ASSUME Done, NEW f, NEW q \in Seq(Line), pos \in Cids, NEW id \in Nat,
           Numbering(pid, pos, id), Written(f, pid, q, pos), DeletedGone(pid, q, pos),
           LinesResolve(f, pid, q),
           pos \in used, ~IsDelete(db[pos]), f = "lrat" => db[pos].type # "INITIAL",
           NEW p2 \in Seq(Nat), Len(p2) = Len(db),
           \A c \in Cids : c # pos \/ db[c].type = "INITIAL" => p2[c] = pid[c],
           NEW line, line = AddLine(p2)
    PROVE  LET q2 == Append(q, line)
           IN  /\ Written(f, p2, q2, pos + 1) /\ DeletedGone(p2, q2, pos + 1)
               /\ LinesResolve(f, p2, q2)
<1> DEFINE q2 == Append(q, line)
           n == Len(q) + 1
           hs == db[pos].hints
<1>0. TracerInv /\ Cids \subseteq Nat
  BY LogFacts DEF Done
<1>1. n \in 1 .. Len(q) + 1 /\ Len(q) + 1 = n
  OBVIOUS
<1>2. /\ line \in Line /\ line.kind = "add" /\ line.cid = pos /\ line.id = p2[pos]
      /\ line.ids = UsedIds(p2) /\ Len(line.ids) = Len(hs)
  BY <1>0, AddLineTypes
<1>3. ASSUME NEW k \in 1 .. Len(hs)
      PROVE  Named(f, pid, q, n, line.ids[k], hs[Len(hs) + 1 - k])
  <2> DEFINE h == hs[Len(hs) + 1 - k]
  <2>1. h \in HintSet(db[pos]) /\ line.ids[k] = p2[h]
    <3>1. /\ hs[Len(hs) + 1 - k] \in HintSet(db[pos])
          /\ UsedIds(p2)[k] = p2[hs[Len(hs) + 1 - k]]
      BY <1>0, AddLineTypes
    <3> HIDE DEF hs
    <3> QED
      BY <1>2, <3>1
  <2> HIDE DEF h
  <2>2. Named(f, pid, q, Len(q) + 1, pid[h], h) /\ h < pos
    BY <2>1, HintNamed
  <2>3. h \in Cids /\ h # pos
    BY <1>0, <2>2 DEF Named
  <2>4. p2[h] = pid[h]
    BY <2>3
  <2> QED
    BY <2>1, <2>2, <2>4 DEF h
<1> HIDE DEF hs
<1>6. /\ q2 \in Seq(Line) /\ q2[n] = line /\ Len(q) <= Len(q2) /\ Len(q2) = n
      /\ \A j \in 1 .. Len(q) : q2[j] = q[j]
      /\ Adds(q2) = Adds(q) \cup {n} /\ Removals(q2) = Removals(q)
      /\ \A j \in Adds(q) \cup Removals(q) : q2[j] = q[j] /\ j <= Len(q)
  <2>1. line \in Line /\ line.kind = "add" /\ line.kind # "delete"
    BY <1>2
  <2> QED
    BY ONLY OneMore, <2>1, q \in Seq(Line)
<1> HIDE DEF q2, n
<1>7. Due(f, pos + 1) = Due(f, pos) \cup {pos} /\ \A c \in Due(f, pos) : c \in Cids /\ c # pos
  <2>1. /\ Read(pos + 1) = Read(pos) \cup {pos} /\ pos \notin Read(pos)
        /\ db[pos].type # "INITIAL" => Given(pos + 1) = Given(pos) \cup {pos}
    BY <1>0, MoreGiven
  <2>2. Read(pos) \subseteq Cids /\ Given(pos) \subseteq Read(pos)
    BY <1>0, LogFacts DEF Read, Given
  <2> QED
    BY <2>1, <2>2 DEF Due
<1>8. Written(f, p2, q2, pos + 1)
  <2>1. ASSUME NEW m \in Adds(q2)
        PROVE  q2[m].cid \in Due(f, pos + 1) /\ q2[m].id = p2[q2[m].cid]
    <3>1. CASE m = n
      BY <1>2, <1>6, <1>7, <3>1
    <3>2. CASE m \in Adds(q)
      <4>1. q2[m] = q[m] /\ q[m].cid \in Due(f, pos) /\ q[m].id = pid[q[m].cid]
        BY <1>6, <3>2 DEF Written
      <4>2. q[m].cid \in Cids /\ q[m].cid # pos /\ q[m].cid \in Due(f, pos + 1)
        BY <1>7, <4>1
      <4>3. p2[q[m].cid] = pid[q[m].cid]
        BY <4>2
      <4> QED
        BY <4>1, <4>2, <4>3
    <3> QED
      BY <1>6, <3>1, <3>2
  <2>2. ASSUME NEW c \in Due(f, pos + 1)
        PROVE  \E m \in Adds(q2) : q2[m].cid = c
    <3>1. CASE c = pos
      BY <1>2, <1>6, <3>1
    <3>2. CASE c \in Due(f, pos)
      BY <1>6, <3>2 DEF Written
    <3> QED
      BY <1>7, <3>1, <3>2
  <2> QED
    BY <2>1, <2>2 DEF Written
<1>9. DeletedGone(p2, q2, pos + 1)
  <2>1. \A c \in Gone(pos) : c \in Gone(pos + 1) /\ p2[c] = pid[c]
    BY <1>0, GoneStays
  <2> QED
    BY <1>6, <2>1 DEF DeletedGone
<1>10. AddResolves(f, p2, q2, n)
  <2>1. \A c \in Cids : db[c].type = "INITIAL" => p2[c] = pid[c]
    OBVIOUS
  <2>2. ASSUME NEW k \in 1 .. Len(hs)
        PROVE  Named(f, p2, q2, n, line.ids[k], hs[Len(hs) + 1 - k])
    <3> DEFINE x == line.ids[k]
               h == hs[Len(hs) + 1 - k]
    <3>1. Named(f, pid, q, n, x, h)
      BY <1>3
    <3> HIDE DEF x, h
    <3>2. Named(f, p2, q2, n, x, h)
      BY <1>1, <1>6, <2>1, <3>1, NamedStays
    <3> QED
      BY <3>2 DEF x, h
  <2> QED
    BY <1>2, <1>6, <2>2 DEF AddResolves, hs
<1>11. /\ \A j \in Adds(q2) : j <= Len(q) => AddResolves(f, p2, q2, j)
       /\ \A j \in Removals(q2) : j <= Len(q) => DeleteResolves(f, p2, q2, j)
  <2>1. \A c \in Cids : db[c].type = "INITIAL" => p2[c] = pid[c]
    OBVIOUS
  <2> QED
    BY <1>0, <1>6, <2>1, LinesStay
<1>12. LinesResolve(f, p2, q2)
  BY <1>6, <1>10, <1>11 DEF LinesResolve
<1> QED
  BY <1>8, <1>9, <1>12 DEF q2

-----------------------------------------------------------------------------
(* The steps.  What they have to establish, with the log unchanged.        *)
LEMMA TracerStays ==
    ASSUME TracerInv, UNCHANGED <<db, numInitCl, an, markVars, historyVars>>,
           pid' \in Seq(Nat), Len(pid') = Len(db),
           \A c \in Cids : db[c].type = "INITIAL" => pid'[c] = pid[c]
    PROVE  TracerInv'
<1>1. UNCHANGED <<db, numInitCl, an, phase, used, work, tags, saved>>
  BY DEF markVars, historyVars
<1>2. LogInv'
  BY <1>1 DEF TracerInv, LogInv, TypeOK, PendingInLog, MarkersNested, SavedMatches,
              HintsPointBack, HintSet, Cids, ClauseCids
<1>3. MarkInv'
  BY <1>1 DEF TracerInv, MarkInv, MarkProgress, MarkedNeeded, HintSet
<1>4. DeletionInv'
  BY <1>1 DEF TracerInv, DeletionInv, Pending, HintSet, Cids
<1>5. InitialNumbered'
  BY <1>1 DEF TracerInv, InitialNumbered, Cids
<1> QED
  BY <1>2, <1>3, <1>4, <1>5 DEF TracerInv

LEMMA FilesPrimed ==
    ASSUME db' = db, used' = used, numInitCl' = numInitCl,
           \A f \in Checked : FileOK(f, pid', out'[f])
    PROVE  FilesInv'
<1>1. ASSUME NEW f \in Checked
      PROVE  FileOK(f, pid, out[f])'
  <2>1. FileOK(f, pid', out'[f])
    OBVIOUS
  <2>2. NumberedOnce(f, out[f])'
    BY <2>1 DEF FileOK, NumberedOnce, Adds
  <2>3. ASSUME NEW n \in Adds(out'[f])
        PROVE  AddResolves(f, pid, out[f], n)'
    <3>1. AddResolves(f, pid', out'[f], n)
      BY <2>1, <2>3 DEF FileOK, LinesResolve
    <3>2. ASSUME NEW k \in 1 .. Len(db'[out'[f][n].cid].hints)
          PROVE  Named(f, pid, out[f], n, out[f][n].ids[k],
                       db[out[f][n].cid].hints[Len(db[out[f][n].cid].hints) + 1 - k])'
      <4>1. Named(f, pid', out'[f], n, out'[f][n].ids[k],
                  db'[out'[f][n].cid].hints[Len(db'[out'[f][n].cid].hints) + 1 - k])
        BY <3>1 DEF AddResolves
      <4> QED
        BY <4>1 DEF Named, Adds, Removals, Numbers, Cids
    <3> QED
      BY <3>1, <3>2 DEF AddResolves, Cids
  <2>4. ASSUME NEW n \in Removals(out'[f])
        PROVE  DeleteResolves(f, pid, out[f], n)'
    <3>1. DeleteResolves(f, pid', out'[f], n)
      BY <2>1, <2>4 DEF FileOK, LinesResolve
    <3>2. ASSUME NEW id \in Numbers(out'[f][n])
          PROVE  \E c \in Cids' : Named(f, pid, out[f], n, id, c)'
      <4>1. PICK c \in Cids : Named(f, pid', out'[f], n, id, c)
        BY <3>1 DEF DeleteResolves
      <4>2. Named(f, pid, out[f], n, id, c)'
        BY <4>1 DEF Named, Adds, Removals, Numbers, Cids
      <4> QED
        BY <4>1, <4>2 DEF Cids
    <3> QED
      BY <3>1, <3>2 DEF DeleteResolves, Numbers
  <2> QED
    BY <2>2, <2>3, <2>4 DEF FileOK, LinesResolve, Adds, Removals
<1> QED
  BY <1>1 DEF FilesInv, Checked

LEMMA WritingPrimed ==
    ASSUME db' = db, used' = used, numInitCl' = numInitCl,
           \A f \in Checked : pos' > 0 /\ f = FileOrder[file'] =>
               Writing(f, pid', out'[f], pos', curId', deleteCls')
    PROVE  WritingInv'
<1>1. ASSUME NEW f \in Checked, Writing(f, pid', out'[f], pos', curId', deleteCls')
      PROVE  Writing(f, pid, out[f], pos, curId, deleteCls)'
  <2>1. Numbering(pid, pos, curId)'
    <3>1. Numbering(pid', pos', curId')
      BY <1>1 DEF Writing
    <3> QED
      BY <3>1 DEF Numbering, Given, Read
  <2>2. Written(f, pid, out[f], pos)'
    <3>1. Written(f, pid', out'[f], pos')
      BY <1>1 DEF Writing
    <3>2. Due(f, pos)' = Due(f, pos')
      BY DEF Due, Given, Read
    <3>3. Adds(out[f])' = Adds(out'[f])
      BY DEF Adds
    <3> QED
      BY <3>1, <3>2, <3>3 DEF Written
  <2>3. Gone(pos)' = Gone(pos')
    <3>1. Given(pos)' = Given(pos') /\ Cids' = Cids
      BY DEF Given, Read, Cids
    <3>2. \A d, c : Deletes(d, c)' <=> Deletes(d, c)
      BY DEF Deletes
    <3> QED
      BY <3>1, <3>2 DEF Gone
  <2>4. ASSUME f = "lrat"
        PROVE  DeletedGone(pid, out[f], pos)'
    <3>1. DeletedGone(pid', out'[f], pos')
      BY <1>1, <2>4 DEF Writing
    <3> QED
      BY <2>3, <3>1 DEF DeletedGone, Removals, Numbers
  <2>5. ASSUME f = "lrat"
        PROVE  ToBeDeleted(pid, out[f], pos, deleteCls)'
    <3>1. ToBeDeleted(pid', out'[f], pos', deleteCls')
      BY <1>1, <2>5 DEF Writing
    <3>2. ASSUME NEW k \in DOMAIN deleteCls'
          PROVE  \E c \in Gone(pos') :
                   /\ pid'[c] = deleteCls'[k]
                   /\ Named("lrat", pid, out[f], Len(out[f]) + 1, deleteCls[k], c)'
      <4>1. PICK c \in Gone(pos') :
              /\ pid'[c] = deleteCls'[k]
              /\ Named("lrat", pid', out'[f], Len(out'[f]) + 1, deleteCls'[k], c)
        BY <3>1 DEF ToBeDeleted
      <4>2. Named("lrat", pid, out[f], Len(out[f]) + 1, deleteCls[k], c)'
        BY <4>1 DEF Named, Adds, Removals, Numbers, Cids
      <4> QED
        BY <4>1, <4>2
    <3> QED
      BY <2>3, <3>2 DEF ToBeDeleted
  <2> QED
    BY <2>1, <2>2, <2>4, <2>5 DEF Writing
<1> QED
  BY <1>1 DEF WritingInv, Checked, FileOrder

(* The file being read, and what is known of it.                           *)
LEMMA Current ==
    ASSUME DumpInv, NEW f, Reading(f)
    PROVE  /\ TracerInv /\ Done /\ f \in Files /\ pos > 0 /\ pos \in Cids
           /\ out[f] \in Seq(Line) /\ curId \in Nat /\ deleteCls \in Seq(Nat)
           /\ f \in Checked => /\ Writing(f, pid, out[f], pos, curId, deleteCls)
                               /\ FileOK(f, pid, out[f])
<1>1. pos \in Cids /\ pos > 0 /\ f = FileOrder[file]
  BY LogFacts DEF Reading, DumpInv
<1>2. Done
  BY <1>1 DEF DumpInv, InTurn, Done
<1>3. f \in Files
  BY <1>1 DEF DumpInv, InTurn, Wanted
<1>4. out[f] \in Seq(Line) /\ curId \in Nat /\ deleteCls \in Seq(Nat)
  BY <1>3 DEF DumpInv, DumpTyped
<1> QED
  BY <1>1, <1>2, <1>3, <1>4 DEF DumpInv, FilesInv, WritingInv, Done

(* A record was read: only the lines of this file, and the numbers of      *)
(* derived clauses, are different.                                         *)
LEMMA ReadStep ==
    ASSUME DumpInv, NEW f, Reading(f), NEW q \in Seq(Line), out' = [out EXCEPT ![f] = q],
           pid' \in Seq(Nat), Len(pid') = Len(db),
           \A c \in Cids : db[c].type = "INITIAL" => pid'[c] = pid[c],
           curId' \in Nat, deleteCls' \in Seq(Nat),
           f \in Checked => /\ LinesResolve(f, pid', q)
                            /\ Writing(f, pid', q, pos + 1, curId', deleteCls')
    PROVE  DumpInv'
<1>1. /\ UNCHANGED <<db, numInitCl, an, markVars, historyVars, file>> /\ pos' = pos + 1
      /\ file \in DOMAIN FileOrder /\ f = FileOrder[file] /\ pos \in Cids
  BY DEF Reading
<1>2. TracerInv /\ f \in Files /\ out \in [Files -> Seq(Line)]
  BY Current DEF DumpInv, DumpTyped
<1>3. TracerInv'
  BY <1>1, <1>2, TracerStays
<1>4. db' = db /\ used' = used /\ numInitCl' = numInitCl /\ phase' = phase /\ file' = file
  BY <1>1 DEF markVars
<1>5. DumpTyped'
  <2>1. pos \in 1 .. Len(db) /\ Len(db) \in Nat
    BY <1>1, <1>2, LogFacts
  <2>2. pos' \in 0 .. Len(db') + 1
    BY <1>1, <1>4, <2>1
  <2>3. out' \in [Files -> Seq(Line)]
    BY <1>2
  <2> QED
    BY <1>4, <2>2, <2>3 DEF DumpInv, DumpTyped
<1>6. out'[f] = q /\ \A g \in Files \ {f} : out'[g] = out[g]
  BY <1>2
<1>7. InTurn'
  <2>1. \A n \in 1 .. 4 : n > file => FileOrder[n] # f
    <3>1. file \in {1, 2, 3, 4}
      BY <1>1 DEF FileOrder
    <3>2. FileOrder[1] = "trace" /\ FileOrder[2] = "lrat" /\ FileOrder[3] = "drat" /\ FileOrder[4] = "grit"
      BY DEF FileOrder
    <3>3. \A n \in 1 .. 4 : n \in {1, 2, 3, 4}
      OBVIOUS
    <3> QED
      BY <1>1, <3>1, <3>2, <3>3
  <2>2. \A n \in 1 .. 4 : n > file /\ Wanted(n) => out'[FileOrder[n]] = out[FileOrder[n]]
    BY <1>6, <2>1 DEF Wanted
  <2>3. pos > 0
    BY Current
  <2> QED
    BY <1>4, <2>2, <2>3 DEF DumpInv, InTurn, Wanted
<1>8. \A g \in Checked : FileOK(g, pid', out'[g])
  <2> SUFFICES ASSUME NEW g \in Checked
               PROVE  FileOK(g, pid', out'[g])
    OBVIOUS
  <2>1. CASE g = f
    <3>1. Inputs(pid')
      <4>1. Inputs(pid)
        BY <1>2, InputsApart
      <4> QED
        BY <4>1 DEF Inputs
    <3>2. NumberedOnce(f, q)
      BY <1>2, <2>1, <3>1, NumbersApart DEF Writing
    <3> QED
      BY <1>6, <2>1, <3>2 DEF FileOK
  <2>2. CASE g # f
    <3>1. g \in Files /\ out'[g] = out[g] /\ out[g] \in Seq(Line) /\ FileOK(g, pid, out[g])
      BY <1>2, <1>6, <2>2 DEF Checked, DumpInv, FilesInv
    <3> QED
      BY <1>2, <3>1, FileStays
  <2> QED
    BY <2>1, <2>2
<1>9. FilesInv'
  BY <1>4, <1>8, FilesPrimed
<1>10. WritingInv'
  <2>1. \A g \in Checked : g = FileOrder[file'] => g = f
    BY <1>1, <1>4
  <2> QED
    BY <1>1, <1>4, <1>6, <2>1, WritingPrimed
<1> QED
  BY <1>3, <1>5, <1>7, <1>9, <1>10 DEF DumpInv

-----------------------------------------------------------------------------
(* The actions.                                                            *)

(* A derived clause gets the next number, or, in a trace file, the last.   *)
LEMMA NewNumber ==
    ASSUME TracerInv, pos \in Cids, db[pos].type # "INITIAL", NEW id \in Nat,
           NEW p \in Seq(Nat), p = [pid EXCEPT ![pos] = id]
    PROVE  /\ Len(p) = Len(db) /\ p[pos] = id
           /\ \A c \in Cids : c # pos \/ db[c].type = "INITIAL" => p[c] = pid[c]
<1>1. pid \in Seq(Nat) /\ Len(pid) = Len(db) /\ Cids = 1 .. Len(pid)
  BY LogFacts
<1> QED
  BY <1>1

LEMMA NumberTyped ==
    ASSUME TracerInv, NEW id \in Nat
    PROVE  [pid EXCEPT ![pos] = id] \in Seq(Nat)
<1>1. pid \in Seq(Nat)
  BY LogFacts
<1>2. pid \in [1 .. Len(pid) -> Nat] /\ Len(pid) \in Nat
  BY <1>1, LenProperties
<1>3. [pid EXCEPT ![pos] = id] \in [1 .. Len(pid) -> Nat]
  BY <1>2
<1> QED
  BY <1>2, <1>3, FunctionIsSeq

LEMMA NextNumbering ==
    ASSUME TracerInv, pos \in Cids, pos \in used, ~IsDelete(db[pos]), db[pos].type # "INITIAL",
           curId \in Nat, Numbering(pid, pos, curId),
           NEW p \in Seq(Nat), p = [pid EXCEPT ![pos] = curId + 1]
    PROVE  Numbering(p, pos + 1, curId + 1)
<1>1. /\ p[pos] = curId + 1
      /\ \A c \in Cids : c # pos => p[c] = pid[c]
  BY NewNumber
<1>2. /\ Given(pos + 1) = Given(pos) \cup {pos}
      /\ \A c \in Given(pos) : c \in Cids /\ c # pos /\ pid[c] \in Nat
  <2>1. /\ Given(pos + 1) = Given(pos) \cup {pos} /\ pos \notin Read(pos)
    BY MoreGiven
  <2> QED
    BY <2>1, LogFacts DEF Given, Read
<1>3. numInitCl \in Nat /\ numInitCl <= curId
  BY LogFacts DEF Numbering
<1>4. \A c \in Given(pos) : p[c] = pid[c] /\ numInitCl < p[c] /\ p[c] <= curId /\ p[c] \in Nat
  BY <1>1, <1>2 DEF Numbering
<1>5. numInitCl <= curId + 1 /\ numInitCl < curId + 1
  BY <1>3
<1>6. \A c \in Given(pos + 1) : numInitCl < p[c] /\ p[c] <= curId + 1
  BY <1>1, <1>2, <1>4, <1>5
<1>7. ASSUME NEW b \in Given(pos + 1), NEW c \in Given(pos + 1), p[b] = p[c]
      PROVE  b = c
  <2>1. CASE b \in Given(pos) /\ c \in Given(pos)
    BY <1>4, <1>7, <2>1 DEF Numbering
  <2>2. \A x \in Given(pos) : p[x] # p[pos]
    BY <1>1, <1>4
  <2> QED
    BY <1>2, <1>7, <2>1, <2>2
<1> QED
  BY <1>5, <1>6, <1>7 DEF Numbering

(* Nothing was written and no number given.                                *)
LEMMA SkipStep ==
    ASSUME DumpInv, NEW f, Reading(f), skip(f),
           f \in Checked => Due(f, pos + 1) = Due(f, pos) /\ Given(pos + 1) = Given(pos)
    PROVE  DumpInv'
<1>1. /\ TracerInv /\ f \in Files /\ pos \in Cids
      /\ out[f] \in Seq(Line) /\ curId \in Nat /\ deleteCls \in Seq(Nat)
      /\ f \in Checked => /\ Writing(f, pid, out[f], pos, curId, deleteCls)
                          /\ FileOK(f, pid, out[f])
  BY Current
<1>2. out' = [out EXCEPT ![f] = out[f]]
  BY <1>1 DEF skip, DumpInv, DumpTyped
<1>3. UNCHANGED <<pid, curId, deleteCls>>
  BY DEF skip
<1>4. pid \in Seq(Nat) /\ Len(pid) = Len(db)
  BY <1>1, LogFacts
<1>5. ASSUME f \in Checked
      PROVE  /\ LinesResolve(f, pid, out[f])
             /\ Writing(f, pid, out[f], pos + 1, curId, deleteCls)
  <2>1. Writing(f, pid, out[f], pos, curId, deleteCls) /\ FileOK(f, pid, out[f])
    BY <1>1, <1>5
  <2>2. Numbering(pid, pos + 1, curId) /\ Written(f, pid, out[f], pos + 1)
    BY <1>5, <2>1 DEF Writing, Numbering, Written
  <2>3. ASSUME f = "lrat"
        PROVE  DeletedGone(pid, out[f], pos + 1) /\ ToBeDeleted(pid, out[f], pos + 1, deleteCls)
    <3>1. DeletedGone(pid, out[f], pos) /\ ToBeDeleted(pid, out[f], pos, deleteCls)
      BY <2>1, <2>3 DEF Writing
    <3>2. \A c \in Gone(pos) : c \in Gone(pos + 1)
      BY <1>1, GoneStays
    <3> QED
      BY <3>1, <3>2 DEF DeletedGone, ToBeDeleted
  <2> QED
    BY <2>1, <2>2, <2>3 DEF Writing, FileOK
<1> QED
  BY <1>1, <1>2, <1>3, <1>4, <1>5, ReadStep

LEMMA SkipNotInProofStep ==
    ASSUME DumpInv, NEW f, skipNotInProof(f)
    PROVE  DumpInv'
<1>1. Reading(f) /\ skip(f) /\ ~(pos \in used /\ ~IsDelete(db[pos])) /\ f # "lrat"
  BY DEF skipNotInProof, InProof
<1>2. TracerInv /\ pos \in Cids
  BY <1>1, Current
<1>3. Read(pos + 1) = Read(pos) /\ Given(pos + 1) = Given(pos)
  BY <1>1, <1>2, SameRead, SameGiven
<1> QED
  BY <1>1, <1>3, SkipStep DEF Due

LEMMA LratSkipStep == ASSUME DumpInv, collectLratSkip PROVE DumpInv'
<1>1. Reading("lrat") /\ skip("lrat") /\ ~(InProof /\ Derived)
  BY DEF collectLratSkip
<1>2. TracerInv /\ pos \in Cids
  BY <1>1, Current
<1>3. Given(pos + 1) = Given(pos)
  BY <1>1, <1>2, SameGiven DEF InProof, Derived
<1> QED
  BY <1>1, <1>3, SkipStep DEF Due

LEMMA DratStep == ASSUME DumpInv, collectDrat PROVE DumpInv'
<1>1. Reading("drat") /\ UNCHANGED <<pid, curId, deleteCls>>
  BY DEF collectDrat, collectDratAdd, collectDratSkip, skip
<1>2. /\ TracerInv /\ pos \in Cids /\ "drat" \in Files
      /\ out["drat"] \in Seq(Line) /\ curId \in Nat /\ deleteCls \in Seq(Nat)
  BY <1>1, Current
<1>3. pid \in Seq(Nat) /\ Len(pid) = Len(db)
  BY <1>2, LogFacts
<1>4. "drat" \notin Checked
  BY DEF Checked
<1>5. CASE collectDratAdd
  <2> DEFINE a == AddLine(pid)
             line == [a EXCEPT !.ids = <<>>]
  <2>1. line \in Line
    <3>1. a \in Line
      BY <1>2, <1>3, AddLineTypes
    <3>2. <<>> \in Seq(Nat)
      OBVIOUS
    <3> HIDE DEF a
    <3> QED
      BY <3>1, <3>2 DEF Line
  <2>2. out' = [out EXCEPT !["drat"] = @ \o <<line>>]
    BY <1>5 DEF collectDratAdd, write
  <2> HIDE DEF line
  <2>3. out["drat"] \o <<line>> \in Seq(Line)
    BY <1>2, <2>1
  <2> QED
    BY <1>1, <1>2, <1>3, <1>4, <2>2, <2>3, ReadStep
<1>6. CASE collectDratSkip
  BY <1>1, <1>4, <1>6, SkipStep DEF collectDratSkip
<1> QED
  BY <1>5, <1>6 DEF collectDrat

(* A trace file is written: only the numbers of derived clauses change.    *)
LEMMA TraceStep == ASSUME DumpInv, dumpInitial("trace") \/ collectTraceDerived PROVE DumpInv'
<1>1. Reading("trace") /\ deleteCls' = deleteCls
  BY DEF dumpInitial, collectTraceDerived
<1>2. /\ TracerInv /\ pos \in Cids /\ "trace" \in Files
      /\ out["trace"] \in Seq(Line) /\ curId \in Nat /\ deleteCls \in Seq(Nat)
  BY <1>1, Current
<1>3. /\ pid' \in Seq(Nat) /\ Len(pid') = Len(db) /\ curId' \in Nat
      /\ \A c \in Cids : db[c].type = "INITIAL" => pid'[c] = pid[c]
      /\ out' = [out EXCEPT !["trace"] = @ \o <<AddLine(pid')>>]
  <2>1. CASE dumpInitial("trace")
    <3>1. pid' = pid /\ curId' = curId
      BY <2>1 DEF dumpInitial
    <3>2. pid \in Seq(Nat) /\ Len(pid) = Len(db)
      BY <1>2, LogFacts
    <3>3. out' = [out EXCEPT !["trace"] = @ \o <<AddLine(pid')>>]
      BY <2>1, <3>1 DEF dumpInitial, write
    <3> QED
      BY <1>2, <3>1, <3>2, <3>3
  <2>2. CASE collectTraceDerived
    <3>1. pid' = [pid EXCEPT ![pos] = curId] /\ curId' = curId + 1 /\ db[pos].type # "INITIAL"
      BY <2>2 DEF collectTraceDerived, Derived
    <3>2. pid' \in Seq(Nat)
      BY <1>2, <3>1, NumberTyped
    <3>3. Len(pid') = Len(db) /\ \A c \in Cids : db[c].type = "INITIAL" => pid'[c] = pid[c]
      BY <1>2, <3>1, <3>2, NewNumber
    <3>4. out' = [out EXCEPT !["trace"] = @ \o <<AddLine(pid')>>]
      BY <2>2 DEF collectTraceDerived, write
    <3> QED
      BY <1>2, <3>1, <3>2, <3>3, <3>4
  <2> QED
    BY <2>1, <2>2
<1>4. AddLine(pid') \in Line
  BY <1>2, <1>3, AddLineTypes
<1>5. out["trace"] \o <<AddLine(pid')>> \in Seq(Line)
  BY <1>2, <1>4
<1>6. "trace" \notin Checked
  BY DEF Checked
<1> QED
  BY <1>1, <1>2, <1>3, <1>5, <1>6, ReadStep

(* A GRIT file is written.                                                 *)
LEMMA GritStep == ASSUME DumpInv, dumpInitial("grit") \/ collectGritDerived PROVE DumpInv'
<1>1. /\ Reading("grit") /\ deleteCls' = deleteCls
      /\ pos \in used /\ ~IsDelete(db[pos])
  BY DEF dumpInitial, collectGritDerived, InProof
<1>2. /\ TracerInv /\ Done /\ pos \in Cids /\ "grit" \in Files
      /\ out["grit"] \in Seq(Line) /\ curId \in Nat /\ deleteCls \in Seq(Nat)
      /\ Writing("grit", pid, out["grit"], pos, curId, deleteCls)
      /\ FileOK("grit", pid, out["grit"])
  BY <1>1, Current DEF Checked
<1> DEFINE q == out["grit"]
           line == AddLine(pid')
<1>3. /\ pid' \in Seq(Nat) /\ Len(pid') = Len(db) /\ curId' \in Nat
      /\ \A c \in Cids : c # pos \/ db[c].type = "INITIAL" => pid'[c] = pid[c]
      /\ Numbering(pid', pos + 1, curId')
      /\ out' = [out EXCEPT !["grit"] = @ \o <<AddLine(pid')>>]
  <2>0. Numbering(pid, pos, curId)
    BY <1>2 DEF Writing
  <2>1. CASE dumpInitial("grit")
    <3>1. pid' = pid /\ curId' = curId /\ db[pos].type = "INITIAL"
      BY <2>1 DEF dumpInitial, Derived
    <3>2. pid \in Seq(Nat) /\ Len(pid) = Len(db)
      BY <1>2, LogFacts
    <3>3. Numbering(pid, pos + 1, curId)
      <4>1. Given(pos + 1) = Given(pos)
        BY <1>2, <3>1, SameGiven
      <4> QED
        BY <2>0, <4>1 DEF Numbering
    <3>4. out' = [out EXCEPT !["grit"] = @ \o <<AddLine(pid')>>]
      BY <2>1, <3>1 DEF dumpInitial, write
    <3> QED
      BY <1>2, <3>1, <3>2, <3>3, <3>4
  <2>2. CASE collectGritDerived
    <3>1. pid' = [pid EXCEPT ![pos] = curId + 1] /\ curId' = curId + 1 /\ db[pos].type # "INITIAL"
      BY <2>2 DEF collectGritDerived, Derived
    <3>2. pid' \in Seq(Nat) /\ curId' \in Nat
      <4>1. curId + 1 \in Nat
        BY <1>2
      <4> QED
        BY <1>2, <3>1, <4>1, NumberTyped
    <3>3. /\ Len(pid') = Len(db)
          /\ \A c \in Cids : c # pos \/ db[c].type = "INITIAL" => pid'[c] = pid[c]
      BY <1>2, <3>1, <3>2, NewNumber
    <3>4. Numbering(pid', pos + 1, curId')
      BY <1>1, <1>2, <2>0, <3>1, <3>2, NextNumbering
    <3>5. out' = [out EXCEPT !["grit"] = @ \o <<AddLine(pid')>>]
      BY <2>2 DEF collectGritDerived, write
    <3> QED
      BY <3>2, <3>3, <3>4, <3>5
  <2> QED
    BY <2>1, <2>2
<1>4. line \in Line
  BY <1>2, <1>3, AddLineTypes
<1>5. /\ Numbering(pid, pos, curId) /\ Written("grit", pid, q, pos) /\ LinesResolve("grit", pid, q)
      /\ DeletedGone(pid, q, pos)
  BY <1>2 DEF Writing, FileOK, LinesResolve, DeleteResolves, DeletedGone
<1>6. /\ Written("grit", pid', Append(q, line), pos + 1)
      /\ LinesResolve("grit", pid', Append(q, line))
  BY <1>1, <1>2, <1>3, <1>5, AddLineWritten
<1>7. out' = [out EXCEPT !["grit"] = Append(q, line)] /\ Append(q, line) \in Seq(Line)
  <2>1. q \o <<line>> = Append(q, line) /\ Append(q, line) \in Seq(Line)
    <3> HIDE DEF q, line
    <3>1. q \in Seq(Line)
      BY <1>2 DEF q
    <3> QED
      BY <1>4, <3>1
  <2> QED
    BY <1>3, <2>1
<1>8. Writing("grit", pid', Append(q, line), pos + 1, curId', deleteCls')
  BY <1>3, <1>6 DEF Writing
<1> HIDE DEF q, line
<1> QED
  BY <1>1, <1>2, <1>3, <1>6, <1>7, <1>8, ReadStep

(* An LRAT file is written: what is to be deleted first, then the clause.  *)
LEMMA LratAddStep == ASSUME DumpInv, collectLratAdd PROVE DumpInv'
<1> DEFINE q == out["lrat"]
           line == AddLine(pid')
           q1 == q \o Deletions
<1>1. /\ Reading("lrat") /\ pos \in used /\ ~IsDelete(db[pos]) /\ db[pos].type # "INITIAL"
      /\ curId' = curId + 1 /\ pid' = [pid EXCEPT ![pos] = curId + 1] /\ deleteCls' = <<>>
      /\ out' = [out EXCEPT !["lrat"] = @ \o Append(Deletions, AddLine(pid'))]
  BY DEF collectLratAdd, InProof, Derived, write
<1>2. /\ TracerInv /\ Done /\ pos \in Cids /\ "lrat" \in Files
      /\ q \in Seq(Line) /\ curId \in Nat /\ deleteCls \in Seq(Nat)
      /\ Writing("lrat", pid, q, pos, curId, deleteCls)
      /\ LinesResolve("lrat", pid, q)
  BY <1>1, Current DEF Checked, FileOK
<1>3. Numbering(pid, pos, curId)
  BY <1>2 DEF Writing
<1>4. pid' \in Seq(Nat) /\ curId' \in Nat
  <2>1. curId + 1 \in Nat
    BY <1>2
  <2> QED
    BY <1>1, <1>2, <2>1, NumberTyped
<1>5. /\ Len(pid') = Len(db)
      /\ \A c \in Cids : c # pos \/ db[c].type = "INITIAL" => pid'[c] = pid[c]
  BY <1>1, <1>2, <1>4, NewNumber
<1>6. Numbering(pid', pos + 1, curId')
  BY <1>1, <1>2, <1>3, <1>4, NextNumbering
<1>7. line \in Line
  BY <1>2, <1>4, <1>5, AddLineTypes
<1> HIDE DEF q, line
<1>8. /\ q1 \in Seq(Line)
      /\ Written("lrat", pid, q1, pos) /\ DeletedGone(pid, q1, pos)
      /\ LinesResolve("lrat", pid, q1)
      /\ q \o Append(Deletions, line) = Append(q1, line)
  <2>1. CASE deleteCls = <<>>
    <3>1. Deletions = <<>>
      BY <2>1 DEF Deletions
    <3>2. q1 = q /\ q \o Append(Deletions, line) = Append(q, line)
      BY <1>2, <1>7, <3>1
    <3> QED
      BY <1>2, <3>2 DEF Writing
  <2>2. CASE deleteCls # <<>>
    <3> DEFINE del == DeleteLine
    <3>1. Deletions = <<del>> /\ del.kind = "delete" /\ del.ids = deleteCls
      BY <2>2 DEF Deletions, DeleteLine
    <3>2. del \in Line
      BY <1>2 DEF DeleteLine, Line, NoCid
    <3> HIDE DEF del
    <3>3. q1 = Append(q, del) /\ q1 \in Seq(Line)
      BY <1>2, <3>1, <3>2
    <3>4. q \o Append(Deletions, line) = Append(Append(q, del), line)
      BY <1>2, <1>7, <3>1, <3>2
    <3>5. /\ Written("lrat", pid, Append(q, del), pos)
          /\ DeletedGone(pid, Append(q, del), pos)
          /\ LinesResolve("lrat", pid, Append(q, del))
      BY <1>2, <3>1, <3>2, DeleteLineWritten
    <3> HIDE DEF q1
    <3> QED
      BY <3>3, <3>4, <3>5
  <2> QED
    BY <2>1, <2>2
<1> HIDE DEF q1
<1>9. /\ Written("lrat", pid', Append(q1, line), pos + 1)
      /\ DeletedGone(pid', Append(q1, line), pos + 1)
      /\ LinesResolve("lrat", pid', Append(q1, line))
  BY <1>1, <1>2, <1>3, <1>4, <1>5, <1>8, AddLineWritten DEF line
<1>10. out' = [out EXCEPT !["lrat"] = Append(q1, line)] /\ Append(q1, line) \in Seq(Line)
  <2>1. out' = [out EXCEPT !["lrat"] = q \o Append(Deletions, line)]
    BY <1>1 DEF q, line
  <2>2. Append(q1, line) \in Seq(Line)
    BY <1>7, <1>8
  <2> QED
    BY <1>8, <2>1, <2>2
<1>11. Writing("lrat", pid', Append(q1, line), pos + 1, curId', deleteCls')
  <2>1. DOMAIN deleteCls' = {}
    BY <1>1
  <2>2. ToBeDeleted(pid', Append(q1, line), pos + 1, deleteCls')
    BY <2>1 DEF ToBeDeleted
  <2> QED
    BY <1>6, <1>9, <2>2 DEF Writing
<1>12. deleteCls' \in Seq(Nat)
  BY <1>1
<1> QED
  BY <1>1, <1>2, <1>4, <1>5, <1>9, <1>10, <1>11, <1>12, ReadStep

(* A clause that is to be deleted has a number no earlier line deleted.    *)
LEMMA DeletedNamed ==
    ASSUME Done, pos \in Cids, curId \in Nat, NEW q \in Seq(Line), NEW c \in DeletedHere,
           Numbering(pid, pos, curId), Written("lrat", pid, q, pos), DeletedGone(pid, q, pos)
    PROVE  c \in Gone(pos + 1) /\ Named("lrat", pid, q, Len(q) + 1, pid[c], c)
<1>0. TracerInv /\ pos \in Nat /\ pos < pos + 1
  BY LogFacts DEF Done
<1>1. c \in Gone(pos + 1) /\ c \in Cids /\ (db[c].type = "INITIAL" \/ c \in Given(pos))
      /\ c \notin Gone(pos)
  <2>1. CASE IsDelete(db[pos])
    <3>1. c = db[pos].hints[1] /\ c \in used /\ db[c].type # "INITIAL"
      BY <2>1 DEF DeletedHere
    <3>2. c \in HintSet(db[pos])
      <4>1. db[pos].hints \in Seq(Nat) /\ Len(db[pos].hints) = 1
        BY <1>0, <2>1, LogFacts DEF TracerInv, DeletionInv
      <4>2. 1 \in DOMAIN db[pos].hints
        BY <4>1
      <4> QED
        BY <3>1, <4>2 DEF HintSet
    <3>3. c \in 1 .. pos - 1 /\ ~IsDelete(db[c])
      BY <1>0, <3>2 DEF TracerInv, LogInv, HintsPointBack
    <3>4. c \in Cids /\ c < pos /\ c < pos + 1
      <4>1. c \in Cids
        BY <1>0, <3>1, LogFacts
      <4>2. c < pos /\ c < pos + 1
        BY <1>0, <3>3
      <4> QED
        BY <4>1, <4>2
    <3>5. c \in Given(pos) /\ c \in Given(pos + 1)
      BY <3>1, <3>3, <3>4 DEF Given, Read
    <3>6. c \in Gone(pos + 1)
      BY <1>0, <2>1, <3>1, <3>4, <3>5 DEF Gone, Deletes
    <3>7. c \notin Gone(pos)
      BY <1>0, <3>1, <3>2 DEF Gone, Deletes, TracerInv, DeletionInv
    <3> QED
      BY <3>4, <3>5, <3>6, <3>7
  <2>2. CASE ~IsDelete(db[pos])
    <3>1. c = pos /\ db[pos].type = "INITIAL" /\ pos \notin used
      BY <2>2 DEF DeletedHere
    <3>2. ~(pos < pos)
      BY <1>0
    <3> QED
      BY <1>0, <3>1, <3>2 DEF Gone
  <2> QED
    BY <2>1, <2>2
<1>2. \A x \in Gone(pos) : pid[x] # pid[c]
  <2> SUFFICES ASSUME NEW x \in Gone(pos), pid[x] = pid[c]
               PROVE  FALSE
    OBVIOUS
  <2>1. x \in Cids /\ (db[x].type = "INITIAL" \/ x \in Given(pos))
    BY DEF Gone
  <2>2. pid \in Seq(Nat) /\ Len(pid) = Len(db) /\ Inputs(pid)
    BY <1>0, LogFacts, InputsApart
  <2>3. x = c
    BY <1>0, <1>1, <2>1, <2>2, OwnNumber
  <2> QED
    BY <1>1, <2>3
<1>3. \A j \in Removals(q) : pid[c] \notin Numbers(q[j])
  BY <1>2 DEF DeletedGone
<1>4. db[c].type # "INITIAL" =>
        \E m \in Adds(q) : m < Len(q) + 1 /\ q[m].cid = c /\ q[m].id = pid[c]
  <2>1. \A m \in Adds(q) : m < Len(q) + 1
    BY DEF Adds
  <2> QED
    BY <1>1, <2>1 DEF Written, Due
<1> QED
  BY <1>1, <1>3, <1>4 DEF Named

LEMMA LratDeleteStep == ASSUME DumpInv, collectLratDelete PROVE DumpInv'
<1> DEFINE q == out["lrat"]
<1>1. /\ Reading("lrat") /\ UNCHANGED <<pid, curId, out>>
  BY DEF collectLratDelete
<1>2. PICK c \in DeletedHere : deleteCls' = Append(deleteCls, pid[c])
  BY DEF collectLratDelete
<1>3. /\ TracerInv /\ Done /\ pos \in Cids /\ "lrat" \in Files
      /\ q \in Seq(Line) /\ curId \in Nat /\ deleteCls \in Seq(Nat)
      /\ Writing("lrat", pid, q, pos, curId, deleteCls)
      /\ LinesResolve("lrat", pid, q)
      /\ out \in [Files -> Seq(Line)]
  BY <1>1, Current DEF Checked, FileOK, DumpInv, DumpTyped
<1> HIDE DEF q
<1>4. /\ Numbering(pid, pos, curId) /\ Written("lrat", pid, q, pos)
      /\ DeletedGone(pid, q, pos) /\ ToBeDeleted(pid, q, pos, deleteCls)
  BY <1>3 DEF Writing
<1>5. c \in Gone(pos + 1) /\ Named("lrat", pid, q, Len(q) + 1, pid[c], c)
  BY <1>3, <1>4, DeletedNamed
<1>6. Given(pos + 1) = Given(pos)
  <2>1. ~(pos \in used /\ ~IsDelete(db[pos]) /\ db[pos].type # "INITIAL")
    BY DEF DeletedHere
  <2> QED
    BY <1>3, <2>1, SameGiven
<1>7. pid \in Seq(Nat) /\ Len(pid) = Len(db) /\ pid[c] \in Nat
  <2>1. c \in Cids
    BY <1>5 DEF Gone
  <2> QED
    BY <1>3, <2>1, LogFacts
<1>8. \A x \in Gone(pos) : x \in Gone(pos + 1)
  BY <1>3, GoneStays
<1>9. ToBeDeleted(pid, q, pos + 1, deleteCls')
  <2>1. /\ deleteCls' \in Seq(Nat)
        /\ \A k \in DOMAIN deleteCls' :
             deleteCls'[k] = pid[c] \/ (k \in DOMAIN deleteCls /\ deleteCls'[k] = deleteCls[k])
    BY <1>2, <1>3, <1>7, AppendProperties
  <2> SUFFICES ASSUME NEW k \in DOMAIN deleteCls'
               PROVE  \E x \in Gone(pos + 1) :
                        /\ pid[x] = deleteCls'[k]
                        /\ Named("lrat", pid, q, Len(q) + 1, deleteCls'[k], x)
    BY DEF ToBeDeleted
  <2>2. CASE deleteCls'[k] = pid[c]
    BY <1>5, <2>2
  <2>3. CASE k \in DOMAIN deleteCls /\ deleteCls'[k] = deleteCls[k]
    BY <1>4, <1>8, <2>3 DEF ToBeDeleted
  <2> QED
    BY <2>1, <2>2, <2>3
<1>10. Writing("lrat", pid, q, pos + 1, curId, deleteCls')
  BY <1>4, <1>6, <1>8, <1>9 DEF Writing, Numbering, Written, Due, DeletedGone
<1>11. deleteCls' \in Seq(Nat)
  BY <1>2, <1>3, <1>7
<1>12. out' = [out EXCEPT !["lrat"] = q]
  BY <1>1, <1>3 DEF q
<1> QED
  BY <1>1, <1>3, <1>7, <1>10, <1>11, <1>12, ReadStep

(* A file is opened or closed.                                             *)
LEMMA OpenStep == ASSUME DumpInv, openFile PROVE DumpInv'
<1>1. /\ phase = "done" /\ pos = 0 /\ pos' = 1 /\ curId' = numInitCl /\ deleteCls' = <<>>
      /\ UNCHANGED <<vars, out>>
  BY DEF openFile
<1>2. PICK n \in file + 1 .. Len(FileOrder) :
        Wanted(n) /\ file' = n /\ \A m \in file + 1 .. n - 1 : ~Wanted(m)
  BY DEF openFile
<1>3. UNCHANGED <<db, pid, numInitCl, an, phase, used, work, tags, saved>>
  BY <1>1 DEF vars
<1>4. /\ TracerInv /\ Len(db) \in Nat /\ numInitCl \in Nat /\ pid \in Seq(Nat)
      /\ Len(pid) = Len(db) /\ used \subseteq Nat
  BY LogFacts DEF DumpInv
<1>5. file \in 0 .. 4 /\ n \in 1 .. 4 /\ file < n
  <2>1. Len(FileOrder) = 4
    BY DEF FileOrder
  <2> QED
    BY <1>2, <2>1 DEF DumpInv, DumpTyped
<1>6. TracerInv'
  BY <1>3, <1>4, TracerStays DEF markVars, historyVars
<1>7. DumpTyped'
  <2>1. pos' \in 0 .. Len(db') + 1 /\ file' \in 0 .. 4
    BY <1>1, <1>2, <1>3, <1>4, <1>5
  <2>2. deleteCls' \in Seq(Nat) /\ curId' \in Nat /\ out' \in [Files -> Seq(Line)]
    BY <1>1, <1>4 DEF DumpInv, DumpTyped
  <2> QED
    BY <2>1, <2>2 DEF DumpTyped
<1>8. InTurn'
  <2>1. \A m \in 1 .. 4 : m > n => m > file
    BY <1>5
  <2> QED
    BY <1>1, <1>2, <1>3, <1>5, <2>1 DEF DumpInv, InTurn, Wanted
<1>9. FilesInv'
  <2>1. \A f \in Checked : FileOK(f, pid', out'[f])
    BY <1>1, <1>3 DEF DumpInv, FilesInv
  <2> QED
    BY <1>3, <2>1, FilesPrimed
<1>10. out[FileOrder[n]] = <<>>
  BY <1>2, <1>5 DEF DumpInv, InTurn
<1>11. \A f, p : Writing(f, p, <<>>, 1, numInitCl, <<>>)
  <2> SUFFICES ASSUME NEW f, NEW p
               PROVE  Writing(f, p, <<>>, 1, numInitCl, <<>>)
    OBVIOUS
  <2>1. \A c \in used : ~(c < 1)
    <3>1. used \subseteq Cids /\ Cids = 1 .. Len(db)
      BY <1>4, LogFacts
    <3> QED
      BY <1>4, <3>1
  <2>2. Read(1) = {} /\ Given(1) = {} /\ Due(f, 1) = {}
    BY <2>1 DEF Read, Given, Due
  <2>3. Adds(<<>>) = {} /\ Removals(<<>>) = {} /\ DOMAIN <<>> = {}
    BY DEF Adds, Removals
  <2>4. Numbering(p, 1, numInitCl)
    BY <1>4, <2>2 DEF Numbering
  <2> QED
    BY <2>2, <2>3, <2>4 DEF Writing, Written, DeletedGone, ToBeDeleted
<1>12. WritingInv'
  <2>1. \A f \in Checked : f = FileOrder[file'] => out'[f] = <<>>
    BY <1>1, <1>2, <1>10
  <2> QED
    BY <1>1, <1>3, <1>11, <2>1, WritingPrimed
<1> QED
  BY <1>6, <1>7, <1>8, <1>9, <1>12 DEF DumpInv

LEMMA CloseStep == ASSUME DumpInv, closeFile PROVE DumpInv'
<1>1. pos' = 0 /\ UNCHANGED <<vars, file, curId, deleteCls, out>>
  BY DEF closeFile
<1>2. UNCHANGED <<db, pid, numInitCl, an, phase, used, work, tags, saved>>
  BY <1>1 DEF vars
<1>3. TracerInv /\ Len(db) \in Nat /\ pid \in Seq(Nat) /\ Len(pid) = Len(db)
  BY LogFacts DEF DumpInv
<1>4. TracerInv'
  BY <1>2, <1>3, TracerStays DEF markVars, historyVars
<1>5. DumpTyped' /\ InTurn'
  <2>1. 0 \in 0 .. Len(db) + 1 /\ ~(0 > 0)
    BY <1>3
  <2> QED
    BY <1>1, <1>2, <2>1 DEF DumpInv, DumpTyped, InTurn, Wanted
<1>6. FilesInv'
  <2>1. \A f \in Checked : FileOK(f, pid', out'[f])
    BY <1>1, <1>2 DEF DumpInv, FilesInv
  <2> QED
    BY <1>2, <2>1, FilesPrimed
<1>7. WritingInv'
  BY <1>1, <1>2, WritingPrimed
<1> QED
  BY <1>4, <1>5, <1>6, <1>7 DEF DumpInv

(* No file is open while the client collects or the marking goes on.       *)
LEMMA TracerStep == ASSUME DumpInv, Next, UNCHANGED dumpVars PROVE DumpInv'
<1>1. phase # "done"
  BY DEF Next, ClientStep, MarkStep, addHint, addUnorderedHint, addUnitHint,
         markRevertableHints, revertHints, addResolvent, removeResolvent, Collecting,
         backtrackStep, backtrackDone
<1>2. UNCHANGED <<file, pos, curId, deleteCls, out>>
  BY DEF dumpVars
<1>3. file = 0 /\ pos = 0
  <2>1. pos \in Nat /\ (pos > 0 => file > 0) /\ file = 0
    BY <1>1, LogFacts DEF DumpInv, DumpTyped, InTurn
  <2> QED
    BY <2>1
<1>4. TracerInv'
  BY NextLog, NextMark, NumberedStep, DeletionStep DEF DumpInv, TracerInv
<1>5. \A f \in Files : out[f] = <<>>
  <2> SUFFICES ASSUME NEW f \in Files
               PROVE  out[f] = <<>>
    OBVIOUS
  <2>1. PICK n \in DOMAIN FileOrder : f = FileOrder[n]
    BY FilesAssumption
  <2>2. n \in 1 .. 4 /\ n > 0
    BY <2>1 DEF FileOrder
  <2> QED
    BY <1>3, <2>1, <2>2 DEF DumpInv, InTurn, Wanted
<1>6. DumpTyped' /\ InTurn'
  <2>1. Len(db') \in Nat
    BY <1>4 DEF TracerInv, LogInv, TypeOK
  <2>2. 0 \in 0 .. Len(db') + 1
    BY <2>1
  <2>3. DumpTyped'
    BY <1>2, <1>3, <2>2 DEF DumpInv, DumpTyped
  <2>4. InTurn'
    BY <1>2, <1>3 DEF DumpInv, InTurn, Wanted
  <2> QED
    BY <2>3, <2>4
<1>7. FilesInv'
  <2>1. ASSUME NEW f \in Checked
        PROVE  out'[f] = <<>>
    BY <1>2, <1>5 DEF Checked
  <2>2. DOMAIN <<>> = {}
    OBVIOUS
  <2> QED
    BY <2>1, <2>2 DEF FilesInv, FileOK, NumberedOnce, LinesResolve, Adds, Removals, Checked
<1>8. WritingInv'
  BY <1>2, <1>3 DEF WritingInv
<1> QED
  BY <1>4, <1>6, <1>7, <1>8 DEF DumpInv

(* DumpInv is inductive.                                                   *)
LEMMA DumpStays == DumpInv /\ [DumpNext]_allVars => DumpInv'
<1> SUFFICES ASSUME DumpInv, [DumpNext]_allVars
             PROVE  DumpInv'
  OBVIOUS
<1>1. CASE Next /\ UNCHANGED dumpVars
  BY <1>1, TracerStep
<1>2. CASE openFile \/ closeFile
  BY <1>2, OpenStep, CloseStep
<1>3. CASE collectTrace
  BY <1>3, TraceStep, SkipNotInProofStep DEF collectTrace
<1>4. CASE collectGrit
  BY <1>4, GritStep, SkipNotInProofStep DEF collectGrit
<1>5. CASE collectLrat
  BY <1>5, LratAddStep, LratDeleteStep, LratSkipStep DEF collectLrat
<1>6. CASE collectDrat
  BY <1>6, DratStep
<1>7. CASE UNCHANGED allVars
  <2>1. UNCHANGED <<db, pid, numInitCl, an, phase, used, work, tags, saved>>
        /\ UNCHANGED <<file, pos, curId, deleteCls, out>>
    BY <1>7 DEF allVars
  <2>2. TracerInv /\ pid \in Seq(Nat) /\ Len(pid) = Len(db)
    BY LogFacts DEF DumpInv
  <2>3. TracerInv'
    BY <2>1, <2>2, TracerStays DEF markVars, historyVars
  <2>4. DumpTyped' /\ InTurn'
    BY <2>1 DEF DumpInv, DumpTyped, InTurn, Wanted
  <2>5. FilesInv'
    BY <2>1, FilesPrimed DEF DumpInv, FilesInv
  <2>6. WritingInv'
    BY <2>1, WritingPrimed DEF DumpInv, WritingInv
  <2> QED
    BY <2>3, <2>4, <2>5, <2>6 DEF DumpInv
<1> QED
  BY <1>1, <1>2, <1>3, <1>4, <1>5, <1>6, <1>7 DEF DumpNext, DumpStep

LEMMA DumpStarts == DumpInit => DumpInv
<1> SUFFICES ASSUME DumpInit
             PROVE  DumpInv
  OBVIOUS
<1>1. Init /\ file = 0 /\ pos = 0 /\ curId = 0 /\ deleteCls = <<>>
      /\ out = [f \in Files |-> <<>>]
  BY DEF DumpInit
<1>2. db = <<>> /\ Cids = {} /\ used = {} /\ phase = "collect"
  BY <1>1 DEF Init, Cids
<1>3. TracerInv
  <2>1. LogInv /\ InitialNumbered
    BY <1>1, InitLog DEF Init, InitialNumbered, Cids
  <2>2. MarkInv /\ DeletionInv
    BY <1>1, <1>2 DEF Init, MarkInv, MarkProgress, MarkedNeeded, DeletionInv
  <2> QED
    BY <2>1, <2>2 DEF TracerInv
<1>4. DumpTyped
  BY <1>1, <1>2 DEF DumpTyped
<1>5. InTurn
  BY <1>1 DEF InTurn, Wanted
<1>6. FilesInv
  <2>1. \A f \in Checked : out[f] = <<>>
    BY <1>1 DEF Checked
  <2>2. Adds(<<>>) = {} /\ Removals(<<>>) = {}
    BY DEF Adds, Removals
  <2> QED
    BY <2>1, <2>2 DEF FilesInv, FileOK, NumberedOnce, LinesResolve
<1>7. WritingInv
  BY <1>1 DEF WritingInv
<1> QED
  BY <1>3, <1>4, <1>5, <1>6, <1>7 DEF DumpInv

LEMMA DumpHolds == DumpSpec => []DumpInv
BY DumpStarts, DumpStays, PTL DEF DumpSpec

-----------------------------------------------------------------------------
(* A number that names a clause denotes it and no other.                   *)
LEMMA NamedDenoted ==
    ASSUME DumpInv, NEW f \in Checked, NEW n \in DOMAIN out[f], NEW id, NEW c,
           Named(f, pid, out[f], n, id, c)
    PROVE  Denoted(f, n, id) = {c}
<1>1. /\ TracerInv /\ NumberedOnce(f, out[f]) /\ out[f] \in Seq(Line) /\ Inputs(pid)
      /\ numInitCl \in Nat
  BY LogFacts, InputsApart DEF DumpInv, FilesInv, FileOK, DumpTyped, Checked
<1>2. AddLines(f) = Adds(out[f]) /\ DOMAIN out[f] = 1 .. Len(out[f]) /\ Len(out[f]) \in Nat
  BY <1>1 DEF AddLines, Adds
<1>3. \A m \in Adds(out[f]) : m \in Nat \ {0} /\ out[f][m].id \in Nat
  <2>1. \A m \in DOMAIN out[f] : m \in Nat \ {0} /\ out[f][m] \in Line
    BY <1>1
  <2> QED
    BY <2>1 DEF Adds, Line
<1>4. ASSUME NEW m \in Nat \ {0}
      PROVE  ~DeletedBetween(f, m, n, id)
  <2>1. \A j \in m .. n - 1 : j \in DOMAIN out[f] /\ j < n
    BY <1>2
  <2>2. ASSUME NEW j \in m .. n - 1, out[f][j].kind = "delete"
        PROVE  id \notin Numbers(out[f][j])
    BY <2>1, <2>2 DEF Named, Removals
  <2> QED
    BY <2>2 DEF DeletedBetween, Numbers
<1>5. \A m \in Adds(out[f]) : ~DeletedBetween(f, m + 1, n, id)
  BY <1>3, <1>4
<1>6. ~DeletedBetween(f, 1, n, id)
  BY <1>4
<1> DEFINE Input(i) == f = "lrat" /\ db[i].type = "INITIAL" /\ pid[i] = id
           Got(m) == m < n /\ out[f][m].id = id
<1>7. Denoted(f, n, id) = {out[f][m].cid : m \in {j \in Adds(out[f]) : Got(j)}}
                          \cup {i \in Cids : Input(i)}
  BY <1>2, <1>5, <1>6 DEF Denoted
<1>8. c \in Cids /\ (Input(c) \/ \E m \in Adds(out[f]) : Got(m) /\ out[f][m].cid = c)
  BY DEF Named
<1>9. \A i \in Cids : Input(i) => id \in Nat /\ id <= numInitCl /\ f = "lrat"
  BY <1>1, LogFacts DEF Inputs
<1>10. \A m \in Adds(out[f]), i \in Cids : ~(Got(m) /\ Input(i))
  <2> SUFFICES ASSUME NEW m \in Adds(out[f]), NEW i \in Cids, Got(m), Input(i)
               PROVE  FALSE
    OBVIOUS
  <2>1. numInitCl < id
    BY <1>1, <1>9 DEF NumberedOnce
  <2> QED
    BY <1>1, <1>9, <2>1
<1>11. \A m \in Adds(out[f]), j \in Adds(out[f]) :
          Got(m) /\ Got(j) => out[f][m].cid = out[f][j].cid
  BY <1>1 DEF NumberedOnce
<1>12. \A b \in Cids : Input(b) /\ Input(c) => b = c
  BY <1>1, <1>8 DEF Inputs
<1> HIDE DEF Input, Got
<1> QED
  BY <1>7, <1>8, <1>10, <1>11, <1>12

(* THEOREM.  Whatever files are asked for, every hint in a GRIT or LRAT    *)
(* file stands, at the line where it is written, for the clause that the   *)
(* record names and for no other; and so does every number that an LRAT    *)
(* file deletes.  collectLrat and collectGrit number the clauses anew for  *)
(* each file, and the numbers are kept in the log (setProofId).            *)
THEOREM NumbersHold == DumpSpec => []NumbersResolve
<1>1. DumpInv => NumbersResolve
  <2> SUFFICES ASSUME DumpInv
               PROVE  NumbersResolve
    OBVIOUS
  <2>1. ASSUME NEW f \in Checked
        PROVE  LinesResolve(f, pid, out[f]) /\ out[f] \in Seq(Line)
    BY <2>1 DEF DumpInv, FilesInv, FileOK, DumpTyped, Checked
  <2>2. ASSUME NEW f \in Checked, NEW n \in AddLines(f), NEW k \in DOMAIN out[f][n].ids
        PROVE  Denoted(f, n, out[f][n].ids[k])
               = {db[out[f][n].cid].hints[Len(db[out[f][n].cid].hints) + 1 - k]}
    <3>1. n \in Adds(out[f]) /\ n \in DOMAIN out[f]
      BY DEF AddLines, Adds
    <3>2. AddResolves(f, pid, out[f], n)
      BY <2>1, <3>1 DEF LinesResolve
    <3>3. out[f][n].ids \in Seq(Nat)
      <4>1. out[f][n] \in Line
        BY <2>1, <3>1
      <4> QED
        BY <4>1 DEF Line
    <3>4. k \in 1 .. Len(db[out[f][n].cid].hints)
      <4>1. Len(out[f][n].ids) = Len(db[out[f][n].cid].hints)
        BY <3>2 DEF AddResolves
      <4>2. DOMAIN out[f][n].ids = 1 .. Len(out[f][n].ids)
        BY ONLY <3>3
      <4> QED
        BY ONLY <4>1, <4>2, k \in DOMAIN out[f][n].ids
    <3>5. Named(f, pid, out[f], n, out[f][n].ids[k],
                db[out[f][n].cid].hints[Len(db[out[f][n].cid].hints) + 1 - k])
      BY <3>2, <3>4 DEF AddResolves
    <3> QED
      BY <3>1, <3>5, NamedDenoted
  <2>3. ASSUME NEW n \in DOMAIN out["lrat"], "lrat" \in Files, out["lrat"][n].kind = "delete",
               NEW k \in DOMAIN out["lrat"][n].ids
        PROVE  Cardinality(Denoted("lrat", n, out["lrat"][n].ids[k])) = 1
    <3>1. "lrat" \in Checked /\ n \in Removals(out["lrat"])
      BY <2>3 DEF Checked, Removals
    <3>2. out["lrat"][n].ids[k] \in Numbers(out["lrat"][n])
      BY DEF Numbers
    <3>3. PICK c \in Cids : Named("lrat", pid, out["lrat"], n, out["lrat"][n].ids[k], c)
      BY <2>1, <3>1, <3>2 DEF LinesResolve, DeleteResolves
    <3>4. Denoted("lrat", n, out["lrat"][n].ids[k]) = {c}
      BY <3>1, <3>3, NamedDenoted
    <3> QED
      BY <3>4, FS_Singleton
  <2>4. \A f \in Checked : HintsResolveIn(f)
    BY <2>2 DEF HintsResolveIn
  <2> QED
    BY <2>3, <2>4 DEF NumbersResolve, Checked
<1> QED
  BY <1>1, DumpHolds, PTL
=============================================================================
