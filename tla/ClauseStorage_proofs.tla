------------------------- MODULE ClauseStorage_proofs -------------------------
(***************************************************************************)
(* Proofs about ClauseStorage for any number and sizes of files and any    *)
(* records: the records stay in mapped memory, cids keep naming their      *)
(* records, and the database is the log ClauseLog describes.               *)
(***************************************************************************)
EXTENDS ClauseStorage, ProofLemmas

Entry == [pos : Nat, rec : Shapes]
FileType == [maxBytes : Nat, mapped : Nat, sz : Nat, recs : Seq(Entry)]

(* The records follow each other without gaps from the first byte up to    *)
(* the fill level.                                                         *)
Gapless(s) ==
    /\ s.recs = <<>> => s.sz = 0
    /\ s.recs # <<>> =>
         /\ s.recs[1].pos = 0
         /\ s.sz = s.recs[Len(s.recs)].pos + nBytes(s.recs[Len(s.recs)].rec)
    /\ \A k \in 1 .. Len(s.recs) - 1 :
         s.recs[k + 1].pos = s.recs[k].pos + nBytes(s.recs[k].rec)
    /\ \A j, k \in 1 .. Len(s.recs) : j < k => s.recs[j].pos < s.recs[k].pos

(* The mapping stays within the limit and covers what was written.         *)
Mapped(f, s) ==
    /\ s.maxBytes = PageDown(Config[f])
    /\ SizeWord <= s.mapped /\ s.mapped <= s.maxBytes
    /\ SizeWord + s.sz <= PageUp(s.mapped)

(* As long as a file is not left, nothing has gone wrong with its mapping: *)
(* it consists of whole pages.                                             *)
WholePages(s) == s.mapped % PageSize = 0 /\ SizeWord + s.sz <= s.mapped

FilesInv ==
    /\ storages \in [Files -> FileType]
    /\ \A f \in Files :
         /\ Gapless(storages[f]) /\ Mapped(f, storages[f])
         /\ f >= curDataId => WholePages(storages[f])
         /\ f > curDataId => storages[f].recs = <<>>

(* What the call in progress does.                                         *)
ControlInv ==
    /\ curDataId \in 1 .. Len(Config) + 1
    /\ pc \in {"idle", "alloc", "read", "failed"}
    /\ curDataId = Len(Config) + 1 <=> pc = "failed"
    /\ pending \in Shapes \cup {NoRecord}
    /\ pc = "alloc" => pending \in Shapes

CidType == [fId : 0 .. FileIds - 1, type : Types, id : Nat]
CidsInv == cids \in Seq([cid : CidType, rec : Shapes])

(* The iteration is at a record, or at none.                               *)
CurInv ==
    /\ cur \in [fId : 0 .. FileIds - 1, type : Types, id : Int]
    /\ pc # "read" => cur = Cid_Undef

StoreInv == FilesInv /\ ControlInv /\ CidsInv /\ CurInv

-----------------------------------------------------------------------------
(* The constants.                                                          *)
LEMMA Constants ==
    /\ SizeWord = 8 /\ FileIds = 4
    /\ PageSize \in Nat /\ PageSize > 8
    /\ MinFileSize \in Nat /\ MinFileSize % PageSize = 0
    /\ InitialSize \in Nat /\ InitialSize % PageSize = 0 /\ InitialSize > 0
    /\ Len(Config) \in Nat \ {0} /\ Files = 1 .. Len(Config)
    /\ \A f \in Files : Config[f] \in Nat /\ Config[f] >= PageSize
<1>1. Config \in Seq(Nat) /\ Config # <<>>
  BY ConfigAssumption
<1>2. Len(Config) \in Nat \ {0} /\ Files = 1 .. Len(Config)
  BY <1>1, EmptySeq DEF Files
<1> QED
  BY <1>1, <1>2, SizeAssumption, ConfigAssumption DEF SizeWord, FileIds, Files

LEMMA MinMax ==
    ASSUME NEW a \in Nat, NEW b \in Nat
    PROVE  /\ Min({a, b}) = IF a <= b THEN a ELSE b
           /\ Max({a, b}) = IF a <= b THEN b ELSE a
<1>1. \E x \in {a, b} : \A y \in {a, b} : x <= y
  OBVIOUS
<1>2. \E x \in {a, b} : \A y \in {a, b} : x >= y
  OBVIOUS
<1>3. Min({a, b}) \in {a, b} /\ \A y \in {a, b} : Min({a, b}) <= y
  BY <1>1 DEF Min
<1>4. Max({a, b}) \in {a, b} /\ \A y \in {a, b} : Max({a, b}) >= y
  BY <1>2 DEF Max
<1> QED
  BY <1>3, <1>4

(* A record has room for its header, literals and hints.                   *)
LEMMA RecordBytes ==
    ASSUME NEW r \in Shapes
    PROVE  /\ r.nLits \in Nat /\ r.nHints \in Nat
           /\ nBytes(r) \in Nat /\ nBytes(r) >= 24
           /\ nBytes(r) >= 16 + 4 * r.nLits + 8 * r.nHints
BY ShapesAssumption DEF nBytes

(* Rounding to pages.                                                      *)
LEMMA Pages ==
    ASSUME NEW n \in Nat
    PROVE  /\ PageDown(n) \in Nat /\ PageDown(n) <= n /\ PageDown(n) % PageSize = 0
           /\ n >= PageSize => PageDown(n) >= PageSize
           /\ PageUp(n) \in Nat /\ n <= PageUp(n)
           /\ n % PageSize = 0 => PageUp(n) = n
           /\ n % PageSize = 0 /\ n > 0 => n >= PageSize /\ PageUp(n - SizeWord) = n
<1> USE Constants
<1>0. /\ \A m \in Nat : m % PageSize = 0 => \E q \in Nat : m = q * PageSize
      /\ \A q, r \in Nat : r < PageSize => ((q * PageSize) + r) \div PageSize = q
  <2>1. PageSize > 0
    OBVIOUS
  <2>2. ASSUME NEW m \in Nat, m % PageSize = 0
        PROVE  \E q \in Nat : m = q * PageSize
    BY <2>1, <2>2, Multiples, Zenon
  <2>3. ASSUME NEW q \in Nat, NEW r \in Nat, r < PageSize
        PROVE  ((q * PageSize) + r) \div PageSize = q
    BY <2>1, <2>3, DivUnique, Zenon
  <2> QED
    BY <2>2, <2>3
<1>1. \A m \in Nat : /\ PageDown(m) \in Nat /\ PageDown(m) % PageSize = 0
                     /\ PageDown(m) <= m /\ m < PageDown(m) + PageSize
  BY DivMod, Multiples DEF PageDown
<1>2. n + PageSize - 1 \in Nat
  OBVIOUS
<1>3. PageUp(n) \in Nat /\ n <= PageUp(n)
  <2>1. PageUp(n) = PageDown(n + PageSize - 1)
    BY DEF PageUp
  <2> QED
    BY <1>1, <1>2, <2>1
<1>4. n >= PageSize => PageDown(n) >= PageSize
  <2>1. PICK q \in Nat : PageDown(n) = q * PageSize
    BY <1>0, <1>1, Zenon
  <2>2. n >= PageSize => q # 0
    BY <1>1, <2>1
  <2>3. q >= 1 => q * PageSize >= PageSize
    OBVIOUS
  <2> QED
    BY <2>1, <2>2, <2>3
<1>5. ASSUME n % PageSize = 0
      PROVE  /\ PageUp(n) = n
             /\ n > 0 => n >= PageSize /\ PageUp(n - SizeWord) = n
  <2>1. PICK q \in Nat : n = q * PageSize
    BY <1>0, <1>5, Zenon
  <2>2. PageUp(n) = n
    <3>1. n + PageSize - 1 = (q * PageSize) + (PageSize - 1)
      BY <2>1
    <3>2. (n + PageSize - 1) \div PageSize = q
      <4> DEFINE r == PageSize - 1
      <4>1. r \in Nat /\ r < PageSize
        OBVIOUS
      <4>2. ((q * PageSize) + r) \div PageSize = q
        <5> HIDE DEF r
        <5> QED
          BY <1>0, <4>1, Zenon
      <4> QED
        BY <3>1, <4>2
    <3> QED
      BY <2>1, <3>2 DEF PageUp, PageDown
  <2>3. ASSUME n > 0
        PROVE  n >= PageSize /\ PageUp(n - SizeWord) = n
    <3>1. q >= 1
      BY <2>1, <2>3
    <3>2. n >= PageSize
      <4>1. q >= 1 => q * PageSize >= PageSize
        OBVIOUS
      <4> QED
        BY <2>1, <3>1, <4>1
    <3>3. n - SizeWord + PageSize - 1 = (q * PageSize) + (PageSize - 9)
      BY <2>1
    <3>4. (n - SizeWord + PageSize - 1) \div PageSize = q
      <4> DEFINE r == PageSize - 9
      <4>1. r \in Nat /\ r < PageSize
        OBVIOUS
      <4>2. ((q * PageSize) + r) \div PageSize = q
        <5> HIDE DEF r
        <5> QED
          BY <1>0, <4>1, Zenon
      <4> QED
        BY <3>3, <4>2
    <3> QED
      BY <2>1, <3>2, <3>4 DEF PageUp, PageDown
  <2> QED
    BY <2>2, <2>3
<1> QED
  BY <1>1, <1>3, <1>4, <1>5
-----------------------------------------------------------------------------
(* What happens to one file.                                               *)

FileOK(f, s) == s \in FileType /\ Gapless(s) /\ Mapped(f, s)

LEMMA OpenedFile ==
    ASSUME NEW f \in Files
    PROVE  /\ FileOK(f, Opened(Config[f])) /\ WholePages(Opened(Config[f]))
           /\ Opened(Config[f]).recs = <<>>
<1> DEFINE m == PageDown(Config[f])
           s == Opened(Config[f])
<1> USE Constants
<1>1. m \in Nat /\ m >= PageSize /\ m % PageSize = 0
  BY Pages
<1>2. InitialSize >= PageSize
  BY Pages
<1>3. s = [maxBytes |-> m, mapped |-> IF m <= InitialSize THEN m ELSE InitialSize,
           sz |-> 0, recs |-> <<>>]
  BY <1>1, MinMax DEF Opened
<1> HIDE DEF m, s
<1>4. s \in FileType /\ Gapless(s)
  BY <1>1, <1>3 DEF FileType, Entry, Gapless
<1>5. s.mapped \in Nat /\ s.mapped >= 8 /\ s.mapped <= m /\ s.mapped % PageSize = 0
  BY <1>1, <1>2, <1>3
<1>6. s.mapped <= PageUp(s.mapped) /\ PageUp(s.mapped) \in Nat
  BY <1>5, Pages
<1>7. s.maxBytes = PageDown(Config[f])
  BY <1>3 DEF m
<1> QED
  BY <1>3, <1>4, <1>5, <1>6, <1>7 DEF FileOK, Mapped, WholePages, s, m

(* A record is written at the end of a file that has room for it.          *)
Stored(s, r) == [s EXCEPT !.sz = @ + nBytes(r), !.recs = Append(@, [pos |-> s.sz, rec |-> r])]

LEMMA StoredFile ==
    ASSUME NEW f \in Files, NEW s, FileOK(f, s), WholePages(s), NEW r \in Shapes,
           s.sz + nBytes(r) <= capacity(s)
    PROVE  FileOK(f, Stored(s, r)) /\ WholePages(Stored(s, r))
<1> DEFINE t == Stored(s, r)
           e == [pos |-> s.sz, rec |-> r]
           n == Len(s.recs)
<1>1. /\ s.sz \in Nat /\ s.mapped \in Nat /\ s.maxBytes \in Nat /\ s.recs \in Seq(Entry)
      /\ nBytes(r) \in Nat /\ nBytes(r) > 0 /\ e \in Entry /\ n \in Nat
  BY RecordBytes DEF FileOK, FileType, Entry
<1>2. /\ t.recs = Append(s.recs, e) /\ t.sz = s.sz + nBytes(r)
      /\ t.mapped = s.mapped /\ t.maxBytes = s.maxBytes
      /\ t.recs \in Seq(Entry) /\ t \in FileType
  <2>1. Append(s.recs, e) \in Seq(Entry) /\ s.sz + nBytes(r) \in Nat
    BY <1>1, AppendProperties
  <2>2. \A x \in Nat : \A y \in Seq(Entry) :
            LET u == [s EXCEPT !.sz = x, !.recs = y]
            IN  /\ u \in FileType /\ u.sz = x /\ u.recs = y
                /\ u.mapped = s.mapped /\ u.maxBytes = s.maxBytes
    BY DEF FileOK, FileType
  <2> QED
    BY <2>1, <2>2, ZenonT(30) DEF Stored
<1>3. /\ Len(t.recs) = n + 1 /\ t.recs # <<>>
      /\ \A k \in 1 .. n : t.recs[k] = s.recs[k]
      /\ t.recs[n + 1] = e
  BY <1>1, <1>2, AppendProperties
<1> HIDE DEF t
<1>4. \A k \in 1 .. n : /\ s.recs[k].pos \in Nat /\ s.recs[k].rec \in Shapes
                        /\ nBytes(s.recs[k].rec) \in Nat /\ nBytes(s.recs[k].rec) > 0
  <2>1. \A k \in 1 .. n : s.recs[k] \in Entry
    BY <1>1, ElementOfSeq
  <2> QED
    BY <2>1, RecordBytes DEF Entry
<1>5. /\ n = 0 => s.sz = 0
      /\ n > 0 => s.recs[1].pos = 0 /\ s.sz = s.recs[n].pos + nBytes(s.recs[n].rec)
      /\ \A k \in 1 .. n - 1 : s.recs[k + 1].pos = s.recs[k].pos + nBytes(s.recs[k].rec)
      /\ \A j, k \in 1 .. n : j < k => s.recs[j].pos < s.recs[k].pos
  BY <1>1, EmptySeq DEF FileOK, Gapless
<1>6. /\ \A k \in 1 .. n : t.recs[k].pos = s.recs[k].pos /\ t.recs[k].rec = s.recs[k].rec
      /\ t.recs[n + 1].pos = s.sz /\ t.recs[n + 1].rec = r
  BY <1>3
<1> HIDE DEF n, e
<1>7. t.recs[1].pos = 0
  <2>1. CASE n = 0
    BY <1>5, <1>6, <2>1
  <2>2. CASE n > 0
    <3>1. 1 \in 1 .. n
      BY <1>1, <2>2
    <3> QED
      BY <1>5, <1>6, <2>2, <3>1
  <2> QED
    BY <1>1, <2>1, <2>2
<1>8. \A k \in 1 .. n : t.recs[k + 1].pos = t.recs[k].pos + nBytes(t.recs[k].rec)
  <2> SUFFICES ASSUME NEW k \in 1 .. n
               PROVE  t.recs[k + 1].pos = t.recs[k].pos + nBytes(t.recs[k].rec)
    OBVIOUS
  <2>1. CASE k = n
    BY <1>1, <1>5, <1>6, <2>1
  <2>2. CASE k # n
    <3>1. k \in 1 .. n - 1 /\ k + 1 \in 1 .. n
      BY <1>1, <2>2
    <3> QED
      BY <1>5, <1>6, <3>1
  <2> QED
    BY <2>1, <2>2
<1>9. \A k \in 1 .. n : s.recs[k].pos < s.sz
  <2> SUFFICES ASSUME NEW k \in 1 .. n
               PROVE  s.recs[k].pos < s.sz
    OBVIOUS
  <2>1. n \in 1 .. n /\ n > 0
    BY <1>1
  <2>2. s.recs[n].pos < s.sz
    BY <1>4, <1>5, <2>1
  <2>3. k # n => s.recs[k].pos < s.recs[n].pos
    BY <1>5, <2>1
  <2> QED
    BY <1>1, <1>4, <2>1, <2>2, <2>3, SMTT(30)
<1>10. \A j, k \in 1 .. n + 1 : j < k => t.recs[j].pos < t.recs[k].pos
  <2> SUFFICES ASSUME NEW j \in 1 .. n + 1, NEW k \in 1 .. n + 1, j < k
               PROVE  t.recs[j].pos < t.recs[k].pos
    OBVIOUS
  <2>1. j \in 1 .. n
    BY <1>1
  <2>2. CASE k = n + 1
    BY <1>6, <1>9, <2>1, <2>2
  <2>3. CASE k \in 1 .. n
    BY <1>5, <1>6, <2>1, <2>3
  <2> QED
    BY <1>1, <2>2, <2>3
<1>11. Gapless(t)
  <2>1. (n + 1) - 1 = n
    BY <1>1
  <2> QED
    BY <1>2, <1>3, <1>6, <1>7, <1>8, <1>10, <2>1 DEF Gapless
<1>12. Mapped(f, t) /\ WholePages(t)
  <2>1. PageUp(s.mapped) = s.mapped
    BY <1>1, Pages DEF WholePages
  <2>2. s.sz + nBytes(r) <= s.mapped - SizeWord
    BY DEF capacity
  <2>3. SizeWord + t.sz <= s.mapped
    BY <1>1, <1>2, <2>2 DEF SizeWord
  <2> QED
    BY <1>2, <2>1, <2>3 DEF FileOK, Mapped, WholePages
<1> QED
  BY <1>2, <1>11, <1>12 DEF FileOK, t

(* A file grows to whole pages and never shrinks.                          *)
LEMMA GrowthSize ==
    ASSUME NEW f \in Files, NEW s, FileOK(f, s), WholePages(s), pending \in Shapes
    PROVE  /\ Growth(s) \in Nat /\ Growth(s) % PageSize = 0
           /\ s.mapped <= Growth(s) /\ Growth(s) <= s.maxBytes
<1> DEFINE cap == capacity(s)
           more == Max({Step5(s), nBytes(pending)})
           wanted == cap + more + SizeWord
           pages == wanted + PageSize - (wanted % PageSize)
           reserved == Reserved(s, more)
<1>1. /\ s.mapped \in Nat /\ s.maxBytes \in Nat /\ 8 <= s.mapped /\ s.mapped <= s.maxBytes
      /\ s.maxBytes % PageSize = 0 /\ cap \in Nat /\ cap = s.mapped - 8
  <2>1. s.maxBytes % PageSize = 0
    <3>1. Config[f] \in Nat /\ s.maxBytes = PageDown(Config[f])
      BY Constants DEF FileOK, Mapped
    <3> QED
      BY <3>1, Pages
  <2> QED
    BY <2>1 DEF FileOK, FileType, Mapped, capacity, SizeWord
<1>2. more \in Nat
  <2>1. nBytes(pending) \in Nat
    BY RecordBytes
  <2>2. Step5(s) \in Nat
    BY <1>1 DEF Step5
  <2> QED
    BY <2>1, <2>2, MinMax
<1> HIDE DEF cap, more
<1>3. wanted \in Nat /\ wanted >= s.mapped
  BY <1>1, <1>2 DEF SizeWord
<1> HIDE DEF wanted
<1>4. pages \in Nat /\ pages % PageSize = 0 /\ pages >= wanted
  <2>1. PageSize \in Nat /\ PageSize > 0
    BY Constants
  <2>2. /\ (wanted \div PageSize) \in Nat /\ (wanted % PageSize) \in Nat
        /\ wanted = ((wanted \div PageSize) * PageSize) + (wanted % PageSize)
        /\ (wanted % PageSize) < PageSize
    BY <1>3, <2>1, DivMod
  <2>3. pages = ((wanted \div PageSize) + 1) * PageSize
    BY <2>1, <2>2
  <2>4. \A q \in Nat : (q * PageSize) \in Nat /\ (q * PageSize) % PageSize = 0
    BY <2>1, Multiples
  <2>5. (wanted \div PageSize) + 1 \in Nat
    BY <2>2
  <2>6. pages \in Nat /\ pages % PageSize = 0
    <3> DEFINE q == (wanted \div PageSize) + 1
    <3>1. (q * PageSize) \in Nat /\ (q * PageSize) % PageSize = 0
      <4> HIDE DEF q
      <4> QED
        BY <2>4, <2>5 DEF q
    <3> QED
      BY <2>3, <3>1
  <2> QED
    BY <1>3, <2>1, <2>2, <2>6
<1>5. reserved = Max({pages, MinFileSize})
  BY DEF Reserved, wanted, cap
<1> HIDE DEF pages, reserved
<1>6. /\ reserved \in Nat /\ reserved % PageSize = 0 /\ reserved >= wanted
  <2>1. MinFileSize \in Nat /\ MinFileSize % PageSize = 0
    BY Constants
  <2>2. reserved = IF pages <= MinFileSize THEN MinFileSize ELSE pages
    BY <1>4, <1>5, <2>1, MinMax
  <2> QED
    BY <1>3, <1>4, <2>1, <2>2
<1>7. Growth(s) = Min({reserved, s.maxBytes})
  BY DEF Growth, reserved, more
<1> QED
  BY <1>1, <1>3, <1>6, <1>7, MinMax

(* Another mapping of the same records.                                    *)
LEMMA Remapped ==
    ASSUME NEW f \in Files, NEW s, FileOK(f, s), WholePages(s), NEW m \in Nat,
           SizeWord <= m, m <= s.maxBytes, s.mapped <= PageUp(m)
    PROVE  LET t == [s EXCEPT !.mapped = m]
           IN  /\ FileOK(f, t) /\ t.recs = s.recs /\ t.sz = s.sz /\ t.mapped = m
               /\ m % PageSize = 0 /\ s.mapped <= m => WholePages(t)
<1> DEFINE t == [s EXCEPT !.mapped = m]
<1>1. /\ t \in FileType /\ t.recs = s.recs /\ t.sz = s.sz /\ t.mapped = m
      /\ t.maxBytes = s.maxBytes
      /\ s.sz \in Nat /\ s.mapped \in Nat /\ SizeWord + s.sz <= s.mapped
  BY DEF FileOK, FileType, WholePages
<1> HIDE DEF t
<1>2. Gapless(t)
  BY <1>1 DEF FileOK, Gapless
<1>3. SizeWord + t.sz <= PageUp(m) /\ (s.mapped <= m => SizeWord + t.sz <= m)
  BY <1>1, Pages DEF SizeWord
<1>4. Mapped(f, t)
  BY <1>1, <1>3 DEF FileOK, Mapped
<1>5. m % PageSize = 0 /\ s.mapped <= m => WholePages(t)
  BY <1>1, <1>3 DEF WholePages
<1> QED
  BY <1>1, <1>2, <1>4, <1>5 DEF FileOK, t

LEMMA GrownFile ==
    ASSUME NEW f \in Files, NEW s, FileOK(f, s), WholePages(s), pending \in Shapes
    PROVE  /\ FileOK(f, Grown(s)) /\ WholePages(Grown(s))
           /\ Grown(s).recs = s.recs /\ Grown(s).sz = s.sz
<1> DEFINE m == Growth(s)
<1>1. m \in Nat /\ m % PageSize = 0 /\ s.mapped <= m /\ m <= s.maxBytes
  BY GrowthSize
<1>2. Grown(s) = [s EXCEPT !.mapped = m]
  BY DEF Grown
<1> HIDE DEF m
<1>3. SizeWord <= m /\ s.mapped <= PageUp(m)
  BY <1>1, Pages DEF FileOK, FileType, Mapped, SizeWord
<1> QED
  BY <1>1, <1>2, <1>3, Remapped

(* What a failure to grow takes away is less than the rest of a page.      *)
LEMMA UnresizedFile ==
    ASSUME NEW f \in Files, NEW s, FileOK(f, s), WholePages(s)
    PROVE  FileOK(f, Unresized(s)) /\ Unresized(s).recs = s.recs
<1> DEFINE m == capacity(s)
<1>1. s.mapped \in Nat /\ s.mapped >= 8 /\ s.mapped <= s.maxBytes /\ s.maxBytes \in Nat
  BY DEF FileOK, FileType, Mapped, SizeWord
<1>2. s.mapped >= PageSize /\ PageUp(s.mapped - SizeWord) = s.mapped
  BY <1>1, Pages DEF WholePages
<1>3. PageSize >= 16
  BY SizeAssumption DEF SizeWord
<1>4. m \in Nat /\ SizeWord <= m /\ m <= s.maxBytes /\ s.mapped <= PageUp(m)
  BY <1>1, <1>2, <1>3, Constants DEF capacity, SizeWord
<1>5. Unresized(s) = [s EXCEPT !.mapped = m]
  BY DEF Unresized
<1> QED
  BY <1>4, <1>5, Remapped

-----------------------------------------------------------------------------
(* The steps.                                                              *)

LEMMA InitStore == Init => StoreInv
<1> SUFFICES ASSUME Init
             PROVE  StoreInv
  OBVIOUS
<1>1. \A f \in Files : /\ FileOK(f, Opened(Config[f])) /\ WholePages(Opened(Config[f]))
                       /\ Opened(Config[f]).recs = <<>>
  BY OpenedFile
<1>2. FilesInv
  BY <1>1 DEF Init, FilesInv, FileOK
<1>3. ControlInv
  BY Constants DEF Init, ControlInv
<1>4. CidsInv
  BY DEF Init, CidsInv
<1>5. CurInv
  BY DEF Init, CurInv, Cid_Undef, FileIds, Types
<1> QED
  BY <1>2, <1>3, <1>4, <1>5 DEF StoreInv

(* While a record is added there is a file to try, in good order.          *)
LEMMA CurrentFile ==
    ASSUME StoreInv, pc = "alloc"
    PROVE  /\ curDataId \in Files /\ pending \in Shapes
           /\ FileOK(curDataId, Current) /\ WholePages(Current)
<1>1. curDataId \in Files
  BY Constants DEF StoreInv, ControlInv
<1>2. curDataId >= curDataId
  BY <1>1, Constants
<1>3. pending \in Shapes
  BY DEF StoreInv, ControlInv
<1> QED
  BY <1>1, <1>2, <1>3 DEF StoreInv, FilesInv, FileOK, Current

(* Only the current file changes, and it stays current unless it is full.  *)
LEMMA FilesStep ==
    ASSUME StoreInv, curDataId \in Files, NEW t, FileOK(curDataId, t),
           storages' = [storages EXCEPT ![curDataId] = t],
           \/ curDataId' = curDataId /\ WholePages(t)
           \/ curDataId' = curDataId + 1
    PROVE  FilesInv'
<1>1. curDataId \in Nat /\ Files \subseteq Nat
  BY Constants
<1>2. storages' \in [Files -> FileType]
  BY DEF StoreInv, FilesInv, FileOK
<1>3. ASSUME NEW f \in Files
      PROVE  /\ Gapless(storages'[f]) /\ Mapped(f, storages'[f])
             /\ f >= curDataId' => WholePages(storages'[f])
             /\ f > curDataId' => storages'[f].recs = <<>>
  <2>1. storages'[f] = IF f = curDataId THEN t ELSE storages[f]
    BY DEF StoreInv, FilesInv
  <2>2. f \in Nat
    BY <1>1
  <2>3. CASE f = curDataId
    BY <1>1, <2>1, <2>3 DEF FileOK
  <2>4. CASE f # curDataId
    <3>1. f >= curDataId' => f >= curDataId
      BY <1>1, <2>2
    <3>2. f > curDataId' => f > curDataId
      BY <1>1, <2>2
    <3> QED
      BY <2>1, <2>4, <3>1, <3>2 DEF StoreInv, FilesInv
  <2> QED
    BY <2>3, <2>4
<1> QED
  BY <1>2, <1>3 DEF FilesInv

LEMMA StoreStep ==
    ASSUME StoreInv, pc = "alloc", NEW s, FileOK(curDataId, s), WholePages(s), Fits(s),
           store(s), UNCHANGED cur
    PROVE  StoreInv'
<1>1. curDataId \in Files /\ pending \in Shapes
  BY CurrentFile
<1>2. storages' = [storages EXCEPT ![curDataId] = Stored(s, pending)]
  BY Zenon DEF store, Stored
<1>3. FileOK(curDataId, Stored(s, pending)) /\ WholePages(Stored(s, pending))
  BY <1>1, StoredFile DEF Fits
<1>4. FilesInv'
  BY <1>1, <1>2, <1>3, FilesStep DEF store
<1>5. ControlInv'
  BY DEF StoreInv, ControlInv, store
<1>6. CidsInv'
  <2>1. /\ s.sz \in Nat /\ pending.type \in Types /\ curDataId \in Nat \ {0}
    BY <1>1, Constants DEF FileOK, FileType, Types
  <2>2. Cid(curDataId, pending.type, s.sz) \in CidType
    BY <2>1 DEF Cid, CidType, FileIds
  <2>3. [cid |-> Cid(curDataId, pending.type, s.sz), rec |-> pending]
            \in [cid : CidType, rec : Shapes]
    BY <1>1, <2>2
  <2> QED
    BY <2>3, AppendProperties DEF StoreInv, CidsInv, store
<1>7. CurInv'
  BY DEF StoreInv, CurInv, store
<1> QED
  BY <1>4, <1>5, <1>6, <1>7 DEF StoreInv

LEMMA AllocStep == ASSUME StoreInv, alloc PROVE StoreInv'
<1>1. pc = "alloc"
  BY DEF alloc, allocFits, allocFull, allocGrows, allocGivesUp, MustGrow
<1>2. /\ curDataId \in Files /\ pending \in Shapes
      /\ FileOK(curDataId, Current) /\ WholePages(Current)
  BY <1>1, CurrentFile
<1>3. CASE allocFits
  BY <1>1, <1>2, <1>3, StoreStep DEF allocFits
<1>4. CASE allocGrows
  BY <1>1, <1>2, <1>4, GrownFile, StoreStep DEF allocGrows
<1>5. CASE allocFull \/ allocGivesUp
  <2>1. nextStorage /\ UNCHANGED cur
    BY <1>5 DEF allocFull, allocGivesUp
  <2>2. \E t : FileOK(curDataId, t) /\ storages' = [storages EXCEPT ![curDataId] = t]
    <3>1. CASE storages' = storages
      BY <1>2, <3>1 DEF StoreInv, FilesInv, Current
    <3>2. CASE storages' = [storages EXCEPT ![curDataId] = Unresized(@)]
      BY <1>2, <3>2, UnresizedFile DEF Current
    <3>3. CASE storages' = [storages EXCEPT ![curDataId] = Grown(@)]
      BY <1>2, <3>3, GrownFile DEF Current
    <3> QED
      BY <1>5, <3>1, <3>2, <3>3 DEF allocFull, allocGivesUp
  <2>3. FilesInv'
    BY <1>2, <2>1, <2>2, FilesStep DEF nextStorage
  <2>4. ControlInv'
    <3>1. curDataId \in 1 .. Len(Config) /\ Len(Config) \in Nat
      BY <1>2, Constants
    <3>2. Len(storages) = Len(Config)
      BY Constants DEF StoreInv, FilesInv
    <3> QED
      BY <1>2, <2>1, <3>1, <3>2 DEF StoreInv, ControlInv, nextStorage
  <2>5. CidsInv' /\ CurInv'
    BY <1>1, <2>1 DEF StoreInv, CidsInv, CurInv, nextStorage
  <2> QED
    BY <2>3, <2>4, <2>5 DEF StoreInv
<1> QED
  BY <1>3, <1>4, <1>5 DEF alloc

(* At most one record is at a place.                                       *)
LEMMA AtRecord ==
    ASSUME StoreInv, NEW f \in Files, NEW k \in 1 .. Len(storages[f].recs)
    PROVE  /\ storages[f].recs[k] \in Entry
           /\ RecordsAt(f, storages[f].recs[k].pos) = {k}
           /\ Deref(f, storages[f].recs[k].pos) = storages[f].recs[k].rec
<1> DEFINE recs == storages[f].recs
<1>1. recs \in Seq(Entry) /\ Len(recs) \in Nat /\ DOMAIN recs = 1 .. Len(recs)
  BY LenProperties DEF StoreInv, FilesInv, FileType
<1>2. \A i \in 1 .. Len(recs) : recs[i].pos \in Nat
  <2>1. \A i \in 1 .. Len(recs) : recs[i] \in Entry
    BY <1>1, ElementOfSeq
  <2> QED
    BY <2>1 DEF Entry
<1>3. \A i, j \in 1 .. Len(recs) : i < j => recs[i].pos < recs[j].pos
  BY DEF StoreInv, FilesInv, Gapless
<1> HIDE DEF recs
<1>4. \A i \in 1 .. Len(recs) : recs[i].pos = recs[k].pos => i = k
  <2> SUFFICES ASSUME NEW i \in 1 .. Len(recs), recs[i].pos = recs[k].pos, i # k
               PROVE  FALSE
    OBVIOUS
  <2>1. k \in 1 .. Len(recs)
    BY DEF recs
  <2>2. i < k \/ k < i
    BY <1>1, <2>1
  <2> QED
    BY <1>2, <1>3, <2>1, <2>2
<1>5. RecordsAt(f, recs[k].pos) = {k}
  BY <1>1, <1>4 DEF RecordsAt, recs
<1>6. Deref(f, recs[k].pos) = recs[k].rec
  <2>1. (CHOOSE i \in {k} : TRUE) = k
    OBVIOUS
  <2> QED
    BY <1>5, <2>1 DEF Deref, recs
<1> QED
  BY <1>1, <1>5, <1>6, ElementOfSeq DEF recs

(* What reading at a place gives.                                          *)
LEMMA ReadAt ==
    ASSUME StoreInv, NEW f \in Files, NEW pos, RecordsAt(f, pos) # {}
    PROVE  /\ pos \in Nat /\ Deref(f, pos) \in Shapes
           /\ \E k \in 1 .. Len(storages[f].recs) :
                /\ storages[f].recs[k].pos = pos /\ storages[f].recs[k].rec = Deref(f, pos)
                /\ RecordsAt(f, pos) = {k}
<1>1. PICK k \in DOMAIN storages[f].recs : storages[f].recs[k].pos = pos
  BY DEF RecordsAt
<1>2. k \in 1 .. Len(storages[f].recs)
  BY <1>1, LenProperties DEF StoreInv, FilesInv, FileType
<1>3. /\ storages[f].recs[k] \in Entry
      /\ RecordsAt(f, pos) = {k} /\ Deref(f, pos) = storages[f].recs[k].rec
  BY <1>1, <1>2, AtRecord
<1>4. storages[f].recs[k].pos \in Nat /\ storages[f].recs[k].rec \in Shapes
  BY <1>3 DEF Entry
<1> QED
  BY <1>1, <1>2, <1>3, <1>4

(* Whatever type is read, it is the type of some record.                   *)
LEMMA ReadType ==
    ASSUME StoreInv, NEW f \in Files, NEW pos, NEW t \in TypesAt(f, pos)
    PROVE  t \in Types
<1>1. CASE RecordsAt(f, pos) # {}
  <2>1. Deref(f, pos) \in Shapes
    BY <1>1, ReadAt
  <2> QED
    BY <1>1, <2>1 DEF TypesAt, Types
<1>2. CASE RecordsAt(f, pos) = {}
  BY <1>2 DEF TypesAt, Types
<1> QED
  BY <1>1, <1>2

LEMMA ReadStep == ASSUME StoreInv, begin \/ next PROVE StoreInv'
<1>1. UNCHANGED <<storages, curDataId, pending, cids>> /\ pc' = "read" /\ pc # "failed"
  BY DEF begin, next, nextHere, nextFile, nextEnd, Moving, moved, storeVars
<1>2. FilesInv' /\ ControlInv' /\ CidsInv'
  BY <1>1 DEF StoreInv, FilesInv, ControlInv, CidsInv
<1>3. CurInv'
  <2>1. CASE cur' = Cid_Undef
    BY <1>1, <2>1 DEF CurInv, Cid_Undef, FileIds, Types
  <2>2. CASE begin /\ cur' # Cid_Undef
    <3>1. PICK t \in TypesAt(1, 0) : cur' = Cid(1, t, 0)
      BY <2>2 DEF begin
    <3>2. t \in Types
      BY ReadType, Constants
    <3> QED
      BY <1>1, <3>1, <3>2 DEF CurInv, Cid, FileIds
  <2>3. CASE nextHere \/ nextFile
    <3>1. /\ FileOf(cur) \in Files /\ RecordsAt(FileOf(cur), cur.id) # {}
          /\ cur.fId \in 0 .. 3 /\ FileOf(cur) = cur.fId + 1
      BY <2>3 DEF nextHere, nextFile, Moving, Valid, FileOf, StoreInv, CurInv, FileIds
    <3>2. newPos \in Nat
      BY <3>1, ReadAt, RecordBytes DEF newPos
    <3>3. PICK t \in TypesAt(FileOf(cur), newPos) :
              cur' = Cid(FileOf(cur), t, newPos) \/ cur' = Cid(FileOf(cur) + 1, t, 0)
      BY <2>3 DEF nextHere, nextFile
    <3>4. t \in Types
      BY <3>1, ReadType
    <3> QED
      BY <1>1, <3>1, <3>2, <3>3, <3>4 DEF CurInv, Cid, FileIds
  <2> QED
    BY <2>1, <2>2, <2>3 DEF begin, next, nextEnd
<1> QED
  BY <1>2, <1>3 DEF StoreInv

LEMMA NextStore == StoreInv /\ [Next]_vars => StoreInv'
<1> SUFFICES ASSUME StoreInv, [Next]_vars
             PROVE  StoreInv'
  OBVIOUS
<1>1. ASSUME NEW r \in Shapes, addClause(r)
      PROVE  StoreInv'
  BY <1>1 DEF addClause, storeVars, StoreInv, FilesInv, ControlInv, CidsInv, CurInv
<1>2. CASE alloc
  BY <1>2, AllocStep
<1>3. CASE begin \/ next
  BY <1>3, ReadStep
<1>4. CASE UNCHANGED vars
  BY <1>4 DEF vars, storeVars, StoreInv, FilesInv, ControlInv, CidsInv, CurInv
<1> QED
  BY <1>1, <1>2, <1>3, <1>4 DEF Next, Step

LEMMA StoreInvariant == Spec => []StoreInv
<1> QED
  BY InitStore, NextStore, PTL DEF Spec

(* The sizes stay within the limits of the files and every record lies in  *)
(* mapped memory, with room for its literals and hints, also after a       *)
(* failure to grow, which takes part of the last page away: for files of   *)
(* any number and size, any records and any pages longer than a size word. *)
THEOREM RecordsStayMapped == Spec => []StorageOK
<1>1. ASSUME StoreInv
      PROVE  TypeOK
  <2>1. ASSUME NEW f \in Files
        PROVE  LET s == storages[f]
               IN  /\ s.maxBytes \in Nat /\ s.sz \in Nat
                   /\ s.mapped \in SizeWord .. s.maxBytes
                   /\ s.recs \in Seq([pos : Nat, rec : Shapes])
    <3>1. storages[f] \in FileType /\ Mapped(f, storages[f])
      BY <1>1 DEF StoreInv, FilesInv
    <3> QED
      BY <3>1 DEF Mapped, FileType, Entry, SizeWord
  <2>2. cids \in Seq([cid : [fId : 0 .. FileIds - 1, type : Types, id : Nat], rec : Shapes])
    BY <1>1 DEF StoreInv, CidsInv, CidType
  <2> QED
    BY <1>1, <2>1, <2>2 DEF StoreInv, ControlInv, CurInv, TypeOK
<1>2. ASSUME StoreInv, NEW f \in Files
      PROVE  LET s == storages[f]
                 End(k) == IF k = Len(s.recs) THEN s.sz ELSE s.recs[k + 1].pos
             IN  /\ s.sz # 0 => s.recs # <<>> /\ s.recs[1].pos = 0
                 /\ \A k \in DOMAIN s.recs :
                      LET r == s.recs[k].rec
                      IN  /\ End(k) = s.recs[k].pos + nBytes(r)
                          /\ s.recs[k].pos + 16 + 4 * r.nLits + 8 * r.nHints <= End(k)
                 /\ SizeWord + s.sz <= PageUp(s.mapped)
  <2> DEFINE s == storages[f]
             End(k) == IF k = Len(s.recs) THEN s.sz ELSE s.recs[k + 1].pos
  <2>1. Gapless(s) /\ Mapped(f, s)
    BY <1>2 DEF StoreInv, FilesInv
  <2>2. s.recs \in Seq(Entry) /\ DOMAIN s.recs = 1 .. Len(s.recs) /\ Len(s.recs) \in Nat
    BY <1>2, LenProperties DEF StoreInv, FilesInv, FileType
  <2>3. ASSUME NEW k \in DOMAIN s.recs
        PROVE  /\ End(k) = s.recs[k].pos + nBytes(s.recs[k].rec)
               /\ s.recs[k].pos + 16 + 4 * s.recs[k].rec.nLits + 8 * s.recs[k].rec.nHints
                      <= End(k)
    <3>1. s.recs[k].pos \in Nat /\ s.recs[k].rec \in Shapes
      <4>1. s.recs[k] \in Entry
        BY <2>2, ElementOfSeq
      <4> QED
        BY <4>1 DEF Entry
    <3>2. End(k) = s.recs[k].pos + nBytes(s.recs[k].rec)
      <4>1. CASE k = Len(s.recs)
        <5>1. s.recs # <<>>
          BY <2>2
        <5> QED
          BY <2>1, <4>1, <5>1 DEF Gapless
      <4>2. CASE k # Len(s.recs)
        <5>1. k \in 1 .. Len(s.recs) - 1
          BY <2>2, <4>2
        <5> QED
          BY <2>1, <4>2, <5>1 DEF Gapless
      <4> QED
        BY <4>1, <4>2
    <3> HIDE DEF End
    <3> QED
      BY <3>1, <3>2, RecordBytes
  <2> QED
    BY <2>1, <2>3 DEF Gapless, Mapped
<1>3. StoreInv => StorageOK
  BY <1>1, <1>2 DEF StorageOK, RecordsMapped
<1> QED
  BY <1>3, StoreInvariant, PTL

-----------------------------------------------------------------------------
(* Only storing a record changes what the files hold and which cids there  *)
(* are.                                                                    *)

Storing(s) ==
    /\ pc = "alloc" /\ store(s) /\ UNCHANGED cur
    /\ s.recs = Current.recs /\ s.sz = Current.sz /\ FileOK(curDataId, s)

SameRecords == (\A f \in Files : storages'[f].recs = storages[f].recs) /\ cids' = cids

LEMMA StoringOrSame ==
    ASSUME StoreInv, [Next]_vars
    PROVE  (\E s : Storing(s)) \/ SameRecords
<1>1. CASE UNCHANGED <<storages, cids>>
  BY <1>1 DEF SameRecords
<1>2. CASE alloc
  <2>1. pc = "alloc"
    BY <1>2 DEF alloc, allocFits, allocFull, allocGrows, allocGivesUp, MustGrow
  <2>2. /\ curDataId \in Files /\ pending \in Shapes
        /\ FileOK(curDataId, Current) /\ WholePages(Current)
    BY <2>1, CurrentFile
  <2>3. CASE allocFits
    BY <2>1, <2>2, <2>3 DEF allocFits, Storing
  <2>4. CASE allocGrows
    BY <2>1, <2>2, <2>4, GrownFile DEF allocGrows, Storing
  <2>5. CASE allocFull \/ allocGivesUp
    <3>1. cids' = cids
      BY <2>5 DEF allocFull, allocGivesUp, nextStorage
    <3>2. Unresized(Current).recs = Current.recs /\ Grown(Current).recs = Current.recs
      BY <2>2, UnresizedFile, GrownFile
    <3>3. \A f \in Files : storages'[f].recs = storages[f].recs
      BY <2>2, <2>5, <3>2 DEF allocFull, allocGivesUp, Current, StoreInv, FilesInv
    <3> QED
      BY <3>1, <3>3 DEF SameRecords
  <2> QED
    BY <1>2, <2>3, <2>4, <2>5 DEF alloc
<1> QED
  BY <1>1, <1>2 DEF Next, Step, addClause, begin, next, nextHere, nextFile, nextEnd, moved,
                    storeVars, vars

LEMMA StoredRecords ==
    ASSUME StoreInv, NEW s, Storing(s)
    PROVE  /\ curDataId \in Files /\ pending \in Shapes
           /\ \A f \in Files \ {curDataId} : storages'[f] = storages[f]
           /\ storages'[curDataId].recs =
                  Append(storages[curDataId].recs, [pos |-> s.sz, rec |-> pending])
           /\ [pos |-> s.sz, rec |-> pending] \in Entry
<1>1. curDataId \in Files /\ pending \in Shapes
  BY CurrentFile DEF Storing
<1>2. storages' = [storages EXCEPT ![curDataId] = Stored(s, pending)]
  BY Zenon DEF Storing, store, Stored
<1>3. Stored(s, pending).recs = Append(s.recs, [pos |-> s.sz, rec |-> pending])
  BY DEF Stored, Storing, FileOK, FileType
<1>4. [pos |-> s.sz, rec |-> pending] \in Entry
  BY <1>1 DEF Storing, FileOK, FileType, Entry
<1> QED
  BY <1>1, <1>2, <1>3, <1>4 DEF StoreInv, FilesInv, Current, Storing

-----------------------------------------------------------------------------
(* The cids that were handed out.                                          *)

Names(files, c, rec) ==
    /\ FileOf(c) \in Files
    /\ c.type = rec.type
    /\ \E j \in 1 .. Len(files[FileOf(c)].recs) :
         /\ files[FileOf(c)].recs[j].pos = c.id
         /\ files[FileOf(c)].recs[j].rec = rec

CidsNamed == \A k \in 1 .. Len(cids) : Names(storages, cids[k].cid, cids[k].rec)

(* A file keeps its records where they are.                                *)
LEMMA NamesStay ==
    ASSUME StoreInv, NEW s, Storing(s), NEW c, NEW rec, Names(storages, c, rec)
    PROVE  Names(storages', c, rec)
<1> DEFINE f == FileOf(c)
           e == [pos |-> s.sz, rec |-> pending]
<1>1. f \in Files
  BY DEF Names
<1>2. PICK j \in 1 .. Len(storages[f].recs) :
          storages[f].recs[j].pos = c.id /\ storages[f].recs[j].rec = rec
  BY DEF Names
<1>3. storages[f].recs \in Seq(Entry)
  BY <1>1 DEF StoreInv, FilesInv, FileType
<1>4. /\ j \in 1 .. Len(storages'[f].recs)
      /\ storages'[f].recs[j] = storages[f].recs[j]
  <2>1. CASE f = curDataId
    <3>1. storages'[f].recs = Append(storages[f].recs, e) /\ e \in Entry
      BY <2>1, StoredRecords
    <3> HIDE DEF e, f
    <3> QED
      BY <1>2, <1>3, <3>1, AppendProperties, LenProperties
  <2>2. CASE f # curDataId
    BY <1>1, <1>2, <2>2, StoredRecords
  <2> QED
    BY <2>1, <2>2
<1> QED
  BY <1>1, <1>2, <1>4 DEF Names

LEMMA CidsStep ==
    ASSUME Len(Config) <= FileIds, StoreInv, CidsNamed, [Next]_vars
    PROVE  CidsNamed'
<1>1. CASE SameRecords
  <2>1. ASSUME NEW c, NEW rec, Names(storages, c, rec)
        PROVE  Names(storages', c, rec)
    BY <1>1, <2>1 DEF SameRecords, Names
  <2> QED
    BY <1>1, <2>1 DEF SameRecords, CidsNamed
<1>2. ASSUME NEW s, Storing(s)
      PROVE  CidsNamed'
  <2> DEFINE c == Cid(curDataId, pending.type, s.sz)
             new == [cid |-> c, rec |-> pending]
             f == curDataId
  <2>1. /\ f \in Files /\ pending \in Shapes
        /\ storages'[f].recs = Append(storages[f].recs, [pos |-> s.sz, rec |-> pending])
        /\ [pos |-> s.sz, rec |-> pending] \in Entry
    BY <1>2, StoredRecords
  <2>2. cids' = Append(cids, new)
    BY <1>2 DEF Storing, store
  <2>3. f \in 1 .. 4
    BY <2>1, Constants
  <2>4. c.type = pending.type /\ c.id = s.sz /\ FileOf(c) = f
    BY <2>3 DEF Cid, FileOf, FileIds
  <2>5. storages[f].recs \in Seq(Entry)
    BY <2>1 DEF StoreInv, FilesInv, FileType
  <2>6. LET n == Len(storages[f].recs) + 1
        IN  /\ n \in 1 .. Len(storages'[f].recs)
            /\ storages'[f].recs[n] = [pos |-> s.sz, rec |-> pending]
    BY <2>1, <2>5, AppendProperties, LenProperties
  <2> HIDE DEF c
  <2>7. Names(storages', c, pending)
    BY <2>1, <2>4, <2>6 DEF Names
  <2>8. cids \in Seq([cid : CidType, rec : Shapes])
    BY DEF StoreInv, CidsInv
  <2>9. \A k \in 1 .. Len(cids) : Names(storages', cids[k].cid, cids[k].rec)
    BY <1>2, NamesStay DEF CidsNamed
  <2>10. /\ Len(cids') = Len(cids) + 1 /\ Len(cids) \in Nat
         /\ \A k \in 1 .. Len(cids) : cids'[k] = cids[k]
         /\ cids'[Len(cids) + 1] = new
    BY <2>2, <2>8
  <2> QED
    BY <2>7, <2>9, <2>10 DEF CidsNamed
<1> QED
  BY <1>1, <1>2, StoringOrSame

(* A cid that was handed out keeps naming its record and its type, with    *)
(* any files, as long as their number is one that cids can tell apart:     *)
(* getCID asserts it (fId < 4).                                            *)
THEOREM CidsKeepResolving ==
    ASSUME Len(Config) <= FileIds
    PROVE  Spec => []CidsResolve
<1>1. Init => CidsNamed
  BY DEF Init, CidsNamed
<1>2. StoreInv /\ CidsNamed /\ [Next]_vars => CidsNamed'
  BY CidsStep
<1>3. StoreInv /\ CidsNamed => CidsResolve
  <2> SUFFICES ASSUME StoreInv, CidsNamed, NEW k \in DOMAIN cids
               PROVE  LET c == cids[k].cid
                      IN  /\ Valid(c)
                          /\ Deref(FileOf(c), c.id) = cids[k].rec
                          /\ c.type = cids[k].rec.type
    BY DEF CidsResolve
  <2> DEFINE c == cids[k].cid
             f == FileOf(c)
  <2>1. k \in 1 .. Len(cids)
    BY LenProperties DEF StoreInv, CidsInv
  <2>2. Names(storages, c, cids[k].rec)
    BY <2>1 DEF CidsNamed
  <2>3. PICK j \in 1 .. Len(storages[f].recs) :
            storages[f].recs[j].pos = c.id /\ storages[f].recs[j].rec = cids[k].rec
    BY <2>2 DEF Names
  <2>4. f \in Files /\ c.type = cids[k].rec.type
    BY <2>2 DEF Names
  <2>5. RecordsAt(f, c.id) = {j} /\ Deref(f, c.id) = cids[k].rec
    BY <2>3, <2>4, AtRecord
  <2> QED
    BY <2>4, <2>5 DEF Valid
<1> QED
  BY <1>1, <1>2, <1>3, StoreInvariant, PTL DEF Spec

-----------------------------------------------------------------------------
(***************************************************************************)
(* To its users the clause database is the log of ClauseLog: every step on *)
(* the memory-mapped files is a step of the log or none.                   *)
(***************************************************************************)

(* Every file has room for any one record before it grows.                 *)
RoomForOne == \A f \in Files, r \in Shapes : nBytes(r) <= capacity(Opened(Config[f]))

(* No file is left without a record in it; a file without one is as it was *)
(* opened.                                                                 *)
FilledInOrder ==
    \A f \in Files :
        /\ f < curDataId => storages[f].recs # <<>>
        /\ f >= curDataId /\ storages[f].recs = <<>> => storages[f] = Opened(Config[f])

(* The log has a record for each place.                                    *)
Counted ==
    /\ AllRecords \in Seq(Shapes)
    /\ IsFiniteSet(Places) /\ Cardinality(Places) = Len(AllRecords)

-----------------------------------------------------------------------------
(* How the log changes.                                                    *)
Recs(files) ==
    [f \in Files |-> [k \in DOMAIN files[f].recs |-> files[f].recs[k].rec]]

LEMMA RecsProperties ==
    ASSUME StoreInv
    PROVE  /\ Recs(storages) \in Seq(Seq(Shapes)) /\ Len(Recs(storages)) = Len(Config)
           /\ \A f \in Files : Recs(storages)[f] = <<>> <=> storages[f].recs = <<>>
<1>1. Len(Config) \in Nat /\ Files = 1 .. Len(Config)
  BY Constants
<1>2. ASSUME NEW f \in Files
      PROVE  /\ Recs(storages)[f] \in Seq(Shapes)
             /\ Recs(storages)[f] = <<>> <=> storages[f].recs = <<>>
  <2> DEFINE recs == storages[f].recs
             rs == [k \in DOMAIN recs |-> recs[k].rec]
  <2>1. recs \in Seq(Entry) /\ DOMAIN recs = 1 .. Len(recs) /\ Len(recs) \in Nat
    BY LenProperties DEF StoreInv, FilesInv, FileType
  <2>2. \A k \in DOMAIN recs : recs[k].rec \in Shapes
    <3>1. \A k \in DOMAIN recs : recs[k] \in Entry
      BY <2>1, ElementOfSeq
    <3> QED
      BY <3>1 DEF Entry
  <2> HIDE DEF recs
  <2>3. rs \in Seq(Shapes) /\ Len(rs) = Len(recs)
    BY <2>1, <2>2
  <2>4. rs = <<>> <=> recs = <<>>
    BY <2>1, <2>3, EmptySeq
  <2> HIDE DEF rs
  <2>5. Recs(storages)[f] = rs
    BY DEF Recs, recs, rs
  <2> QED
    BY <2>3, <2>4, <2>5 DEF recs
<1>3. Recs(storages) = [f \in 1 .. Len(Config) |-> Recs(storages)[f]]
  BY <1>1 DEF Recs
<1> QED
  BY <1>1, <1>2, <1>3

LEMMA AllRecordsRecs ==
    /\ AllRecords = FlattenSeq(Recs(storages))
    /\ AllRecords' = FlattenSeq(Recs(storages'))
BY DEF AllRecords, RecordsOf, Recs

(* Storing a record adds it to the log and its place to the places.        *)
LEMMA StoringAppends ==
    ASSUME StoreInv, NEW s, Storing(s)
    PROVE  /\ AllRecords \in Seq(Shapes)
           /\ AllRecords' = Append(AllRecords, pending)
           /\ Places' = Places \cup {[f |-> curDataId, k |-> Len(storages[curDataId].recs) + 1]}
           /\ [f |-> curDataId, k |-> Len(storages[curDataId].recs) + 1] \notin Places
<1> DEFINE d == curDataId
           recs == storages[d].recs
           e == [pos |-> s.sz, rec |-> pending]
           recs2 == storages'[d].recs
           n == Len(recs)
<1>1. /\ d \in Files /\ pending \in Shapes /\ e \in Entry
      /\ \A f \in Files \ {d} : storages'[f] = storages[f]
      /\ recs2 = Append(recs, e)
  BY StoredRecords
<1>2. recs \in Seq(Entry) /\ DOMAIN recs = 1 .. n /\ n \in Nat
  BY <1>1, LenProperties DEF StoreInv, FilesInv, FileType
<1>3. /\ DOMAIN recs2 = 1 .. n + 1
      /\ \A k \in 1 .. n : recs2[k] = recs[k]
      /\ recs2[n + 1] = e
  <2> HIDE DEF recs, recs2, e
  <2> QED
    BY <1>1, <1>2
<1>4. Recs(storages)[d] = [k \in 1 .. n |-> recs[k].rec]
  BY <1>1, <1>2 DEF Recs
<1>5. Recs(storages')[d] = [k \in 1 .. n + 1 |-> recs2[k].rec]
  BY <1>1, <1>3 DEF Recs
<1>6. Recs(storages')[d] = Append(Recs(storages)[d], pending)
  <2>1. Recs(storages)[d] \in Seq(Shapes)
    BY <1>1, RecsProperties, ElementOfSeq, Constants
  <2>2. e.rec = pending
    OBVIOUS
  <2> HIDE DEF recs, recs2, e, d, n
  <2> QED
    BY <1>2, <1>3, <1>4, <1>5, <2>1, <2>2
<1>7. Recs(storages') = [Recs(storages) EXCEPT ![d] = Append(Recs(storages)[d], pending)]
  <2>1. \A f \in Files \ {d} : Recs(storages')[f] = Recs(storages)[f]
    BY <1>1 DEF Recs
  <2>2. Recs(storages) = [f \in Files |-> Recs(storages)[f]]
    BY DEF Recs
  <2>3. Recs(storages') = [f \in Files |-> Recs(storages')[f]]
    BY DEF Recs
  <2> HIDE DEF d
  <2> QED
    BY <1>1, <1>6, <2>1, <2>2, <2>3
<1>8. AllRecords \in Seq(Shapes) /\ AllRecords' = Append(AllRecords, pending)
  <2>1. \A i \in d + 1 .. Len(Recs(storages)) : Recs(storages)[i] = <<>>
    <3> SUFFICES ASSUME NEW i \in d + 1 .. Len(Recs(storages))
                 PROVE  Recs(storages)[i] = <<>>
      OBVIOUS
    <3>1. i \in Files /\ i > d
      BY <1>1, RecsProperties, Constants
    <3> QED
      BY <3>1, RecsProperties DEF StoreInv, FilesInv
  <2>2. d \in 1 .. Len(Recs(storages))
    BY <1>1, RecsProperties, Constants
  <2> HIDE DEF d
  <2>3. /\ FlattenSeq(Recs(storages)) \in Seq(Shapes)
        /\ FlattenSeq([Recs(storages) EXCEPT ![d] = Append(Recs(storages)[d], pending)])
             = Append(FlattenSeq(Recs(storages)), pending)
    BY <1>1, <2>1, <2>2, RecsProperties, FlattenAppend
  <2> QED
    BY <1>7, <2>3, AllRecordsRecs, Zenon
<1>9. Places' = Places \cup {[f |-> d, k |-> n + 1]} /\ [f |-> d, k |-> n + 1] \notin Places
  <2>1. Places = UNION {{[f |-> f, k |-> k] : k \in DOMAIN storages[f].recs} : f \in Files}
    BY DEF Places
  <2>2. Places' = UNION {{[f |-> f, k |-> k] : k \in DOMAIN storages'[f].recs} : f \in Files}
    BY DEF Places
  <2>3. \A f \in Files \ {d} : DOMAIN storages'[f].recs = DOMAIN storages[f].recs
    BY <1>1
  <2>4. DOMAIN storages'[d].recs = DOMAIN storages[d].recs \cup {n + 1}
    BY <1>2, <1>3
  <2>5. n + 1 \notin DOMAIN storages[d].recs
    BY <1>2
  <2> DEFINE new == [f |-> d, k |-> n + 1]
  <2>6. \A p : p \in Places <=> \E f \in Files : \E k \in DOMAIN storages[f].recs :
                                  p = [f |-> f, k |-> k]
    BY <2>1
  <2>7. \A p : p \in Places' <=> \E f \in Files : \E k \in DOMAIN storages'[f].recs :
                                  p = [f |-> f, k |-> k]
    BY <2>2
  <2>8. \A f, k : new = [f |-> f, k |-> k] <=> f = d /\ k = n + 1
    OBVIOUS
  <2>9. \A f \in Files : \A k : k \in DOMAIN storages'[f].recs <=>
                                k \in DOMAIN storages[f].recs \/ (f = d /\ k = n + 1)
    <3> HIDE DEF d, n
    <3> QED
      BY <2>3, <2>4
  <2> HIDE DEF d, n, new
  <2>10. new \notin Places
    BY <2>5, <2>6, <2>8, ZenonT(30)
  <2>11. \A p : p \in Places' <=> p \in Places \/ p = new
    BY <1>1, <2>6, <2>7, <2>9, Zenon DEF new
  <2> QED
    BY <2>10, <2>11 DEF new
<1> QED
  BY <1>8, <1>9

LEMMA SameLog ==
    ASSUME SameRecords
    PROVE  AllRecords' = AllRecords /\ Places' = Places
BY DEF SameRecords, AllRecords, RecordsOf, Places

LEMMA CountedInit == ASSUME Init PROVE AllRecords = <<>> /\ Counted
<1>1. StoreInv
  BY InitStore
<1>2. \A f \in Files : storages[f].recs = <<>>
  BY DEF Init, Opened
<1>3. AllRecords = <<>>
  <2>1. \A i \in 1 .. Len(Recs(storages)) : Recs(storages)[i] = <<>>
    BY <1>1, <1>2, RecsProperties, Constants
  <2> QED
    BY <1>1, <2>1, RecsProperties, FlattenEmpty, AllRecordsRecs
<1>4. Places = {}
  BY <1>2 DEF Places
<1> QED
  BY <1>3, <1>4, FS_EmptySet DEF Counted

LEMMA CountedStep == ASSUME StoreInv, Counted, [Next]_vars PROVE Counted'
<1>1. CASE SameRecords
  BY <1>1, SameLog DEF Counted
<1>2. ASSUME NEW s, Storing(s)
      PROVE  Counted'
  <2>1. /\ AllRecords' = Append(AllRecords, pending) /\ pending \in Shapes
        /\ \E p : p \notin Places /\ Places' = Places \cup {p}
    BY <1>2, StoringAppends, StoredRecords
  <2>2. Len(AllRecords') = Len(AllRecords) + 1 /\ AllRecords' \in Seq(Shapes)
    BY <2>1 DEF Counted
  <2>3. IsFiniteSet(Places') /\ Cardinality(Places') = Cardinality(Places) + 1
    BY <2>1, FS_AddElement DEF Counted
  <2> QED
    BY <2>2, <2>3 DEF Counted
<1> QED
  BY <1>1, <1>2, StoringOrSame

-----------------------------------------------------------------------------
(* The files are filled in their order.                                    *)
LEMMA FilledInit == Init => FilledInOrder
<1> SUFFICES ASSUME Init, NEW f \in Files
             PROVE  ~(f < curDataId) /\ storages[f] = Opened(Config[f])
  BY DEF FilledInOrder
<1> QED
  BY Constants DEF Init

LEMMA FilledStep ==
    ASSUME RoomForOne, StoreInv, FilledInOrder, [Next]_vars
    PROVE  FilledInOrder'
<1> USE DEF FilledInOrder
<1>1. CASE UNCHANGED <<storages, curDataId>>
  BY <1>1
<1>2. CASE \E s : Storing(s)
  <2>1. PICK s : Storing(s)
    BY <1>2
  <2>2. /\ \A f \in Files \ {curDataId} : storages'[f] = storages[f]
        /\ storages'[curDataId].recs # <<>>
        /\ curDataId' = curDataId
    <3>1. /\ curDataId \in Files
          /\ storages'[curDataId].recs =
               Append(storages[curDataId].recs, [pos |-> s.sz, rec |-> pending])
          /\ storages[curDataId].recs \in Seq(Entry)
          /\ [pos |-> s.sz, rec |-> pending] \in Entry
      BY <2>1, StoredRecords DEF StoreInv, FilesInv, FileType
    <3>2. storages'[curDataId].recs # <<>>
      BY <3>1, AppendProperties
    <3> QED
      BY <2>1, <3>2, StoredRecords DEF Storing, store
  <2> QED
    BY <2>2
<1>3. CASE allocFull \/ allocGivesUp
  <2> DEFINE d == curDataId
  <2>1. pc = "alloc" /\ ~Fits(Current) /\ curDataId' = d + 1
    BY <1>3 DEF allocFull, allocGivesUp, MustGrow, nextStorage
  <2>2. d \in Files /\ pending \in Shapes /\ FileOK(d, Current)
    BY <2>1, CurrentFile
  <2>3. storages[d].recs # <<>>
    <3> SUFFICES ASSUME storages[d].recs = <<>>
                 PROVE  FALSE
      OBVIOUS
    <3>1. d \in Nat /\ Current = Opened(Config[d])
      BY <2>2, Constants DEF Current
    <3>2. Current.sz = 0 /\ nBytes(pending) <= capacity(Current)
      BY <2>2, <3>1 DEF RoomForOne, Opened
    <3>3. nBytes(pending) \in Nat
      BY <2>2, RecordBytes
    <3> QED
      BY <2>1, <3>2, <3>3 DEF Fits
  <2>4. /\ \A f \in Files \ {d} : storages'[f] = storages[f]
        /\ storages'[d].recs = storages[d].recs
    <3>1. Unresized(Current).recs = Current.recs /\ Grown(Current).recs = Current.recs
      BY <2>1, <2>2, CurrentFile, UnresizedFile, GrownFile
    <3> QED
      BY <1>3, <2>2, <3>1 DEF allocFull, allocGivesUp, Current, StoreInv, FilesInv
  <2> SUFFICES ASSUME NEW f \in Files
               PROVE  /\ f < curDataId' => storages'[f].recs # <<>>
                      /\ f >= curDataId' /\ storages'[f].recs = <<>>
                           => storages'[f] = Opened(Config[f])
    OBVIOUS
  <2>5. f \in Nat /\ d \in Nat
    BY <2>2, Constants
  <2>6. CASE f = d
    BY <2>1, <2>3, <2>4, <2>5, <2>6
  <2>7. CASE f # d
    BY <2>1, <2>4, <2>5, <2>7
  <2> QED
    BY <2>6, <2>7
<1>4. CASE alloc
  <2>1. pc = "alloc"
    BY <1>4 DEF alloc, allocFits, allocFull, allocGrows, allocGivesUp, MustGrow
  <2>2. FileOK(curDataId, Current) /\ WholePages(Current) /\ pending \in Shapes
        /\ curDataId \in Files
    BY <2>1, CurrentFile
  <2>3. CASE allocFits
    BY <1>2, <2>1, <2>2, <2>3 DEF allocFits, Storing
  <2>4. CASE allocGrows
    BY <1>2, <2>1, <2>2, <2>4, GrownFile DEF allocGrows, Storing
  <2> QED
    BY <1>3, <1>4, <2>3, <2>4 DEF alloc
<1> QED
  BY <1>1, <1>4 DEF Next, Step, addClause, begin, next, nextHere, nextFile, nextEnd, moved,
                    storeVars, vars

-----------------------------------------------------------------------------
(* The place of an iteration.                                              *)
LEMMA PlacesMembers ==
    ASSUME StoreInv
    PROVE  \A p : p \in Places <=> \E f \in Files : \E k \in 1 .. Len(storages[f].recs) :
                                       p = [f |-> f, k |-> k]
<1>1. \A f \in Files : DOMAIN storages[f].recs = 1 .. Len(storages[f].recs)
  BY LenProperties DEF StoreInv, FilesInv, FileType
<1> QED
  BY <1>1 DEF Places

(* The places up to the record k of the file f.                            *)
Upto(f, k) == {p \in Places : p.f < f \/ (p.f = f /\ p.k <= k)}

LEMMA PlaceOfRecord ==
    ASSUME StoreInv, NEW c, FileOf(c) \in Files,
           NEW k \in 1 .. Len(storages[FileOf(c)].recs),
           storages[FileOf(c)].recs[k].pos = c.id
    PROVE  PlaceOf(c) = Cardinality(Upto(FileOf(c), k))
<1> DEFINE f == FileOf(c)
           recs == storages[f].recs
<1>1. \A i \in 1 .. Len(recs) : recs[i].pos \in Nat
  <2>1. recs \in Seq(Entry)
    BY DEF StoreInv, FilesInv, FileType
  <2>2. \A i \in 1 .. Len(recs) : recs[i] \in Entry
    BY <2>1, ElementOfSeq
  <2> QED
    BY <2>2 DEF Entry
<1>2. \A i, j \in 1 .. Len(recs) : i < j => recs[i].pos < recs[j].pos
  BY DEF StoreInv, FilesInv, Gapless
<1>3. \A i \in 1 .. Len(recs) : recs[i].pos <= c.id <=> i <= k
  <2> SUFFICES ASSUME NEW i \in 1 .. Len(recs)
               PROVE  recs[i].pos <= c.id <=> i <= k
    OBVIOUS
  <2>1. i \in Int /\ k \in Int /\ k \in 1 .. Len(recs) /\ recs[k].pos = c.id
    OBVIOUS
  <2> HIDE DEF recs
  <2>2. recs[i].pos \in Nat /\ recs[k].pos \in Nat
    BY <1>1, <2>1
  <2>3. CASE i < k
    BY <1>2, <2>1, <2>2, <2>3
  <2>4. CASE i = k
    BY <2>1, <2>2, <2>4
  <2>5. CASE k < i
    BY <1>2, <2>1, <2>2, <2>5
  <2> QED
    BY <2>1, <2>3, <2>4, <2>5
<1>4. \A p \in Places : p.f = f => storages[p.f].recs[p.k].pos = recs[p.k].pos
                                   /\ p.k \in 1 .. Len(recs)
  BY PlacesMembers
<1>5. {p \in Places : \/ p.f < f
                      \/ p.f = f /\ storages[p.f].recs[p.k].pos <= c.id} = Upto(f, k)
  <2> HIDE DEF f, recs
  <2> QED
    BY <1>3, <1>4 DEF Upto
<1> QED
  BY <1>5 DEF PlaceOf

LEMMA UptoProperties ==
    ASSUME StoreInv, Counted, NEW f \in Files, NEW k \in 1 .. Len(storages[f].recs)
    PROVE  /\ IsFiniteSet(Upto(f, k))
           /\ Cardinality(Upto(f, k)) \in 1 .. Len(AllRecords)
           /\ Upto(f, k) = Places => Cardinality(Upto(f, k)) = Len(AllRecords)
<1>1. Upto(f, k) \subseteq Places /\ IsFiniteSet(Places)
      /\ Cardinality(Places) = Len(AllRecords) /\ Len(AllRecords) \in Nat
  BY LenProperties DEF Upto, Counted
<1>2. IsFiniteSet(Upto(f, k)) /\ Cardinality(Upto(f, k)) <= Cardinality(Places)
  BY <1>1, FS_Subset
<1>3. [f |-> f, k |-> k] \in Upto(f, k)
  BY PlacesMembers, Constants DEF Upto
<1>4. Cardinality(Upto(f, k)) \in Nat /\ Cardinality(Upto(f, k)) # 0
  BY <1>2, <1>3, FS_CardinalityType, FS_EmptySet
<1> QED
  BY <1>1, <1>2, <1>4

(* The first record of the log has place one.                              *)
LEMMA FirstPlace ==
    ASSUME StoreInv, 1 \in 1 .. Len(storages[1].recs)
    PROVE  Cardinality(Upto(1, 1)) = 1
<1>1. 1 \in Files /\ \A f \in Files : f \in Nat /\ f >= 1
  BY Constants
<1>2. Upto(1, 1) = {[f |-> 1, k |-> 1]}
  <2>1. ASSUME NEW p \in Upto(1, 1)
        PROVE  p = [f |-> 1, k |-> 1]
    <3>0. PICK f \in Files : \E k \in 1 .. Len(storages[f].recs) : p = [f |-> f, k |-> k]
      BY PlacesMembers DEF Upto
    <3>1. PICK k \in 1 .. Len(storages[f].recs) : p = [f |-> f, k |-> k]
      BY <3>0
    <3>2. f = 1 /\ k = 1
      BY <1>1, <3>1 DEF Upto
    <3> QED
      BY <3>1, <3>2
  <2>2. [f |-> 1, k |-> 1] \in Upto(1, 1)
    BY <1>1, PlacesMembers DEF Upto
  <2> QED
    BY <2>1, <2>2
<1> QED
  BY <1>2, FS_Singleton

(* The next record, in the same file or in the next one, has the next one. *)
LEMMA NextPlace ==
    ASSUME StoreInv, Counted,
           NEW f \in Files, NEW k \in 1 .. Len(storages[f].recs),
           NEW g \in Files, NEW j \in 1 .. Len(storages[g].recs),
           (g = f /\ j = k + 1) \/ (g = f + 1 /\ j = 1 /\ k = Len(storages[f].recs))
    PROVE  /\ Cardinality(Upto(g, j)) = Cardinality(Upto(f, k)) + 1
           /\ Cardinality(Upto(f, k)) < Len(AllRecords)
<1> DEFINE new == [f |-> g, k |-> j]
<1>1. f \in Nat /\ g \in Nat /\ k \in Nat /\ j \in Nat
  BY Constants
<1>2. new \notin Upto(f, k)
  BY <1>1 DEF Upto
<1>3. ASSUME NEW p
      PROVE  p \in Upto(g, j) <=> p \in Upto(f, k) \/ p = new
  <2>1. CASE p \in Places
    <3>0. PICK h \in Files : \E i \in 1 .. Len(storages[h].recs) : p = [f |-> h, k |-> i]
      BY <2>1, PlacesMembers
    <3>1. PICK i \in 1 .. Len(storages[h].recs) : p = [f |-> h, k |-> i]
      BY <3>0
    <3>2. h \in Nat /\ i \in Nat /\ (p = new <=> h = g /\ i = j) /\ p.f = h /\ p.k = i
      BY <3>1, Constants
    <3>3. h = f => i <= Len(storages[f].recs)
      BY <1>1
    <3>4. h = g => i >= 1
      OBVIOUS
    <3>5. (h < g \/ (h = g /\ i <= j)) <=> (h < f \/ (h = f /\ i <= k)) \/ (h = g /\ i = j)
      BY <1>1, <3>2, <3>3, <3>4
    <3> QED
      BY <2>1, <3>2, <3>5 DEF Upto
  <2>2. CASE p \notin Places
    <3>1. new \in Places
      BY PlacesMembers
    <3> QED
      BY <2>2, <3>1 DEF Upto
  <2> QED
    BY <2>1, <2>2
<1>4. Upto(g, j) = Upto(f, k) \cup {new}
  <2> HIDE DEF new
  <2> QED
    BY <1>3
<1>5. Cardinality(Upto(g, j)) = Cardinality(Upto(f, k)) + 1
  <2> HIDE DEF new
  <2> QED
    BY <1>2, <1>4, UptoProperties, FS_AddElement, ZenonT(30)
<1> QED
  BY <1>5, UptoProperties, LenProperties DEF Counted

(* The last record of the last file that has one has the last place.       *)
LEMMA LastPlace ==
    ASSUME StoreInv, Counted,
           NEW f \in Files, NEW k \in 1 .. Len(storages[f].recs), k = Len(storages[f].recs),
           \A g \in Files : g > f => storages[g].recs = <<>>
    PROVE  Cardinality(Upto(f, k)) = Len(AllRecords)
<1>1. Places \subseteq Upto(f, k)
  <2> SUFFICES ASSUME NEW p \in Places
               PROVE  p.f < f \/ (p.f = f /\ p.k <= k)
    BY DEF Upto
  <2>0. PICK h \in Files : \E i \in 1 .. Len(storages[h].recs) : p = [f |-> h, k |-> i]
    BY PlacesMembers
  <2>1. PICK i \in 1 .. Len(storages[h].recs) : p = [f |-> h, k |-> i]
    BY <2>0
  <2>2. ~(h > f)
    <3>1. h > f => Len(storages[h].recs) = 0
      OBVIOUS
    <3> QED
      BY <2>1, <3>1
  <2>3. h \in Nat /\ f \in Nat
    BY Constants
  <2> QED
    BY <2>1, <2>2, <2>3
<1>2. Upto(f, k) = Places
  BY <1>1 DEF Upto
<1> QED
  BY <1>2, UptoProperties

(* Where a record ends: at the next one of its file, or at the fill level. *)
LEMMA RecordEnd ==
    ASSUME StoreInv, NEW f \in Files, NEW k \in 1 .. Len(storages[f].recs)
    PROVE  LET recs == storages[f].recs
               end == recs[k].pos + nBytes(recs[k].rec)
           IN  /\ end < storages[f].sz => k + 1 \in 1 .. Len(recs) /\ recs[k + 1].pos = end
               /\ end >= storages[f].sz => k = Len(recs)
<1> DEFINE recs == storages[f].recs
           n == Len(recs)
           end == recs[k].pos + nBytes(recs[k].rec)
           sz == storages[f].sz
<1>1. n \in Nat /\ k \in 1 .. n /\ storages[f].sz \in Nat
  BY LenProperties DEF StoreInv, FilesInv, FileType
<1>2. \A i \in 1 .. n : recs[i].pos \in Nat /\ recs[i].rec \in Shapes
  <2>1. recs \in Seq(Entry)
    BY DEF StoreInv, FilesInv, FileType
  <2>2. \A i \in 1 .. n : recs[i] \in Entry
    BY <2>1, ElementOfSeq
  <2> QED
    BY <2>2 DEF Entry
<1>3. /\ recs # <<>> => storages[f].sz = recs[n].pos + nBytes(recs[n].rec)
      /\ \A i \in 1 .. n - 1 : recs[i + 1].pos = recs[i].pos + nBytes(recs[i].rec)
      /\ \A i, j \in 1 .. n : i < j => recs[i].pos < recs[j].pos
  BY DEF StoreInv, FilesInv, Gapless
<1>4. recs # <<>>
  BY <1>1
<1>5. nBytes(recs[n].rec) \in Nat /\ nBytes(recs[n].rec) > 0
  <2>1. n \in 1 .. n
    BY <1>1
  <2> QED
    BY <1>2, <2>1, RecordBytes
<1>8. end \in Nat /\ sz \in Nat
  BY <1>1, <1>2, RecordBytes
<1>9. sz = recs[n].pos + nBytes(recs[n].rec)
  BY <1>3, <1>4
<1> DEFINE Goal == /\ end < sz => k + 1 \in 1 .. n /\ recs[k + 1].pos = end
                   /\ end >= sz => k = n
<1> HIDE DEF recs, n, sz
<1> SUFFICES Goal
  BY DEF recs, n, sz
<1>6. CASE k = n
  <2>1. end = sz
    BY <1>6, <1>9
  <2> QED
    BY <1>6, <1>8, <2>1
<1>7. CASE k # n
  <2>1. k \in 1 .. n - 1 /\ k + 1 \in 1 .. n /\ n \in 1 .. n
    BY <1>1, <1>7
  <2>2. recs[k + 1].pos = end
    BY <1>3, <2>1
  <2>3. k + 1 = n \/ recs[k + 1].pos < recs[n].pos
    BY <1>1, <1>3, <2>1
  <2>4. end < sz
    BY <1>2, <1>5, <1>9, <2>1, <2>2, <2>3
  <2> HIDE DEF end
  <2> QED
    BY <1>8, <2>1, <2>2, <2>4
<1> QED
  BY <1>6, <1>7

(* The first record of a file that holds anything is at its start.         *)
LEMMA FirstRecord ==
    ASSUME StoreInv, NEW f \in Files
    PROVE  /\ storages[f].sz > 0 <=> storages[f].recs # <<>>
           /\ storages[f].recs # <<>> =>
                /\ 1 \in 1 .. Len(storages[f].recs) /\ storages[f].recs[1].pos = 0
                /\ RecordsAt(f, 0) # {}
<1> DEFINE recs == storages[f].recs
<1>1. /\ recs \in Seq(Entry) /\ Len(recs) \in Nat /\ DOMAIN recs = 1 .. Len(recs)
      /\ recs = <<>> => storages[f].sz = 0
      /\ recs # <<>> => recs[1].pos = 0 /\ storages[f].sz =
                          recs[Len(recs)].pos + nBytes(recs[Len(recs)].rec)
  BY LenProperties DEF StoreInv, FilesInv, FileType, Gapless
<1>2. recs # <<>> => 1 \in 1 .. Len(recs) /\ Len(recs) \in 1 .. Len(recs)
  BY <1>1, EmptySeq
<1>3. recs # <<>> => storages[f].sz > 0
  <2> SUFFICES ASSUME recs # <<>>
               PROVE  storages[f].sz > 0
    OBVIOUS
  <2>1. recs[Len(recs)] \in Entry
    BY <1>1, <1>2, ElementOfSeq
  <2>2. recs[Len(recs)].pos \in Nat /\ recs[Len(recs)].rec \in Shapes
    BY <2>1 DEF Entry
  <2> QED
    BY <1>1, <2>2, RecordBytes
<1> QED
  BY <1>1, <1>2, <1>3 DEF RecordsAt

-----------------------------------------------------------------------------
(* Every step is a step of the log or none.                                *)
Mode == IF pc \in {"idle", "alloc"} THEN "write" ELSE pc
Place == IF cur = Cid_Undef THEN 0 ELSE PlaceOf(cur)
LogNext == [Log!Next]_<<AllRecords, Mode, Place>>

LEMMA AddClauseLog ==
    ASSUME NEW r \in Shapes, addClause(r)
    PROVE  UNCHANGED <<AllRecords, Mode, Place>>
BY DEF addClause, storeVars, AllRecords, RecordsOf, Mode, Place, PlaceOf, Places

LEMMA AllocLog ==
    ASSUME StoreInv, alloc
    PROVE  LogNext
<1>1. pc = "alloc" /\ cur = Cid_Undef /\ cur' = cur
  BY DEF alloc, allocFits, allocFull, allocGrows, allocGivesUp, MustGrow, StoreInv, CurInv
<1>2. Mode = "write" /\ Place = 0 /\ Place' = 0
  BY <1>1 DEF Mode, Place
<1>3. CASE \E s : Storing(s)
  <2>1. AllRecords' = Append(AllRecords, pending) /\ pending \in Shapes
    BY <1>3, StoringAppends, StoredRecords
  <2>2. Mode' = "write"
    BY <1>3 DEF Storing, store, Mode
  <2>3. Log!Append_
    BY <1>2, <2>1, <2>2 DEF Log!Append_, Mode, Place
  <2> QED
    BY <2>3 DEF LogNext, Log!Next
<1>4. CASE SameRecords /\ pc' \in {"alloc", "failed"}
  <2>1. AllRecords' = AllRecords
    BY <1>4, SameLog
  <2>2. CASE pc' = "failed"
    <3>1. Mode' = "failed"
      BY <2>2 DEF Mode
    <3>2. Log!Fail
      BY <1>2, <2>1, <3>1 DEF Log!Fail, Mode, Place
    <3> QED
      BY <3>2 DEF LogNext, Log!Next
  <2>3. CASE pc' = "alloc"
    <3>1. Mode' = "write"
      BY <2>3 DEF Mode
    <3> QED
      BY <1>2, <2>1, <3>1 DEF LogNext
  <2> QED
    BY <1>4, <2>2, <2>3
<1>5. (\E s : Storing(s)) \/ (SameRecords /\ pc' \in {"alloc", "failed"})
  <2>1. /\ FileOK(curDataId, Current) /\ WholePages(Current) /\ pending \in Shapes
        /\ curDataId \in Files
    BY <1>1, CurrentFile
  <2>2. CASE allocFits
    BY <1>1, <2>1, <2>2 DEF allocFits, Storing
  <2>3. CASE allocGrows
    BY <1>1, <2>1, <2>3, GrownFile DEF allocGrows, Storing
  <2>4. CASE allocFull \/ allocGivesUp
    <3>1. cids' = cids /\ pc' \in {"alloc", "failed"}
      BY <2>4 DEF allocFull, allocGivesUp, nextStorage
    <3>2. Unresized(Current).recs = Current.recs /\ Grown(Current).recs = Current.recs
      BY <2>1, UnresizedFile, GrownFile
    <3>3. \A f \in Files : storages'[f].recs = storages[f].recs
      BY <2>1, <2>4, <3>2 DEF allocFull, allocGivesUp, Current, StoreInv, FilesInv
    <3> QED
      BY <3>1, <3>3 DEF SameRecords
  <2> QED
    BY <2>2, <2>3, <2>4 DEF alloc
<1> QED
  BY <1>3, <1>4, <1>5

(* The iteration is at the record k of the file f: its place in the log.   *)
LEMMA AtPlace ==
    ASSUME StoreInv, Len(Config) <= FileIds, NEW t,
           NEW f \in Files, NEW k \in 1 .. Len(storages[f].recs), NEW pos,
           storages[f].recs[k].pos = pos
    PROVE  /\ Cid(f, t, pos) # Cid_Undef
           /\ PlaceOf(Cid(f, t, pos)) = Cardinality(Upto(f, k))
<1> DEFINE c == Cid(f, t, pos)
<1>1. pos \in Nat
  <2>1. storages[f].recs[k] \in Entry
    BY AtRecord
  <2> QED
    BY <2>1 DEF Entry
<1>2. f \in 1 .. 4 /\ FileIds = 4
  BY Constants
<1>3. FileOf(c) = f /\ c.id = pos
  BY <1>2 DEF FileOf, Cid
<1>4. c # Cid_Undef
  BY <1>1, <1>3 DEF Cid_Undef
<1> HIDE DEF c
<1>5. PlaceOf(c) = Cardinality(Upto(FileOf(c), k))
  BY <1>3, PlaceOfRecord
<1> QED
  BY <1>3, <1>4, <1>5 DEF c

LEMMA SamePlaces ==
    ASSUME UNCHANGED storages
    PROVE  /\ AllRecords' = AllRecords
           /\ Place' = IF cur' = Cid_Undef THEN 0 ELSE PlaceOf(cur')
<1>1. AllRecords' = AllRecords
  BY DEF AllRecords, RecordsOf
<1>2. Place' = IF cur' = Cid_Undef THEN 0 ELSE PlaceOf(cur')
  BY DEF Place, PlaceOf, Places
<1> QED
  BY <1>1, <1>2

LEMMA BeginLog ==
    ASSUME StoreInv, FilledInOrder, Counted, Len(Config) <= FileIds, begin
    PROVE  LogNext
<1>1. /\ UNCHANGED storages /\ pc \in {"idle", "read"} /\ pc' = "read" /\ cur = Cid_Undef
  BY DEF begin, storeVars, StoreInv, CurInv
<1>2. /\ AllRecords' = AllRecords /\ Mode # "failed" /\ Mode' = "read" /\ Place = 0
      /\ Place' = IF cur' = Cid_Undef THEN 0 ELSE PlaceOf(cur')
  BY <1>1, SamePlaces DEF Mode, Place
<1>3. 1 \in Files /\ \A f \in Files : f \in Nat /\ f >= 1
  BY Constants
<1>4. Place' = IF AllRecords = <<>> THEN 0 ELSE 1
  <2>1. CASE storages[1].sz > 0
    <3>1. 1 \in 1 .. Len(storages[1].recs) /\ storages[1].recs[1].pos = 0
      BY <1>3, <2>1, FirstRecord
    <3>2. PICK t : cur' = Cid(1, t, 0)
      BY <2>1 DEF begin
    <3>3. cur' # Cid_Undef /\ PlaceOf(cur') = Cardinality(Upto(1, 1))
      BY <1>3, <3>1, <3>2, AtPlace
    <3>4. AllRecords # <<>>
      BY <1>3, <3>1, UptoProperties
    <3> QED
      BY <1>2, <3>1, <3>3, <3>4, FirstPlace
  <2>2. CASE ~(storages[1].sz > 0)
    <3>1. cur' = Cid_Undef
      BY <2>2 DEF begin
    <3>2. storages[1].recs = <<>>
      BY <1>3, <2>2, FirstRecord
    <3>3. ~(1 < curDataId)
      BY <1>3, <3>2 DEF FilledInOrder
    <3>4. \A f \in Files : storages[f].recs = <<>>
      <4> SUFFICES ASSUME NEW f \in Files, f # 1
                   PROVE  storages[f].recs = <<>>
        BY <3>2
      <4>1. f > curDataId
        BY <1>3, <3>3, Constants DEF StoreInv, ControlInv
      <4> QED
        BY <4>1 DEF StoreInv, FilesInv
    <3>5. \A i \in 1 .. Len(Recs(storages)) : Recs(storages)[i] = <<>>
      BY <3>4, RecsProperties, Constants
    <3>6. AllRecords = <<>>
      BY <3>5, RecsProperties, FlattenEmpty, AllRecordsRecs
    <3> QED
      BY <1>2, <3>1, <3>6
  <2> QED
    BY <2>1, <2>2
<1>5. Log!ReadFirst
  BY <1>2, <1>4 DEF Log!ReadFirst, Mode, Place
<1> QED
  BY <1>5 DEF LogNext, Log!Next

LEMMA NextLog ==
    ASSUME StoreInv, FilledInOrder, Counted, Len(Config) <= FileIds, next
    PROVE  LogNext
<1> DEFINE f == FileOf(cur)
           recs == storages[f].recs
<1>1. Moving /\ moved
  BY DEF next, nextHere, nextFile, nextEnd
<1>2. /\ UNCHANGED <<storages, pc>> /\ pc = "read" /\ cur # Cid_Undef /\ f \in Files
      /\ RecordsAt(f, cur.id) # {}
  BY <1>1 DEF Moving, moved, storeVars, Valid
<1>3. PICK k \in 1 .. Len(recs) : recs[k].pos = cur.id /\ recs[k].rec = Deref(f, cur.id)
  BY <1>2, ReadAt
<1>4. newPos = recs[k].pos + nBytes(recs[k].rec)
  BY <1>3 DEF newPos
<1>5. /\ newPos < storages[f].sz => k + 1 \in 1 .. Len(recs) /\ recs[k + 1].pos = newPos
      /\ newPos >= storages[f].sz => k = Len(recs)
  BY <1>2, <1>4, RecordEnd
<1>6. Place = Cardinality(Upto(f, k)) /\ Place \in 1 .. Len(AllRecords)
  BY <1>2, <1>3, PlaceOfRecord, UptoProperties DEF Place
<1>7. /\ AllRecords' = AllRecords /\ Mode = "read" /\ Mode' = "read"
      /\ Place' = IF cur' = Cid_Undef THEN 0 ELSE PlaceOf(cur')
  BY <1>2, SamePlaces DEF Mode
<1>8. f \in Nat /\ \A g \in Files : g \in Nat
  BY <1>2, Constants
<1> HIDE DEF f
<1>9. Place' = IF Place = Len(AllRecords) THEN 0 ELSE Place + 1
  <2>1. ASSUME NEW g \in Files, NEW j \in 1 .. Len(storages[g].recs), NEW t, NEW pos,
               storages[g].recs[j].pos = pos, cur' = Cid(g, t, pos),
               (g = f /\ j = k + 1) \/ (g = f + 1 /\ j = 1 /\ k = Len(recs))
        PROVE  Place' = IF Place = Len(AllRecords) THEN 0 ELSE Place + 1
    <3>1. cur' # Cid_Undef /\ PlaceOf(cur') = Cardinality(Upto(g, j))
      BY <2>1, AtPlace
    <3>2. /\ Cardinality(Upto(g, j)) = Cardinality(Upto(f, k)) + 1
          /\ Cardinality(Upto(f, k)) < Len(AllRecords)
      BY <1>2, <2>1, NextPlace DEF f
    <3> QED
      BY <1>6, <1>7, <3>1, <3>2
  <2>2. CASE nextHere
    <3>1. PICK t : cur' = Cid(f, t, newPos)
      BY <2>2 DEF nextHere, f
    <3>2. k + 1 \in 1 .. Len(recs) /\ recs[k + 1].pos = newPos
      BY <1>5, <2>2 DEF nextHere, f
    <3> QED
      BY <1>2, <2>1, <3>1, <3>2
  <2>3. CASE nextFile
    <3>1. PICK t : cur' = Cid(f + 1, t, 0)
      BY <2>3 DEF nextFile, f
    <3>2. k = Len(recs) /\ f + 1 \in Files /\ storages[f + 1].sz > 0
      BY <1>5, <2>3 DEF nextFile, HasNextFile, f
    <3>3. 1 \in 1 .. Len(storages[f + 1].recs) /\ storages[f + 1].recs[1].pos = 0
      BY <3>2, FirstRecord
    <3> QED
      BY <2>1, <3>1, <3>2, <3>3
  <2>4. CASE nextEnd
    <3>1. cur' = Cid_Undef /\ k = Len(recs) /\ ~(f + 1 \in Files /\ storages[f + 1].sz > 0)
      BY <1>5, <2>4 DEF nextEnd, HasNextFile, f
    <3>2. f + 1 \in Files => storages[f + 1].recs = <<>>
      BY <3>1, FirstRecord
    <3>3. \A g \in Files : g > f => storages[g].recs = <<>>
      <4> SUFFICES ASSUME NEW g \in Files, g > f
                   PROVE  storages[g].recs = <<>>
        OBVIOUS
      <4>1. f + 1 \in Files
        BY <1>2, <1>8, Constants
      <4>2. ~(f + 1 < curDataId)
        BY <3>2, <4>1 DEF FilledInOrder
      <4>3. g = f + 1 \/ g > curDataId
        BY <1>8, <4>2, Constants DEF StoreInv, ControlInv
      <4> QED
        BY <3>2, <4>1, <4>3 DEF StoreInv, FilesInv
    <3>4. Cardinality(Upto(f, k)) = Len(AllRecords)
      BY <1>2, <3>1, <3>3, LastPlace
    <3> QED
      BY <1>6, <1>7, <3>1, <3>4
  <2> QED
    BY <2>2, <2>3, <2>4 DEF next
<1>10. Log!ReadNext
  <2>1. Place # 0
    BY <1>6
  <2> QED
    BY <1>7, <1>9, <2>1 DEF Log!ReadNext, Mode, Place
<1> QED
  BY <1>10 DEF LogNext, Log!Next

(* Cids tell the files apart (getCID asserts it), and every file has room  *)
(* for any one record: then to its users the clause database is a log that *)
(* grows at its end until there is no space, and that is read from its     *)
(* first record to its last; no record is lost or met twice when the log   *)
(* goes on in another file, after a file could not grow, or in a later     *)
(* iteration.                                                              *)
THEOREM DatabaseIsLog ==
    ASSUME Len(Config) <= FileIds, RoomForOne
    PROVE  Spec => ImplementsLog
<1>1. Init => Log!Init
  BY CountedInit DEF Init, Log!Init
<1>2. Init => FilledInOrder /\ Counted
  BY FilledInit, CountedInit
<1>3. StoreInv /\ FilledInOrder /\ Counted /\ [Next]_vars => (FilledInOrder /\ Counted)'
  BY FilledStep, CountedStep
<1>4. StoreInv /\ FilledInOrder /\ Counted /\ [Next]_vars => LogNext
  <2> SUFFICES ASSUME StoreInv, FilledInOrder, Counted, [Next]_vars
               PROVE  LogNext
    OBVIOUS
  <2>1. ASSUME NEW r \in Shapes, addClause(r)
        PROVE  LogNext
    BY <2>1, AddClauseLog DEF LogNext
  <2>2. CASE UNCHANGED vars
    BY <2>2 DEF vars, storeVars, LogNext, AllRecords, RecordsOf, Mode, Place, PlaceOf, Places
  <2> QED
    BY <2>1, <2>2, AllocLog, BeginLog, NextLog DEF Next, Step
<1> QED
  BY <1>1, <1>2, <1>3, <1>4, StoreInvariant, PTL
      DEF Spec, ImplementsLog, Log!Spec, LogNext, Mode, Place
=============================================================================
