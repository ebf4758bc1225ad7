---------------------------- MODULE FatFsProofs ----------------------------
(***************************************************************************)
(* Proofs about FatFs, for every size of a sector, of a table and of a     *)
(* cluster, and every card that holds a volume: the pointer of a file      *)
(* accounts for every byte, the search of the directory gives up on no     *)
(* file the card has, and the calls implement FileReader.                  *)
(***************************************************************************)
EXTENDS FatVolume, SequenceTheorems, TLAPS

-----------------------------------------------------------------------------
\* Numbers.

\* Quotient and remainder.
LEMMA DivMod ==
    ASSUME NEW M \in Nat \ {0}, NEW a \in Nat
    PROVE  /\ a % M \in 0..M-1 /\ a \div M \in Nat
           /\ a = M * (a \div M) + (a % M)
  OBVIOUS

\* A product is monotonic in a factor.
LEMMA TimesMonotonic ==
    ASSUME NEW M \in Nat, NEW a \in Nat, NEW b \in Nat, a <= b
    PROVE  a * M <= b * M
  <1>1. PICK d \in Nat : b = a + d
    <2>1. b - a \in Nat /\ b = a + (b - a)
      OBVIOUS
    <2>. QED BY <2>1
  <1>2. b * M = a * M + d * M
    BY <1>1
  <1>3. d * M \in Nat /\ a * M \in Nat
    OBVIOUS
  <1>. QED BY <1>2, <1>3

\* As many sectors as it takes to hold x bytes.
LEMMA SectorsNeeded ==
    ASSUME NEW M \in Nat \ {0}, NEW x \in Nat, NEW i \in Nat
    PROVE  i < (x + M - 1) \div M <=> i * M < x
  <1> DEFINE y == x + M - 1
             q == y \div M
             r == y % M
  <1>1. y \in Nat /\ y = x + M - 1
    OBVIOUS
  <1> HIDE DEF y
  <1>2. r \in 0..M-1 /\ q \in Nat /\ y = M * q + r
    BY <1>1, DivMod
  <1>3. i < q <=> i * M < x
    <2> HIDE DEF q, r
    <2>1. ASSUME i < q PROVE i * M < x
      <3>1. (i + 1) * M <= q * M
        BY <1>2, <2>1, TimesMonotonic
      <3>2. (i + 1) * M = i * M + M /\ q * M = M * q /\ i * M \in Nat /\ M * q \in Nat
        BY <1>2
      <3>. QED BY <1>1, <1>2, <3>1, <3>2
    <2>2. ASSUME q <= i PROVE x <= i * M
      <3>1. q * M <= i * M
        BY <1>2, <2>2, TimesMonotonic
      <3>2. q * M = M * q /\ i * M \in Nat /\ M * q \in Nat
        BY <1>2
      <3>. QED BY <1>1, <1>2, <3>1, <3>2
    <2>. QED BY <1>2, <2>1, <2>2
  <1>. QED BY <1>3 DEF q, y

\* The n bytes of b after the first o are those of s after the first p.
Agrees(b, o, s, p, n) == \A j \in 1..n : b[o + j] = s[p + j]

\* The n elements of s after the first a.
Piece(s, a, n) == SubSeq(s, a + 1, a + n)

\* A piece of a file after the piece before it.
LEMMA NextPiece ==
    ASSUME NEW B, NEW s \in Seq(B), NEW b \in Seq(B),
           NEW a \in Nat, NEW m \in Nat, NEW o \in Nat, NEW n \in Nat,
           a + m + n <= Len(s), o + n <= Len(b),
           Agrees(b, o, s, a + m, n)
    PROVE  Piece(s, a, m) \o Piece(b, o, n) = Piece(s, a, m + n)
  <1> DEFINE p == SubSeq(s, a + 1, a + m)
             t == SubSeq(b, o + 1, o + n)
             w == SubSeq(s, a + 1, a + (m + n))
  <1>1. p \in Seq(B) /\ Len(p) = m /\ \A j \in 1..m : p[j] = s[a + j]
    OBVIOUS
  <1>2. t \in Seq(B) /\ Len(t) = n /\ \A j \in 1..n : t[j] = b[o + j]
    OBVIOUS
  <1>3. w \in Seq(B) /\ Len(w) = m + n /\ \A j \in 1..(m + n) : w[j] = s[a + j]
    OBVIOUS
  <1> HIDE DEF p, t, w
  <1>4. /\ p \o t \in Seq(B) /\ Len(p \o t) = m + n
        /\ \A j \in 1..(m + n) : (p \o t)[j] = IF j <= m THEN p[j] ELSE t[j - m]
    BY <1>1, <1>2, ConcatProperties, ZenonT(40)
  <1>5. \A j \in 1..(m + n) : (p \o t)[j] = w[j]
    <2> TAKE j \in 1..(m + n)
    <2>0. w[j] = s[a + j] /\ (p \o t)[j] = IF j <= m THEN p[j] ELSE t[j - m]
      BY <1>3, <1>4
    <2>1. CASE j <= m
      <3>1. j \in 1..m
        BY <2>1
      <3>2. p[j] = s[a + j]
        BY <1>1, <3>1
      <3>. QED BY <2>0, <2>1, <3>2
    <2>2. CASE ~(j <= m)
      <3>1. PICK k \in 1..n : j = m + k
        <4>1. j - m \in 1..n /\ j = m + (j - m)
          BY <2>2
        <4>. QED BY <4>1
      <3>2. (p \o t)[j] = t[k]
        BY <2>0, <2>2, <3>1
      <3>3. t[k] = s[a + m + k]
        BY <1>2 DEF Agrees
      <3>4. w[j] = s[a + m + k]
        <4>1. a + j = a + m + k
          BY <3>1
        <4>. QED BY <2>0, <4>1
      <3>. QED BY <3>2, <3>3, <3>4
    <2>. QED BY <2>1, <2>2
  <1>6. p \o t = w
    BY <1>3, <1>4, <1>5, SeqEqual
  <1>. QED BY <1>6 DEF p, t, w, Piece

\* Sector b holds the bytes of s after the first base.
Holds(b, s, base) == \A k \in 1..SectorSize : base + k <= Len(s) => b[k] = s[base + k]

-----------------------------------------------------------------------------
\* The file pointer, on any card.

\* The pointer of an open file is inside it; a read has stored no more than is left to
\* read, and has moved the pointer by what it stored.
ReaderTyped ==
    /\ slot \in Cards
    /\ at \in {"idle", "sector 0", "boot sector", "directory", "file"}
    /\ f = [filesize |-> f.filesize, offset |-> f.offset, startcluster |-> f.startcluster]
    /\ f.filesize \in Nat
    /\ f = NoFile \/ f.offset \in 0..f.filesize
    /\ dst \in Seq(Byte)

ReadCounts ==
    at = "file" =>
        /\ l = [wanted |-> l.wanted, count |-> l.count, start |-> l.start, i |-> l.i,
                cluster |-> l.cluster, hops |-> l.hops]
        /\ l.wanted \in Nat /\ l.start \in 0..f.filesize /\ l.i \in Nat
        /\ l.count = Min2(l.wanted, f.filesize - l.start)
        /\ Len(dst) <= l.count
        /\ f # NoFile /\ f.offset = l.start + Len(dst)

PointerInv == ReaderTyped /\ ReadCounts

\* The sector of the file a read is at, and where in it the read goes on.
SectorAt == l.start \div SectorSize + l.i
OffsetAt == IF l.i = 0 THEN l.start % SectorSize ELSE 0

\* A read gets the sector, or it fails and leaves the buffer or fills it all the same; on
\* a sound card it gets every sector that is there.
LEMMA ReadResult ==
    ASSUME NEW s, NEW olds, NEW r \in ReadSector(s, olds)
    PROVE  /\ \/ s \in DOMAIN Disk[slot] /\ r.buff = Disk[slot][s]
              \/ r.buff \in olds /\ ~r.ok
           /\ Sound /\ s \in DOMAIN Disk[slot] => r.ok /\ r.buff = Disk[slot][s]
           /\ r.ok => s \in DOMAIN Disk[slot] /\ r.buff = Disk[slot][s]
  <1> DEFINE D == DOMAIN Disk[slot]
             found == olds \cup {Disk[slot][t] : t \in {s} \cap D}
  <1>1. \/ s \in D /\ r = [ok |-> TRUE, buff |-> Disk[slot][s]]
        \/ ~(s \in D /\ Sound) /\ r \in [ok : {FALSE}, buff : found]
    BY DEF ReadSector
  <1>2. CASE s \in D /\ r = [ok |-> TRUE, buff |-> Disk[slot][s]]
    BY <1>2
  <1>3. CASE ~(s \in D /\ Sound) /\ r \in [ok : {FALSE}, buff : found]
    <2>1. r.ok = FALSE /\ r.buff \in found
      BY <1>3
    <2>2. r.buff \in olds \/ (s \in D /\ r.buff = Disk[slot][s])
      BY <2>1
    <2>. QED BY <1>3, <2>1, <2>2
  <1>. QED BY <1>1, <1>2, <1>3

\* What a read leaves in a buffer is typed as what it found there.
LEMMA ReadTyped ==
    ASSUME SectorsTyped, slot \in Cards, NEW s, NEW olds, \A x \in olds : SectorTyped(x),
           NEW r \in ReadSector(s, olds)
    PROVE  SectorTyped(r.buff)
  BY ReadResult DEF SectorsTyped

LEMMA BlankTyped == SectorTyped(Blank)
  BY ReaderAssumption DEF SectorTyped, Blank, Byte

LEMMA JunkTyped == SectorsTyped => \A x \in Junk : SectorTyped(x)
  BY BlankTyped DEF Junk, SectorsTyped

\* What a read of part of a sector takes from it.
LEMMA PieceOfSector ==
    ASSUME NEW offset \in 0..SectorSize-1, NEW left \in Nat, NEW buff, SectorTyped(buff)
    PROVE  LET n == Min2(SectorSize - offset, left)
           IN  /\ n \in 0..left
               /\ n = SectorSize - offset \/ n = left
               /\ offset + n <= SectorSize
               /\ SubSeq(buff.bytes, offset + 1, offset + n) \in Seq(Byte)
               /\ Len(SubSeq(buff.bytes, offset + 1, offset + n)) = n
  <1> DEFINE n == Min2(SectorSize - offset, left)
  <1>1. n \in 0..left /\ offset + n <= SectorSize /\ (n = SectorSize - offset \/ n = left)
    BY ReaderAssumption DEF Min2
  <1>2. buff.bytes \in Seq(Byte) /\ Len(buff.bytes) = SectorSize
    BY ReaderAssumption DEF SectorTyped
  <1> HIDE DEF n
  <1>3. /\ SubSeq(buff.bytes, offset + 1, offset + n) \in Seq(Byte)
        /\ Len(SubSeq(buff.bytes, offset + 1, offset + n)) = n
    BY <1>1, <1>2, ReaderAssumption
  <1>. QED BY <1>1, <1>3 DEF n

\* A read of a sector: what it stores, and where the pointer is after.
LEMMA ReadsPiece ==
    ASSUME SectorsTyped, PointerInv, ReadFileSector
    PROVE  /\ at = "file" /\ l.i < totsectors /\ l.hops = 0
           /\ \E r \in ReadSector(FirstSectorofCluster(context, l.cluster)
                        + (SectorAt % context.sectors_per_cluster), {Blank}) :
                 \/ /\ r.ok
                    /\ \E n \in 0..(l.count - Len(dst)) :
                          /\ n = SectorSize - OffsetAt \/ n = l.count - Len(dst)
                          /\ OffsetAt + n <= SectorSize
                          /\ SubSeq(r.buff.bytes, OffsetAt + 1, OffsetAt + n) \in Seq(Byte)
                          /\ dst' = dst \o SubSeq(r.buff.bytes, OffsetAt + 1, OffsetAt + n)
                          /\ dst' \in Seq(Byte) /\ Len(dst') = Len(dst) + n
                          /\ f' = [filesize |-> f.filesize, offset |-> f.offset + n,
                                   startcluster |-> f.startcluster]
                    /\ l' = [wanted |-> l.wanted, count |-> l.count, start |-> l.start,
                             i |-> l.i + 1, cluster |-> f.startcluster,
                             hops |-> (SectorAt + 1) \div context.sectors_per_cluster]
                    /\ UNCHANGED <<at, ret>>
                 \/ /\ ~r.ok
                    /\ Return("read", Len(dst))
                    /\ UNCHANGED <<f, dst>>
           /\ UNCHANGED <<slot, context, cache, opened>>
  <1>1. at = "file" /\ l.i < totsectors /\ l.hops = 0
    BY DEF ReadFileSector
  <1>2. l.start % SectorSize \in 0..SectorSize-1
    BY <1>1, ReaderAssumption, DivMod DEF PointerInv, ReadCounts, ReaderTyped
  <1>3. OffsetAt \in 0..SectorSize-1 /\ l.count - Len(dst) \in Nat
    BY <1>1, <1>2, ReaderAssumption DEF PointerInv, ReadCounts, ReaderTyped, OffsetAt, Min2
  <1> DEFINE piece(r) == LET n == Min2(SectorSize - OffsetAt, l.count - Len(dst))
                         IN  SubSeq(r.buff.bytes, OffsetAt + 1, OffsetAt + n)
             n0 == Min2(SectorSize - OffsetAt, l.count - Len(dst))
  <1>4. PICK r \in ReadSector(FirstSectorofCluster(context, l.cluster)
                        + (SectorAt % context.sectors_per_cluster), {Blank}) :
            \/ /\ r.ok
               /\ dst' = dst \o SubSeq(r.buff.bytes, OffsetAt + 1, OffsetAt + n0)
               /\ f' = [f EXCEPT !.offset = @ + n0]
               /\ l' = [l EXCEPT !.i = @ + 1, !.cluster = f.startcluster,
                                 !.hops = (SectorAt + 1) \div context.sectors_per_cluster]
               /\ UNCHANGED <<at, ret>>
            \/ /\ ~r.ok
               /\ Return("read", Len(dst))
               /\ UNCHANGED <<f, dst>>
    BY DEF ReadFileSector, SectorAt, OffsetAt
  <1>5. SectorTyped(r.buff)
    <2>1. \A x \in {Blank} : SectorTyped(x)
      BY BlankTyped
    <2>. QED BY <2>1, ReadTyped DEF PointerInv, ReaderTyped
  <1>6. /\ n0 \in 0..(l.count - Len(dst))
        /\ n0 = SectorSize - OffsetAt \/ n0 = l.count - Len(dst)
        /\ OffsetAt + n0 <= SectorSize
        /\ SubSeq(r.buff.bytes, OffsetAt + 1, OffsetAt + n0) \in Seq(Byte)
        /\ Len(SubSeq(r.buff.bytes, OffsetAt + 1, OffsetAt + n0)) = n0
    BY <1>3, <1>5, PieceOfSector, ZenonT(40)
  <1> HIDE DEF n0
  <1>7. CASE r.ok
    <2>1. dst' \in Seq(Byte) /\ Len(dst') = Len(dst) + n0
      <3>1. PICK e \in Seq(Byte) : dst' = dst \o e /\ Len(e) = n0
        BY <1>4, <1>6, <1>7
      <3>2. dst \in Seq(Byte)
        BY DEF PointerInv, ReaderTyped
      <3>. QED BY <3>1, <3>2, ConcatProperties
    <2>2. f' = [filesize |-> f.filesize, offset |-> f.offset + n0,
                startcluster |-> f.startcluster]
      BY <1>4, <1>7 DEF PointerInv, ReaderTyped
    <2>3. l' = [wanted |-> l.wanted, count |-> l.count, start |-> l.start,
                i |-> l.i + 1, cluster |-> f.startcluster,
                hops |-> (SectorAt + 1) \div context.sectors_per_cluster]
      BY <1>1, <1>4, <1>7 DEF PointerInv, ReadCounts
    <2>. QED BY <1>1, <1>4, <1>6, <1>7, <2>1, <2>2, <2>3 DEF ReadFileSector
  <1>8. CASE ~r.ok
    BY <1>1, <1>4, <1>8 DEF ReadFileSector
  <1>. QED BY <1>7, <1>8

LEMMA StaysInside ==
    ASSUME NEW c \in Nat, NEW s \in Nat, NEW z \in Nat, NEW d \in Nat, NEW n \in 0..(c - d),
           s + c <= z
    PROVE  s + d + n \in 0..z /\ d + n <= c
  OBVIOUS

LEMMA PointerInvInitially == Init => PointerInv
  BY DEF Init, PointerInv, ReaderTyped, ReadCounts, NoFile

LEMMA PointerInvStep ==
    ASSUME SectorsTyped, PointerInv, [Next]_vars
    PROVE  PointerInv'
  <1> USE ReaderAssumption DEF PointerInv, ReaderTyped
  <1>1. CASE BindSector0
    BY <1>1 DEF BindSector0, BootSector, Return, ReadCounts, cache
  <1>2. CASE BindBootSector
    BY <1>2 DEF BindBootSector, BootSector, Return, ReadCounts, cache
  <1>3. ASSUME NEW buff, SectorTyped(buff), at = "directory", UNCHANGED <<slot, dst>>,
               ScanSector(buff, NextSector)
        PROVE  PointerInv'
    <2>1. CASE Ends(buff, l.name) = {}
      BY <1>3, <2>1 DEF ScanSector, NextSector, FirstEnds, ReadCounts
    <2>2. ASSUME NEW k \in FirstEnds(buff, l.name), buff.dir[k].kind = "zero",
                 Return("open", -1), UNCHANGED <<f, opened>>
          PROVE  PointerInv'
      BY <1>3, <2>2 DEF Return, ReadCounts
    <2>3. ASSUME NEW k \in FirstEnds(buff, l.name), buff.dir[k].kind = "file",
                 f' = [filesize |-> buff.dir[k].file_size, offset |-> 0,
                       startcluster |-> buff.dir[k].cluster],
                 Return("open", 0)
          PROVE  PointerInv'
      <3>1. buff.dir[k].file_size \in Nat
        BY <1>3, <2>3 DEF SectorTyped, FirstEnds, Ends
      <3>. QED BY <1>3, <2>3, <3>1 DEF Return, ReadCounts
    <2>. QED BY <1>3, <2>1, <2>2, <2>3 DEF ScanSector
  <1>4. CASE SearchFat16
    <2>1. ASSUME NEW r \in ReadSector(context.first_rootdir_sectnum + l.i, Junk),
                 ScanSector(r.buff, NextSector)
          PROVE  PointerInv'
      <3>1. SectorTyped(r.buff)
        BY JunkTyped, ReadTyped
      <3>. QED BY <1>3, <1>4, <2>1, <3>1 DEF SearchFat16
    <2>2. CASE Return("open", -1) /\ UNCHANGED <<f, opened>>
      BY <1>4, <2>2 DEF SearchFat16, Return, ReadCounts
    <2>. QED BY <1>4, <2>1, <2>2 DEF SearchFat16
  <1>5. CASE SearchFat32
    <2>1. PICK r \in ReadSector(FirstSectorofCluster(context, l.cluster) + l.i, Junk) :
              ScanSector(r.buff, NextSector)
      BY <1>5 DEF SearchFat32
    <2>2. SectorTyped(r.buff)
      BY JunkTyped, ReadTyped
    <2>. QED BY <1>3, <1>5, <2>1, <2>2 DEF SearchFat32
  <1>6. CASE SearchFat32Link
    BY <1>6 DEF SearchFat32Link, Return, ReadCounts
  <1>7. CASE FollowCluster
    <2>1. UNCHANGED <<slot, f, dst>>
      BY <1>7 DEF FollowCluster
    <2>2. at = "file"
      BY <1>7 DEF FollowCluster
    <2>3. CASE Return("read", Len(dst))
      BY <2>1, <2>3 DEF Return, ReadCounts
    <2>4. CASE \E content : /\ l' = [l EXCEPT !.cluster = content, !.hops = @ - 1]
                            /\ UNCHANGED <<at, ret>>
      <3>1. PICK content : l' = [wanted |-> l.wanted, count |-> l.count, start |-> l.start,
                                 i |-> l.i, cluster |-> content, hops |-> l.hops - 1]
        BY <2>2, <2>4 DEF ReadCounts
      <3>. QED BY <2>1, <2>2, <2>4, <3>1 DEF ReadCounts
    <2>. QED BY <1>7, <2>3, <2>4 DEF FollowCluster
  <1>8. CASE ReadFileSector
    <2>1. UNCHANGED slot /\ at = "file"
      BY <1>8, ReadsPiece
    <2>2. CASE Return("read", Len(dst)) /\ UNCHANGED <<f, dst>>
      BY <2>1, <2>2 DEF Return, ReadCounts
    <2>3. ASSUME NEW n \in 0..(l.count - Len(dst)), NEW hops,
                 dst' \in Seq(Byte), Len(dst') = Len(dst) + n,
                 f' = [filesize |-> f.filesize, offset |-> f.offset + n,
                       startcluster |-> f.startcluster],
                 l' = [wanted |-> l.wanted, count |-> l.count, start |-> l.start,
                       i |-> l.i + 1, cluster |-> f.startcluster, hops |-> hops],
                 UNCHANGED at
          PROVE  PointerInv'
      <3>1. /\ l.count \in Nat /\ l.start + l.count <= f.filesize
            /\ f.offset = l.start + Len(dst) /\ Len(dst) \in Nat /\ l.start \in Nat
            /\ f.filesize \in Nat /\ l.count = Min2(l.wanted, f.filesize - l.start)
            /\ l.wanted \in Nat /\ l.i \in Nat
        BY <2>1, SMTT(30) DEF ReadCounts, Min2
      <3>2. f.offset + n \in 0..f.filesize /\ Len(dst') <= l.count /\ Len(dst') = Len(dst) + n
        <4>1. /\ l.count \in Nat /\ l.start \in Nat /\ f.filesize \in Nat /\ Len(dst) \in Nat
              /\ l.start + l.count <= f.filesize
          BY ONLY <3>1
        <4>2. PICK c \in Nat, a \in Nat, z \in Nat, d \in Nat :
                  c = l.count /\ a = l.start /\ z = f.filesize /\ d = Len(dst)
          BY ONLY <4>1
        <4>3. a + c <= z /\ n \in 0..(c - d)
          BY ONLY <4>1, <4>2, n \in 0..(l.count - Len(dst))
        <4>4. a + d + n \in 0..z /\ d + n <= c
          BY ONLY <4>3, StaysInside, c \in Nat, a \in Nat, z \in Nat, d \in Nat
        <4>5. f.offset + n = a + d + n
          BY ONLY <3>1, <4>2
        <4>6. Len(dst') = d + n
          BY ONLY <2>3, <4>2
        <4>. QED BY ONLY <4>2, <4>4, <4>5, <4>6
      <3>3. ReaderTyped'
        BY <2>1, <2>3, <3>1, <3>2
      <3>4. f'.offset = l.start + Len(dst') /\ f'.offset \in Nat /\ f'.filesize = f.filesize
        BY ONLY <2>3, <3>1, <3>2
      <3>5. l.start <= f.filesize /\ l.i + 1 \in Nat
        BY ONLY <3>1
      <3>6. f' # NoFile
        BY ONLY <3>4 DEF NoFile
      <3>7. ReadCounts'
        BY ONLY <2>1, <2>3, <3>1, <3>2, <3>4, <3>5, <3>6 DEF ReadCounts
      <3>. QED BY <3>3, <3>7
    <2>. QED BY <1>8, <2>2, <2>3, ReadsPiece
  <1>9. CASE ReadDone
    BY <1>9 DEF ReadDone, Return, ReadCounts
  <1>10. CASE NewCommand
    BY <1>10 DEF NewCommand, NoFile, ReadCounts
  <1>11. CASE fatfs_bind_device
    BY <1>11 DEF fatfs_bind_device, ReadCounts
  <1>12. ASSUME NEW n \in Names, fatfs_fopen(n)
         PROVE  PointerInv'
    BY <1>12 DEF fatfs_fopen, ReadCounts
  <1>13. ASSUME NEW n \in 0..MaxCount, fatfs_fread(n)
         PROVE  PointerInv'
    BY <1>13 DEF fatfs_fread, ReadCounts, Min2
  <1>14. ASSUME NEW d \in -MaxCount..MaxCount, NEW origin \in {0, f.offset, f.filesize},
                fatfs_fseek(origin, d)
         PROVE  PointerInv'
    BY <1>14 DEF fatfs_fseek, ReadCounts, Min2, NoFile
  <1>15. CASE UNCHANGED vars
    BY <1>15 DEF vars, ReadCounts, cache
  <1>. QED BY <1>1, <1>2, <1>4, <1>5, <1>6, <1>7, <1>8, <1>9, <1>10, <1>11, <1>12, <1>13,
              <1>14, <1>15 DEF Next, Step

\* On any card, whatever fails, the pointer of an open file is inside it, and a read has
\* moved it by what it stored (fatfs_fread, fatfs_fseek).
THEOREM PointerInvCorrect == ASSUME SectorsTyped PROVE Spec => []PointerInv
  <1>1. Init => PointerInv
    BY PointerInvInitially
  <1>2. PointerInv /\ [Next]_vars => PointerInv'
    BY PointerInvStep
  <1>. QED BY <1>1, <1>2, PTL DEF Spec

\* Whatever fails on the way, a read stores no more than was asked for, moves the pointer by
\* exactly what it stored, inside the file, and reports all that was asked for when it stored
\* that (fatfs_fread).
THEOREM AccountsForEveryByteCorrect ==
    ASSUME SectorsTyped PROVE Spec => AccountsForEveryByte
  <1> DEFINE Accounts == /\ Len(dst') <= l.count
                         /\ f'.offset = l.start + Len(dst') /\ f'.offset <= f.filesize
                         /\ at' = "idle" /\ Len(dst') = l.count => ret'.val = l.count
  <1>1. PointerInv /\ [Next]_vars => [at = "file" => Accounts]_vars
    <2> SUFFICES ASSUME PointerInv, Next, at = "file"
                 PROVE  Accounts
      OBVIOUS
    <2>1. /\ Len(dst) <= l.count /\ Len(dst) \in Nat
          /\ f.offset = l.start + Len(dst) /\ f.offset <= f.filesize
      BY DEF PointerInv, ReaderTyped, ReadCounts, NoFile
    <2>2. CASE FollowCluster
      BY <2>1, <2>2 DEF FollowCluster, Return
    <2>3. CASE ReadDone
      BY <2>1, <2>3 DEF ReadDone, Return
    <2>4. CASE ReadFileSector
      <3>1. CASE Return("read", Len(dst)) /\ UNCHANGED <<f, dst>>
        BY <2>1, <3>1 DEF Return
      <3>2. ASSUME NEW n \in 0..(l.count - Len(dst)), Len(dst') = Len(dst) + n,
                   f' = [filesize |-> f.filesize, offset |-> f.offset + n,
                         startcluster |-> f.startcluster],
                   UNCHANGED at
            PROVE  Accounts
        <4>1. /\ l.count \in Nat /\ l.start + l.count <= f.filesize /\ l.start \in Nat
              /\ f.filesize \in Nat
          BY ReaderAssumption DEF PointerInv, ReaderTyped, ReadCounts, Min2
        <4>2. l.start + Len(dst) + n \in 0..f.filesize /\ Len(dst) + n <= l.count
          BY ONLY <2>1, <3>2, <4>1, StaysInside
        <4>3. f'.offset = l.start + Len(dst')
          BY ONLY <2>1, <3>2, <4>1
        <4>. QED BY ONLY <3>2, <4>1, <4>2, <4>3, at = "file"
      <3>. QED BY <2>4, <3>1, <3>2, ReadsPiece
    <2>5. ~fatfs_bind_device /\ ~BindSector0 /\ ~BindBootSector /\ ~NewCommand
      BY DEF fatfs_bind_device, BindSector0, BindBootSector, NewCommand
    <2>6. ~SearchFat16 /\ ~SearchFat32 /\ ~SearchFat32Link
      BY DEF SearchFat16, SearchFat32, SearchFat32Link
    <2>7. /\ \A n : ~fatfs_fopen(n) /\ ~fatfs_fread(n)
          /\ \A p, d : ~fatfs_fseek(p, d)
      BY DEF fatfs_fopen, fatfs_fread, fatfs_fseek
    <2>. QED BY <2>2, <2>3, <2>4, <2>5, <2>6, <2>7 DEF Next, Step
  <1>. QED BY <1>1, PointerInvCorrect, PTL DEF Spec, AccountsForEveryByte

-----------------------------------------------------------------------------
\* The files, on a sound card that holds a volume and stays in the slot.

\* What is kept of the table is what the card has there.
Cached == FATSecNum \in DOMAIN Disk[slot] => SecBuff = Disk[slot][FATSecNum]

\* A card is bound with its volume, and calls that need one wait for a card that is bound.
BoundTo ==
    /\ context # Unbound => context = Volume(slot)
    /\ at \in {"directory", "file"} \/ f # NoFile => context # Unbound
    /\ at \in {"sector 0", "boot sector"} => f = NoFile
    /\ at = "boot sector" =>
          /\ 0 \in DOMAIN Disk[slot] /\ Disk[slot][0].sig = "mbr"
          /\ l = [buffer |-> Disk[slot][0]]

\* The file that is open is the one that was opened.
Opened ==
    /\ f = NoFile => opened = NoName
    /\ f # NoFile =>
          Describes([file_size |-> f.filesize, cluster |-> f.startcluster], slot, opened)

\* No sector of the directory before sector i of run k ends the search for name.
NoneBefore(c, k, i, name) ==
    \A k2 \in 1..k : \A i2 \in 0..(RunLength(c) - 1) :
        k2 < k \/ i2 < i => Ends(Disk[c][DirSector(c, k2, i2)], name) = {}

\* The search looks at the directory in order.
Searching ==
    at = "directory" =>
        /\ l = [name |-> l.name, cluster |-> l.cluster, i |-> l.i]
        /\ l.name \in Names /\ l.i \in Nat
        /\ \E k \in 1..DirRuns(slot) :
              /\ context.fattype = "TYPE_FAT32" => l.cluster = DirChain[slot][k]
              /\ NoneBefore(slot, k, l.i, l.name)

\* The walk along the chain of a file is as many links from its sector as hops counts.
FollowsChain ==
    at = "file" /\ l.i < totsectors =>
        /\ l.hops \in Nat
        /\ \E k \in 1..Len(Chain[slot][opened]) :
              /\ l.cluster = Chain[slot][opened][k]
              /\ k - 1 + l.hops = SectorAt \div context.sectors_per_cluster

\* A read has stored the bytes of the sectors before.
HasRead ==
    at = "file" =>
        /\ l.i <= totsectors
        /\ l.i < totsectors => l.start + Len(dst) = SectorAt * SectorSize + OffsetAt
        /\ l.i = totsectors => Len(dst) = l.count
        /\ dst = SubSeq(Content, l.start + 1, l.start + Len(dst))

VolumesInSlot == ~Swaps /\ SectorsTyped /\ \A c \in Cards \ Flaky : LaidOut(c)

VolumeInv ==
    Sound => Cached /\ BoundTo /\ Opened /\ Searching /\ FollowsChain /\ HasRead
\* A volume is one of the two kinds.
LEMMA VolumeKind ==
    ASSUME NEW c, Volume(c) # Unbound
    PROVE  Volume(c).fattype \in {"TYPE_FAT16", "TYPE_FAT32"}
  <1> DEFINE lba == VolumeStart(c)
             b == Disk[c][VolumeStart(c)].bpb
  <1>1. \A x, y : Parse(x, y) # Unbound => Parse(x, y).fattype \in {"TYPE_FAT16", "TYPE_FAT32"}
    BY DEF Parse
  <1>. QED BY <1>1 DEF Volume

LEMMA SlotLaidOut ==
    ASSUME VolumesInSlot, PointerInv, Sound
    PROVE  LaidOut(slot) /\ slot \in Cards \ Flaky
  BY DEF VolumesInSlot, PointerInv, ReaderTyped, Sound

\* On a sound card nothing takes the card out of the slot.
LEMMA SlotStays ==
    ASSUME VolumesInSlot, [Next]_vars
    PROVE  slot' = slot
  BY DEF VolumesInSlot, Next, Step, vars, BindSector0, BindBootSector, SearchFat16, SearchFat32,
         SearchFat32Link, FollowCluster, ReadFileSector, ReadDone, NewCommand,
         fatfs_bind_device, fatfs_fopen, fatfs_fread, fatfs_fseek

\* The entry of the table, on a sound card: it is what the card has there.
LEMMA TableRead ==
    ASSUME Sound, Cached, NEW n, NEW content, ClusterContentInFAT(n, content),
           context = Volume(slot)
    PROVE  /\ FATSecNum' \in DOMAIN Disk[slot] => SecBuff' = Disk[slot][FATSecNum']
           /\ InTable(slot, n) => content = Link(slot, n)
  <1> DEFINE sec == TableSector(context, n)
  <1>1. FATSecNum' = sec /\ content = Entry(context, n, SecBuff')
    BY DEF ClusterContentInFAT
  <1>2. sec \in DOMAIN Disk[slot] => SecBuff' = Disk[slot][sec]
    <2>1. CASE sec = FATSecNum /\ UNCHANGED SecBuff
      BY <2>1 DEF Cached
    <2>2. CASE \E r \in ReadSector(sec, {SecBuff}) : SecBuff' = r.buff
      BY <2>2, ReadResult
    <2>. QED BY <2>1, <2>2 DEF ClusterContentInFAT
  <1>. QED BY <1>1, <1>2 DEF InTable, Link

LEMMA CachedStep ==
    ASSUME VolumesInSlot, PointerInv, VolumeInv, Sound, [Next]_vars
    PROVE  Cached'
  <1> USE DEF VolumeInv
  <1>1. slot' = slot
    BY SlotStays
  <1>2. ASSUME UNCHANGED cache PROVE Cached'
    BY <1>1, <1>2 DEF Cached, cache
  <1>3. ASSUME NEW n, NEW content, ClusterContentInFAT(n, content), at \in {"directory", "file"}
        PROVE  Cached'
    BY <1>1, <1>3, TableRead DEF BoundTo, Cached
  <1>4. CASE SearchFat32Link
    BY <1>3, <1>4 DEF SearchFat32Link
  <1>5. CASE FollowCluster
    BY <1>3, <1>5 DEF FollowCluster
  <1>. QED
    BY <1>2, <1>4, <1>5 DEF Next, Step, vars, BindSector0, BindBootSector, SearchFat16,
         SearchFat32, ReadFileSector, ReadDone, NewCommand,
         fatfs_bind_device, fatfs_fopen, fatfs_fread, fatfs_fseek

\* The two ways to the boot sector lead to the volume of the card.
LEMMA BootSectorBinds ==
    ASSUME NEW lba, NEW buff, lba = VolumeStart(slot), lba \in DOMAIN Disk[slot],
           buff = Disk[slot][lba], BootSector(lba, buff)
    PROVE  context' \in {Unbound, Volume(slot)}
  BY DEF BootSector, Volume

LEMMA BoundToStep ==
    ASSUME VolumesInSlot, PointerInv, VolumeInv, Sound, [Next]_vars
    PROVE  BoundTo'
  <1> USE DEF VolumeInv, BoundTo
  <1>1. slot' = slot
    BY SlotStays
  <1>2. CASE BindSector0
    <2>1. PICK r \in ReadSector(0, {Blank}) :
              \/ /\ ~r.ok \/ r.buff.sig = "none"
                 /\ Return("bind", -1)
                 /\ UNCHANGED context
              \/ /\ r.ok /\ r.buff.sig = "boot"
                 /\ BootSector(0, r.buff)
              \/ /\ r.ok /\ r.buff.sig = "mbr"
                 /\ at' = "boot sector" /\ l' = [buffer |-> r.buff]
                 /\ UNCHANGED <<context, ret>>
      BY <1>2 DEF BindSector0
    <2>2. UNCHANGED f /\ at = "sector 0"
      BY <1>2 DEF BindSector0
    <2>3. r.ok => 0 \in DOMAIN Disk[slot] /\ r.buff = Disk[slot][0]
      BY ReadResult
    <2>4. CASE Return("bind", -1) /\ UNCHANGED context
      BY <1>1, <2>2, <2>4 DEF Return
    <2>5. CASE r.ok /\ r.buff.sig = "boot" /\ BootSector(0, r.buff)
      <3>1. context' \in {Unbound, Volume(slot)}
        BY <2>3, <2>5, BootSectorBinds DEF VolumeStart
      <3>2. at' = "idle"
        BY <2>5 DEF BootSector, Return
      <3>. QED BY <1>1, <2>2, <3>1, <3>2
    <2>6. CASE r.ok /\ r.buff.sig = "mbr" /\ at' = "boot sector" /\ l' = [buffer |-> r.buff]
               /\ UNCHANGED context
      BY <1>1, <2>2, <2>3, <2>6
    <2>. QED BY <2>1, <2>4, <2>5, <2>6
  <1>3. CASE BindBootSector
    <2>1. PICK r \in ReadSector(l.buffer.lba, {l.buffer}) : BootSector(l.buffer.lba, r.buff)
      BY <1>3 DEF BindBootSector
    <2>2. UNCHANGED f /\ at = "boot sector" /\ f = NoFile
      BY <1>3 DEF BindBootSector
    <2>a. l = [buffer |-> Disk[slot][0]] /\ Disk[slot][0].sig = "mbr"
      BY <2>2
    <2>3. l.buffer = Disk[slot][0] /\ Disk[slot][0].sig = "mbr"
      BY ONLY <2>a
    <2>. l.buffer.lba = VolumeStart(slot) /\ l.buffer.sig = "mbr"
      BY ONLY <2>3 DEF VolumeStart
    <2>4. at' = "idle"
      BY <2>1 DEF BootSector, Return
    <2>5. CASE l.buffer.lba \in DOMAIN Disk[slot]
      <3>1. r.buff = Disk[slot][l.buffer.lba]
        BY <2>5, ReadResult
      <3>2. context' \in {Unbound, Volume(slot)}
        BY <2>1, <2>3, <2>5, <3>1, BootSectorBinds
      <3>. QED BY <1>1, <2>2, <2>4, <3>2
    <2>6. CASE l.buffer.lba \notin DOMAIN Disk[slot]
      <3>1. r.buff \in {l.buffer}
        BY ONLY <2>6, ReadResult, r \in ReadSector(l.buffer.lba, {l.buffer})
      <3>2. context' = Unbound
        BY <2>1, <2>3, <3>1 DEF BootSector
      <3>. QED BY <1>1, <2>2, <2>4, <3>2
    <2>. QED BY <2>5, <2>6
  <1>4. CASE NewCommand
    BY <1>1, <1>4 DEF NewCommand
  <1>5. CASE \E n \in Names : fatfs_fopen(n)
    BY <1>1, <1>5 DEF fatfs_fopen
  <1>6. CASE \E n \in 0..MaxCount : fatfs_fread(n)
    BY <1>1, <1>6 DEF fatfs_fread
  <1>7. CASE SearchFat16 \/ SearchFat32
    <2>1. context' = context /\ at = "directory" /\ at' \in {"directory", "idle"}
      BY <1>7 DEF SearchFat16, SearchFat32, ScanSector, NextSector, Return
    <2>. QED BY <1>1, <2>1
  <1>8. CASE SearchFat32Link \/ FollowCluster
    BY <1>1, <1>8 DEF SearchFat32Link, FollowCluster, Return
  <1>9. CASE ReadFileSector
    <2>1. context' = context /\ at = "file" /\ at' \in {"file", "idle"}
      BY <1>9 DEF ReadFileSector, Return
    <2>. QED BY <1>1, <2>1
  <1>10. CASE ReadDone
    BY <1>1, <1>10 DEF ReadDone, Return
  <1>11. CASE fatfs_bind_device
    BY <1>1, <1>11 DEF fatfs_bind_device
  <1>12. ASSUME NEW d, NEW o, fatfs_fseek(o, d)
         PROVE  BoundTo'
    BY <1>1, <1>12 DEF fatfs_fseek
  <1>13. CASE UNCHANGED vars
    BY <1>13 DEF vars
  <1>. QED
    BY <1>2, <1>3, <1>4, <1>5, <1>6, <1>7, <1>8, <1>9, <1>10, <1>11, <1>12, <1>13
    DEF Next, Step

\* The directory of the volume in the slot.
LEMMA DirectoryIs ==
    ASSUME VolumesInSlot, PointerInv, Sound, Volume(slot) # Unbound
    PROVE  /\ DirLaidOut(slot)
           /\ 1 \in 1..DirRuns(slot) /\ DirRuns(slot) \in Nat
           /\ RunLength(slot) \in Int
  <1>1. LaidOut(slot)
    BY SlotLaidOut
  <1>2. DirLaidOut(slot) /\ Volume(slot).sectors_per_cluster \in Nat \ {0}
    BY <1>1 DEF LaidOut
  <1>3. CASE Volume(slot).fattype = "TYPE_FAT16"
    BY <1>2, <1>3 DEF DirLaidOut, DirRuns, RunLength
  <1>4. CASE Volume(slot).fattype = "TYPE_FAT32"
    <2>1. DirChain[slot] \in Seq(Nat) /\ DirChain[slot] # <<>>
      BY <1>2, <1>4 DEF DirLaidOut, Linked
    <2>2. Len(DirChain[slot]) \in Nat \ {0}
      BY <2>1
    <2>. QED BY <1>2, <1>4, <2>2 DEF DirRuns, RunLength
  <1>. QED BY <1>3, <1>4, VolumeKind

\* The sector the search looks at.
LEMMA SearchReads ==
    ASSUME VolumesInSlot, PointerInv, VolumeInv, Sound, at = "directory",
           NEW s, NEW r \in ReadSector(s, Junk), l.i < RunLength(slot),
           s = (IF context.fattype = "TYPE_FAT16" THEN context.first_rootdir_sectnum
                ELSE FirstSectorofCluster(context, l.cluster)) + l.i
    PROVE  \E k \in 1..DirRuns(slot) :
              /\ context.fattype = "TYPE_FAT32" => l.cluster = DirChain[slot][k]
              /\ NoneBefore(slot, k, l.i, l.name)
              /\ l.i \in 0..(RunLength(slot) - 1)
              /\ DirSector(slot, k, l.i) \in DOMAIN Disk[slot]
              /\ r.buff = Disk[slot][DirSector(slot, k, l.i)]
              /\ \A e \in FirstEnds(r.buff, l.name) :
                    r.buff.dir[e].kind = "file" => Describes(r.buff.dir[e], slot, l.name)
  <1>1. context = Volume(slot) /\ Volume(slot) # Unbound
    BY DEF VolumeInv, BoundTo
  <1>2. l.i \in Nat /\ l.name \in Names
    BY DEF VolumeInv, Searching
  <1>3. PICK k \in 1..DirRuns(slot) :
              /\ context.fattype = "TYPE_FAT32" => l.cluster = DirChain[slot][k]
              /\ NoneBefore(slot, k, l.i, l.name)
    BY DEF VolumeInv, Searching
  <1>4. DirLaidOut(slot) /\ RunLength(slot) \in Int
    BY <1>1, DirectoryIs
  <1>5. l.i \in 0..(RunLength(slot) - 1)
    BY <1>2, <1>4
  <1>6. s = DirSector(slot, k, l.i)
    BY <1>1, <1>3, VolumeKind DEF DirSector
  <1>7. /\ DirSector(slot, k, l.i) \in DOMAIN Disk[slot]
        /\ \A n \in Names :
              \A e \in FirstEnds(Disk[slot][DirSector(slot, k, l.i)], n) :
                  Disk[slot][DirSector(slot, k, l.i)].dir[e].kind = "file"
                    => Describes(Disk[slot][DirSector(slot, k, l.i)].dir[e], slot, n)
    BY <1>4, <1>5 DEF DirLaidOut
  <1>8. r.buff = Disk[slot][DirSector(slot, k, l.i)]
    BY <1>6, <1>7, ReadResult
  <1>. QED BY <1>2, <1>3, <1>5, <1>7, <1>8

\* The search reads a sector of the directory, gives up at its end, or goes on to the next
\* cluster.
LEMMA SearchSteps ==
    ASSUME VolumesInSlot, PointerInv, VolumeInv, Sound,
           SearchFat16 \/ SearchFat32 \/ SearchFat32Link
    PROVE  /\ at = "directory" /\ UNCHANGED <<slot, context, dst>>
           /\ \E k \in 1..DirRuns(slot) :
                 /\ context.fattype = "TYPE_FAT32" => l.cluster = DirChain[slot][k]
                 /\ NoneBefore(slot, k, l.i, l.name)
                 /\ \/ \E buff :
                          /\ l.i \in 0..(RunLength(slot) - 1)
                          /\ buff = Disk[slot][DirSector(slot, k, l.i)]
                          /\ \A e \in FirstEnds(buff, l.name) :
                                buff.dir[e].kind = "file"
                                    => Describes(buff.dir[e], slot, l.name)
                          /\ ScanSector(buff, NextSector)
                    \/ /\ k = DirRuns(slot) /\ l.i >= RunLength(slot)
                       /\ Return("open", -1) /\ UNCHANGED <<f, opened>>
                    \/ /\ k < DirRuns(slot) /\ l.i >= RunLength(slot)
                       /\ context.fattype = "TYPE_FAT32"
                       /\ l' = [name |-> l.name, cluster |-> DirChain[slot][k + 1], i |-> 0]
                       /\ UNCHANGED <<at, ret, f, opened>>
  <1>1. at = "directory" /\ UNCHANGED <<slot, context, dst>>
    BY DEF SearchFat16, SearchFat32, SearchFat32Link
  <1>2. context = Volume(slot) /\ Volume(slot) # Unbound
    BY <1>1 DEF VolumeInv, BoundTo
  <1>3. /\ l.i \in Nat /\ l.name \in Names
        /\ l = [name |-> l.name, cluster |-> l.cluster, i |-> l.i]
    BY <1>1 DEF VolumeInv, Searching
  <1>4. DirLaidOut(slot) /\ DirRuns(slot) \in Nat /\ RunLength(slot) \in Int
    BY <1>2, DirectoryIs
  <1>5. PICK k \in 1..DirRuns(slot) :
              /\ context.fattype = "TYPE_FAT32" => l.cluster = DirChain[slot][k]
              /\ NoneBefore(slot, k, l.i, l.name)
    BY <1>1 DEF VolumeInv, Searching
  <1>6. ASSUME NEW s, NEW r \in ReadSector(s, Junk), l.i < RunLength(slot),
               s = (IF context.fattype = "TYPE_FAT16" THEN context.first_rootdir_sectnum
                    ELSE FirstSectorofCluster(context, l.cluster)) + l.i,
               ScanSector(r.buff, NextSector)
        PROVE  \E m \in 1..DirRuns(slot) :
                 /\ context.fattype = "TYPE_FAT32" => l.cluster = DirChain[slot][m]
                 /\ NoneBefore(slot, m, l.i, l.name)
                 /\ \E buff :
                          /\ l.i \in 0..(RunLength(slot) - 1)
                          /\ buff = Disk[slot][DirSector(slot, m, l.i)]
                          /\ \A e \in FirstEnds(buff, l.name) :
                                buff.dir[e].kind = "file"
                                    => Describes(buff.dir[e], slot, l.name)
                          /\ ScanSector(buff, NextSector)
    BY <1>1, <1>6, SearchReads
  <1>7. CASE SearchFat16
    <2>1. context.fattype = "TYPE_FAT16" /\ RunLength(slot) = context.rootdir_sectors - 1
          /\ DirRuns(slot) = 1
      BY <1>2, <1>7 DEF SearchFat16, RunLength, DirRuns
    <2>2. context.rootdir_sectors \in Nat
      BY <1>2, <1>4, <2>1 DEF DirLaidOut
    <2>3. CASE /\ l.i < context.rootdir_sectors - 1
               /\ \E r \in ReadSector(context.first_rootdir_sectnum + l.i, Junk) :
                     ScanSector(r.buff, NextSector)
      BY <1>1, <1>6, <2>1, <2>3
    <2>4. CASE /\ l.i >= context.rootdir_sectors - 1
               /\ Return("open", -1) /\ UNCHANGED <<f, opened>>
      <3>1. k = DirRuns(slot)
        BY <2>1
      <3>. QED BY <1>1, <1>5, <2>1, <2>4, <3>1
    <2>. QED BY <1>7, <2>3, <2>4 DEF SearchFat16
  <1>8. CASE SearchFat32
    <2>1. context.fattype = "TYPE_FAT32" /\ RunLength(slot) = context.sectors_per_cluster
      BY <1>2, <1>8 DEF SearchFat32, RunLength
    <2>. QED BY <1>1, <1>6, <1>8, <2>1 DEF SearchFat32
  <1>9. CASE SearchFat32Link
    <2>1. /\ context.fattype = "TYPE_FAT32" /\ RunLength(slot) = context.sectors_per_cluster
          /\ l.i = RunLength(slot) /\ DirRuns(slot) = Len(DirChain[slot])
          /\ UNCHANGED <<f, opened>>
      BY <1>2, <1>9 DEF SearchFat32Link, RunLength, DirRuns
    <2>2. PICK content \in 0..EndMark :
              /\ ClusterContentInFAT(l.cluster, content)
              /\ \/ IsClusterLinkEof(content) /\ Return("open", -1)
                 \/ /\ ~IsClusterLinkEof(content)
                    /\ l' = [l EXCEPT !.cluster = content, !.i = 0]
                    /\ UNCHANGED <<at, ret>>
      BY <1>9 DEF SearchFat32Link
    <2>3. l.cluster = DirChain[slot][k] /\ DirChain[slot] \in Seq(Nat)
      BY <1>2, <1>4, <1>5, <2>1 DEF DirLaidOut, Linked
    <2>4. InTable(slot, l.cluster) => content = Link(slot, l.cluster)
      BY <1>2, <2>2, TableRead DEF VolumeInv
    <2>5. CASE k = DirRuns(slot)
      <3>1. InTable(slot, l.cluster) /\ Link(slot, l.cluster) >= EndMark
        BY <1>2, <1>4, <2>1, <2>3, <2>5 DEF DirLaidOut
      <3>2. IsClusterLinkEof(content)
        BY <2>4, <3>1 DEF IsClusterLinkEof
      <3>. QED BY <1>1, <1>4, <1>5, <2>1, <2>2, <2>5, <3>2
    <2>6. CASE k < DirRuns(slot)
      <3>1. k \in 1..(Len(DirChain[slot]) - 1)
        BY <1>4, <2>1, <2>6
      <3>2. /\ InTable(slot, l.cluster) /\ Link(slot, l.cluster) = DirChain[slot][k + 1]
            /\ DirChain[slot][k + 1] < EndMark
        BY <1>2, <1>4, <2>1, <2>3, <3>1 DEF DirLaidOut, Linked
      <3>3. ~IsClusterLinkEof(content) /\ content = DirChain[slot][k + 1]
        BY <2>2, <2>4, <3>2, ReaderAssumption DEF IsClusterLinkEof
      <3>4. l' = [name |-> l.name, cluster |-> DirChain[slot][k + 1], i |-> 0]
            /\ UNCHANGED <<at, ret>>
        BY <1>3, <2>2, <3>3
      <3>5. l.i >= RunLength(slot)
        BY <1>4, <2>1
      <3>. QED BY ONLY <1>1, <1>5, <2>1, <2>6, <3>4, <3>5, k \in 1..DirRuns(slot)
    <2>. QED BY <1>4, <2>5, <2>6
  <1>. QED BY <1>7, <1>8, <1>9

LEMMA OpenedStep ==
    ASSUME VolumesInSlot, PointerInv, VolumeInv, Sound, [Next]_vars
    PROVE  Opened'
  <1>1. slot' = slot
    BY SlotStays
  <1>2. Opened
    BY DEF VolumeInv
  <1>3. ASSUME UNCHANGED <<f, opened>>
        PROVE  Opened'
    BY <1>1, <1>2, <1>3 DEF Opened, Describes
  <1>4. ASSUME NEW n, f' = [filesize |-> f.filesize, offset |-> n,
                            startcluster |-> f.startcluster],
               f # NoFile, n # -1, UNCHANGED opened
        PROVE  Opened'
    BY <1>1, <1>2, <1>4 DEF Opened, Describes, NoFile
  <1>5. CASE SearchFat16 \/ SearchFat32 \/ SearchFat32Link
    <2>1. ASSUME NEW buff, ScanSector(buff, NextSector),
                 \A e \in FirstEnds(buff, l.name) :
                     buff.dir[e].kind = "file" => Describes(buff.dir[e], slot, l.name)
          PROVE  Opened'
      <3>1. CASE UNCHANGED <<f, opened>>
        BY <1>3, <3>1
      <3>2. ASSUME NEW e \in FirstEnds(buff, l.name), buff.dir[e].kind = "file",
                   f' = [filesize |-> buff.dir[e].file_size, offset |-> 0,
                         startcluster |-> buff.dir[e].cluster],
                   opened' = l.name
            PROVE  Opened'
        BY <1>1, <2>1, <3>2 DEF Opened, Describes, NoFile
      <3>. QED BY <2>1, <3>1, <3>2 DEF ScanSector
    <2>. QED BY <1>3, <1>5, <2>1, SearchSteps
  <1>6. CASE ReadFileSector
    <2>0. SectorsTyped
      BY DEF VolumesInSlot
    <2>1. PICK r : \/ \E n \in 0..(l.count - Len(dst)) :
                        f' = [filesize |-> f.filesize, offset |-> f.offset + n,
                              startcluster |-> f.startcluster]
                   \/ UNCHANGED f
      BY <1>6, <2>0, ReadsPiece
    <2>2. UNCHANGED opened /\ at = "file"
      BY <1>6, <2>0, ReadsPiece
    <2>3. f # NoFile /\ f.offset \in Nat
      BY <2>2 DEF PointerInv, ReaderTyped, ReadCounts
    <2>4. ASSUME NEW n \in 0..(l.count - Len(dst)),
                 f' = [filesize |-> f.filesize, offset |-> f.offset + n,
                       startcluster |-> f.startcluster]
          PROVE  Opened'
      <3>1. f.offset + n # -1
        BY <2>3
      <3>. QED BY <1>4, <2>2, <2>3, <2>4, <3>1
    <2>. QED BY <1>3, <2>1, <2>2, <2>4
  <1>7. ASSUME NEW d \in -MaxCount..MaxCount, NEW origin \in {0, f.offset, f.filesize},
               fatfs_fseek(origin, d)
        PROVE  Opened'
    <2>1. f # NoFile /\ UNCHANGED opened
      BY <1>7 DEF fatfs_fseek
    <2>2. f' = [f EXCEPT !.offset = IF origin + d < 0 THEN 0 ELSE Min2(origin + d, f.filesize)]
      BY <1>7 DEF fatfs_fseek
    <2>3. f = [filesize |-> f.filesize, offset |-> f.offset, startcluster |-> f.startcluster]
      BY DEF PointerInv, ReaderTyped
    <2>4. f' = [filesize |-> f.filesize,
                offset |-> IF origin + d < 0 THEN 0 ELSE Min2(origin + d, f.filesize),
                startcluster |-> f.startcluster]
      BY ONLY <2>2, <2>3
    <2>5. f.filesize \in Nat /\ origin \in Int /\ d \in Int
      <3>1. f.filesize \in Nat /\ f.offset \in 0..f.filesize
        BY <2>1 DEF PointerInv, ReaderTyped
      <3>. QED BY ONLY <3>1, ReaderAssumption, d \in -MaxCount..MaxCount,
                       origin \in {0, f.offset, f.filesize}
    <2>6. (IF origin + d < 0 THEN 0 ELSE Min2(origin + d, f.filesize)) # -1
      BY ONLY <2>5 DEF Min2
    <2>. QED BY <1>4, <2>1, <2>4, <2>6
  <1>8. CASE NewCommand
    BY <1>8 DEF NewCommand, Opened
  <1>9. ~(SearchFat16 \/ SearchFat32 \/ SearchFat32Link \/ ReadFileSector \/ NewCommand
            \/ \E d \in -MaxCount..MaxCount, origin \in {0, f.offset, f.filesize} :
                  fatfs_fseek(origin, d))
        => UNCHANGED <<f, opened>>
    BY DEF Next, Step, vars, BindSector0, BindBootSector, FollowCluster, ReadDone,
         fatfs_bind_device, fatfs_fopen, fatfs_fread
  <1>. QED BY <1>3, <1>5, <1>6, <1>7, <1>8, <1>9

LEMMA SearchingStep ==
    ASSUME VolumesInSlot, PointerInv, VolumeInv, Sound, [Next]_vars
    PROVE  Searching'
  <1>1. slot' = slot
    BY SlotStays
  <1>2. ASSUME at' # "directory" PROVE Searching'
    BY <1>2 DEF Searching
  <1>3. CASE SearchFat16 \/ SearchFat32 \/ SearchFat32Link
    <2>1. at = "directory" /\ UNCHANGED <<slot, context, dst>>
      BY <1>3, SearchSteps
    <2>2. PICK k \in 1..DirRuns(slot) :
                 /\ context.fattype = "TYPE_FAT32" => l.cluster = DirChain[slot][k]
                 /\ NoneBefore(slot, k, l.i, l.name)
                 /\ \/ \E buff :
                          /\ l.i \in 0..(RunLength(slot) - 1)
                          /\ buff = Disk[slot][DirSector(slot, k, l.i)]
                          /\ ScanSector(buff, NextSector)
                    \/ Return("open", -1)
                    \/ /\ k < DirRuns(slot) /\ l.i >= RunLength(slot)
                       /\ context.fattype = "TYPE_FAT32"
                       /\ l' = [name |-> l.name, cluster |-> DirChain[slot][k + 1], i |-> 0]
                       /\ UNCHANGED at
      BY <1>3, SearchSteps
    <2>3. /\ l = [name |-> l.name, cluster |-> l.cluster, i |-> l.i]
          /\ l.name \in Names /\ l.i \in Nat
      BY <2>1 DEF VolumeInv, Searching
    <2>4. DirRuns(slot) \in Nat /\ RunLength(slot) \in Int
      <3>1. context = Volume(slot) /\ context # Unbound
        BY <2>1 DEF VolumeInv, BoundTo
      <3>. QED BY <3>1, DirectoryIs
    <2>5. CASE Return("open", -1)
      BY <1>2, <2>5 DEF Return
    <2>6. ASSUME NEW buff, ScanSector(buff, NextSector), l.i \in 0..(RunLength(slot) - 1),
                 buff = Disk[slot][DirSector(slot, k, l.i)], at' = "directory"
          PROVE  Searching'
      <3>1. Ends(buff, l.name) = {} /\ NextSector
        BY <2>6 DEF ScanSector, Return
      <3>2. l' = [name |-> l.name, cluster |-> l.cluster, i |-> l.i + 1]
        BY <2>3, <3>1 DEF NextSector
      <3>3. NoneBefore(slot, k, l.i + 1, l.name)
        <4> SUFFICES ASSUME NEW k2 \in 1..k, NEW i2 \in 0..(RunLength(slot) - 1),
                            k2 < k \/ i2 < l.i + 1
                     PROVE  Ends(Disk[slot][DirSector(slot, k2, i2)], l.name) = {}
          BY DEF NoneBefore
        <4>1. CASE k2 < k \/ i2 < l.i
          BY <2>2, <4>1 DEF NoneBefore
        <4>2. CASE ~(k2 < k \/ i2 < l.i)
          <5>1. k2 = k /\ i2 = l.i
            BY <2>3, <2>4, <4>2
          <5>. QED BY <2>6, <3>1, <5>1
        <4>. QED BY <4>1, <4>2
      <3>4. /\ l'.name = l.name /\ l'.cluster = l.cluster /\ l'.i = l.i + 1
            /\ l' = [name |-> l'.name, cluster |-> l'.cluster, i |-> l'.i]
            /\ l'.i \in Nat
        BY ONLY <3>2, <2>3
      <3>. QED BY ONLY <1>1, <2>1, <2>2, <2>3, <3>3, <3>4, k \in 1..DirRuns(slot)
               DEF Searching, NoneBefore, DirRuns, RunLength
    <2>7. CASE /\ k < DirRuns(slot) /\ l.i >= RunLength(slot)
               /\ context.fattype = "TYPE_FAT32"
               /\ l' = [name |-> l.name, cluster |-> DirChain[slot][k + 1], i |-> 0]
               /\ UNCHANGED at
      <3>1. k + 1 \in 1..DirRuns(slot)
        BY <2>4, <2>7
      <3>2. NoneBefore(slot, k + 1, 0, l.name)
        <4> SUFFICES ASSUME NEW k2 \in 1..(k + 1), NEW i2 \in 0..(RunLength(slot) - 1),
                            k2 < k + 1 \/ i2 < 0
                     PROVE  Ends(Disk[slot][DirSector(slot, k2, i2)], l.name) = {}
          BY DEF NoneBefore
        <4>1. k2 \in 1..k /\ (k2 < k \/ i2 < l.i)
          BY <2>3, <2>4, <2>7
        <4>. QED BY <2>2, <4>1 DEF NoneBefore
      <3>3. /\ l'.name = l.name /\ l'.cluster = DirChain[slot][k + 1] /\ l'.i = 0
            /\ l' = [name |-> l'.name, cluster |-> l'.cluster, i |-> l'.i]
        BY ONLY <2>7
      <3>4. PICK m \in 1..DirRuns(slot) : m = k + 1
        BY <3>1
      <3>5. NoneBefore(slot, m, l'.i, l'.name) /\ l'.cluster = DirChain[slot][m]
        BY ONLY <3>2, <3>3, <3>4
      <3>6. l'.name \in Names /\ l'.i \in Nat
        BY ONLY <2>3, <3>3
      <3>. QED BY ONLY <1>1, <3>3, <3>4, <3>5, <3>6, m \in 1..DirRuns(slot)
               DEF Searching
    <2>. QED BY <1>2, <2>2, <2>5, <2>6, <2>7
  <1>4. ASSUME NEW n \in Names, fatfs_fopen(n)
        PROVE  Searching'
    <2>1. /\ context # Unbound /\ context = Volume(slot) /\ context' = context
          /\ l' = [name |-> n, cluster |-> context.rootdir_cluster, i |-> 0]
      BY <1>4 DEF fatfs_fopen, VolumeInv, BoundTo
    <2>2. DirLaidOut(slot) /\ 1 \in 1..DirRuns(slot)
      BY <2>1, DirectoryIs
    <2>3. context.fattype = "TYPE_FAT32" => DirChain[slot][1] = context.rootdir_cluster
      BY <2>1, <2>2 DEF DirLaidOut
    <2>4. NoneBefore(slot, 1, 0, n)
      BY DEF NoneBefore
    <2>5. /\ l'.name = n /\ l'.cluster = context.rootdir_cluster /\ l'.i = 0
          /\ l' = [name |-> l'.name, cluster |-> l'.cluster, i |-> l'.i]
      BY ONLY <2>1
    <2>. QED BY ONLY <1>1, <2>1, <2>2, <2>3, <2>4, <2>5, n \in Names
             DEF Searching, NoneBefore, DirRuns, RunLength
  <1>5. CASE UNCHANGED <<slot, context, at, l>>
    BY <1>5 DEF VolumeInv, Searching, NoneBefore, DirRuns, RunLength
  <1>6. CASE ReadFileSector
    <2>1. at' \in {"file", "idle"}
      BY <1>6 DEF ReadFileSector, Return
    <2>. QED BY <1>2, <2>1
  <1>7. CASE NewCommand
    BY <1>2, <1>7 DEF NewCommand
  <1>8. ~(SearchFat16 \/ SearchFat32 \/ SearchFat32Link \/ ReadFileSector \/ NewCommand
            \/ \E n \in Names : fatfs_fopen(n))
        => at' # "directory" \/ UNCHANGED <<slot, context, at, l>>
    BY DEF Next, Step, vars, BindSector0, BindBootSector, BootSector, FollowCluster, ReadDone,
         fatfs_bind_device, fatfs_fread, fatfs_fseek, Return
  <1>. QED BY <1>2, <1>3, <1>4, <1>5, <1>6, <1>7, <1>8

\* Sector i of a read from start on is one the read needs if it begins before the end.
LEMMA SectorWanted ==
    ASSUME NEW start \in Nat, NEW count \in Nat, NEW i \in Nat
    PROVE  /\ start \div SectorSize \in Nat /\ start % SectorSize \in 0..(SectorSize - 1)
           /\ start = (start \div SectorSize) * SectorSize + (start % SectorSize)
           /\ (count + (start % SectorSize) + SectorSize - 1) \div SectorSize \in Nat
           /\ i < (count + (start % SectorSize) + SectorSize - 1) \div SectorSize
                <=> (start \div SectorSize + i) * SectorSize < start + count
  <1> DEFINE M == SectorSize
             q == start \div M
             r == start % M
             x == count + r
  <1>1. M \in Nat \ {0}
    BY ReaderAssumption
  <1> HIDE DEF M
  <1>2. q \in Nat /\ r \in 0..M-1 /\ start = M * q + r
    BY <1>1, DivMod
  <1> HIDE DEF q, r
  <1>3. x \in Nat
    BY <1>1, <1>2
  <1>4. i < (x + M - 1) \div M <=> i * M < x
    BY <1>1, <1>3, SectorsNeeded
  <1>5. (x + M - 1) \div M \in Nat
    <2>1. x + M - 1 \in Nat
      BY <1>1, <1>3
    <2>. QED BY <1>1, <2>1, DivMod
  <1>6. (q + i) * M = q * M + i * M /\ q * M = M * q /\ q * M \in Nat /\ i * M \in Nat
    BY <1>1, <1>2
  <1>7. i * M < x <=> (q + i) * M < start + count
    <2>. DEFINE a == q * M
                b == i * M
                c == (q + i) * M
    <2>1. a \in Nat /\ b \in Nat /\ c = a + b /\ start = a + r /\ r \in Nat /\ x = count + r
      BY <1>1, <1>2, <1>6
    <2> HIDE DEF a, b, c
    <2>2. b < x <=> c < start + count
      BY ONLY <2>1, count \in Nat
    <2>. QED BY <2>2 DEF a, b, c
  <1>. QED BY <1>1, <1>2, <1>4, <1>5, <1>6, <1>7 DEF q, r, M

\* The file that is open.
LEMMA FileIs ==
    ASSUME VolumesInSlot, PointerInv, VolumeInv, Sound, f # NoFile
    PROVE  /\ context = Volume(slot) /\ context.sectors_per_cluster \in Nat \ {0}
           /\ opened \in DOMAIN Files[slot] /\ Content = Files[slot][opened]
           /\ Content \in Seq(Byte) /\ f.filesize = Len(Content)
           /\ FileLaidOut(slot, opened)
           /\ Chain[slot][opened] \in Seq(Nat) /\ Len(Chain[slot][opened]) \in Nat
           /\ f.filesize > 0 => /\ 1 \in 1..Len(Chain[slot][opened])
                                /\ f.startcluster = Chain[slot][opened][1]
  <1>1. context = Volume(slot) /\ Volume(slot) # Unbound
    BY DEF VolumeInv, BoundTo
  <1>2. /\ opened \in DOMAIN Files[slot] /\ f.filesize = Len(Files[slot][opened])
        /\ f.filesize > 0 => /\ Chain[slot][opened] # <<>>
                             /\ f.startcluster = Chain[slot][opened][1]
    BY DEF VolumeInv, Opened, Describes
  <1>3. FileLaidOut(slot, opened) /\ Volume(slot).sectors_per_cluster \in Nat \ {0}
    BY <1>1, <1>2, SlotLaidOut DEF LaidOut
  <1>4. Chain[slot][opened] \in Seq(Nat) /\ Files[slot][opened] \in Seq(Byte)
    BY <1>3 DEF FileLaidOut, Linked
  <1>5. Chain[slot][opened] # <<>> => 1 \in 1..Len(Chain[slot][opened])
    BY <1>4
  <1>6. Len(Chain[slot][opened]) \in Nat
    BY <1>4
  <1>. QED BY <1>1, <1>2, <1>3, <1>4, <1>5, <1>6 DEF Content, OnCard

\* The sector a read is at is one of the file.
LEMMA SectorOfFile ==
    ASSUME VolumesInSlot, PointerInv, VolumeInv, Sound,
           NEW start \in Nat, NEW count \in Nat, NEW i \in Nat, f # NoFile,
           start + count <= f.filesize,
           (start \div SectorSize + i) * SectorSize < start + count
    PROVE  LET j == start \div SectorSize + i
               chain == Chain[slot][opened]
               spc == context.sectors_per_cluster
           IN  /\ j \in Nat
               /\ j \div spc \in Nat /\ j \div spc < Len(chain)
               /\ FileSector(slot, chain, j) =
                    FirstSectorofCluster(context, chain[j \div spc + 1]) + (j % spc)
               /\ FileSector(slot, chain, j) \in DOMAIN Disk[slot]
               /\ \A b \in 1..SectorSize : j * SectorSize + b <= Len(Content) =>
                    Disk[slot][FileSector(slot, chain, j)].bytes[b]
                        = Content[j * SectorSize + b]
               /\ f.filesize > 0
  <1> DEFINE j == start \div SectorSize + i
  <1>1. j \in Nat
    <2>1. start \div SectorSize \in Nat
      BY ONLY SectorWanted, start \in Nat, count \in Nat, i \in Nat
    <2>. QED BY ONLY <2>1, i \in Nat
  <1> HIDE DEF j
  <1>2. f.filesize \in Nat /\ SectorSize \in Nat \ {0}
    BY ReaderAssumption DEF PointerInv, ReaderTyped
  <1>3. j * SectorSize < f.filesize
    <2>1. j * SectorSize \in Nat
      BY <1>1, <1>2
    <2>2. j * SectorSize < start + count
      BY DEF j
    <2>. QED BY ONLY <1>2, <2>1, <2>2, start \in Nat, count \in Nat, start + count <= f.filesize
  <1>4. j \in 0..f.filesize
    <2>1. j * 1 <= j * SectorSize
      <3>1. 1 * j <= SectorSize * j
        BY ONLY <1>1, <1>2, 1 <= SectorSize, TimesMonotonic
      <3>. QED BY ONLY <1>1, <1>2, <3>1
    <2>2. j * 1 = j /\ j * SectorSize \in Nat
      BY <1>1, <1>2
    <2>. QED BY ONLY <1>1, <1>2, <1>3, <2>1, <2>2
  <1>5. context.sectors_per_cluster \in Nat \ {0}
    BY FileIs
  <1>6. j \div context.sectors_per_cluster \in Nat
    BY ONLY <1>1, <1>5, DivMod
  <1>7. f.filesize > 0
    BY ONLY <1>1, <1>2, <1>3, <1>4
  <1>8. /\ context = Volume(slot) /\ f.filesize = Len(Content) /\ Content = Files[slot][opened]
        /\ FileLaidOut(slot, opened)
    BY FileIs
  <1>9. /\ j \div Volume(slot).sectors_per_cluster < Len(Chain[slot][opened])
        /\ FileSector(slot, Chain[slot][opened], j) \in DOMAIN Disk[slot]
        /\ \A b \in 1..SectorSize : j * SectorSize + b <= Len(Content) =>
                Disk[slot][FileSector(slot, Chain[slot][opened], j)].bytes[b]
                    = Content[j * SectorSize + b]
    BY ONLY <1>3, <1>4, <1>8 DEF FileLaidOut
  <1>. QED BY ONLY <1>1, <1>6, <1>7, <1>8, <1>9 DEF FileSector, j

\* What a read in progress is at.
LEMMA ReadIs ==
    ASSUME VolumesInSlot, PointerInv, VolumeInv, Sound, at = "file"
    PROVE  /\ f # NoFile /\ l.start \in Nat /\ l.count \in Nat /\ l.i \in Nat
           /\ l.start + l.count <= f.filesize /\ Len(dst) \in Nat /\ Len(dst) <= l.count
           /\ f.filesize \in Nat
           /\ l = [wanted |-> l.wanted, count |-> l.count, start |-> l.start, i |-> l.i,
                   cluster |-> l.cluster, hops |-> l.hops]
           /\ totsectors \in Nat
           /\ \A i \in Nat : i < totsectors
                <=> (l.start \div SectorSize + i) * SectorSize < l.start + l.count
  <1>1. /\ f # NoFile /\ l.start \in Nat /\ l.count \in Nat /\ l.i \in Nat
        /\ l.start + l.count <= f.filesize /\ Len(dst) \in Nat /\ Len(dst) <= l.count
        /\ f.filesize \in Nat
        /\ l = [wanted |-> l.wanted, count |-> l.count, start |-> l.start, i |-> l.i,
                cluster |-> l.cluster, hops |-> l.hops]
    BY DEF PointerInv, ReaderTyped, ReadCounts, Min2
  <1>2. totsectors \in Nat
    BY ONLY <1>1, SectorWanted DEF totsectors
  <1>3. ASSUME NEW i \in Nat
        PROVE  i < totsectors
                <=> (l.start \div SectorSize + i) * SectorSize < l.start + l.count
    BY ONLY <1>1, <1>3, SectorWanted DEF totsectors
  <1>. QED BY ONLY <1>1, <1>2, <1>3

\* The steps of a read: it follows a link, reads a sector or returns.
LEMMA FollowsLink ==
    ASSUME VolumesInSlot, PointerInv, VolumeInv, Sound, FollowCluster
    PROVE  /\ at = "file" /\ UNCHANGED <<slot, context, f, dst, opened, at, ret>>
           /\ l.hops \in Nat \ {0} /\ l.i < totsectors
           /\ \E k \in 1..(Len(Chain[slot][opened]) - 1) :
                 /\ l' = [wanted |-> l.wanted, count |-> l.count, start |-> l.start, i |-> l.i,
                          cluster |-> Chain[slot][opened][k + 1], hops |-> l.hops - 1]
                 /\ k - 1 + l.hops = SectorAt \div context.sectors_per_cluster
  <1>1. /\ at = "file" /\ l.i < totsectors /\ l.hops > 0
        /\ UNCHANGED <<slot, context, f, dst, opened>>
    BY DEF FollowCluster
  <1>2. PICK content \in 0..EndMark :
          /\ ClusterContentInFAT(l.cluster, content)
          /\ \/ IsClusterLinkEof(content) /\ Return("read", Len(dst))
             \/ /\ ~IsClusterLinkEof(content)
                /\ l' = [l EXCEPT !.cluster = content, !.hops = @ - 1]
                /\ UNCHANGED <<at, ret>>
    BY DEF FollowCluster
  <1>3. /\ f # NoFile /\ l.start \in Nat /\ l.count \in Nat /\ l.i \in Nat
        /\ l.start + l.count <= f.filesize
        /\ l = [wanted |-> l.wanted, count |-> l.count, start |-> l.start, i |-> l.i,
                cluster |-> l.cluster, hops |-> l.hops]
        /\ (l.start \div SectorSize + l.i) * SectorSize < l.start + l.count
    BY <1>1, ReadIs
  <1>4. /\ SectorAt \div context.sectors_per_cluster \in Nat
        /\ SectorAt \div context.sectors_per_cluster < Len(Chain[slot][opened])
    BY <1>3, SectorOfFile DEF SectorAt
  <1>5. /\ context = Volume(slot) /\ Linked(slot, Chain[slot][opened])
        /\ Len(Chain[slot][opened]) \in Nat
    BY <1>3, FileIs DEF FileLaidOut
  <1>6. l.hops \in Nat
    BY <1>1 DEF VolumeInv, FollowsChain
  <1>7. PICK k \in 1..Len(Chain[slot][opened]) :
              /\ l.cluster = Chain[slot][opened][k]
              /\ k - 1 + l.hops = SectorAt \div context.sectors_per_cluster
    BY <1>1 DEF VolumeInv, FollowsChain
  <1> DEFINE q == SectorAt \div context.sectors_per_cluster
  <1>8. k \in 1..(Len(Chain[slot][opened]) - 1)
    <2> HIDE DEF q
    <2>1. q \in Nat /\ q < Len(Chain[slot][opened]) /\ k - 1 + l.hops = q
      BY <1>4, <1>7 DEF q
    <2>. QED BY ONLY <1>1, <1>5, <1>6, <2>1, k \in 1..Len(Chain[slot][opened])
  <1>9. /\ InTable(slot, l.cluster) /\ Link(slot, l.cluster) = Chain[slot][opened][k + 1]
        /\ Chain[slot][opened][k + 1] < EndMark /\ Chain[slot][opened][k + 1] \in Nat
    <2>1. Chain[slot][opened] \in Seq(Nat) /\ k + 1 \in 1..Len(Chain[slot][opened])
      BY ONLY <1>5, <1>8 DEF Linked
    <2>2. Chain[slot][opened][k + 1] \in Nat
      BY ONLY <2>1
    <2>. QED BY ONLY <1>5, <1>7, <1>8, <2>2 DEF Linked
  <1>10. content = Chain[slot][opened][k + 1]
    BY <1>2, <1>5, <1>9, TableRead DEF VolumeInv
  <1>11. ~IsClusterLinkEof(content)
    BY ONLY <1>9, <1>10, ReaderAssumption DEF IsClusterLinkEof
  <1>12. /\ l' = [l EXCEPT !.cluster = content, !.hops = @ - 1]
         /\ UNCHANGED <<at, ret>>
    BY ONLY <1>2, <1>11
  <1>13. l' = [wanted |-> l.wanted, count |-> l.count, start |-> l.start, i |-> l.i,
               cluster |-> Chain[slot][opened][k + 1], hops |-> l.hops - 1]
    BY ONLY <1>3, <1>10, <1>12
  <1>14. l.hops \in Nat \ {0}
    BY ONLY <1>1, <1>6
  <1>15. k - 1 + l.hops = SectorAt \div context.sectors_per_cluster
    BY ONLY <1>7
  <1>. QED BY ONLY <1>1, <1>8, <1>12, <1>13, <1>14, <1>15

\* What a read has stored, and the next piece of the file.
LEMMA StoresPiece ==
    ASSUME Content \in Seq(Byte), l.start \in Nat, Len(dst) \in Nat,
           NEW o \in Nat, NEW n \in Nat, NEW buff, SectorTyped(buff),
           NEW base \in Nat, Holds(buff.bytes, Content, base), l.start + Len(dst) = base + o,
           o + n <= SectorSize, l.start + Len(dst) + n <= Len(Content),
           dst = SubSeq(Content, l.start + 1, l.start + Len(dst)),
           dst' = dst \o SubSeq(buff.bytes, o + 1, o + n), Len(dst') = Len(dst) + n
    PROVE  dst' = SubSeq(Content, l.start + 1, l.start + Len(dst'))
  <1>1. PICK a \in Nat, m \in Nat, s \in Seq(Byte), b \in Seq(Byte) :
            a = l.start /\ m = Len(dst) /\ s = Content /\ b = buff.bytes /\ Len(b) = SectorSize
    <2>1. buff.bytes \in Seq(Byte) /\ Len(buff.bytes) = SectorSize
      BY ReaderAssumption DEF SectorTyped
    <2>. QED BY <2>1
  <1>2. Holds(b, s, base) /\ a + m = base + o /\ a + m + n <= Len(s)
    BY <1>1
  <1>3. Agrees(b, o, s, a + m, n)
    <2> SUFFICES ASSUME NEW j \in 1..n
                 PROVE  b[o + j] = s[a + m + j]
      BY DEF Agrees
    <2>1. Len(s) \in Nat /\ SectorSize \in Nat
      BY ReaderAssumption
    <2>2. o + j \in 1..SectorSize /\ base + (o + j) <= Len(s) /\ base + (o + j) = a + m + j
      BY <1>2, <2>1
    <2>3. b[o + j] = s[base + (o + j)]
      BY ONLY <1>2, <2>2 DEF Holds
    <2>. QED BY ONLY <2>2, <2>3
  <1>4. Piece(s, a, m) \o Piece(b, o, n) = Piece(s, a, m + n)
    <2>1. a + m + n <= Len(s) /\ o + n <= Len(b)
      BY <1>1, <1>2
    <2>. QED BY ONLY <1>3, <2>1, NextPiece
  <1>5. dst = Piece(s, a, m) /\ dst' = dst \o Piece(b, o, n) /\ Len(dst') = m + n
    BY <1>1 DEF Piece
  <1>6. dst' = Piece(s, a, Len(dst'))
    BY ONLY <1>4, <1>5
  <1>. QED BY ONLY <1>1, <1>6 DEF Piece

\* Every sector of the file is there, and its bytes are those of the file.
LEMMA ReadsOnePiece ==
    ASSUME VolumesInSlot, PointerInv, VolumeInv, Sound, ReadFileSector
    PROVE  /\ at = "file" /\ UNCHANGED <<slot, context, opened, at, ret>>
           /\ l.i < totsectors
           /\ l' = [wanted |-> l.wanted, count |-> l.count, start |-> l.start,
                    i |-> l.i + 1, cluster |-> f.startcluster,
                    hops |-> (SectorAt + 1) \div context.sectors_per_cluster]
           /\ \E n \in 0..(l.count - Len(dst)) :
                 /\ n = SectorSize - OffsetAt \/ n = l.count - Len(dst)
                 /\ OffsetAt + n <= SectorSize
                 /\ f' = [filesize |-> f.filesize, offset |-> f.offset + n,
                          startcluster |-> f.startcluster]
                 /\ Len(dst') = Len(dst) + n
                 /\ dst' = SubSeq(Content, l.start + 1, l.start + Len(dst'))
  <1>0. SectorsTyped
    BY DEF VolumesInSlot
  <1>1. /\ at = "file" /\ l.i < totsectors /\ l.hops = 0
        /\ UNCHANGED <<slot, context, opened>>
    BY <1>0, ReadsPiece
  <1>2. PICK r \in ReadSector(FirstSectorofCluster(context, l.cluster)
                        + (SectorAt % context.sectors_per_cluster), {Blank}) :
                 \/ /\ r.ok
                    /\ \E n \in 0..(l.count - Len(dst)) :
                          /\ n = SectorSize - OffsetAt \/ n = l.count - Len(dst)
                          /\ OffsetAt + n <= SectorSize
                          /\ SubSeq(r.buff.bytes, OffsetAt + 1, OffsetAt + n) \in Seq(Byte)
                          /\ dst' = dst \o SubSeq(r.buff.bytes, OffsetAt + 1, OffsetAt + n)
                          /\ dst' \in Seq(Byte) /\ Len(dst') = Len(dst) + n
                          /\ f' = [filesize |-> f.filesize, offset |-> f.offset + n,
                                   startcluster |-> f.startcluster]
                    /\ l' = [wanted |-> l.wanted, count |-> l.count, start |-> l.start,
                             i |-> l.i + 1, cluster |-> f.startcluster,
                             hops |-> (SectorAt + 1) \div context.sectors_per_cluster]
                    /\ UNCHANGED <<at, ret>>
                 \/ ~r.ok
    BY <1>0, ReadsPiece
  <1>3. /\ f # NoFile /\ l.start \in Nat /\ l.count \in Nat /\ l.i \in Nat
        /\ l.start + l.count <= f.filesize
        /\ Len(dst) \in Nat /\ Len(dst) <= l.count /\ f.filesize \in Nat
        /\ (l.start \div SectorSize + l.i) * SectorSize < l.start + l.count
    BY <1>1, ReadIs
  <1>4. /\ SectorAt \in Nat
        /\ SectorAt \div context.sectors_per_cluster \in Nat
        /\ FileSector(slot, Chain[slot][opened], SectorAt) =
             FirstSectorofCluster(context,
                 Chain[slot][opened][SectorAt \div context.sectors_per_cluster + 1])
                 + (SectorAt % context.sectors_per_cluster)
        /\ FileSector(slot, Chain[slot][opened], SectorAt) \in DOMAIN Disk[slot]
        /\ \A b \in 1..SectorSize : SectorAt * SectorSize + b <= Len(Content) =>
             Disk[slot][FileSector(slot, Chain[slot][opened], SectorAt)].bytes[b]
                 = Content[SectorAt * SectorSize + b]
    BY <1>3, SectorOfFile DEF SectorAt
  <1>5. l.cluster = Chain[slot][opened][SectorAt \div context.sectors_per_cluster + 1]
    <2>1. PICK k \in 1..Len(Chain[slot][opened]) :
              /\ l.cluster = Chain[slot][opened][k]
              /\ k - 1 + l.hops = SectorAt \div context.sectors_per_cluster
      BY <1>1 DEF VolumeInv, FollowsChain
    <2>2. k = SectorAt \div context.sectors_per_cluster + 1
      <3> DEFINE q == SectorAt \div context.sectors_per_cluster
      <3>1. q \in Nat /\ k - 1 + l.hops = q /\ l.hops = 0
        BY ONLY <1>1, <1>4, <2>1
      <3> HIDE DEF q
      <3>2. Len(Chain[slot][opened]) \in Nat
        BY <1>3, FileIs
      <3>3. k = q + 1
        BY ONLY <3>1, <3>2, k \in 1..Len(Chain[slot][opened])
      <3>. QED BY <3>3 DEF q
    <2>. QED BY ONLY <2>1, <2>2
  <1>6. r.ok /\ r.buff = Disk[slot][FileSector(slot, Chain[slot][opened], SectorAt)]
    BY <1>4, <1>5, ReadResult
  <1>7. PICK n \in 0..(l.count - Len(dst)) :
          /\ n = SectorSize - OffsetAt \/ n = l.count - Len(dst)
          /\ OffsetAt + n <= SectorSize
          /\ dst' = dst \o SubSeq(r.buff.bytes, OffsetAt + 1, OffsetAt + n)
          /\ Len(dst') = Len(dst) + n
          /\ f' = [filesize |-> f.filesize, offset |-> f.offset + n,
                   startcluster |-> f.startcluster]
    BY ONLY <1>2, <1>6
  <1>8. /\ Content \in Seq(Byte) /\ f.filesize = Len(Content)
        /\ slot \in Cards /\ SectorTyped(r.buff)
    <2>1. slot \in Cards
      BY DEF PointerInv, ReaderTyped
    <2>2. SectorTyped(r.buff)
      BY <1>0, <1>4, <1>6, <2>1 DEF SectorsTyped
    <2>. QED BY <1>3, <2>1, <2>2, FileIs
  <1>9. /\ l.start + Len(dst) = SectorAt * SectorSize + OffsetAt
        /\ dst = SubSeq(Content, l.start + 1, l.start + Len(dst))
    BY <1>1 DEF VolumeInv, HasRead
  <1>10. OffsetAt \in 0..(SectorSize - 1) /\ SectorSize \in Nat
    <2>1. l.start % SectorSize \in 0..(SectorSize - 1)
      BY ONLY SectorWanted, <1>3
    <2>2. 0 \in 0..(SectorSize - 1) /\ SectorSize \in Nat
      BY ONLY ReaderAssumption
    <2>. QED BY ONLY <2>1, <2>2 DEF OffsetAt
  <1>11. dst' = SubSeq(Content, l.start + 1, l.start + Len(dst'))
    <2>1. /\ n \in Nat /\ OffsetAt \in Nat /\ OffsetAt + n <= SectorSize
          /\ l.start + Len(dst) + n <= Len(Content)
      BY ONLY <1>3, <1>7, <1>8, <1>10, n \in 0..(l.count - Len(dst))
    <2>2. PICK base \in Nat : base = SectorAt * SectorSize
      <3>1. SectorAt \in Nat /\ SectorSize \in Nat
        BY ONLY <1>4, <1>10
      <3>2. PICK x \in Nat, y \in Nat : x = SectorAt /\ y = SectorSize
        BY ONLY <3>1
      <3>3. x * y \in Nat
        BY ONLY x \in Nat, y \in Nat
      <3>. QED BY ONLY <3>2, <3>3
    <2>3. Holds(r.buff.bytes, Content, base)
      BY ONLY <1>4, <1>6, <2>2 DEF Holds
    <2>4. SectorTyped(r.buff)
      BY ONLY <1>8
    <2>5. l.start + Len(dst) = base + OffsetAt
      BY ONLY <1>9, <2>2
    <2>. QED BY <1>3, <1>7, <1>8, <1>9, <2>1, <2>3, <2>4, <2>5, StoresPiece
  <1>. QED BY ONLY <1>1, <1>2, <1>6, <1>7, <1>11

\* A read begins at the sector of the pointer.
LEMMA ReadBegins ==
    ASSUME VolumesInSlot, PointerInv, VolumeInv, Sound,
           NEW wanted \in 0..MaxCount, fatfs_fread(wanted)
    PROVE  /\ f # NoFile /\ UNCHANGED <<slot, context, f, opened>> /\ dst' = <<>>
           /\ at = "idle" /\ at' = "file"
           /\ l'.wanted = wanted /\ l'.start = f.offset /\ l'.i = 0
           /\ l'.count = Min2(wanted, f.filesize - f.offset)
           /\ l'.cluster = f.startcluster
           /\ l'.hops = (f.offset \div SectorSize) \div context.sectors_per_cluster
           /\ f.offset \in Nat /\ f.filesize \in Nat /\ l'.count \in Nat
           /\ f.offset + l'.count <= f.filesize
           /\ totsectors' \in Nat
           /\ 0 < totsectors' <=> (f.offset \div SectorSize + 0) * SectorSize
                                    < f.offset + l'.count
  <1>1. /\ f # NoFile /\ UNCHANGED <<slot, context, f, opened>> /\ dst' = <<>>
        /\ at = "idle" /\ at' = "file"
        /\ l'.wanted = wanted /\ l'.start = f.offset /\ l'.i = 0
        /\ l'.count = Min2(wanted, f.filesize - f.offset)
        /\ l'.cluster = f.startcluster
        /\ l'.hops = (f.offset \div SectorSize) \div context.sectors_per_cluster
    BY DEF fatfs_fread
  <1>2. f.offset \in 0..f.filesize /\ f.filesize \in Nat
    BY <1>1 DEF PointerInv, ReaderTyped
  <1>3. Min2(wanted, f.filesize - f.offset) \in Nat
        /\ Min2(wanted, f.filesize - f.offset) <= f.filesize - f.offset
    BY ONLY <1>2, ReaderAssumption, wanted \in 0..MaxCount DEF Min2
  <1>4. l'.count \in Nat /\ f.offset \in Nat /\ f.offset + l'.count <= f.filesize
    BY ONLY <1>1, <1>2, <1>3
  <1>5. totsectors' = (l'.count + (f.offset % SectorSize) + SectorSize - 1) \div SectorSize
    BY ONLY <1>1 DEF totsectors
  <1>6. /\ (l'.count + (f.offset % SectorSize) + SectorSize - 1) \div SectorSize \in Nat
        /\ 0 < (l'.count + (f.offset % SectorSize) + SectorSize - 1) \div SectorSize
             <=> (f.offset \div SectorSize + 0) * SectorSize < f.offset + l'.count
    BY ONLY <1>4, SectorWanted, 0 \in Nat
  <1>. QED BY ONLY <1>1, <1>2, <1>4, <1>5, <1>6

LEMMA FollowsChainStep ==
    ASSUME VolumesInSlot, PointerInv, VolumeInv, Sound, [Next]_vars
    PROVE  FollowsChain'
  <1>1. ASSUME at' # "file" PROVE FollowsChain'
    BY <1>1 DEF FollowsChain
  <1>2. CASE FollowCluster
    <2>1. /\ at = "file" /\ UNCHANGED <<slot, context, opened>>
          /\ l.hops \in Nat \ {0}
      BY <1>2, FollowsLink
    <2>2. PICK k \in 1..(Len(Chain[slot][opened]) - 1) :
                 /\ l' = [wanted |-> l.wanted, count |-> l.count, start |-> l.start, i |-> l.i,
                          cluster |-> Chain[slot][opened][k + 1], hops |-> l.hops - 1]
                 /\ k - 1 + l.hops = SectorAt \div context.sectors_per_cluster
      BY <1>2, FollowsLink
    <2>3. f # NoFile
      BY <2>1 DEF PointerInv, ReadCounts
    <2>4. Len(Chain[slot][opened]) \in Nat
      BY <2>3, FileIs
    <2>5. PICK m \in 1..Len(Chain[slot][opened]) : m = k + 1
      BY ONLY <2>4, k \in 1..(Len(Chain[slot][opened]) - 1)
    <2> DEFINE q == SectorAt \div context.sectors_per_cluster
    <2>6. SectorAt' = SectorAt
      BY ONLY <2>2 DEF SectorAt
    <2>7. q' = q
      BY ONLY <2>1, <2>6
    <2>8. k - 1 + l.hops = q
      BY ONLY <2>2
    <2> HIDE DEF q
    <2>9. l'.hops \in Nat /\ l'.cluster = Chain[slot][opened][m]
      BY ONLY <2>1, <2>2, <2>5
    <2>10. m - 1 + l'.hops = q'
      <3>1. l'.hops = l.hops - 1
        BY ONLY <2>2
      <3>. QED BY ONLY <2>1, <2>5, <2>7, <2>8, <3>1, k \in 1..(Len(Chain[slot][opened]) - 1),
                       <2>4
    <2>. QED BY ONLY <2>1, <2>9, <2>10, m \in 1..Len(Chain[slot][opened]) DEF FollowsChain, q
  <1>3. CASE ReadFileSector
    <2>1. /\ at = "file" /\ UNCHANGED <<slot, context, opened, at>>
          /\ l' = [wanted |-> l.wanted, count |-> l.count, start |-> l.start,
                   i |-> l.i + 1, cluster |-> f.startcluster,
                   hops |-> (SectorAt + 1) \div context.sectors_per_cluster]
      BY <1>3, ReadsOnePiece
    <2>2. /\ f # NoFile /\ l.start \in Nat /\ l.count \in Nat /\ l.i \in Nat
          /\ l.start + l.count <= f.filesize
          /\ \A i \in Nat : i < totsectors
                <=> (l.start \div SectorSize + i) * SectorSize < l.start + l.count
      BY <2>1, ReadIs
    <2>3. totsectors' = totsectors
      BY ONLY <2>1 DEF totsectors
    <2>4. SectorAt' = l.start \div SectorSize + (l.i + 1)
      BY ONLY <2>1 DEF SectorAt
    <2>5. ASSUME l.i + 1 < totsectors
          PROVE  FollowsChain'
      <3>1. l.i + 1 \in Nat
        BY ONLY <2>2
      <3>2. (l.start \div SectorSize + (l.i + 1)) * SectorSize < l.start + l.count
        BY ONLY <2>2, <2>5, <3>1
      <3>3. /\ f.filesize > 0
            /\ (l.start \div SectorSize + (l.i + 1)) \div context.sectors_per_cluster \in Nat
        BY <2>2, <3>1, <3>2, SectorOfFile
      <3>4. 1 \in 1..Len(Chain[slot][opened]) /\ f.startcluster = Chain[slot][opened][1]
        BY <2>2, <3>3, FileIs
      <3>5. SectorAt + 1 = SectorAt'
        <4>1. l.start \div SectorSize \in Nat
          BY ONLY <2>2, SectorWanted
        <4>. QED BY ONLY <2>2, <2>4, <4>1 DEF SectorAt
      <3>6. l'.hops = (SectorAt \div context.sectors_per_cluster)'
        BY ONLY <2>1, <3>5
      <3>7. l'.hops \in Nat /\ 1 - 1 + l'.hops = l'.hops
        BY ONLY <2>4, <3>3, <3>6, <2>1
      <3>8. 1 - 1 + l'.hops = (SectorAt \div context.sectors_per_cluster)'
        BY ONLY <3>6, <3>7
      <3>9. l'.cluster = Chain[slot'][opened'][1] /\ 1 \in 1..Len(Chain[slot'][opened'])
        BY ONLY <2>1, <3>4
      <3>. QED BY ONLY <3>7, <3>8, <3>9 DEF FollowsChain
    <2>6. ASSUME ~(l.i + 1 < totsectors)
          PROVE  FollowsChain'
      BY ONLY <2>1, <2>3, <2>6 DEF FollowsChain
    <2>. QED BY <2>5, <2>6
  <1>4. ASSUME NEW n \in 0..MaxCount, fatfs_fread(n)
        PROVE  FollowsChain'
    <2>1. /\ f # NoFile /\ UNCHANGED <<slot, context, f, opened>>
          /\ l'.start = f.offset /\ l'.i = 0
          /\ l'.cluster = f.startcluster
          /\ l'.hops = (f.offset \div SectorSize) \div context.sectors_per_cluster
          /\ f.offset \in Nat /\ l'.count \in Nat
          /\ f.offset + l'.count <= f.filesize
      BY <1>4, ReadBegins
    <2>2. 0 < totsectors' <=> (f.offset \div SectorSize + 0) * SectorSize
                                    < f.offset + l'.count
      BY <1>4, ReadBegins
    <2>3. f.offset \div SectorSize \in Nat
      BY ONLY <2>1, SectorWanted
    <2>4. f.offset \div SectorSize + 0 = f.offset \div SectorSize
      BY ONLY <2>3
    <2>5. SectorAt' = f.offset \div SectorSize
      BY ONLY <2>1, <2>4 DEF SectorAt
    <2>6. ASSUME 0 < totsectors'
          PROVE  FollowsChain'
      <3>1. /\ f.filesize > 0
            /\ (f.offset \div SectorSize + 0) \div context.sectors_per_cluster \in Nat
        BY <2>1, <2>2, <2>6, 0 \in Nat, SectorOfFile
      <3>2. 1 \in 1..Len(Chain[slot][opened]) /\ f.startcluster = Chain[slot][opened][1]
        BY <2>1, <3>1, FileIs
      <3>3. l'.hops \in Nat /\ l'.hops = (SectorAt \div context.sectors_per_cluster)'
        BY ONLY <2>1, <2>4, <2>5, <3>1
      <3>4. 1 - 1 + l'.hops = (SectorAt \div context.sectors_per_cluster)'
        <4>1. 1 - 1 + l'.hops = l'.hops
          BY ONLY <3>3
        <4>. QED BY ONLY <3>3, <4>1
      <3>5. l'.cluster = Chain[slot'][opened'][1] /\ 1 \in 1..Len(Chain[slot'][opened'])
        BY ONLY <2>1, <3>2
      <3>. QED BY ONLY <3>3, <3>4, <3>5 DEF FollowsChain
    <2>7. ASSUME ~(0 < totsectors')
          PROVE  FollowsChain'
      BY ONLY <2>1, <2>7 DEF FollowsChain
    <2>. QED BY <2>6, <2>7
  <1>5. CASE UNCHANGED <<slot, context, opened, at, l>>
    <2>1. FollowsChain
      BY DEF VolumeInv
    <2>. QED BY ONLY <1>5, <2>1 DEF FollowsChain, totsectors, SectorAt
  <1>6. ~(FollowCluster \/ ReadFileSector \/ \E n \in 0..MaxCount : fatfs_fread(n))
        => at' # "file" \/ UNCHANGED <<slot, context, opened, at, l>>
    BY DEF Next, Step, vars, BindSector0, BindBootSector, BootSector, SearchFat16,
         SearchFat32, SearchFat32Link, ScanSector, NextSector, ReadDone, NewCommand,
         fatfs_bind_device, fatfs_fopen, fatfs_fseek, Return
  <1>. QED BY <1>1, <1>2, <1>3, <1>4, <1>5, <1>6

\* After a piece of a sector that begins at a and the next one at b, a read is at the next
\* sector, or has all it counted.
LEMMA AfterPiece ==
    ASSUME NEW M \in Nat, NEW a \in Nat, NEW b \in Nat, b = a + M,
           NEW o \in Nat, NEW start \in Nat, NEW d \in Nat,
           NEW count \in Nat, NEW n \in Nat, d + n <= count,
           start + d = a + o, n = M - o \/ n = count - d, o + n <= M
    PROVE  /\ b < start + count => start + (d + n) = b + 0
           /\ ~(b < start + count) => d + n = count
  OBVIOUS

LEMMA HasReadStep ==
    ASSUME VolumesInSlot, PointerInv, VolumeInv, Sound, [Next]_vars
    PROVE  HasRead'
  <1>1. ASSUME at' # "file" PROVE HasRead'
    BY <1>1 DEF HasRead
  <1>2. CASE FollowCluster
    <2>1. /\ at = "file" /\ UNCHANGED <<slot, dst, opened>>
      BY <1>2, FollowsLink
    <2>2. PICK k \in 1..(Len(Chain[slot][opened]) - 1) :
              l' = [wanted |-> l.wanted, count |-> l.count, start |-> l.start, i |-> l.i,
                    cluster |-> Chain[slot][opened][k + 1], hops |-> l.hops - 1]
      BY <1>2, FollowsLink
    <2>3. l'.i = l.i /\ l'.start = l.start /\ l'.count = l.count
      BY ONLY <2>2
    <2>4. HasRead
      BY DEF VolumeInv
    <2>5. SectorAt' = SectorAt /\ OffsetAt' = OffsetAt /\ totsectors' = totsectors
      BY ONLY <2>3 DEF SectorAt, OffsetAt, totsectors
    <2>6. Content' = Content
      BY ONLY <2>1 DEF Content, OnCard
    <2>. QED BY ONLY <2>1, <2>3, <2>4, <2>5, <2>6 DEF HasRead
  <1>3. CASE ReadFileSector
    <2>1. /\ at = "file" /\ UNCHANGED <<slot, context, opened, at>>
          /\ l.i < totsectors
          /\ l' = [wanted |-> l.wanted, count |-> l.count, start |-> l.start,
                   i |-> l.i + 1, cluster |-> f.startcluster,
                   hops |-> (SectorAt + 1) \div context.sectors_per_cluster]
      BY <1>3, ReadsOnePiece
    <2>2. PICK n \in 0..(l.count - Len(dst)) :
                 /\ n = SectorSize - OffsetAt \/ n = l.count - Len(dst)
                 /\ OffsetAt + n <= SectorSize
                 /\ Len(dst') = Len(dst) + n
                 /\ dst' = SubSeq(Content, l.start + 1, l.start + Len(dst'))
      BY <1>3, ReadsOnePiece
    <2>3. /\ l.start \in Nat /\ l.count \in Nat /\ l.i \in Nat
          /\ Len(dst) \in Nat /\ Len(dst) <= l.count /\ totsectors \in Nat
          /\ \A i \in Nat : i < totsectors
                <=> (l.start \div SectorSize + i) * SectorSize < l.start + l.count
      BY <2>1, ReadIs
    <2>4. l'.i = l.i + 1 /\ l'.start = l.start /\ l'.count = l.count
      BY ONLY <2>1
    <2>5. totsectors' = totsectors /\ SectorAt' = l.start \div SectorSize + (l.i + 1)
          /\ OffsetAt' = 0
      <3>1. l.i + 1 # 0
        BY ONLY <2>3
      <3>. QED BY ONLY <2>4, <3>1 DEF totsectors, SectorAt, OffsetAt
    <2>6. l.start \div SectorSize \in Nat /\ l.start % SectorSize \in 0..(SectorSize - 1)
      BY ONLY <2>3, SectorWanted
    <2>7. SectorAt \in Nat /\ SectorAt' = SectorAt + 1
      <3>1. PICK q \in Nat, i \in Nat : q = l.start \div SectorSize /\ i = l.i
        <4>1. l.i \in Nat
          BY ONLY <2>3
        <4>2. l.start \div SectorSize \in Nat
          BY ONLY <2>6
        <4>. QED BY ONLY <4>1, <4>2
      <3>2. SectorAt = q + i /\ SectorAt' = q + (i + 1)
        BY ONLY <2>5, <3>1 DEF SectorAt
      <3>. QED BY ONLY <3>2, q \in Nat, i \in Nat
    <2>8. OffsetAt \in 0..(SectorSize - 1)
      <3>1. 0 \in 0..(SectorSize - 1)
        BY ONLY ReaderAssumption
      <3>. QED BY ONLY <2>6, <3>1 DEF OffsetAt
    <2>9. l.start + Len(dst) = SectorAt * SectorSize + OffsetAt
      BY <2>1 DEF VolumeInv, HasRead
    <2>10. /\ (SectorAt + 1) * SectorSize < l.start + l.count
                => l.start + (Len(dst) + n) = (SectorAt + 1) * SectorSize + 0
           /\ ~((SectorAt + 1) * SectorSize < l.start + l.count) => Len(dst) + n = l.count
      <3>1. PICK M \in Nat, q \in Nat, o \in Nat : M = SectorSize /\ q = SectorAt /\ o = OffsetAt
        <4>1. SectorSize \in Nat /\ OffsetAt \in Nat
          BY ONLY <2>8, ReaderAssumption
        <4>. QED BY ONLY <2>7, <4>1
      <3>2. l.start \in Nat /\ l.count \in Nat /\ Len(dst) \in Nat /\ Len(dst) <= l.count
        BY ONLY <2>3
      <3>3. PICK start \in Nat, count \in Nat, d \in Nat :
                start = l.start /\ count = l.count /\ d = Len(dst)
        BY ONLY <3>2
      <3>4. PICK m \in Nat : m = n /\ d + m <= count
        BY ONLY <3>2, <3>3, n \in 0..(l.count - Len(dst))
      <3>5. PICK a \in Nat, b \in Nat : a = q * M /\ b = (q + 1) * M /\ b = a + M
        <4>1. q * M \in Nat /\ (q + 1) * M = q * M + M
          BY ONLY M \in Nat, q \in Nat
        <4>. QED BY ONLY <4>1, M \in Nat
      <3>6. start + d = a + o
        BY ONLY <2>9, <3>1, <3>3, <3>5
      <3>7. (m = M - o \/ m = count - d) /\ o + m <= M
        BY ONLY <2>2, <3>1, <3>3, <3>4
      <3>8. /\ b < start + count => start + (d + m) = b + 0
            /\ ~(b < start + count) => d + m = count
        BY ONLY <3>4, <3>5, <3>6, <3>7, AfterPiece, M \in Nat, a \in Nat, b \in Nat, o \in Nat,
                start \in Nat, d \in Nat, count \in Nat, m \in Nat
      <3>9. b = (SectorAt + 1) * SectorSize
        BY ONLY <3>1, <3>5
      <3>. QED BY ONLY <3>3, <3>4, <3>8, <3>9
    <2>11. l.i + 1 < totsectors <=> (SectorAt + 1) * SectorSize < l.start + l.count
      <3>1. l.i + 1 \in Nat
        BY ONLY <2>3
      <3>2. l.start \div SectorSize + (l.i + 1) = SectorAt + 1
        BY ONLY <2>5, <2>7
      <3>. QED BY ONLY <2>3, <3>1, <3>2
    <2>12. l'.i <= totsectors'
      BY ONLY <2>1, <2>3, <2>4, <2>5
    <2>13. l'.i < totsectors' =>
               l'.start + Len(dst') = SectorAt' * SectorSize + OffsetAt'
      BY ONLY <2>2, <2>4, <2>5, <2>7, <2>10, <2>11
    <2>14. l'.i = totsectors' => Len(dst') = l'.count
      <3>1. l'.i = totsectors' => ~(l.i + 1 < totsectors)
        BY ONLY <2>3, <2>4, <2>5
      <3>. QED BY ONLY <2>2, <2>4, <2>10, <2>11, <3>1
    <2>15. dst' = SubSeq(Content', l'.start + 1, l'.start + Len(dst'))
      <3>1. Content' = Content
        BY ONLY <2>1 DEF Content, OnCard
      <3>. QED BY ONLY <2>2, <2>4, <3>1
    <2>. QED BY ONLY <2>12, <2>13, <2>14, <2>15 DEF HasRead
  <1>4. ASSUME NEW n \in 0..MaxCount, fatfs_fread(n)
        PROVE  HasRead'
    <2>1. /\ f # NoFile /\ UNCHANGED <<slot, context, f, opened>> /\ dst' = <<>>
          /\ l'.start = f.offset /\ l'.i = 0
          /\ f.offset \in Nat /\ l'.count \in Nat
          /\ f.offset + l'.count <= f.filesize /\ totsectors' \in Nat
      BY <1>4, ReadBegins
    <2>2. 0 < totsectors' <=> (f.offset \div SectorSize + 0) * SectorSize
                                    < f.offset + l'.count
      BY <1>4, ReadBegins
    <2>3. /\ f.offset \div SectorSize \in Nat /\ f.offset % SectorSize \in 0..(SectorSize - 1)
          /\ f.offset = (f.offset \div SectorSize) * SectorSize + (f.offset % SectorSize)
      BY ONLY <2>1, SectorWanted, 0 \in Nat
    <2>4. f.offset \div SectorSize + 0 = f.offset \div SectorSize
      BY ONLY <2>3
    <2>5. SectorAt' = f.offset \div SectorSize /\ OffsetAt' = f.offset % SectorSize
          /\ Len(dst') = 0
      BY ONLY <2>1, <2>4 DEF SectorAt, OffsetAt
    <2>6. l'.start + Len(dst') = SectorAt' * SectorSize + OffsetAt'
      <3>1. l'.start + Len(dst') = f.offset
        BY ONLY <2>1, <2>5
      <3>. QED BY ONLY <2>3, <2>5, <3>1
    <2>7. totsectors' = 0 => l'.count = 0
      <3> DEFINE b == (f.offset \div SectorSize) * SectorSize
      <3>1. b \in Nat
        BY ONLY <2>3, ReaderAssumption
      <3>2. b <= f.offset
        <4>1. f.offset = b + (f.offset % SectorSize) /\ f.offset % SectorSize \in Nat
          BY ONLY <2>3, ReaderAssumption
        <4> HIDE DEF b
        <4>. QED BY ONLY <3>1, <4>1
      <3>3. totsectors' = 0 => ~(b < f.offset + l'.count)
        BY ONLY <2>2, <2>4
      <3> HIDE DEF b
      <3>. QED BY ONLY <2>1, <3>1, <3>2, <3>3
    <2>8. dst' = SubSeq(Content', l'.start + 1, l'.start + Len(dst'))
      <3>1. Content' = Content /\ Content \in Seq(Byte)
        <4>1. Content \in Seq(Byte)
          BY <2>1, FileIs
        <4>. QED BY ONLY <2>1, <4>1 DEF Content, OnCard
      <3>2. SubSeq(Content, f.offset + 1, f.offset + 0) = <<>>
        BY ONLY <2>1, <3>1
      <3>. QED BY ONLY <2>1, <2>5, <3>1, <3>2
    <2>. QED BY ONLY <2>1, <2>5, <2>6, <2>7, <2>8 DEF HasRead
  <1>5. CASE UNCHANGED <<slot, dst, opened, at, l>>
    <2>1. HasRead
      BY DEF VolumeInv
    <2>. QED BY ONLY <1>5, <2>1 DEF HasRead, totsectors, SectorAt, OffsetAt, Content, OnCard
  <1>6. ~(FollowCluster \/ ReadFileSector \/ \E n \in 0..MaxCount : fatfs_fread(n))
        => at' # "file" \/ UNCHANGED <<slot, dst, opened, at, l>>
    BY DEF Next, Step, vars, BindSector0, BindBootSector, BootSector, SearchFat16,
         SearchFat32, SearchFat32Link, ScanSector, NextSector, ReadDone, NewCommand,
         fatfs_bind_device, fatfs_fopen, fatfs_fseek, Return
  <1>. QED BY <1>1, <1>2, <1>3, <1>4, <1>5, <1>6

LEMMA VolumeInvInitially == VolumesInSlot /\ Init => VolumeInv
  <1> SUFFICES ASSUME VolumesInSlot, Init, Sound
               PROVE  Cached /\ BoundTo /\ Opened /\ Searching /\ FollowsChain /\ HasRead
    BY DEF VolumeInv
  <1>1. slot \in Cards /\ FATSecNum = -1 /\ f = NoFile /\ at = "idle" /\ context = Unbound
        /\ opened = NoName
    BY DEF Init
  <1>2. DOMAIN Disk[slot] \subseteq Nat
    BY <1>1 DEF VolumesInSlot, SectorsTyped
  <1>3. Cached
    <2>1. -1 \notin Nat
      OBVIOUS
    <2>. QED BY <1>1, <1>2, <2>1 DEF Cached
  <1>. QED BY <1>1, <1>3 DEF BoundTo, Opened, Searching, FollowsChain, HasRead

LEMMA VolumeInvStep ==
    ASSUME VolumesInSlot, PointerInv, VolumeInv, [Next]_vars
    PROVE  VolumeInv'
  <1>1. slot' = slot
    BY SlotStays
  <1>2. CASE Sound
    BY <1>2, CachedStep, BoundToStep, OpenedStep, SearchingStep, FollowsChainStep, HasReadStep
    DEF VolumeInv
  <1>3. CASE ~Sound
    <2>1. ~Sound'
      BY <1>1, <1>3 DEF Sound
    <2>. QED BY <2>1 DEF VolumeInv
  <1>. QED BY <1>2, <1>3

\* On a sound card that holds a volume and stays in the slot: the sector of the table that is
\* kept is the card's, the search looks at the directory in order, and what a read has
\* stored is the file's (ClusterContentInFAT, SearchRootDirEntry, ReadSectorFollowCluster).
THEOREM VolumeInvCorrect ==
    ASSUME VolumesInSlot PROVE Spec => [](PointerInv /\ VolumeInv)
  <1>1. Init => PointerInv /\ VolumeInv
    BY PointerInvInitially, VolumeInvInitially
  <1>2. PointerInv /\ VolumeInv /\ [Next]_vars => PointerInv' /\ VolumeInv'
    BY PointerInvStep, VolumeInvStep DEF VolumesInSlot
  <1>. QED BY <1>1, <1>2, PTL DEF Spec


\* The first end of a search is one.
LEMMA FirstIsOne ==
    ASSUME NEW buff, SectorTyped(buff), NEW name,
           NEW d \in FirstEnds(buff, name), NEW e \in FirstEnds(buff, name)
    PROVE  d = e
  <1>1. d \in 1..Len(buff.dir) /\ e \in 1..Len(buff.dir) /\ d <= e /\ e <= d
    BY DEF FirstEnds, Ends
  <1>2. Len(buff.dir) \in Nat
    BY DEF SectorTyped
  <1>. QED BY ONLY <1>1, <1>2

\* On a sound card, if every file of a volume has an entry the search comes to, fopen gives
\* up on no file the directory holds (SearchRootDirEntry).
THEOREM OpenFindsFileCorrect ==
    ASSUME VolumesInSlot, \A c \in Cards \ Flaky : Findable(c)
    PROVE  Spec => OpenFindsFile
  <1> DEFINE Finds == Sound /\ at = "directory" /\ at' = "idle" /\ ret'.val = -1
                         => l.name \notin DOMAIN Files[slot]
  <1>1. PointerInv /\ VolumeInv /\ [Next]_vars => [Finds]_vars
    <2> SUFFICES ASSUME PointerInv, VolumeInv, Next, Sound, at = "directory", at' = "idle",
                        ret'.val = -1, l.name \in DOMAIN Files[slot]
                 PROVE  FALSE
      OBVIOUS
    <2>1. SearchFat16 \/ SearchFat32 \/ SearchFat32Link
      BY DEF Next, Step, BindSector0, BindBootSector, FollowCluster, ReadFileSector, ReadDone,
             NewCommand, fatfs_bind_device, fatfs_fopen, fatfs_fread, fatfs_fseek
    <2>2. context = Volume(slot) /\ Volume(slot) # Unbound
      BY DEF VolumeInv, BoundTo
    <2>3. DirRuns(slot) \in Nat /\ RunLength(slot) \in Int /\ DirLaidOut(slot)
      BY <2>2, DirectoryIs
    <2>4. l.i \in Nat /\ l.name \in Names
      BY DEF VolumeInv, Searching
    <2>5. Findable(slot)
      BY SlotLaidOut
    <2>6. PICK k0 \in 1..DirRuns(slot), i0 \in 0..(RunLength(slot) - 1) :
             /\ \E e \in FirstEnds(Disk[slot][DirSector(slot, k0, i0)], l.name) :
                   Disk[slot][DirSector(slot, k0, i0)].dir[e].kind = "file"
             /\ NoneBefore(slot, k0, i0, l.name)
      BY <2>2, <2>5 DEF Findable, NoneBefore
    <2>7. Ends(Disk[slot][DirSector(slot, k0, i0)], l.name) # {}
      BY <2>6 DEF FirstEnds
    <2>8. PICK k \in 1..DirRuns(slot) :
                 /\ NoneBefore(slot, k, l.i, l.name)
                 /\ \/ \E buff :
                          /\ l.i \in 0..(RunLength(slot) - 1)
                          /\ buff = Disk[slot][DirSector(slot, k, l.i)]
                          /\ ScanSector(buff, NextSector)
                    \/ k = DirRuns(slot) /\ l.i >= RunLength(slot)
                    \/ UNCHANGED at
      BY <2>1, SearchSteps
    <2>9. ~(k0 < k \/ (k0 = k /\ i0 < l.i))
      <3>1. ASSUME k0 \in 1..k, k0 < k \/ i0 < l.i PROVE FALSE
        BY <2>7, <2>8, <3>1 DEF NoneBefore
      <3>2. k0 < k \/ k0 = k => k0 \in 1..k
        BY <2>3
      <3>. QED BY <3>1, <3>2
    <2>10. ASSUME NEW buff, l.i \in 0..(RunLength(slot) - 1),
                  buff = Disk[slot][DirSector(slot, k, l.i)], ScanSector(buff, NextSector)
           PROVE  FALSE
      <3>1. PICK e \in FirstEnds(buff, l.name) : buff.dir[e].kind = "zero"
        BY <2>10 DEF ScanSector, NextSector, Return
      <3>2. Ends(buff, l.name) # {}
        BY <3>1 DEF FirstEnds
      <3>3. ~(k < k0 \/ (k = k0 /\ l.i < i0))
        <4>1. ASSUME k \in 1..k0, k < k0 \/ l.i < i0 PROVE FALSE
          BY <2>6, <2>10, <3>2, <4>1 DEF NoneBefore
        <4>2. k < k0 \/ k = k0 => k \in 1..k0
          BY <2>3
        <4>. QED BY <4>1, <4>2
      <3>4. k = k0 /\ l.i = i0
        BY <2>3, <2>4, <2>9, <3>3
      <3>5. SectorTyped(buff)
        <4>1. DirSector(slot, k, l.i) \in DOMAIN Disk[slot]
          BY <2>3, <2>10 DEF DirLaidOut
        <4>. QED BY <2>10, <4>1, SlotLaidOut DEF VolumesInSlot, SectorsTyped
      <3>. QED BY <2>6, <2>10, <3>1, <3>4, <3>5, FirstIsOne
    <2>11. CASE k = DirRuns(slot) /\ l.i >= RunLength(slot)
      BY <2>3, <2>4, <2>9, <2>11
    <2>. QED BY <2>8, <2>10, <2>11
  <1>. QED BY <1>1, VolumeInvCorrect, PTL DEF Spec, OpenFindsFile

\* With the card left in the slot, what a read has stored is the bytes of the file that was
\* opened ("reads data from a file", fatfs_fread): fat_swap shows that it takes an exchange.
THEOREM BytesAreTheFilesCorrect ==
    ASSUME VolumesInSlot PROVE Spec => [](Sound => BytesAreTheFiles)
  <1>1. VolumeInv => (Sound => BytesAreTheFiles)
    BY DEF VolumeInv, HasRead, BytesAreTheFiles
  <1>. QED BY <1>1, VolumeInvCorrect, PTL

-----------------------------------------------------------------------------
\* The files as FileReader has them.

Contents == {<<>>} \cup UNION {{Files[c][n] : n \in DOMAIN Files[c]} : c \in Cards}
content == IF Sound THEN Content ELSE <<>>
pos == IF Sound /\ at = "file" THEN l.start ELSE IF Sound THEN f.offset ELSE -1
wanted == IF Sound /\ at = "file" THEN l.wanted ELSE -1
got == IF ~Sound \/ at = "file" THEN <<>> ELSE dst
shown == <<content, pos, wanted, got>>

\* A call that is not about the open file shows nothing of it.
LEMMA ShowsNothing ==
    ASSUME UNCHANGED <<slot, f, dst, opened>>, at # "file", at' # "file"
    PROVE  UNCHANGED shown
  BY DEF shown, content, pos, wanted, got, Sound, Content, OnCard

LEMMA ShownInitially ==
    ASSUME VolumesInSlot, Init
    PROVE  Reader!Init
  <1>1. slot \in Cards /\ f = NoFile /\ at = "idle" /\ dst = <<>> /\ opened = NoName
    BY DEF Init
  <1>2. Sound => Content = <<>>
    BY <1>1 DEF Sound, VolumesInSlot, LaidOut, Content, OnCard
  <1>. QED BY <1>1, <1>2 DEF Reader!Init, Reader!Closed, NoFile

\* Each step of the reader is one of a file's, or shows nothing.
LEMMA ShownStep ==
    ASSUME VolumesInSlot, PointerInv, VolumeInv, VolumeInv', [Next]_vars
    PROVE  [Reader!Next]_shown
  <1>1. slot' = slot /\ Sound' = Sound
    BY SlotStays DEF Sound
  <1>2. CASE ~Sound
    BY <1>1, <1>2 DEF shown, content, pos, wanted, got
  <1> SUFFICES ASSUME Sound PROVE [Reader!Next]_shown
    BY <1>2
  <1>3. UNCHANGED opened => Content' = Content
    BY <1>1 DEF Content, OnCard
  <1>4. CASE SearchFat16 \/ SearchFat32 \/ SearchFat32Link
    <2>1. at = "directory" /\ UNCHANGED <<slot, context, dst>>
      BY <1>4, SearchSteps
    <2>2. at' # "file"
      BY <1>4 DEF SearchFat16, SearchFat32, SearchFat32Link, ScanSector, NextSector, Return
    <2>3. CASE UNCHANGED <<f, opened>>
      BY <2>1, <2>2, <2>3, ShowsNothing
    <2>4. ASSUME NEW buff, NEW e \in FirstEnds(buff, l.name), buff.dir[e].kind = "file",
                 f' = [filesize |-> buff.dir[e].file_size, offset |-> 0,
                       startcluster |-> buff.dir[e].cluster],
                 opened' = l.name,
                 Describes(buff.dir[e], slot, l.name)
          PROVE  Reader!Next
      <3>1. Content' = Files[slot][l.name] /\ l.name \in DOMAIN Files[slot]
        BY <1>1, <2>4 DEF Content, OnCard, Describes
      <3>2. slot \in Cards
        BY SlotLaidOut
      <3>3. Content' \in Contents
        BY <3>1, <3>2 DEF Contents
      <3>4. f'.offset = 0
        BY ONLY <2>4
      <3>5. wanted = -1 /\ wanted' = -1 /\ pos' = 0 /\ got' = got /\ content' = Content'
        BY ONLY <1>1, <2>1, <2>2, <3>4, Sound DEF wanted, pos, got, content
      <3>6. Reader!Open
        BY ONLY <3>3, <3>5
        DEF Reader!Open, Reader!Closed, Contents, content, pos, wanted, got
      <3>. QED BY ONLY <3>6 DEF Reader!Next
    <2>. QED BY <1>4, <2>3, <2>4, SearchSteps DEF ScanSector
  <1>5. CASE FollowCluster
    <2>1. /\ at = "file" /\ UNCHANGED <<slot, f, dst, opened, at>>
          /\ l'.wanted = l.wanted /\ l'.start = l.start
      BY <1>5, FollowsLink
    <2>. QED BY ONLY <1>1, <1>3, <2>1, Sound DEF shown, content, pos, wanted, got
  <1>6. CASE ReadFileSector
    <2>1. at = "file" /\ UNCHANGED <<slot, opened, at>>
      BY <1>6, ReadsOnePiece
    <2>2. l' = [wanted |-> l.wanted, count |-> l.count, start |-> l.start,
                i |-> l.i + 1, cluster |-> f.startcluster,
                hops |-> (SectorAt + 1) \div context.sectors_per_cluster]
      BY <1>6, ReadsOnePiece
    <2>3. l'.wanted = l.wanted /\ l'.start = l.start
      BY ONLY <2>2
    <2>. QED BY ONLY <1>1, <1>3, <2>1, <2>3, Sound DEF shown, content, pos, wanted, got
  <1>7. CASE ReadDone
    <2>1. /\ at = "file" /\ at' = "idle" /\ UNCHANGED <<f, dst, opened>> /\ l.i = totsectors
      BY <1>7 DEF ReadDone, Return
    <2>2. /\ Len(dst) = l.count /\ dst = SubSeq(Content, l.start + 1, l.start + Len(dst))
      BY <2>1 DEF VolumeInv, HasRead
    <2>3. /\ f # NoFile /\ f.offset = l.start + Len(dst) /\ l.wanted \in Nat
          /\ l.count = Min2(l.wanted, f.filesize - l.start)
      BY <2>1 DEF PointerInv, ReadCounts
    <2>4. f.filesize = Len(Content)
      BY <2>3, FileIs
    <2>5. wanted = l.wanted /\ pos = l.start /\ content = Content /\ content' = Content
          /\ wanted' = -1 /\ pos' = f.offset /\ got' = dst
      BY ONLY <1>1, <1>3, <2>1, Sound DEF shown, content, pos, wanted, got
    <2>6. l.wanted # -1
      BY ONLY <2>3
    <2>7. l.count = IF wanted < Len(content) - pos THEN wanted ELSE Len(content) - pos
      BY ONLY <2>3, <2>4, <2>5 DEF Min2
    <2>8. Reader!Available = l.count
      BY ONLY <2>7 DEF Reader!Available, content, pos, wanted
    <2>9. got' = SubSeq(content, pos + 1, pos + l.count) /\ pos' = pos + l.count
          /\ wanted # -1 /\ wanted' = -1 /\ content' = content
      BY ONLY <2>2, <2>3, <2>5, <2>6
    <2>10. Reader!Answer
      BY ONLY <2>8, <2>9 DEF Reader!Answer, Reader!Closed, content, pos, wanted, got
    <2>. QED BY ONLY <2>10 DEF Reader!Next
  <1>8. ASSUME NEW n \in 0..MaxCount, fatfs_fread(n)
        PROVE  Reader!Next
    <2>1. /\ f # NoFile /\ UNCHANGED <<slot, f, opened>> /\ at = "idle" /\ at' = "file"
          /\ l'.wanted = n /\ l'.start = f.offset /\ f.offset \in Nat
      BY <1>8, ReadBegins
    <2>2. pos = f.offset /\ pos' = f.offset /\ wanted = -1 /\ wanted' = n /\ got' = <<>>
          /\ content' = content
      BY ONLY <1>1, <1>3, <2>1, Sound DEF content, pos, wanted, got
    <2>3. f.offset # -1 /\ n \in Nat
      BY ONLY <2>1, n \in 0..MaxCount, ReaderAssumption
    <2>4. Reader!Ask
      BY ONLY <2>2, <2>3 DEF Reader!Ask, Reader!Closed, content, pos, wanted, got
    <2>. QED BY ONLY <2>4 DEF Reader!Next
  <1>9. ASSUME NEW d \in -MaxCount..MaxCount, NEW origin \in {0, f.offset, f.filesize},
               fatfs_fseek(origin, d)
        PROVE  Reader!Next
    <2>1. f # NoFile /\ UNCHANGED <<slot, at, dst, opened>> /\ at = "idle"
      BY <1>9 DEF fatfs_fseek
    <2>2. f' = [f EXCEPT !.offset = IF origin + d < 0 THEN 0 ELSE Min2(origin + d, f.filesize)]
      BY <1>9 DEF fatfs_fseek
    <2>3. /\ f = [filesize |-> f.filesize, offset |-> f.offset, startcluster |-> f.startcluster]
          /\ f.filesize \in Nat /\ f.offset \in 0..f.filesize
      BY <2>1 DEF PointerInv, ReaderTyped
    <2>4. f'.offset = IF origin + d < 0 THEN 0 ELSE Min2(origin + d, f.filesize)
      BY ONLY <2>2, <2>3
    <2>5. f'.offset \in 0..f.filesize
      <3>1. origin \in Int /\ d \in Int /\ f.filesize \in Nat
        BY ONLY <2>3, ReaderAssumption, d \in -MaxCount..MaxCount,
                origin \in {0, f.offset, f.filesize}
      <3>. QED BY ONLY <2>4, <3>1 DEF Min2
    <2>6. f.filesize = Len(Content)
      BY <2>1, FileIs
    <2>7. /\ pos = f.offset /\ pos' = f'.offset /\ wanted = -1 /\ wanted' = wanted
          /\ got' = got /\ content' = content /\ content = Content
      BY ONLY <1>1, <1>3, <2>1, Sound DEF content, pos, wanted, got
    <2>8. pos # -1 /\ pos' \in 0..Len(content)
      BY ONLY <2>3, <2>5, <2>6, <2>7
    <2>9. Reader!Seek
      BY ONLY <2>7, <2>8 DEF Reader!Seek, Reader!Closed, content, pos, wanted, got
    <2>. QED BY ONLY <2>9 DEF Reader!Next
  <1>10. CASE NewCommand
    <2>1. at = "idle" /\ at' = "idle" /\ f' = NoFile /\ opened' = NoName /\ dst' = <<>>
      BY <1>10 DEF NewCommand
    <2>2. Content' = <<>>
      BY <1>1, <2>1, SlotLaidOut DEF LaidOut, Content, OnCard
    <2>3. f'.offset = -1
      BY ONLY <2>1 DEF NoFile
    <2>4. wanted = -1 /\ wanted' = -1 /\ content' = <<>> /\ pos' = -1 /\ got' = <<>>
      BY ONLY <1>1, <2>1, <2>2, <2>3, Sound DEF content, pos, wanted, got
    <2>5. Reader!Close
      BY ONLY <2>4 DEF Reader!Close, Reader!Closed, content, pos, wanted, got
    <2>. QED BY ONLY <2>5 DEF Reader!Next
  <1>11. CASE BindSector0 \/ BindBootSector \/ fatfs_bind_device \/ \E n \in Names : fatfs_fopen(n)
    <2>1. UNCHANGED <<slot, f, dst, opened>> /\ at # "file" /\ at' # "file"
      BY <1>11 DEF BindSector0, BindBootSector, BootSector, fatfs_bind_device, fatfs_fopen, Return
    <2>. QED BY <2>1, ShowsNothing
  <1>12. CASE UNCHANGED vars
    BY <1>12 DEF vars, shown, content, pos, wanted, got, Sound, Content, OnCard
  <1>. QED BY <1>4, <1>5, <1>6, <1>7, <1>8, <1>9, <1>10, <1>11, <1>12 DEF Next, Step

\* On a sound card that stays in the slot, whatever the size of sectors, clusters and tables,
\* the calls are those of a file (fatfs_fopen, fatfs_fseek, fatfs_fread).
THEOREM Refinement == ASSUME VolumesInSlot PROVE Spec => ReadsLikeAFile
  <1>1. Init => Reader!Init
    BY ShownInitially
  <1>2. /\ PointerInv /\ VolumeInv /\ PointerInv' /\ VolumeInv' /\ [Next]_vars
        => [Reader!Next]_shown
    BY ShownStep
  <1>. QED BY <1>1, <1>2, VolumeInvCorrect, PTL
           DEF Spec, ReadsLikeAFile, Reader!Spec, shown, content, pos, wanted, got
=============================================================================
