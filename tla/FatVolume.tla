----------------------------- MODULE FatVolume -----------------------------
(***************************************************************************)
(* What a card holds when it holds a FAT volume: the clusters its files    *)
(* and its root directory take, linked in the table, and in their sectors  *)
(* the bytes and the entries.  The theorems about FatFs take this for      *)
(* granted of a card; TLC checks it of the small cards of MCFatFs.         *)
(***************************************************************************)
EXTENDS FatFs

CONSTANTS
    Chain,      \* Chain[c][n]: the clusters of file n of card c, in order
    DirChain    \* DirChain[c]: those of the root directory, on FAT32

Byte == 0..255

\* The types of what is in a sector.
SectorTyped(buff) ==
    /\ buff.bytes \in [1..SectorSize -> Byte]
    /\ Len(buff.dir) \in Nat
    /\ \A k \in 1..Len(buff.dir) : buff.dir[k].kind = "file" => buff.dir[k].file_size \in Nat

SectorsTyped ==
    \A c \in Cards : DOMAIN Disk[c] \subseteq Nat
                    /\ \A s \in DOMAIN Disk[c] : SectorTyped(Disk[c][s])

\* Where the volume of card c begins, and the context it is bound with.
VolumeStart(c) == IF Disk[c][0].sig = "mbr" THEN Disk[c][0].lba ELSE 0
Volume(c) == Parse(VolumeStart(c), Disk[c][VolumeStart(c)].bpb)

\* What the table of card c says of cluster n.
InTable(c, n) == TableSector(Volume(c), n) \in DOMAIN Disk[c]
Link(c, n) == Entry(Volume(c), n, Disk[c][TableSector(Volume(c), n)])

\* The clusters of chain follow each other in the table.
Linked(c, chain) ==
    /\ chain \in Seq(Nat)
    /\ \A k \in 1..(Len(chain) - 1) :
          InTable(c, chain[k]) /\ Link(c, chain[k]) = chain[k + 1] /\ chain[k + 1] < EndMark

\* Sector j of a file that takes the clusters of chain.
FileSector(c, chain, j) ==
    FirstSectorofCluster(Volume(c), chain[j \div Volume(c).sectors_per_cluster + 1])
        + (j % Volume(c).sectors_per_cluster)

\* Every sector of file n is in its clusters, and holds its bytes.
FileLaidOut(c, n) ==
    /\ Files[c][n] \in Seq(Byte)
    /\ Linked(c, Chain[c][n])
    /\ \A j \in 0..Len(Files[c][n]) : j * SectorSize < Len(Files[c][n]) =>
          /\ j \div Volume(c).sectors_per_cluster < Len(Chain[c][n])
          /\ FileSector(c, Chain[c][n], j) \in DOMAIN Disk[c]
          /\ \A b \in 1..SectorSize : j * SectorSize + b <= Len(Files[c][n]) =>
                Disk[c][FileSector(c, Chain[c][n], j)].bytes[b]
                    = Files[c][n][j * SectorSize + b]

\* The root directory is a number of runs of sectors: the one between the table
\* and the data on FAT16, the last sector of which nobody looks at, a run for
\* each of its clusters on FAT32.
DirRuns(c) == IF Volume(c).fattype = "TYPE_FAT16" THEN 1 ELSE Len(DirChain[c])
RunLength(c) == IF Volume(c).fattype = "TYPE_FAT16" THEN Volume(c).rootdir_sectors - 1
                ELSE Volume(c).sectors_per_cluster
DirSector(c, k, i) ==
    (IF Volume(c).fattype = "TYPE_FAT16" THEN Volume(c).first_rootdir_sectnum
     ELSE FirstSectorofCluster(Volume(c), DirChain[c][k])) + i

\* The entry that opens file n has its size and where it begins.
Describes(e, c, n) ==
    /\ n \in DOMAIN Files[c]
    /\ e.file_size = Len(Files[c][n])
    /\ e.file_size > 0 => Chain[c][n] # <<>> /\ e.cluster = Chain[c][n][1]

DirLaidOut(c) ==
    /\ Volume(c).fattype = "TYPE_FAT16" => Volume(c).rootdir_sectors \in Nat
    /\ Volume(c).fattype = "TYPE_FAT32" =>
          LET chain == DirChain[c]
          IN  /\ Linked(c, chain)
              /\ chain # <<>> /\ chain[1] = Volume(c).rootdir_cluster
              /\ InTable(c, chain[Len(chain)]) /\ Link(c, chain[Len(chain)]) >= EndMark
    /\ \A k \in 1..DirRuns(c) : \A i \in 0..(RunLength(c) - 1) :
          /\ DirSector(c, k, i) \in DOMAIN Disk[c]
          /\ \A n \in Names :
                LET buff == Disk[c][DirSector(c, k, i)]
                IN  \A e \in FirstEnds(buff, n) :
                        buff.dir[e].kind = "file" => Describes(buff.dir[e], c, n)

LaidOut(c) ==
    /\ NoName \notin DOMAIN Files[c]
    /\ Volume(c) # Unbound =>
          /\ Volume(c).sectors_per_cluster \in Nat \ {0}
          /\ \A n \in DOMAIN Files[c] : FileLaidOut(c, n)
          /\ DirLaidOut(c)

\* Each file has its entry in a sector of the directory that is looked at, and
\* nothing before it ends the search.
Findable(c) ==
    Volume(c) # Unbound =>
        \A n \in DOMAIN Files[c] :
            \E k \in 1..DirRuns(c), i \in 0..(RunLength(c) - 1) :
                /\ LET buff == Disk[c][DirSector(c, k, i)]
                   IN  \E e \in FirstEnds(buff, n) : buff.dir[e].kind = "file"
                /\ \A k2 \in 1..k : \A i2 \in 0..(RunLength(c) - 1) :
                      k2 < k \/ i2 < i => Ends(Disk[c][DirSector(c, k2, i2)], n) = {}
=============================================================================
