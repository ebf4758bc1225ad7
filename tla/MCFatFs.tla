------------------------------ MODULE MCFatFs ------------------------------
(***************************************************************************)
(* Small cards.  A volume says how it is laid out and which files it holds *)
(* in which clusters; MkDisk formats it.  Sectors hold two bytes, sectors  *)
(* of a table four FAT16 entries or two FAT32 ones.  (@@ <<>> and \o <<>>  *)
(* make TLC tabulate a function once.)                                     *)
(***************************************************************************)
EXTENDS FatVolume, TLC

SecSize == 2
PerSector == 4
End == 20

Bytes(first, n) == [k \in 1..n |-> first + k] \o <<>>
Dirent(kind, attr, name, cluster, size) ==
    [kind |-> kind, attr |-> attr, name |-> name, cluster |-> cluster, file_size |-> size]
File(name, cluster, size) == Dirent("file", "none", name, cluster, size)
Deleted == Dirent("deleted", "none", "a", 2, 1)
Label == Dirent("other", "volume", "card", 0, 0)
Zero == Dirent("zero", "none", "", 0, 0)

\* A chain of clusters as links: each to the next, the last to the end.
Links(chain) ==
    [c \in {chain[k] : k \in 1..Len(chain)} |->
        LET k == CHOOSE k \in 1..Len(chain) : chain[k] = c
        IN  IF k = Len(chain) THEN End ELSE chain[k + 1]]

\* v.chains: the chains of v, v.data[c][j]: the bytes of sector j of cluster c,
\* v.dir[j]: sector j of the directory.
MkDisk(v) ==
    LET lba  == IF v.mbr THEN 1 ELSE 0
        per  == IF v.fat32 THEN PerSector \div 2 ELSE PerSector
        fat  == lba + 1
        root == fat + v.num_FATs * v.spf
        data == root + v.rootdir_sectors
        last == data + v.clusters * v.spc - 1
        link(c) == IF c \in {0, 1} THEN End
                   ELSE LET on == {ch \in v.chains : \E k \in 1..Len(ch) : ch[k] = c}
                        IN  IF on = {} THEN 0 ELSE Links(CHOOSE ch \in on : TRUE)[c]
        bpb  == [bytes_per_sector |-> SecSize, sectors_per_cluster |-> v.spc,
                 reserved_sectors |-> 1, rootdir_sectors |-> v.rootdir_sectors,
                 num_FATs |-> v.num_FATs, sectors_per_FAT |-> v.spf,
                 total_sectors |-> last + 1 - lba, rootdir_cluster |-> v.rootdir_cluster]
        cluster(s) == 2 + ((s - data) \div v.spc)
        dirsec == IF v.fat32
                  THEN [s \in {data + v.dirclusters[k] - 2 : k \in 1..Len(v.dirclusters)} |->
                            v.dir[CHOOSE k \in 1..Len(v.dirclusters) : data + v.dirclusters[k] - 2 = s]]
                  ELSE [s \in root..(data - 1) |-> v.dir[s - root + 1]]
    IN  [s \in 0..last |->
          IF v.mbr /\ s = 0 THEN [Blank EXCEPT !.sig = "mbr", !.lba = lba]
          ELSE IF s = lba THEN [Blank EXCEPT !.sig = "boot", !.bpb = bpb]
          ELSE IF s < root
               THEN [Blank EXCEPT !.fat =
                        [k \in 0..(per - 1) |-> link(((s - fat) % v.spf) * per + k)] @@ <<>>]
          ELSE IF s \in DOMAIN dirsec THEN [Blank EXCEPT !.dir = dirsec[s]]
          ELSE IF cluster(s) \in DOMAIN v.data
               THEN [Blank EXCEPT !.bytes = v.data[cluster(s)][(s - data) % v.spc]]
          ELSE Blank] @@ <<>>

\* The sectors of a file of clusters chain.
Lay(chain, bytes, spc) ==
    [c \in {chain[k] : k \in 1..Len(chain)} |->
        LET k == CHOOSE k \in 1..Len(chain) : chain[k] = c
        IN  [j \in 0..(spc - 1) |->
                [b \in 1..SecSize |->
                    LET o == ((k - 1) * spc + j) * SecSize + b
                    IN  IF o <= Len(bytes) THEN bytes[o] ELSE 0] \o <<>>] @@ <<>>] @@ <<>>

ABytes == Bytes(100, 9)
BBytes == Bytes(200, 3)

\* A partitioned FAT16 card, clusters of two sectors.
Fat16(dir, chainA) ==
    [mbr |-> TRUE, fat32 |-> FALSE, spc |-> 2, num_FATs |-> 2, spf |-> 2,
     rootdir_sectors |-> 3, rootdir_cluster |-> 0, dirclusters |-> <<>>, clusters |-> 5,
     dir |-> dir, chains |-> {chainA, <<4>>},
     data |-> [c \in {2, 3, 4, 6} |-> IF c = 4 THEN Lay(<<4>>, BBytes, 2)[4]
                              ELSE Lay(chainA, ABytes, 2)[c]]]

Dir16 == << <<Label, Deleted, File("b", 4, 3)>>, <<File("a", 2, 9), Zero>>, <<Zero, Zero>> >>
DirFull == << <<Label, Deleted, File("b", 4, 3)>>, <<Label, Label>>, <<File("a", 2, 9), Zero>> >>

\* A bare FAT32 card, clusters of one sector, a directory of two clusters.
Fat32 ==
    [mbr |-> FALSE, fat32 |-> TRUE, spc |-> 1, num_FATs |-> 1, spf |-> 6,
     rootdir_sectors |-> 0, rootdir_cluster |-> 3, dirclusters |-> <<3, 9>>, clusters |-> 9,
     dir |-> << <<Label, Deleted, File("b", 4, 3)>>, <<File("a", 2, 9)>> >>,
     chains |-> {<<3, 9>>, <<2, 8, 5, 7, 6>>, <<4, 10>>},
     data |-> [c \in {2, 8, 5, 7, 6} |-> Lay(<<2, 8, 5, 7, 6>>, ABytes, 1)[c]]
              @@ [c \in {4, 10} |-> Lay(<<4, 10>>, BBytes, 1)[c]]]

\* The same with a shorter file, for the card that fails.
Fat32Short ==
    [Fat32 EXCEPT !.dir = << <<Label, Deleted, File("b", 4, 3)>>, <<File("a", 2, 5)>> >>,
                  !.chains = {<<3, 9>>, <<2, 8, 5>>, <<4, 10>>},
                  !.data = [c \in {2, 8, 5} |-> Lay(<<2, 8, 5>>, ABytes, 1)[c]]
                           @@ [c \in {4, 10} |-> Lay(<<4, 10>>, BBytes, 1)[c]]]

AB(a, b) == "a" :> a @@ "b" :> b
Holds == [c \in {"fat16", "fat32", "flaky", "full", "one", "other"} |->
            AB(IF c = "flaky" THEN Bytes(100, 5) ELSE ABytes, BBytes)]
MCNames == {"a", "b", "c"}

\* The configurations substitute the second name of each: TLC evaluates the
\* definition a constant is replaced by anew each time, but the one behind it once.
TheThree == "fat16" :> MkDisk(Fat16(Dir16, <<2, 6, 3>>)) @@ "fat32" :> MkDisk(Fat32)
            @@ "flaky" :> MkDisk(Fat32Short)
TheFull == "full" :> MkDisk(Fat16(DirFull, <<2, 6, 3>>))
TheSwapped == "one" :> MkDisk(Fat16(Dir16, <<2, 6, 3>>))
              @@ "other" :> MkDisk(Fat16(Dir16, <<2, 3, 6>>))
CardsThree == TheThree
TheFlaky == {"flaky"}
NoFlaky == {}
CardsFull == TheFull
CardsSwapped == TheSwapped

TheChains == "fat32" :> AB(<<2, 8, 5, 7, 6>>, <<4, 10>>) @@ "flaky" :> AB(<<2, 8, 5>>, <<4, 10>>)
             @@ [c \in {"fat16", "full", "one"} |-> AB(<<2, 6, 3>>, <<4>>)]
             @@ "other" :> AB(<<2, 3, 6>>, <<4>>)
TheDirChains == [c \in DOMAIN Holds |-> <<3, 9>>]

\* The cards are volumes as the theorems about the reader want them, but for
\* the one with a file in the last sector of its directory.
ASSUME CardsAreVolumes ==
    /\ SectorsTyped
    /\ \A c \in Cards : LaidOut(c)
    /\ \A c \in Cards : Findable(c) <=> c # "full"
=============================================================================
