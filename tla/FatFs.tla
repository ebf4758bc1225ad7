------------------------------- MODULE FatFs -------------------------------
(***************************************************************************)
(* The FAT reader, src/src/fs/fat/fat.c: binding a card, opening a file of *)
(* the root directory, seeking and reading, with the one-sector cache of   *)
(* the allocation table.  One action per sector read.                      *)
(*                                                                         *)
(* A sector is a record of what the code takes it for: the signature it    *)
(* finds, a partition's start, a parameter block, entries of a table, of a *)
(* directory, bytes.  The caller is any client that binds, opens, seeks    *)
(* and reads; like do_load_file() it binds and opens anew in each command, *)
(* and between two commands the card in the slot may have been changed.    *)
(***************************************************************************)
EXTENDS Integers, Sequences

CONSTANTS
    Disk,           \* Disk[c][s]: sector s of card c
    Files,          \* Files[c][n]: the bytes of the file n that card c holds
    Names,          \* the names asked for
    SectorSize,     \* bytes in a sector, 512 in the code
    FatPerSector,   \* FAT16 entries in a sector, 256 in the code
    Fat12Limit, Fat16Limit,     \* clusters, 4095 and 65525 in the code
    EndMark,        \* the least end of a cluster chain
    MaxCount,       \* bytes asked for at most, and seeked over at most
    Flaky,          \* the cards of which reads may fail
    Swaps           \* whether cards are exchanged between commands

Cards == DOMAIN Disk

ASSUME ReaderAssumption ==
    /\ SectorSize \in Nat \ {0} /\ FatPerSector \in Nat \ {0, 1}
    /\ EndMark \in Nat /\ MaxCount \in Nat /\ Flaky \subseteq Cards /\ Swaps \in BOOLEAN
    /\ Fat12Limit \in Nat /\ Fat16Limit \in Nat

VARIABLES
    slot,               \* the card in the slot
    context,            \* FAT_CONTEXT, or Unbound
    FATSecNum, SecBuff, \* the static cache of ClusterContentInFAT()
    f,                  \* FAT_FILE, or NoFile
    at,                 \* the read the call in progress waits for
    l,                  \* its local variables
    dst,                \* the bytes fatfs_fread() stored
    ret,                \* what the last call returned
    opened              \* history variable: the name opened

cache == <<FATSecNum, SecBuff>>
vars == <<slot, context, cache, f, at, l, dst, ret, opened>>

Unbound == [fattype |-> "TYPE_UNKNOWN"]
NoFile == [filesize |-> 0, offset |-> -1, startcluster |-> 0]
NoLocals == [none |-> TRUE]
NoName == "no file"

Min2(a, b) == IF a < b THEN a ELSE b

Blank == [sig |-> "none", lba |-> 0, bpb |-> <<>>, fat |-> <<>>, dir |-> <<>>,
          bytes |-> [k \in 1..SectorSize |-> 0]]

Init ==
    /\ slot \in Cards
    /\ context = Unbound
    /\ FATSecNum = -1 /\ SecBuff = Blank
    /\ f = NoFile
    /\ at = "idle" /\ l = NoLocals
    /\ dst = <<>>
    /\ ret = [call |-> "none", val |-> 0]
    /\ opened = NoName

Return(call, v) ==
    /\ at' = "idle" /\ l' = NoLocals
    /\ ret' = [call |-> call, val |-> v]

-----------------------------------------------------------------------------
\* Sectors and clusters.

Sound == slot \notin Flaky

\* What reading sector s may do to a buffer that held one of olds: a read that
\* fails leaves the buffer alone or fills it all the same.
ReadSector(s, olds) ==
    LET there == s \in DOMAIN Disk[slot]
    IN  (IF there THEN {[ok |-> TRUE, buff |-> Disk[slot][s]]} ELSE {})
        \cup (IF there /\ Sound THEN {}
              ELSE [ok : {FALSE}, buff : olds \cup {Disk[slot][t] : t \in {s} \cap DOMAIN Disk[slot]}])

\* What an uninitialised buffer on the stack may hold.
Junk == {Blank} \cup {x \in UNION {{Disk[c][s] : s \in DOMAIN Disk[c]} : c \in Cards} : x.dir # <<>>}

FirstSectorofCluster(ctx, clusterN) ==
    (clusterN - 2) * ctx.sectors_per_cluster + ctx.first_data_sectnum

EntriesPerSector(ctx) ==
    IF ctx.fattype = "TYPE_FAT16" THEN FatPerSector ELSE FatPerSector \div 2

\* The sector of the table that has the entry of clusterN, and that entry; a
\* sector that is no part of a table reads as zeros.
TableSector(ctx, clusterN) ==
    ctx.part_lbabegin + ctx.reserved_sectors + (clusterN \div EntriesPerSector(ctx))

Entry(ctx, clusterN, buff) ==
    LET k == clusterN % EntriesPerSector(ctx)
    IN  IF k \in DOMAIN buff.fat THEN buff.fat[k] ELSE 0

\* Mutant: the cache is filled once and trusted ever after.
ClusterContentFirst(clusterN, content) ==
    LET sec == TableSector(context, clusterN)
    IN  /\ \/ FATSecNum # -1 /\ UNCHANGED cache
           \/ /\ FATSecNum = -1
              /\ FATSecNum' = sec
              /\ \E r \in ReadSector(sec, {SecBuff}) : SecBuff' = r.buff
        /\ content = Entry(context, clusterN, SecBuff')

\* The entry of the table, through the cache.  Whether the read succeeded is
\* not looked at.
ClusterContentInFAT(clusterN, content) ==
    LET sec == TableSector(context, clusterN)
    IN  /\ \/ sec = FATSecNum /\ UNCHANGED SecBuff
           \/ /\ sec # FATSecNum
              /\ \E r \in ReadSector(sec, {SecBuff}) : SecBuff' = r.buff
        /\ FATSecNum' = sec
        /\ content = Entry(context, clusterN, SecBuff')

IsClusterLinkEof(content) == content >= EndMark

-----------------------------------------------------------------------------
\* fatfs_bind_device()

fatfs_bind_device ==
    /\ at = "idle" /\ context = Unbound
    /\ at' = "sector 0"
    /\ UNCHANGED <<slot, context, cache, f, l, dst, ret, opened>>

Parse(lba, b) ==
    LET root     == lba + b.reserved_sectors + b.num_FATs * b.sectors_per_FAT
        data     == root + b.rootdir_sectors
        clusters == (b.total_sectors - (data - lba)) \div b.sectors_per_cluster
        ctx      == [fattype |-> IF clusters < Fat16Limit THEN "TYPE_FAT16" ELSE "TYPE_FAT32",
                     part_lbabegin |-> lba,
                     sectors_per_cluster |-> b.sectors_per_cluster,
                     reserved_sectors |-> b.reserved_sectors,
                     rootdir_sectors |-> b.rootdir_sectors,
                     rootdir_cluster |-> b.rootdir_cluster,
                     first_rootdir_sectnum |-> root,
                     first_data_sectnum |-> data]
    IN  IF clusters < Fat12Limit THEN Unbound ELSE ctx

\* The buffer holds what is taken for the boot sector.
BootSector(lba, buff) ==
    /\ context' = IF buff.sig = "boot" /\ buff.bpb.bytes_per_sector = SectorSize
                  THEN Parse(lba, buff.bpb) ELSE Unbound
    /\ Return("bind", IF context' = Unbound THEN -1 ELSE 0)

BindSector0 ==
    /\ at = "sector 0"
    /\ \E r \in ReadSector(0, {Blank}) :
          \/ /\ ~r.ok \/ r.buff.sig = "none"
             /\ Return("bind", -1)
             /\ UNCHANGED context
          \/ /\ r.ok /\ r.buff.sig = "boot"
             /\ BootSector(0, r.buff)
          \/ /\ r.ok /\ r.buff.sig = "mbr"
             /\ at' = "boot sector" /\ l' = [buffer |-> r.buff]
             /\ UNCHANGED <<context, ret>>
    /\ UNCHANGED <<slot, cache, f, dst, opened>>

\* Whether this read succeeds is not looked at.
BindBootSector ==
    /\ at = "boot sector"
    /\ \E r \in ReadSector(l.buffer.lba, {l.buffer}) : BootSector(l.buffer.lba, r.buff)
    /\ UNCHANGED <<slot, cache, f, dst, opened>>

-----------------------------------------------------------------------------
\* fatfs_fopen(): SearchRootDirEntry(), a sector at a time.

fatfs_fopen(name) ==
    /\ at = "idle" /\ context # Unbound
    /\ at' = "directory"
    /\ l' = [name |-> name, cluster |-> context.rootdir_cluster, i |-> 0]
    /\ UNCHANGED <<slot, context, cache, f, dst, ret, opened>>

\* The entries of a sector that end the search: the end of the directory, or
\* a file of that name without attributes but the archive one.
Ends(buff, name) ==
    {k \in 1..Len(buff.dir) :
        \/ buff.dir[k].kind = "zero"
        \/ buff.dir[k].kind = "file" /\ buff.dir[k].attr = "none" /\ buff.dir[k].name = name}

\* The first one of them, if there is one.
FirstEnds(buff, name) == {k \in Ends(buff, name) : \A j \in Ends(buff, name) : k <= j}

\* In the sector just read; whether it was read is not looked at.
ScanSector(buff, more) ==
    \/ /\ Ends(buff, l.name) = {}
       /\ more
       /\ UNCHANGED <<f, ret, opened>>
    \/ \E k \in FirstEnds(buff, l.name) :
          \/ /\ buff.dir[k].kind = "zero"
             /\ Return("open", -1)
             /\ UNCHANGED <<f, opened>>
          \/ /\ buff.dir[k].kind = "file"
             /\ f' = [filesize |-> buff.dir[k].file_size, offset |-> 0,
                      startcluster |-> buff.dir[k].cluster]
             /\ opened' = l.name
             /\ Return("open", 0)

NextSector == l' = [l EXCEPT !.i = @ + 1] /\ UNCHANGED at

\* l.i counts the sectors of the directory.  The last one is not looked at.
SearchFat16 ==
    /\ at = "directory" /\ context.fattype = "TYPE_FAT16"
    /\ \/ /\ l.i < context.rootdir_sectors - 1
          /\ \E r \in ReadSector(context.first_rootdir_sectnum + l.i, Junk) :
                ScanSector(r.buff, NextSector)
       \/ /\ l.i >= context.rootdir_sectors - 1
          /\ Return("open", -1)
          /\ UNCHANGED <<f, opened>>
    /\ UNCHANGED <<slot, context, cache, dst>>

\* l.i counts the sectors of the directory's cluster.
SearchFat32 ==
    /\ at = "directory" /\ context.fattype = "TYPE_FAT32"
    /\ l.i < context.sectors_per_cluster
    /\ \E r \in ReadSector(FirstSectorofCluster(context, l.cluster) + l.i, Junk) :
          ScanSector(r.buff, NextSector)
    /\ UNCHANGED <<slot, context, cache, dst>>

\* Mutant: the directory ends with its first cluster.
SearchFat32Once ==
    /\ at = "directory" /\ context.fattype = "TYPE_FAT32"
    /\ l.i = context.sectors_per_cluster
    /\ Return("open", -1)
    /\ UNCHANGED <<slot, context, cache, f, dst, opened>>

\* Mutant: the next cluster is looked up and not gone to.
SearchFat32Stuck ==
    /\ at = "directory" /\ context.fattype = "TYPE_FAT32"
    /\ l.i = context.sectors_per_cluster
    /\ \E content \in 0..EndMark :
          /\ ClusterContentInFAT(l.cluster, content)
          /\ \/ IsClusterLinkEof(content) /\ Return("open", -1)
             \/ /\ ~IsClusterLinkEof(content)
                /\ l' = [l EXCEPT !.i = 0]
                /\ UNCHANGED <<at, ret>>
    /\ UNCHANGED <<slot, context, f, dst, opened>>

\* Both calls of ClusterContentInFAT(), the second one from the cache.
SearchFat32Link ==
    /\ at = "directory" /\ context.fattype = "TYPE_FAT32"
    /\ l.i = context.sectors_per_cluster
    /\ \E content \in 0..EndMark :
          /\ ClusterContentInFAT(l.cluster, content)
          /\ \/ IsClusterLinkEof(content) /\ Return("open", -1)
             \/ /\ ~IsClusterLinkEof(content)
                /\ l' = [l EXCEPT !.cluster = content, !.i = 0]
                /\ UNCHANGED <<at, ret>>
    /\ UNCHANGED <<slot, context, f, dst, opened>>

-----------------------------------------------------------------------------
\* fatfs_fread() and fatfs_fseek()

fatfs_fread(wanted) ==
    /\ at = "idle" /\ f # NoFile
    /\ at' = "file"
    /\ l' = [wanted |-> wanted, count |-> Min2(wanted, f.filesize - f.offset),
             start |-> f.offset, i |-> 0, cluster |-> f.startcluster,
             hops |-> (f.offset \div SectorSize) \div context.sectors_per_cluster]
    /\ dst' = <<>>
    /\ UNCHANGED <<slot, context, cache, f, ret, opened>>

totsectors == (l.count + (l.start % SectorSize) + SectorSize - 1) \div SectorSize

ReadDone ==
    /\ at = "file" /\ l.i = totsectors
    /\ Return("read", Len(dst))
    /\ UNCHANGED <<slot, context, cache, f, dst, opened>>

\* Mutant: the walk goes on from where the sector before was found.
ReadFileSectorOn ==
    /\ at = "file" /\ l.i < totsectors /\ l.hops = 0
    /\ LET sector == l.start \div SectorSize + l.i
           offset == IF l.i = 0 THEN l.start % SectorSize ELSE 0
           n      == Min2(SectorSize - offset, l.count - Len(dst))
       IN  \E r \in ReadSector(FirstSectorofCluster(context, l.cluster)
                                   + (sector % context.sectors_per_cluster), {Blank}) :
              \/ /\ r.ok
                 /\ dst' = dst \o SubSeq(r.buff.bytes, offset + 1, offset + n)
                 /\ f' = [f EXCEPT !.offset = @ + n]
                 /\ l' = [l EXCEPT !.i = @ + 1,
                                   !.hops = (sector + 1) \div context.sectors_per_cluster]
                 /\ UNCHANGED <<at, ret>>
              \/ /\ ~r.ok
                 /\ f' = [f EXCEPT !.offset = @ + n]
                 /\ Return("read", Len(dst))
                 /\ UNCHANGED dst
    /\ UNCHANGED <<slot, context, cache, opened>>

\* The next cluster of the chain.
FollowCluster ==
    /\ at = "file" /\ l.i < totsectors /\ l.hops > 0
    /\ \E content \in 0..EndMark :
          /\ ClusterContentInFAT(l.cluster, content)
          /\ \/ IsClusterLinkEof(content) /\ Return("read", Len(dst))
             \/ /\ ~IsClusterLinkEof(content)
                /\ l' = [l EXCEPT !.cluster = content, !.hops = @ - 1]
                /\ UNCHANGED <<at, ret>>
    /\ UNCHANGED <<slot, context, f, dst, opened>>

\* A sector of the file: from the offset in the first one, and no more than is
\* left to read.  Each sector is looked for from the start of the chain again.
ReadFileSector ==
    /\ at = "file" /\ l.i < totsectors /\ l.hops = 0
    /\ LET sector == l.start \div SectorSize + l.i
           offset == IF l.i = 0 THEN l.start % SectorSize ELSE 0
           n      == Min2(SectorSize - offset, l.count - Len(dst))
       IN  \E r \in ReadSector(FirstSectorofCluster(context, l.cluster)
                                   + (sector % context.sectors_per_cluster), {Blank}) :
              \/ /\ r.ok
                 /\ dst' = dst \o SubSeq(r.buff.bytes, offset + 1, offset + n)
                 /\ f' = [f EXCEPT !.offset = @ + n]
                 /\ l' = [l EXCEPT !.i = @ + 1, !.cluster = f.startcluster,
                                   !.hops = (sector + 1) \div context.sectors_per_cluster]
                 /\ UNCHANGED <<at, ret>>
              \/ /\ ~r.ok
                 /\ Return("read", Len(dst))
                 /\ UNCHANGED <<f, dst>>
    /\ UNCHANGED <<slot, context, cache, opened>>

fatfs_fseek(pos, offset) ==
    /\ at = "idle" /\ f # NoFile
    /\ f' = [f EXCEPT !.offset = IF pos + offset < 0 THEN 0
                                 ELSE Min2(pos + offset, f.filesize)]
    /\ ret' = [call |-> "seek", val |-> f'.offset]
    /\ UNCHANGED <<slot, context, cache, at, l, dst, opened>>

-----------------------------------------------------------------------------
\* The command ends; the next one may find another card in the slot.
NewCommand ==
    /\ at = "idle"
    /\ slot' \in IF Swaps THEN Cards ELSE {slot}
    /\ context' = Unbound /\ f' = NoFile /\ opened' = NoName
    /\ dst' = <<>> /\ ret' = [call |-> "none", val |-> 0]
    /\ UNCHANGED <<cache, at, l>>

Step ==
    \/ BindSector0 \/ BindBootSector
    \/ SearchFat16 \/ SearchFat32 \/ SearchFat32Link
    \/ FollowCluster \/ ReadFileSector \/ ReadDone

Next ==
    \/ Step
    \/ NewCommand
    \/ fatfs_bind_device
    \/ \E n \in Names : fatfs_fopen(n)
    \/ \E n \in 0..MaxCount : fatfs_fread(n)
    \/ \E d \in -MaxCount..MaxCount, origin \in {0, f.offset, f.filesize} : fatfs_fseek(origin, d)

Spec == Init /\ [][Next]_vars
FairSpec == Spec /\ WF_vars(Step)

-----------------------------------------------------------------------------
(***************************************************************************)
(* Properties.                                                             *)
(***************************************************************************)

OnCard == opened \in DOMAIN Files[slot]
Content == IF OnCard THEN Files[slot][opened] ELSE <<>>

\* On a sound card, cutting a read into sectors, looking each of them up along
\* the cluster chain and keeping one sector of the table in memory,
\* fatfs_fopen(), fatfs_fseek() and fatfs_fread() behave like a file.  (A flaky
\* one is shown as a file nobody opens.)
Reader == INSTANCE FileReader
            WITH Contents <- {<<>>} \cup UNION {{Files[c][n] : n \in DOMAIN Files[c]} : c \in Cards},
                 content <- IF Sound THEN Content ELSE <<>>,
                 pos <- IF Sound /\ at = "file" THEN l.start
                        ELSE IF Sound THEN f.offset ELSE -1,
                 wanted <- IF Sound /\ at = "file" THEN l.wanted ELSE -1,
                 got <- IF ~Sound \/ at = "file" THEN <<>> ELSE dst
ReadsLikeAFile == Reader!Spec

\* Whatever fails on the way, a read stores no more than was asked for, moves
\* the file pointer by exactly what it stored, so that the next read goes on
\* there, and inside the file; and it reports all that was asked for when it
\* stored that.  What a read that failed reports is left open: the code reports
\* what it stored, its comment says -1 (fatfs_fread).
AccountsForEveryByte ==
    [][at = "file" =>
          /\ Len(dst') <= l.count
          /\ f'.offset = l.start + Len(dst') /\ f'.offset <= f.filesize
          /\ at' = "idle" /\ Len(dst') = l.count => ret'.val = l.count]_vars

\* The bytes stored are those of the file opened ("reads data from a file",
\* fatfs_fread).
BytesAreTheFiles ==
    at = "file" => dst = SubSeq(Content, l.start + 1, l.start + Len(dst))

\* "if found the specific dir_entry, then return zero, otherwise return -1"
\* (SearchRootDirEntry): on a sound card it gives up on no file the directory
\* holds.
OpenFindsFile ==
    [][Sound /\ at = "directory" /\ at' = "idle" /\ ret'.val = -1
           => l.name \notin DOMAIN Files[slot]]_vars

\* On a sound card every call ends: the search of the directory and the walk
\* along the clusters reach an end (SearchRootDirEntry, ReadSectorFollowCluster).
EveryCallReturns == Sound /\ at # "idle" ~> at = "idle"
=============================================================================
