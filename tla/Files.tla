------------------------------- MODULE Files -------------------------------
(***************************************************************************)
(* The FAT12 file system and its open files (kernel/fat12.c).  Mounting    *)
(* reads the boot sector, the first sectors of the FAT and the root        *)
(* directory; opening a file finds its directory entry, turns clusters     *)
(* into sectors and copies the first of them into the page of the new      *)
(* device; reading, writing and seeking work on that page and on a cursor  *)
(* that all who inherited the descriptor share.  Nothing ever loads the    *)
(* rest of a file.                                                         *)
(*                                                                         *)
(* Sector s of the disk holds the bytes <<s, 0>>, <<s, 1>>, ...  What the  *)
(* kernel holds of the disk is Null where nothing says what it is.  Below  *)
(* is module Fdd, in step with its controller: see Delivered.              *)
(***************************************************************************)
EXTENDS Integers, Sequences, FiniteSets, SequencesExt

CONSTANTS
  Handle,        \* the kernel pages open files live in
  Root,          \* the root directory: entries with name, file, chain, size
  BootSectors,   \* of the disks, and what the kernel may take for one
  Pairs,         \* FAT entries come in pairs of 3 bytes; so many on the disk
  PairsRead,     \* and so many in the part that fat12_create reads
  FAT12_SECT_SIZE, FAT12_SECT_PER_PAGE,
  FAT_SECTORS, FAT12_CACHE_SECTORS,  \* 4 and 15
  DIR_ENTRY_SIZE,            \* sizeof(dir_entry), 32
  FIRST_SECTORS,             \* sectors that fat12_open loads, 7 in the code
  DEV_FILE_FIRST_LVL_PAGES,
  Wanted, Sizes, Positions,  \* what programs open, read, write and seek
  Word,          \* sizes are uint_32: Word = 2^32
  Null

Entry == DOMAIN Root
InPage == FIRST_SECTORS * FAT12_SECT_SIZE
Limit  == (FIRST_SECTORS + DEV_FILE_FIRST_LVL_PAGES * FAT12_SECT_PER_PAGE) * FAT12_SECT_SIZE
EndOfChain == 4095

(* A directory entry matches a name that is a prefix of its own.  No wanted *)
(* name is that of two files, or a prefix of the name of another.           *)
Matches(name, e) == IsPrefix(name, Root[e].name)

ASSUME FilesAssumption ==
  /\ {FIRST_SECTORS, FAT12_SECT_SIZE, FAT12_SECT_PER_PAGE, DEV_FILE_FIRST_LVL_PAGES,
      FAT_SECTORS, FAT12_CACHE_SECTORS, DIR_ENTRY_SIZE} \subseteq Nat \ {0}
  /\ Null \notin Nat
  /\ Sizes \subseteq Nat /\ Positions \subseteq Nat /\ Word \in Nat \ {0}
  /\ \A n \in Sizes, e \in Entry : n + Root[e].size < Word
  /\ \A p \in Positions : p < Word
  /\ \A n \in Wanted, e \in Entry : Root[e].file => (Matches(n, e) <=> Root[e].name = n)
  /\ \A n \in Wanted : \A d, e \in {x \in Entry : Root[x].file /\ Root[x].name = n} : d = e

----------------------------------------------------------------------------
(* Where things are on a disk whose boot sector is b *)

RootStart(b)   == b.ReservedSectors + b.FATcount * b.SectorsPerFAT
SectPerRoot(b) == (b.MaxRootEntries * DIR_ENTRY_SIZE) \div FAT12_SECT_SIZE
DataArea(b)    == RootStart(b) + SectPerRoot(b)

(* A sound disk: a file has entries in the FAT for its clusters, and no    *)
(* cluster has two successors; ...                                         *)
ASSUME ChainAssumption ==
  /\ Entry = 1 .. Len(Root) /\ Pairs \in Nat /\ PairsRead \in 0 .. Pairs
  /\ \A e \in Entry :
       /\ Root[e].chain \in Seq(2 .. 2 * Pairs - 1) /\ Len(Root[e].chain) <= 2 * Pairs
       /\ Root[e].size \in 0 .. Limit
  /\ \A d, e \in Entry :
       \A i \in 1 .. Len(Root[d].chain) - 1, j \in 1 .. Len(Root[e].chain) - 1 :
         Root[d].chain[i] = Root[e].chain[j] => Root[d].chain[i + 1] = Root[e].chain[j + 1]

(* ... the root directory fills its sectors, the data area begins within   *)
(* 16 bits, and a file has clusters for all of its bytes.                  *)
Sound(b) ==
  /\ {b.ReservedSectors, b.FATcount, b.SectorsPerFAT, b.MaxRootEntries} \subseteq Nat
  /\ {b.SectorsPerCluster, b.SectorsPerTrack, b.HeadCount} \subseteq Nat \ {0}
  /\ DataArea(b) \in Nat /\ 2 <= DataArea(b) /\ DataArea(b) < 65536
  /\ Len(Root) <= b.MaxRootEntries
  /\ (b.MaxRootEntries * DIR_ENTRY_SIZE) % FAT12_SECT_SIZE = 0
  /\ \A e \in Entry :
       Root[e].size <= FAT12_SECT_SIZE * b.SectorsPerCluster * Len(Root[e].chain)

ASSUME DiskAssumption == \A b \in BootSectors : Sound(b)

VARIABLES
  disk,      \* the boot sector of the disk that is in the drive
  boot_sect, \* and what the kernel has read for it
  fat,       \* the FAT as the kernel has it, in pairs
  root,      \* what find_file searches: "none" before fat12_create, then the
             \* "disk"'s root directory, or something "unknown"
  open,      \* per page: the open file, or Null
  left,      \* the pages that failed opens left behind
  result     \* what the last call delivered (history)

mountVars == <<disk, boot_sect, fat, root>>
filesVars == <<mountVars, open, left, result>>

FilesInit ==
  /\ disk \in BootSectors /\ boot_sect = Null /\ root = "none"
  /\ fat = [o \in 0 .. Pairs - 1 |-> Null]
  /\ open = [h \in Handle |-> Null] /\ left = {}
  /\ result = Null

----------------------------------------------------------------------------
(* The disk *)

(* The cluster that follows c in the chain of its file. *)
Follows(c) ==
  LET here == {x \in Entry \X (1 .. Pairs * 2) :
                 x[2] < Len(Root[x[1]].chain) /\ Root[x[1]].chain[x[2]] = c}
  IN  IF here = {} THEN EndOfChain
      ELSE LET x == CHOOSE x \in here : TRUE IN Root[x[1]].chain[x[2] + 1]

OnDisk(o) == [first |-> Follows(2 * o), second |-> Follows(2 * o + 1)]

Disk(tracks, sects, sides) == [cyl |-> tracks, sect |-> sects, head |-> sides]

(* What the media descriptor says; for 0xF8 and unknown ones the geometry  *)
(* is whatever the stack held.                                             *)
fat12_media_desc(m) ==
  CASE m = 240 -> Disk(80, 18, 2)
    [] m = 249 -> Disk(80, 9, 2)
    [] m = 250 -> Disk(80, 8, 1)
    [] m = 251 -> Disk(80, 8, 2)
    [] m = 252 -> Disk(40, 9, 1)
    [] m = 253 -> Disk(40, 9, 2)
    [] m = 254 -> Disk(40, 8, 1)
    [] m = 255 -> Disk(40, 8, 2)
    [] OTHER   -> Null

(* Boot sector b makes the driver read n sectors from first on right when  *)
(* it is the disk's own, its media descriptor says what the disk is like,  *)
(* the disk has the two heads that fdd_block_read reckons with, and the    *)
(* sectors are on one track (Fdd's ReadsRight).  Otherwise other sectors   *)
(* may come.                                                               *)
GeometryOf(b) ==
  Disk(b.TotalSectors1 \div (b.SectorsPerTrack * b.HeadCount), b.SectorsPerTrack, b.HeadCount)

Delivered(b, first, n) ==
  /\ b = disk /\ fat12_media_desc(b.MediaDescriptor) = GeometryOf(disk)
  /\ disk.HeadCount = 2 /\ (first % disk.SectorsPerTrack) + n <= disk.SectorsPerTrack

----------------------------------------------------------------------------
(* fat12_create, on the boot path.  The read of sector 0 never reports an  *)
(* error, so that b may be anything; each of the others may fail, and then *)
(* it returns without a word to its caller, as when the root directory is  *)
(* too large for the cache.                                                *)
fat12_create ==
  /\ root = "none"
  /\ \E b \in BootSectors, fatRead, rootRead \in BOOLEAN :
       /\ boot_sect' = b
       /\ fat' = [o \in DOMAIN fat |->
                    IF fatRead /\ o < PairsRead /\ Delivered(b, b.ReservedSectors, FAT_SECTORS)
                      THEN OnDisk(o) ELSE fat[o]]
       /\ root' = IF /\ fatRead /\ SectPerRoot(b) < FAT12_CACHE_SECTORS /\ rootRead
                     /\ Delivered(b, RootStart(b), SectPerRoot(b))
                    THEN "disk" ELSE "unknown"
  /\ UNCHANGED <<disk, open, left, result>>

----------------------------------------------------------------------------
(* Opening *)

fat12_next_sector(index) ==
  LET pair == fat[index \div 2] IN IF index % 2 = 1 THEN pair.second ELSE pair.first

(* The first entry that is a file and matches, Null when there is none:    *)
(* deleted entries, directories and labels are passed over.                *)
fat12_find_file(name) ==
  LET found == {e \in Entry : Root[e].file /\ Matches(name, e)}
  IN  IF found = {} THEN Null ELSE CHOOSE e \in found : \A f \in found : e <= f

SectCount(size) ==
  IF size > InPage THEN FIRST_SECTORS
  ELSE size \div FAT12_SECT_SIZE + (IF size % FAT12_SECT_SIZE > 0 THEN 1 ELSE 0)

(* FstClusLO: the first cluster of the chain, 0 for an empty file.         *)
FstClusLO(e) == IF Root[e].chain = <<>> THEN 0 ELSE Root[e].chain[1]

(* Mutant: the numbers of clusters start from 0. *)
FromClusterZero ==
  (boot_sect.ReservedSectors + boot_sect.FATcount * boot_sect.SectorsPerFAT
     + (boot_sect.MaxRootEntries * DIR_ENTRY_SIZE) \div FAT12_SECT_SIZE) % 65536

(* What is added to a cluster to find its sector, a uint_16.               *)
dataStart ==
  (boot_sect.ReservedSectors + boot_sect.FATcount * boot_sect.SectorsPerFAT
     + (boot_sect.MaxRootEntries * DIR_ENTRY_SIZE) \div FAT12_SECT_SIZE - 2) % 65536

(* The cluster after c in the FAT in memory, and the sector that is read   *)
(* for c: one for each cluster, SectorsPerCluster is not looked at.        *)
Following(c) ==
  IF c # Null /\ c \div 2 \in DOMAIN fat /\ fat[c \div 2] # Null
    THEN fat12_next_sector(c) ELSE Null

Sector(c) ==
  IF c # Null /\ Delivered(boot_sect, dataStart + c, 1) THEN dataStart + c ELSE Null

(* The sectors fat12_open copies, following the FAT in memory.             *)
Visited(e) ==
  LET at[i \in 1 .. FIRST_SECTORS] == IF i = 1 THEN FstClusLO(e) ELSE Following(at[i - 1])
  IN  [i \in 1 .. SectCount(Root[e].size) |-> Sector(at[i])]

Opened(name, size, data) == [asked |-> name, size |-> size, data |-> data, cursor |-> 0]

(* After a mount that failed, find_file searches whatever cache->root_dir  *)
(* points at.  It may find an entry there, of any file and size.           *)
Found(name) ==
  LET e == fat12_find_file(name)
  IN  IF root = "unknown"
        THEN {Opened(name, n, [i \in 1 .. SectCount(n) |-> Null]) : n \in Sizes}
        ELSE IF e = Null THEN {} ELSE {Opened(name, Root[e].size, Visited(e))}

(* A failed read of a sector returns NULL and leaves the page behind.  The *)
(* page of a file is never given back; that there is one is not tested     *)
(* (line 200 tests another pointer), and the model opens no more files     *)
(* than there are pages.                                                   *)
fat12_open(h, name) ==
  /\ root # "none" /\ open[h] = Null /\ h \notin left
  /\ \E f \in Found(name) :
       \/ open' = [open EXCEPT ![h] = f] /\ UNCHANGED left
       \/ f.data # <<>> /\ left' = left \cup {h} /\ UNCHANGED open
  /\ result' = Null
  /\ UNCHANGED mountVars

----------------------------------------------------------------------------
(* Reading: chardev_file_mov *)

Min2(a, b) == IF a < b THEN a ELSE b

(* Byte p of the part of the file that the page holds; zeros follow.       *)
Byte(f, p) ==
  LET s == p \div FAT12_SECT_SIZE
  IN  IF s < Len(f.data) THEN <<f.data[s + 1], p % FAT12_SECT_SIZE>> ELSE Null

(* Beyond the page the bytes come from page pointers nobody has set.  The  *)
(* loop starts again at every page with the size it began with, and does   *)
(* not count the last byte of a page: where it leaves the cursor c, and    *)
(* what the call returns.                                                  *)
Beyond(c, n) ==
  LET P == FAT12_SECT_SIZE * FAT12_SECT_PER_PAGE
      room(x) == P - 1 - (x % P)
      from[x \in c .. Limit + P] ==
        IF x >= Limit THEN [cursor |-> x, ret |-> Null]
        ELSE IF n <= room(x) THEN [cursor |-> x + n, ret |-> n]
        ELSE from[x + room(x) + 1]
  IN  IF c >= Limit THEN [cursor |-> c, ret |-> Null] ELSE from[c]

(* The size is cut at the end of the file, in unsigned arithmetic: past    *)
(* the end it becomes huge.                                                *)
Clipped(f, n) ==
  IF (n + f.cursor) % Word > f.size THEN (f.size - f.cursor) % Word ELSE n

(* What one call delivers: bytes, the return value and the new cursor.     *)
chardev_file_mov(f, size) ==
  LET n    == Clipped(f, size)
      here == IF f.cursor < InPage THEN Min2(n, InPage - f.cursor) ELSE 0
      rest == Beyond(f.cursor + here, n)
  IN  IF here = n /\ f.cursor < InPage
      THEN [buf |-> [i \in 1 .. n |-> Byte(f, f.cursor + i - 1)],
            ret |-> n, cursor |-> f.cursor + n]
      ELSE [buf |-> IF n = 0 THEN <<>> ELSE Null,
            ret |-> rest.ret, cursor |-> rest.cursor]

IsOpen(h) == open[h] # Null

chardev_file_read(h, n) ==
  /\ IsOpen(h)
  /\ LET got == chardev_file_mov(open[h], n)
     IN  /\ result' = [h |-> h, from |-> open[h].cursor, size |-> n,
                       buf |-> got.buf, ret |-> got.ret]
         /\ open' = [open EXCEPT ![h].cursor = got.cursor]
  /\ UNCHANGED <<mountVars, left>>

(* A write moves the wrong way, from the file into a copy of the caller's  *)
(* buffer: the cursor advances and nothing is written.                     *)
chardev_file_write(h, n) ==
  /\ IsOpen(h)
  /\ open' = [open EXCEPT ![h].cursor = chardev_file_mov(open[h], n).cursor]
  /\ result' = Null
  /\ UNCHANGED <<mountVars, left>>

(* Any position is accepted. *)
chardev_file_seek(h, pos) ==
  /\ IsOpen(h)
  /\ open' = [open EXCEPT ![h].cursor = pos]
  /\ result' = Null
  /\ UNCHANGED <<mountVars, left>>

----------------------------------------------------------------------------
FilesNext ==
  \/ fat12_create
  \/ \E h \in Handle :
       \/ \E name \in Wanted : fat12_open(h, name)
       \/ \E n \in Sizes : chardev_file_read(h, n) \/ chardev_file_write(h, n)
       \/ \E pos \in Positions : chardev_file_seek(h, pos)

FilesSpec == FilesInit /\ [][FilesNext]_filesVars

----------------------------------------------------------------------------
(* The file called name, and where its byte p is on the disk, by the       *)
(* layout of FAT12: cluster 2 is the first of the data area.               *)
File(name) == CHOOSE e \in Entry : Root[e].file /\ Root[e].name = name

OnFile(e, p) ==
  LET bytes == FAT12_SECT_SIZE * disk.SectorsPerCluster
      c     == Root[e].chain[1 + p \div bytes]
  IN  <<DataArea(disk) + (c - 2) * disk.SectorsPerCluster + (p % bytes) \div FAT12_SECT_SIZE,
        p % FAT12_SECT_SIZE>>

(* The chain of e can be followed in the part of the FAT that was read.    *)
InFat(e) ==
  \A i \in 1 .. Min2(FIRST_SECTORS, Len(Root[e].chain)) - 1 :
    fat[Root[e].chain[i] \div 2] # Null

(* A read that starts within the file and ends within its first sectors    *)
(* delivers the bytes of the file that was asked for, from the cursor on,  *)
(* as many as there are up to its end, returns their number and moves the  *)
(* cursor by it, whoever read, wrote or sought before; provided that the   *)
(* chain lies in the four sectors of the FAT that were read, that a        *)
(* cluster is one sector (the code takes a cluster for a sector, whatever  *)
(* SectorsPerCluster says), and that the disk's root directory was read.   *)
(* This last takes a media descriptor that tells the disk's geometry, two  *)
(* heads, a root directory of less than 15 sectors on one track, and no    *)
(* read error while mounting.                                              *)
ReadsFile ==
  result # Null /\ root = "disk" /\ disk.SectorsPerCluster = 1 =>
    LET f == open[result.h]
        e == File(f.asked)
        n == Min2(result.size, Root[e].size - result.from)
    IN  result.from <= Root[e].size /\ result.from + n <= InPage /\ InFat(e) =>
          /\ result.buf = [i \in 1 .. n |-> OnFile(e, result.from + i - 1)]
          /\ result.ret = n
          /\ f.cursor = result.from + n
=============================================================================
