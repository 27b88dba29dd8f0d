------------------------------ MODULE MCFiles ------------------------------
(* Files on disks of a few clusters; see MCFiles.cfg.  A sector has two    *)
(* bytes and a directory entry one, two sectors of a file fit in its page, *)
(* and clusters from 6 on lie beyond the part of the FAT that is read.     *)
EXTENDS Files, TLC

A == <<"a">>
B == <<"b", "b">>
C == <<"c">>
D == <<"d">>

File0(name, chain, size) == [name |-> name, file |-> TRUE, chain |-> chain, size |-> size]

MCRoot == <<
  [File0(A, <<5>>, 2) EXCEPT !.file = FALSE],  \* deleted, or a directory
  File0(B, <<5, 2>>, 3),
  File0(A, <<3, 7, 4>>, 5),                    \* longer than its page
  File0(C, <<>>, 0),
  File0(D, <<6, 8>>, 4) >>                     \* not in the part of the FAT

MCWanted == {A, B, C, D}

(* The boot sectors of the formats: the 3.5 inch disk of 1.44 MB, which is *)
(* read right; one like it with two sectors in a cluster; the 5.25 inch    *)
(* disk of 1.2 MB, whose descriptor is that of another disk; the 3.5 inch  *)
(* disk of 720 KB, whose root directory goes on on a second track; and     *)
(* that of 180 KB, which has one head.                                     *)
MB144 ==
  [MediaDescriptor |-> 240, SectorsPerCluster |-> 1, ReservedSectors |-> 1, FATcount |-> 2,
   SectorsPerFAT |-> 9, MaxRootEntries |-> 28, SectorsPerTrack |-> 18, HeadCount |-> 2,
   TotalSectors1 |-> 2880]

MCBootSectors == {
  MB144,
  [MB144 EXCEPT !.SectorsPerCluster = 2, !.SectorsPerFAT = 5, !.MaxRootEntries = 14],
  [MB144 EXCEPT !.MediaDescriptor = 249, !.SectorsPerFAT = 7, !.SectorsPerTrack = 15,
                !.TotalSectors1 = 2400],
  [MB144 EXCEPT !.MediaDescriptor = 249, !.SectorsPerCluster = 2, !.SectorsPerFAT = 3,
                !.MaxRootEntries = 14, !.SectorsPerTrack = 9, !.TotalSectors1 = 1440],
  [MB144 EXCEPT !.MediaDescriptor = 252, !.SectorsPerFAT = 2, !.MaxRootEntries = 8,
                !.SectorsPerTrack = 9, !.HeadCount = 1, !.TotalSectors1 = 360]}
(* The pages are alike. *)
Symmetry == Permutations(Handle)
=============================================================================
