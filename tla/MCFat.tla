-------------------------------- MODULE MCFat --------------------------------
(* A small volume with two files in a directory, as FAT12, 16 and 32, and a *)
(* second FAT16 on a disk whose reads fail.  Sectors have 64 bytes and hold *)
(* two directory entries, the least FAT16 has 150 clusters, and the chains  *)
(* leave the two cached sectors of the table and return.  And a floppy, as  *)
(* the driver reads it, and a volume whose root fills its first sector.      *)
EXTENDS Fat, TLC

File(n, d, c, s) == [name |-> n, dir |-> d, cluster |-> c, size |-> s]
Free == File(<<>>, FALSE, 0, 0)
Boot     == <<"b", "o", "o", "t">>
KernelE  == <<"k", "e", "r", "n", ".", "e", "l", "f">>
GrubCfg  == <<"g", "r", "u", "b", ".", "c", "f", "g">>
Missing  == <<"n", "o", "n", "e", "_", "s", "u", "c", "h">>

Table(end) == (3 :> 70) @@ (70 :> 5) @@ (5 :> end)      \* kern.elf
              @@ (40 :> 6) @@ (6 :> end)                \* grub.cfg
              @@ (10 :> 90) @@ (90 :> end)              \* the directory boot
Data(from, c) == from + (c - 2) * SectorsPerCluster
Sectors(rootLba, from) ==
  (rootLba :> <<File(Boot, TRUE, 10, 0), Free>>) @@ (rootLba + 1 :> <<Free, Free>>)
  @@ (Data(from, 10) :> <<Free, Free>>)
  @@ (Data(from, 10) + 1 :> <<Free, File(KernelE, FALSE, 3, 300)>>)
  @@ (Data(from, 90) :> <<File(GrubCfg, FALSE, 40, 256), Free>>)
  @@ (Data(from, 90) + 1 :> <<Free, Free>>)
Kernel == <<Boot, KernelE>>
Grub   == <<Boot, GrubCfg>>
None   == <<Boot, Missing>>

(* What a formatter writes into the boot sector.                            *)
Bpb1216(fats, sectorsPerFat, rootEntries, total, large) ==
  [ReservedSectors |-> 1, FatCount |-> fats, SectorsPerFat |-> sectorsPerFat, DirEntryCount |-> rootEntries,
   TotalSectors |-> total, LargeSectorCount |-> large, SectorsPerFat32 |-> 0, RootDirectoryCluster |-> 0]
Bpb32 == [ReservedSectors |-> 2, FatCount |-> 2, SectorsPerFat |-> 0, DirEntryCount |-> 0, TotalSectors |-> 0,
          LargeSectorCount |-> 400, SectorsPerFat32 |-> 12, RootDirectoryCluster |-> 20]

Volume(bpb, rootLba, rootSize, dataLba, end, paths, fails) ==
  [boot |-> bpb, rootLba |-> rootLba, rootSize |-> rootSize, dataLba |-> dataLba,
   next |-> Table(end), entries |-> Sectors(rootLba, dataLba), paths |-> paths, fails |-> fails]

(* FAT32 is asked for what is stored only: a search for a missing name runs *)
(* past its directory's end mark.                                           *)
Small == [FAT12 |-> Volume(Bpb1216(2, 4, 4, 300, 0), 9, 128, 11, 4095, {Kernel, Grub, None}, FALSE),
          FAT16 |-> Volume(Bpb1216(1, 7, 3, 0, 400), 8, 96, 10, 65535, {Kernel, Grub, None}, FALSE),
          FAT32 |-> Volume(Bpb32, 62, 0, 26, 268435455, {Kernel, Grub}, FALSE),
          bad   |-> Volume(Bpb1216(1, 7, 4, 400, 0), 8, 128, 10, 65535, {Kernel, None}, TRUE)]

(* A 1.44 MB floppy with one file, whose chain passes cluster 1706.         *)
Floppy == [floppy |->
  [boot |-> Bpb1216(2, 9, 224, 2880, 0), rootLba |-> 19, rootSize |-> 7168, dataLba |-> 33,
   next |-> (3 :> 1706) @@ (1706 :> 1707) @@ (1707 :> 4095),
   entries |-> (19 :> <<File(KernelE, FALSE, 3, 1536)>> \o [i \in 1..15 |-> Free]),
   paths |-> {<<KernelE>>}, fails |-> FALSE]]

(* The directory boot in the last place of the root's first sector.         *)
Root == LET v == Small.FAT16
        IN  [root |-> [v EXCEPT !.entries = (8 :> <<Free, File(Boot, TRUE, 10, 0)>>) @@ @,
                                !.paths = {Kernel}]]

ASSUME SmallAreOrderly == Volumes = Small => AllOrderly /\ AllFindable
=============================================================================
