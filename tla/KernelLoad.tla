----------------------------- MODULE KernelLoad -----------------------------
(***************************************************************************)
(* Stage 2, run_bootloader: disk, partition, FAT, memory map, and ELF_Read *)
(* loading the kernel's segments through FAT_Read, until the kernel is     *)
(* entered or the boot halts.  Sizes and addresses are in pages of 4 KiB,  *)
(* so memcpy and memset, whose length is 16 bits, wrap at 16.              *)
(***************************************************************************)
EXTENDS Integers, Sequences

CONSTANTS Images,         \* kernels: sequences of program headers
          FilePages,      \* the kernel file's length
          BiosRegions,    \* the BIOS's memory map: how many blocks
          MAX_REGIONS,
          Memory          \* the pages the kernel may be loaded to

ASSUME LoadAssumption ==
  /\ Images \subseteq Seq([load : BOOLEAN, offset : Nat, address : Nat, fileSize : Nat, memorySize : Nat])
  /\ {FilePages, MAX_REGIONS} \subseteq Nat /\ BiosRegions \in Nat \ {0} /\ Memory \subseteq Nat

LOAD_PAGES == 16                        \* MEMORY_LOAD_SIZE
MEMORY_FAT_ADDR == 131072               \* where the boot sector has put the partition entry
Length16(pages) == pages % 16           \* the uint16_t that memcpy and memset take
Least(a, b) == IF a < b THEN a ELSE b

VARIABLES segments,       \* the kernel file's program headers, once they are read
          readsFail,      \* whether this disk's sectors may not be read
          stored,         \* whether the kernel is on the volume
          fd,             \* the open kernel file: [opened, at, stale, lost]
          i,              \* the segment at hand
          left,           \* its Offset, FileSize still to read, and virtAddress
          memory,         \* what each page holds
          low,            \* what lies at 0x20000
          pointer,        \* to the partition entry, as entry.asm passes it on
          partition,      \* what MBR_DetectPartition took for the partition entry
          continuation, ret, regions,   \* Memory_Detect
          pc

vars   == <<segments, readsFail, stored, fd, i, left, memory, low, pointer, partition,
            continuation, ret, regions, pc>>
image  == <<segments, readsFail, stored, pointer>>
elf    == <<image, fd, i, left, memory>>
detect == <<continuation, ret, regions>>

File(page) == [kind |-> "file", page |-> page]
Zero  == [kind |-> "zero", page |-> 0]
Stale == [kind |-> "stale", page |-> 0]   \* a page with a sector of the one before
Wrong == [kind |-> "wrong", page |-> 0]   \* a page of clusters that may be another file's
Junk  == [kind |-> "junk", page |-> 0]

Unloaded ==
  /\ segments = <<>> /\ readsFail \in BOOLEAN /\ stored \in BOOLEAN
  /\ fd = [opened |-> FALSE, at |-> 0, stale |-> FALSE, lost |-> FALSE]
  /\ i = 0 /\ left = [offset |-> 0, file |-> 0, address |-> 0]
  /\ memory = [p \in Memory |-> Junk]
  /\ partition = "none"
  /\ continuation = 0 /\ ret = 0 /\ regions = <<>>
  /\ pc = "disk"

Init ==                                 \* after the boot sector and entry.asm
  /\ Unloaded
  /\ low = "partition_entry" /\ pointer = [off |-> 0, seg |-> 8192]

Halt == pc' = "halt"

-----------------------------------------------------------------------------
FindDisk(ok) ==
  /\ pc = "disk"
  /\ pc' = IF ok THEN "partition" ELSE "halt"
  /\ UNCHANGED <<elf, low, partition, detect>>

segoffset_to_linear(p) == p.seg * 16 + p.off
Pointed == IF segoffset_to_linear(pointer) = MEMORY_FAT_ADDR THEN low ELSE "junk"

FatFirst ==                             \* mutant: FAT_Initialize before MBR_DetectPartition
  /\ pc = "partition"
  /\ low' = "FAT_Data" /\ partition' = low'
  /\ pc' = "fat"
  /\ UNCHANGED <<elf, detect>>

MBR_DetectPartition ==                  \* a floppy is a partition itself
  /\ pc = "partition"
  /\ partition' \in {Pointed, "whole_disk"}
  /\ pc' = "fat"
  /\ UNCHANGED <<elf, low, detect>>

FAT_Initialize(ok) ==                   \* its data lie where the entry was
  /\ pc = "fat"
  /\ low' = "FAT_Data"
  /\ pc' = IF ok THEN "detect" ELSE "halt"
  /\ UNCHANGED <<elf, partition, detect>>

(* Memory_Detect.  The BIOS ends its map with a continuation of 0 beside   *)
(* the last block, or with an error to the call after it.                  *)
NextBlock(k) ==
  \/ /\ k < BiosRegions - 1 /\ ret' = k + 1 /\ continuation' = k + 1
  \/ /\ k = BiosRegions - 1 /\ ret' = k + 1 /\ continuation' \in {0, k + 1}
  \/ /\ k = BiosRegions     /\ ret' = -1    /\ UNCHANGED continuation

FirstBlock ==
  /\ pc = "detect"
  /\ NextBlock(0)
  /\ pc' = "blocks"
  /\ UNCHANGED <<elf, low, partition, regions>>

StoreBlock ==                           \* ret stands for the block read
  /\ pc = "blocks" /\ ret > 0 /\ continuation # 0
  /\ Len(regions) < MAX_REGIONS         \* bound: the code has none
  /\ regions' = Append(regions, ret)
  /\ NextBlock(continuation)
  /\ UNCHANGED <<elf, low, partition, pc>>

BlocksEndEarly ==                       \* mutant: a continuation of 1 ends the map
  /\ pc = "blocks" /\ ~(ret > 0 /\ continuation > 1)
  /\ pc' = "open"
  /\ UNCHANGED <<elf, low, partition, detect>>

BlocksEnd ==
  /\ pc = "blocks" /\ ~(ret > 0 /\ continuation # 0)
  /\ pc' = "open"
  /\ UNCHANGED <<elf, low, partition, detect>>

-----------------------------------------------------------------------------
(* ELF_Read.  What FAT_Open and FAT_Read do to it is taken from Fat.  An   *)
(* unreadable sector gives NULL from the one and fewer bytes from the      *)
(* other, but two go unnoticed: the sector after the last byte wanted, in  *)
(* whose stead the next read has the one before it again, and a sector of  *)
(* the FAT, whose old cache then tells the next clusters.                  *)

Opened(lost) == [opened |-> TRUE, at |-> 0, stale |-> FALSE, lost |-> lost]
OpenThen(next) ==
  \/ stored /\ fd' = Opened(FALSE) /\ pc' = next
  \/ readsFail /\ fd' = Opened(TRUE) /\ pc' = next
  \/ (readsFail \/ ~stored) /\ pc' = "wild" /\ UNCHANGED fd     \* NULL, and used

Unnoticed(already) == IF readsFail THEN {already, TRUE} ELSE {already}
FAT_Read(n) ==
  /\ fd.lost \/ fd.at + n <= FilePages
  /\ \E stale \in Unnoticed(FALSE), lost \in Unnoticed(fd.lost) :
       fd' = [opened |-> fd.opened, at |-> fd.at + n, stale |-> stale, lost |-> lost]
ShortRead(n) == readsFail \/ fd.at + n > FilePages

OpenHeader == /\ pc = "open"
              /\ OpenThen("header")
              /\ UNCHANGED <<image, i, left, memory, low, partition, detect>>

(* Both headers lie in the first sector, which FAT_Open has read.  What    *)
(* line 25 on finds out about the first one is not used.                   *)
ReadHeaders == /\ pc = "header" /\ ~fd.lost
               /\ segments' \in Images
               /\ fd' = [fd EXCEPT !.opened = FALSE]
               /\ i' = 1
               /\ pc' = "segments"
               /\ UNCHANGED <<readsFail, stored, pointer, left, memory, low, partition, detect>>

WrongHeaders ==                         \* another file's, or none
  /\ pc = "header" /\ fd.lost
  /\ pc' \in {"wild", "halt"}
  /\ UNCHANGED <<elf, low, partition, detect>>

SkipSegment == /\ pc = "segments" /\ i <= Len(segments)
               /\ ~segments[i].load
               /\ i' = i + 1
               /\ UNCHANGED <<image, fd, left, memory, low, partition, detect, pc>>

MemSet(m, from, n) == [p \in Memory |-> IF p - from \in 0..n - 1 THEN Zero ELSE m[p]]

BeginSegment ==
  /\ pc = "segments" /\ i <= Len(segments)
  /\ LET s == segments[i]
     IN  /\ s.load
         /\ memory' = MemSet(memory, s.address, Length16(s.memorySize))
         /\ left' = [offset |-> s.offset, file |-> s.fileSize, address |-> s.address]
  /\ OpenThen("seek")
  /\ UNCHANGED <<image, i, low, partition, detect>>

Seek == /\ pc = "seek" /\ left.offset > 0
        /\ LET n == Least(left.offset, LOAD_PAGES)
           IN  /\ FAT_Read(n)
               /\ left' = [left EXCEPT !.offset = @ - n]
        /\ UNCHANGED <<image, i, memory, low, partition, detect, pc>>

Copy == /\ pc = "seek" /\ left.offset = 0 /\ left.file > 0
        /\ LET n == Least(left.file, LOAD_PAGES)
               page(k) == IF fd'.lost THEN Wrong
                          ELSE IF k = 0 /\ fd.stale THEN Stale ELSE File(fd.at + k)
           IN  /\ FAT_Read(n)
               /\ memory' = [p \in Memory |->
                               IF p - left.address \in 0..Length16(n) - 1
                               THEN page(p - left.address) ELSE memory[p]]
               /\ left' = [offset |-> 0, file |-> left.file - n, address |-> left.address + n]
        /\ UNCHANGED <<image, i, low, partition, detect, pc>>

ShortGoesOn ==                          \* mutant: a short read ends the segment only
  /\ pc = "seek"
  /\ \/ left.offset > 0 /\ ShortRead(Least(left.offset, LOAD_PAGES))
     \/ left.offset = 0 /\ left.file > 0 /\ ShortRead(Least(left.file, LOAD_PAGES))
  /\ i' = i + 1
  /\ pc' = "segments"
  /\ UNCHANGED <<image, fd, left, memory, low, partition, detect>>

ShortOfData ==                          \* "ELF Load error!"
  /\ pc = "seek"
  /\ \/ left.offset > 0 /\ ShortRead(Least(left.offset, LOAD_PAGES))
     \/ left.offset = 0 /\ left.file > 0 /\ ShortRead(Least(left.file, LOAD_PAGES))
  /\ Halt
  /\ UNCHANGED <<elf, low, partition, detect>>

EndSegment == /\ pc = "seek" /\ left.offset = 0 /\ left.file = 0
              /\ fd' = [fd EXCEPT !.opened = FALSE]
              /\ i' = i + 1
              /\ pc' = "segments"
              /\ UNCHANGED <<image, left, memory, low, partition, detect>>

EnterKernel == /\ pc = "segments" /\ i > Len(segments)
               /\ pc' = "kernel"
               /\ UNCHANGED <<elf, low, partition, detect>>

Load == \/ MBR_DetectPartition
        \/ FirstBlock \/ StoreBlock \/ BlocksEnd
        \/ OpenHeader \/ ReadHeaders \/ WrongHeaders \/ SkipSegment \/ BeginSegment \/ Seek \/ Copy
        \/ ShortOfData \/ EndSegment \/ EnterKernel

Next == Load \/ \E ok \in BOOLEAN : FindDisk(ok) \/ ((ok \/ readsFail) /\ FAT_Initialize(ok))

Spec     == Init /\ [][Next]_vars
FairSpec == Spec /\ WF_vars(Next)

-----------------------------------------------------------------------------
(* What memory must hold: each segment's file pages, then zeros.           *)
Wanted(s, p) ==
  IF p - s.address < s.fileSize
  THEN {File(s.offset + p - s.address)} \cup (IF readsFail THEN {Stale, Wrong} ELSE {})
  ELSE {Zero}

Pages(s) == s.address..s.address + s.memorySize - 1
Whole(s) == \A p \in Pages(s) : memory[p] \in Wanted(s, p)

(* The kernels that this loader can load: their segments are of less than  *)
(* 64 KiB, lie apart and inside memory, and have no more file than memory. *)
Loaded(kernel) == {k \in DOMAIN kernel : kernel[k].load}
Loadable(kernel) ==
  /\ \A k \in Loaded(kernel) : /\ kernel[k].fileSize <= kernel[k].memorySize
                               /\ kernel[k].memorySize < LOAD_PAGES
                               /\ Pages(kernel[k]) \subseteq Memory
  /\ \A j, k \in Loaded(kernel) : j # k => Pages(kernel[j]) \cap Pages(kernel[k]) = {}

(* The kernel is entered only when every byte of every segment it loads is *)
(* the file's or zero, or else the boot ends in an error (main.c:39).  On  *)
(* a disk that does not read, a page of the file may hold a sector twice   *)
(* (fat.c:357) or other clusters than the file's (fat.c:271); even then    *)
(* something was read into each, and what follows the file's is zero.      *)
KernelWhole ==
  pc = "kernel" => \A s \in {segments[k] : k \in DOMAIN segments} : s.load => Whole(s)

(* The partition is the one the boot sector left at 0x20000, although the  *)
(* FAT driver's data go there.                                             *)
PartitionIsTheEntry == partition \in {"none", "whole_disk", "partition_entry"}

(* The memory map handed to the kernel begins with the BIOS's blocks, each *)
(* once and in order, whichever way the BIOS ends its list, and misses the *)
(* last one at most.                                                       *)
RegionsAreTheFirst ==
  /\ regions = [k \in 1..Len(regions) |-> k]
  /\ pc = "kernel" => Len(regions) >= BiosRegions - 1

(* The boot ends: the kernel runs, an error is shown, or, the kernel not   *)
(* being on the volume or the disk not reading, FAT_Open's NULL is used    *)
(* for a file (elf.c:16), or what is no kernel for one.                    *)
Ended == pc \in {"kernel", "halt"} \/ ((readsFail \/ ~stored) /\ pc = "wild")
Ends  == <>Ended
=============================================================================
