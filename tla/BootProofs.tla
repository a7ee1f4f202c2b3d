----------------------------- MODULE BootProofs -----------------------------
(***************************************************************************)
(* Theorems about the boot: the addresses sent to the BIOS, the sectors of *)
(* stage 2, address line A20, the partition entry, the memory map and the  *)
(* kernel's image.  Each invariant is kept by the steps of its own part;   *)
(* BootStep says that every step of the whole boot is such a step, or      *)
(* leaves that part alone, and the theorems are about the whole boot.      *)
(***************************************************************************)
EXTENDS Boot, WellFoundedInduction, TLAPS

(* A number is its quotient and its remainder put together.                    *)
LEMMA DivMod ==
  ASSUME NEW a \in Nat, NEW b \in Nat \ {0}
  PROVE  /\ a \div b \in Nat /\ a % b \in 0..b - 1
         /\ a = b * (a \div b) + (a % b)
  BY Z3

(* A quotient is below what its dividend's bound allows.                       *)
LEMMA QuotientBound ==
  ASSUME NEW a \in Nat, NEW b \in Nat \ {0}, NEW n \in Nat, a < n * b
  PROVE  a \div b < n
<1> DEFINE q == a \div b
<1>1. q \in Nat /\ a >= b * q
  BY DivMod, Z3
<1> HIDE DEF q
<1>2. SUFFICES ASSUME q >= n PROVE FALSE
  BY <1>1, Z3 DEF q
<1>3. b * q >= b * n
  BY <1>1, <1>2, Z3
<1> QED
  BY <1>1, <1>3, Z3

LEMMA QuotientSmaller ==
  ASSUME NEW a \in Nat, NEW b \in Nat \ {0}
  PROVE  a \div b <= a
<1> DEFINE q == a \div b
<1>1. q \in Nat /\ a >= b * q
  BY DivMod, Z3
<1> HIDE DEF q
<1>2. b * q >= q
  BY <1>1, Z3
<1> QED
  BY <1>1, <1>2 DEF q

(* DISK_Initialize learns the drive's own geometry, for every drive that the   *)
(* BIOS can describe: no bit of the cylinders is lost, and 256 heads do not    *)
(* wrap.                                                                       *)
Geometry == [cylinders |-> Cylinders, heads |-> Heads, sectors |-> SectorsPerTrack]

THEOREM GeometryRead == x86_Disk_GetDriveParams(DriveParams) = Geometry
<1> USE GeometryAssumption
<1> DEFINE c == Cylinders - 1
           q == c \div 256
           r == DriveParams
<1>1. c \in 0..1023
  BY Z3
<1> HIDE DEF c
<1>2. q \in 0..3 /\ c = 256 * q + (c % 256) /\ c % 256 \in 0..255
  BY <1>1, Z3
<1>3. r.ch = c % 256 /\ r.cl = q * 64 + SectorsPerTrack /\ r.dh = Heads - 1
  BY DEF DriveParams, Byte, c
<1> HIDE DEF q, r
<1>4. (q * 64 + SectorsPerTrack) \div 64 = q /\ (q * 64 + SectorsPerTrack) % 64 = SectorsPerTrack
  BY <1>2, Z3
<1>5. Word(r.ch + 256 * (r.cl \div 64) + 1) = Cylinders
  <2>1. r.ch + 256 * (r.cl \div 64) + 1 = (c % 256) + 256 * q + 1
    BY <1>3, <1>4
  <2>2. (c % 256) + 256 * q + 1 = Cylinders
    BY <1>2, Z3 DEF c
  <2> QED
    BY <2>1, <2>2, Z3 DEF Word
<1>6. Word(r.dh + 1) = Heads
  BY <1>3, Z3 DEF Word
<1>7. r.cl % 64 = SectorsPerTrack
  BY <1>3, <1>4
<1> QED
  BY <1>5, <1>6, <1>7 DEF x86_Disk_GetDriveParams, Geometry, r

(* From a linear address to cylinder, head and sector, into the registers of   *)
(* INT 13h and back: nothing of the address is lost, for every geometry that   *)
(* the BIOS can describe and every sector that its registers can name.         *)
THEOREM RoundTrip ==
  ASSUME NEW n \in Reachable
  PROVE  BiosSector(x86_Disk_Read(DISK_LBA2CHS(Geometry, n))) = n
<1> USE GeometryAssumption
<1> DEFINE t == n \div SectorsPerTrack
           s == n % SectorsPerTrack
           c == t \div Heads
           h == t % Heads
<1>1. n \in Nat /\ n < Cylinders * Heads * SectorsPerTrack
  <2>1. Cylinders * Heads * SectorsPerTrack \in Int
    BY Z3
  <2> QED
    BY <2>1, Z3 DEF Reachable
<1>2. /\ t \in Nat /\ s \in 0..SectorsPerTrack - 1
      /\ n = SectorsPerTrack * t + s
  BY <1>1, DivMod
<1>3. t < Cylinders * Heads
  <2>1. Cylinders * Heads \in Nat /\ SectorsPerTrack \in Nat \ {0}
    BY Z3
  <2> QED
    BY <1>1, <2>1, QuotientBound
<1> HIDE DEF t, s
<1>4. c \in Nat /\ h \in 0..Heads - 1 /\ t = Heads * c + h
  BY <1>2, DivMod DEF c, h
<1>5. c < 1024
  <2>1. Heads \in Nat \ {0} /\ Cylinders \in Nat /\ Cylinders <= 1024
    BY Z3
  <2>2. c < Cylinders
    BY <1>2, <1>3, <2>1, QuotientBound
  <2> QED
    BY <1>4, <2>1, <2>2, Z3
<1> HIDE DEF c, h
<1>6. DISK_LBA2CHS(Geometry, n) = [sector |-> s + 1, cylinder |-> c, head |-> h]
  <2>1. Word(s + 1) = s + 1 /\ Word(c) = c /\ Word(h) = h
    BY <1>2, <1>4, <1>5, Z3 DEF Word
  <2> QED
    BY <2>1 DEF DISK_LBA2CHS, Geometry, s, c, h, t
<1>7. Byte(h) = h
  BY <1>4, Z3 DEF Byte
<1> DEFINE r == x86_Disk_Read(DISK_LBA2CHS(Geometry, n))
<1>8. r.cl % 64 = s + 1 /\ r.ch + 256 * (r.cl \div 64) = c /\ r.dh = h
  <2> DEFINE q == c \div 256
  <2>1. c \in 0..1023 /\ s + 1 \in 1..63
    BY <1>2, <1>4, <1>5, Z3
  <2>2. q \in 0..3 /\ c = 256 * q + (c % 256)
    BY <2>1, Z3
  <2>3. r.cl = Byte(Byte(q) * 64) + ((s + 1) % 64) /\ r.ch = Byte(c) /\ r.dh = h
    BY <1>6, <1>7 DEF x86_Disk_Read
  <2> HIDE DEF q, r
  <2>4. Byte(q) = q /\ Byte(q * 64) = q * 64 /\ (s + 1) % 64 = s + 1
    BY <2>1, <2>2, Z3 DEF Byte
  <2>5. r.cl = q * 64 + (s + 1)
    BY <2>3, <2>4, Zenon
  <2>6. (q * 64 + (s + 1)) \div 64 = q /\ (q * 64 + (s + 1)) % 64 = s + 1
    BY <2>1, <2>2, Z3
  <2>7. Byte(c) + 256 * q = c
    BY <2>1, <2>2, Z3 DEF Byte
  <2> QED
    BY <2>3, <2>5, <2>6, <2>7, Zenon
<1>9. BiosSector(r) = (c * Heads + h) * SectorsPerTrack + (s + 1) - 1
  <2> HIDE DEF r
  <2> QED
    BY <1>8 DEF BiosSector
<1>10. c * Heads + h = t
  BY <1>4, Z3
<1>11. t * SectorsPerTrack + (s + 1) - 1 = n
  BY <1>2, Z3
<1> QED
  BY <1>9, <1>10, <1>11

-----------------------------------------------------------------------------
(* What is read is the sector asked for, whatever the BIOS fails on the    *)
(* way.                                                                    *)
ReadInv == /\ disk \notin {"start", "no_disk"} => drive = Geometry
           /\ disk \notin {"start", "no_disk", "idle"} => lba \in Reachable
           /\ ReadsTheSector

LEMMA ReadInvKeeps ==
  ASSUME Lbas \subseteq Reachable, ReadInv, [ReadNext]_readVars
  PROVE  ReadInv'
<1> USE DEF ReadInv
<1>0. ASSUME NEW ok \in BOOLEAN, DISK_Initialize(ok) PROVE ReadInv'
  BY <1>0, GeometryRead DEF DISK_Initialize, ReadsTheSector
<1>1. CASE Call
  BY <1>1 DEF Call, ReadsTheSector
<1>2. CASE ReadSucceeds
  <2>1. lba \in Reachable /\ drive = Geometry
    BY <1>2 DEF ReadSucceeds
  <2> QED
    BY <1>2, <2>1, RoundTrip DEF ReadSucceeds, ReadsTheSector
<1>3. CASE ReadFails \/ Reset \/ GiveUp
  BY <1>3 DEF ReadFails, Reset, GiveUp, ReadsTheSector
<1>4. CASE Return
  BY <1>4 DEF Return, ReadsTheSector
<1>5. CASE UNCHANGED readVars
  BY <1>5 DEF readVars, ReadsTheSector
<1> QED
  BY <1>0, <1>1, <1>2, <1>3, <1>4, <1>5 DEF ReadNext

(* It gives up after exactly three failures. *)
ThreeAtMost == /\ try \in Nat /\ failures \in 0..3
               /\ disk \in {"start", "idle"} => failures = 0 /\ try = 0
               /\ disk = "read"  => try <= 3 /\ failures = try
               /\ disk = "reset" => try < 3 /\ failures = try + 1
               /\ disk = "false" => failures = 3

LEMMA ThreeKeeps ==
  ASSUME ThreeAtMost, [ReadNext]_readVars
  PROVE  ThreeAtMost'
<1> USE DEF ThreeAtMost
<1>0. ASSUME NEW ok \in BOOLEAN, DISK_Initialize(ok) PROVE ThreeAtMost'
  BY <1>0 DEF DISK_Initialize
<1>1. CASE Call
  BY <1>1 DEF Call
<1>2. CASE ReadSucceeds
  BY <1>2 DEF ReadSucceeds
<1>3. CASE ReadFails
  BY <1>3 DEF ReadFails
<1>4. CASE Reset
  BY <1>4 DEF Reset
<1>5. CASE GiveUp
  BY <1>5 DEF GiveUp
<1>6. CASE Return
  BY <1>6 DEF Return
<1>7. CASE UNCHANGED readVars
  BY <1>7 DEF readVars
<1> QED
  BY <1>0, <1>1, <1>2, <1>3, <1>4, <1>5, <1>6, <1>7 DEF ReadNext
-----------------------------------------------------------------------------
(* What Memory_Detect has stored when the loop looks at the block just read:   *)
(* all the blocks before it.  The last one is stored unless the BIOS ends its  *)
(* map with it.                                                                *)
Counted == regions = [k \in 1..Len(regions) |-> k]

Listing ==
  /\ regions \in Seq(Nat) /\ Counted
  /\ pc \in {"disk", "partition", "fat", "detect"} => regions = <<>>
  /\ pc = "blocks" =>
       \/ /\ ret \in 1..BiosRegions /\ ret = Len(regions) + 1
          /\ continuation \in {0, ret} /\ (continuation = 0 => ret = BiosRegions)
       \/ ret = -1 /\ Len(regions) = BiosRegions
  /\ pc \in {"open", "header", "segments", "seek", "kernel"} => Len(regions) >= BiosRegions - 1

LEMMA OneMore ==
  ASSUME NEW s \in Seq(Nat), s = [k \in 1..Len(s) |-> k]
  PROVE  LET t == Append(s, Len(s) + 1)
         IN  t \in Seq(Nat) /\ Len(t) = Len(s) + 1 /\ t = [k \in 1..Len(t) |-> k]
  OBVIOUS

LEMMA NextBlockListed ==
  ASSUME NEW k \in 0..BiosRegions, NextBlock(k), Len(regions') = k, k = BiosRegions => continuation = k
  PROVE  \/ /\ ret' \in 1..BiosRegions /\ ret' = Len(regions') + 1
            /\ continuation' \in {0, ret'} /\ (continuation' = 0 => ret' = BiosRegions)
         \/ ret' = -1 /\ Len(regions') = BiosRegions
  BY LoadAssumption, Z3 DEF NextBlock

(* The map the kernel gets begins with the BIOS's blocks in order and misses   *)
(* at most the last, for maps of any length.                                   *)
LEMMA ListingKeeps ==
  ASSUME Listing,
         \/ Load
         \/ \E ok \in BOOLEAN : FindDisk(ok) \/ FAT_Initialize(ok)
         \/ UNCHANGED <<detect, pc>>
  PROVE  Listing'
<1>1. ASSUME NEW ok \in BOOLEAN, FindDisk(ok) \/ FAT_Initialize(ok) PROVE Listing'
  BY <1>1 DEF FindDisk, FAT_Initialize, detect, Listing, Counted
<1>2. CASE MBR_DetectPartition
  BY <1>2 DEF MBR_DetectPartition, detect, Listing, Counted
<1>3. CASE FirstBlock
  <2>1. regions' = <<>> /\ Len(regions') = 0 /\ NextBlock(0) /\ pc' = "blocks"
    BY <1>3 DEF FirstBlock, Listing
  <2>2. 0 \in 0..BiosRegions /\ BiosRegions # 0
    BY LoadAssumption, Z3
  <2> HIDE DEF NextBlock
  <2> QED
    BY <2>1, <2>2, NextBlockListed DEF Listing, Counted
<1>4. CASE StoreBlock
  <2>1. /\ ret \in 1..BiosRegions /\ ret = Len(regions) + 1 /\ continuation = ret
    BY <1>4 DEF StoreBlock, Listing
  <2>2. regions' \in Seq(Nat) /\ Len(regions') = ret /\ Counted'
    BY <1>4, <2>1, OneMore DEF StoreBlock, Listing, Counted
  <2>3. continuation \in 0..BiosRegions /\ NextBlock(continuation) /\ pc' = "blocks"
    BY <1>4, <2>1 DEF StoreBlock
  <2> QED
    BY <2>1, <2>2, <2>3, NextBlockListed DEF Listing
<1>5. CASE BlocksEnd
  <2>1. UNCHANGED detect /\ pc = "blocks" /\ pc' = "open" /\ ~(ret > 0 /\ continuation # 0)
    BY <1>5 DEF BlocksEnd
  <2>2. BiosRegions \in Nat
    BY LoadAssumption
  <2>3. Len(regions) >= BiosRegions - 1
    BY <2>1, <2>2 DEF Listing
  <2>4. regions' \in Seq(Nat) /\ Counted'
    BY <2>1 DEF detect, Listing, Counted
  <2>5. Len(regions') >= BiosRegions - 1
    BY <2>1, <2>3 DEF detect
  <2> QED
    BY <2>1, <2>4, <2>5 DEF Listing
<1>6. CASE OpenHeader \/ ReadHeaders \/ WrongHeaders \/ SkipSegment \/ BeginSegment
  BY <1>6 DEF OpenHeader, ReadHeaders, WrongHeaders, SkipSegment, BeginSegment, OpenThen, detect, Listing, Counted
<1>7. CASE Seek \/ Copy \/ ShortOfData \/ EndSegment \/ EnterKernel
  BY <1>7 DEF Seek, Copy, ShortOfData, EndSegment, EnterKernel, Halt, detect, Listing, Counted
<1>8. CASE UNCHANGED <<detect, pc>>
  BY <1>8 DEF detect, Listing, Counted
<1> QED
  BY <1>1, <1>2, <1>3, <1>4, <1>5, <1>6, <1>7, <1>8 DEF Load
-----------------------------------------------------------------------------
(* The kernel's image.  While a segment is read, its pages are zero until  *)
(* the one chunk that it fits in has been copied.                          *)
Ahead(s) == /\ left.file = s.fileSize /\ left.address = s.address
            /\ fd.at + left.offset = s.offset
            /\ \A p \in Pages(s) : memory[p] = Zero
Done(s)  == left.offset = 0 /\ left.file = 0 /\ Whole(s)

Files   == [opened : BOOLEAN, at : Nat, stale : BOOLEAN, lost : BOOLEAN]
OnDisks == fd \in Files /\ (fd.stale \/ fd.lost => readsFail)

LoadInv ==
  /\ readsFail \in BOOLEAN
  /\ OnDisks
  /\ left \in [offset : Nat, file : Nat, address : Nat]
  /\ pc \in {"segments", "seek", "kernel"} =>
       /\ segments \in Images /\ i \in Nat \ {0}
       /\ \A k \in Loaded(segments) : k < i => Whole(segments[k])
  /\ pc = "seek" => /\ i \in Loaded(segments)
                    /\ Ahead(segments[i]) \/ Done(segments[i])
  /\ pc = "kernel" => i > Len(segments)

LoadVars == <<segments, readsFail, fd, i, left, memory, pc>>
AllLoadable == \A kernel \in Images : Loadable(kernel)

LEMMA SegmentFits ==
  ASSUME AllLoadable, NEW kernel \in Images, NEW k \in Loaded(kernel)
  PROVE  LET s == kernel[k]
         IN  /\ s \in [load : BOOLEAN, offset : Nat, address : Nat, fileSize : Nat, memorySize : Nat]
             /\ s.load /\ s.fileSize <= s.memorySize /\ s.memorySize < 16
             /\ k \in 1..Len(kernel) /\ Pages(s) \subseteq Memory
<1> DEFINE R == [load : BOOLEAN, offset : Nat, address : Nat, fileSize : Nat, memorySize : Nat]
<1>1. kernel \in Seq(R)
  BY LoadAssumption
<1> HIDE DEF R
<1>2. k \in 1..Len(kernel) /\ kernel[k].load /\ kernel[k] \in R
  BY <1>1 DEF Loaded
<1>3. kernel[k] \in [load : BOOLEAN, offset : Nat, address : Nat, fileSize : Nat, memorySize : Nat]
  BY <1>2 DEF R
<1>4. /\ kernel[k].fileSize <= kernel[k].memorySize /\ kernel[k].memorySize < LOAD_PAGES
      /\ Pages(kernel[k]) \subseteq Memory
  BY DEF AllLoadable, Loadable
<1> QED
  BY <1>2, <1>3, <1>4 DEF LOAD_PAGES

(* A read that was not cut short moves the file by what was asked for.     *)
LEMMA ReadMoves ==
  ASSUME OnDisks, NEW n \in Nat, FAT_Read(n)
  PROVE  /\ fd' \in Files
         /\ fd'.at = fd.at + n
         /\ fd'.stale \/ fd'.lost => readsFail
<1>1. /\ fd.opened \in BOOLEAN /\ fd.at + n \in Nat /\ fd.lost \in BOOLEAN
      /\ fd.lost => readsFail
  BY DEF OnDisks, Files
<1>2. PICK stale \in Unnoticed(FALSE), lost \in Unnoticed(fd.lost) :
        fd' = [opened |-> fd.opened, at |-> fd.at + n, stale |-> stale, lost |-> lost]
  BY DEF FAT_Read
<1>3. stale \in BOOLEAN /\ lost \in BOOLEAN /\ (stale \/ lost => readsFail)
  BY <1>1 DEF Unnoticed
<1> QED
  BY <1>1, <1>2, <1>3 DEF Files

(* A step that leaves the pages of a whole segment alone leaves it whole.  *)
LEMMA WholeStays ==
  ASSUME NEW s, Whole(s), \A p \in Pages(s) : memory'[p] = memory[p], readsFail' = readsFail
  PROVE  Whole(s)'
BY DEF Whole, Pages, Wanted, File, Zero, Stale, Wrong

LEMMA BeginKeeps ==
  ASSUME AllLoadable, LoadInv, BeginSegment
  PROVE  LoadInv'
<1> DEFINE s == segments[i]
<1>1. /\ pc = "segments" /\ segments \in Images /\ i \in Nat \ {0}
      /\ \A k \in Loaded(segments) : k < i => Whole(segments[k])
  BY DEF BeginSegment, LoadInv
<1>2. i \in Loaded(segments)
  <2>1. segments \in Seq([load : BOOLEAN, offset : Nat, address : Nat, fileSize : Nat, memorySize : Nat])
    BY <1>1, LoadAssumption
  <2> QED
    BY <1>1, <2>1 DEF BeginSegment, Loaded
<1>3. /\ s \in [load : BOOLEAN, offset : Nat, address : Nat, fileSize : Nat, memorySize : Nat]
      /\ s.memorySize < 16 /\ Pages(s) \subseteq Memory
  BY <1>1, <1>2, SegmentFits
<1>4. /\ memory' = MemSet(memory, s.address, Length16(s.memorySize))
      /\ left' = [offset |-> s.offset, file |-> s.fileSize, address |-> s.address]
      /\ UNCHANGED <<segments, readsFail, i>>
  BY DEF BeginSegment, image
<1>5. \A p \in Memory : memory'[p] = IF p \in Pages(s) THEN Zero ELSE memory[p]
  <2>1. Length16(s.memorySize) = s.memorySize
    BY <1>3 DEF Length16
  <2>2. \A p \in Memory : memory'[p] = IF p - s.address \in 0..s.memorySize - 1 THEN Zero ELSE memory[p]
    BY <1>4, <2>1 DEF MemSet
  <2>3. \A p \in Memory : p \in Nat
    BY LoadAssumption
  <2>4. \A p \in Memory : p - s.address \in 0..s.memorySize - 1 <=> p \in Pages(s)
    BY <1>3, <2>3 DEF Pages
  <2> QED
    BY <2>2, <2>4, Zenon
<1>6. ASSUME NEW k \in Loaded(segments), k < i PROVE Whole(segments[k])'
  <2>1. Pages(segments[k]) \cap Pages(s) = {} /\ Pages(segments[k]) \subseteq Memory
    BY <1>1, <1>2, <1>6, SegmentFits DEF AllLoadable, Loadable
  <2> QED
    BY <1>1, <1>4, <1>5, <1>6, <2>1, WholeStays
<1>7. ASSUME NEW l \in BOOLEAN, fd' = Opened(l), l => readsFail, pc' = "seek"
      PROVE  LoadInv'
  <2>1. fd' = [opened |-> TRUE, at |-> 0, stale |-> FALSE, lost |-> l]
    BY <1>7 DEF Opened
  <2>2. OnDisks'
    <3>1. fd' \in Files /\ fd'.stale = FALSE /\ fd'.lost = l /\ readsFail' = readsFail
      BY <1>4, <2>1 DEF Files
    <3> QED
      BY <1>7, <3>1 DEF OnDisks
  <2>3. Ahead(s)'
    BY <1>3, <1>4, <1>5, <2>1 DEF Ahead
  <2> QED
    BY <1>1, <1>2, <1>3, <1>4, <1>6, <1>7, <2>2, <2>3 DEF LoadInv, Loaded
<1>8. CASE pc' = "wild" /\ UNCHANGED fd
  BY <1>3, <1>4, <1>8 DEF LoadInv, OnDisks
<1>9. CASE fd' = Opened(FALSE) /\ pc' = "seek"
  BY <1>7, <1>9
<1>10. CASE readsFail /\ fd' = Opened(TRUE) /\ pc' = "seek"
  BY <1>7, <1>10
<1> QED
  BY <1>8, <1>9, <1>10 DEF BeginSegment, OpenThen

(* One chunk takes in the whole file of a segment, and no other's pages.   *)
LEMMA CopyKeeps ==
  ASSUME AllLoadable, LoadInv, Copy
  PROVE  LoadInv'
<1> DEFINE s == segments[i]
           n == Least(left.file, LOAD_PAGES)
           page(k) == IF fd'.lost THEN Wrong
                      ELSE IF k = 0 /\ fd.stale THEN Stale ELSE File(fd.at + k)
<1>1. /\ pc = "seek" /\ segments \in Images /\ i \in Loaded(segments) /\ i \in Nat \ {0}
      /\ \A k \in Loaded(segments) : k < i => Whole(segments[k])
      /\ left.offset = 0 /\ left.file > 0 /\ UNCHANGED <<segments, readsFail, i, pc>>
  BY DEF Copy, LoadInv, image
<1>2. /\ s \in [load : BOOLEAN, offset : Nat, address : Nat, fileSize : Nat, memorySize : Nat]
      /\ s.fileSize <= s.memorySize /\ s.memorySize < 16 /\ Pages(s) \subseteq Memory
  BY <1>1, SegmentFits
<1>3. Ahead(s)
  BY <1>1, <1>2 DEF LoadInv, Done
<1>4. left.file = s.fileSize /\ left.address = s.address /\ fd.at = s.offset /\ n = s.fileSize
  BY <1>1, <1>2, <1>3 DEF Ahead, Least, LOAD_PAGES, LoadInv, OnDisks, Files
<1>5. /\ FAT_Read(n)
      /\ memory' = [p \in Memory |-> IF p - left.address \in 0..Length16(n) - 1
                                     THEN page(p - left.address) ELSE memory[p]]
      /\ left' = [offset |-> 0, file |-> left.file - n, address |-> left.address + n]
  BY DEF Copy
<1>6. Length16(n) = s.fileSize
  BY <1>2, <1>4 DEF Length16
<1> HIDE DEF n, page
<1>7. \A p \in Memory : memory'[p] = IF p - s.address \in 0..s.fileSize - 1
                                     THEN page(p - s.address) ELSE memory[p]
  BY <1>4, <1>5, <1>6
<1>8. OnDisks'
  <2>1. n \in Nat
    BY <1>2, <1>4
  <2> QED
    BY <1>1, <1>5, <2>1, ReadMoves DEF LoadInv, OnDisks
<1>9. Whole(s)'
  <2>1. ASSUME NEW p \in Pages(s)
        PROVE  memory'[p] \in Wanted(s, p)
    <3>1. p \in Memory /\ p - s.address \in 0..s.memorySize - 1
      BY <1>2 DEF Pages
    <3>2. CASE p - s.address < s.fileSize
      <4>1. memory'[p] = page(p - s.address)
        BY <1>2, <1>7, <3>1, <3>2
      <4>2. fd.at + (p - s.address) = s.offset + p - s.address
        BY <1>2, <1>4, <3>1
      <4>3. fd.stale \/ fd'.lost => readsFail
        BY <1>1, <1>8 DEF LoadInv, OnDisks
      <4>4. \/ page(p - s.address) = File(s.offset + p - s.address)
            \/ readsFail /\ page(p - s.address) \in {Stale, Wrong}
        BY <4>2, <4>3 DEF page
      <4> QED
        BY <3>2, <4>1, <4>4 DEF Wanted
    <3>3. CASE ~(p - s.address < s.fileSize)
      BY <1>2, <1>3, <1>7, <3>1, <3>3 DEF Ahead, Wanted
    <3> QED
      BY <3>2, <3>3
  <2> QED
    BY <1>1, <2>1 DEF Whole, Pages, Wanted, File, Zero, Stale, Wrong
<1>10. Done(s)' /\ left' \in [offset : Nat, file : Nat, address : Nat]
  <2>1. left \in [offset : Nat, file : Nat, address : Nat] /\ n \in Nat
    BY <1>2, <1>4 DEF LoadInv
  <2>2. left'.offset = 0 /\ left'.file = 0 /\ left' \in [offset : Nat, file : Nat, address : Nat]
    BY <1>1, <1>4, <1>5, <2>1
  <2> QED
    BY <1>9, <2>2 DEF Done
<1>11. ASSUME NEW k \in Loaded(segments), k < i PROVE Whole(segments[k])'
  <2>0. i \in Loaded(segments) /\ i # k /\ Loadable(segments) /\ Whole(segments[k])
    <3>1. k \in 1..Len(segments)
      BY <1>1, <1>11, SegmentFits
    <3> QED
      BY <1>1, <1>11, <3>1 DEF AllLoadable
  <2>1. /\ Pages(segments[k]) \cap Pages(s) = {} /\ Pages(segments[k]) \subseteq Memory
        /\ Whole(segments[k])
    BY <1>11, <2>0 DEF Loadable
  <2>2. ASSUME NEW p \in Pages(segments[k]) PROVE memory'[p] = memory[p]
    <3>1. p \in Memory /\ p \in Nat /\ p \notin Pages(s)
      BY <2>1, LoadAssumption
    <3>2. p - s.address \notin 0..s.fileSize - 1
      BY <1>2, <3>1 DEF Pages
    <3> QED
      BY <1>7, <3>1, <3>2
  <2> QED
    BY <1>1, <2>1, <2>2, WholeStays
<1> QED
  BY <1>1, <1>8, <1>10, <1>11 DEF LoadInv, Loaded

LEMMA SeekKeeps ==
  ASSUME AllLoadable, LoadInv, Seek
  PROVE  LoadInv'
<1> DEFINE s == segments[i]
           n == Least(left.offset, LOAD_PAGES)
<1>1. /\ pc = "seek" /\ i \in Loaded(segments) /\ left.offset > 0
      /\ UNCHANGED <<segments, readsFail, i, memory, pc>>
      /\ FAT_Read(n) /\ left' = [left EXCEPT !.offset = @ - n]
  BY DEF Seek, LoadInv, image
<1>2. n \in 1..left.offset
  BY <1>1 DEF Least, LOAD_PAGES, LoadInv
<1> HIDE DEF n
<1>3. OnDisks' /\ fd'.at = fd.at + n
  <2>1. n \in Nat /\ left.offset \in Nat
    BY <1>2 DEF LoadInv
  <2> QED
    BY <1>1, <2>1, ReadMoves DEF LoadInv, OnDisks
<1>4. left' \in [offset : Nat, file : Nat, address : Nat] /\ left'.offset = left.offset - n
      /\ left'.file = left.file /\ left'.address = left.address
  BY <1>1, <1>2 DEF LoadInv
<1>5. Ahead(s)'
  <2>1. Ahead(s) /\ segments \in Images
    BY <1>1 DEF LoadInv, Done
  <2>2. s.offset \in Nat
    BY <1>1, <2>1, SegmentFits
  <2> QED
    BY <1>1, <1>2, <1>3, <1>4, <2>1, <2>2 DEF Ahead, LoadInv, OnDisks, Files, Pages, Zero
<1> QED
  BY <1>1, <1>3, <1>4, <1>5 DEF LoadInv, Loaded, Whole, Pages, Wanted, File, Zero, Stale

LEMMA EndKeeps ==
  ASSUME AllLoadable, LoadInv, EndSegment
  PROVE  LoadInv'
<1> DEFINE s == segments[i]
<1>1. /\ pc = "seek" /\ segments \in Images /\ i \in Loaded(segments) /\ i \in Nat \ {0}
      /\ \A k \in Loaded(segments) : k < i => Whole(segments[k])
      /\ left.offset = 0 /\ left.file = 0 /\ UNCHANGED <<segments, readsFail, left, memory>>
      /\ i' = i + 1 /\ pc' = "segments" /\ fd' = [fd EXCEPT !.opened = FALSE]
  BY DEF EndSegment, LoadInv, image
<1>2. Whole(s)
  <2>1. CASE Ahead(s)
    <3>1. s.fileSize = 0 /\ s.address \in Nat /\ s.memorySize \in Nat
      BY <1>1, <2>1, SegmentFits DEF Ahead
    <3> QED
      BY <2>1, <3>1 DEF Ahead, Whole, Wanted, Pages
  <2> QED
    BY <1>1, <2>1 DEF LoadInv, Done
<1>3. \A k \in Loaded(segments) : k < i + 1 => Whole(segments[k])
  <2>1. \A k \in Loaded(segments) : k \in Nat
    BY <1>1, SegmentFits
  <2> QED
    BY <1>1, <1>2, <2>1
<1>4. \A k \in Loaded(segments') : k < i' => Whole(segments[k])'
  BY <1>1, <1>3, WholeStays
<1> QED
  <2>1. OnDisks'
    BY <1>1 DEF LoadInv, OnDisks, Files
  <2>2. i' \in Nat \ {0} /\ left' \in [offset : Nat, file : Nat, address : Nat] /\ readsFail' \in BOOLEAN
    BY <1>1 DEF LoadInv
  <2> QED
    BY <1>1, <1>4, <2>1, <2>2 DEF LoadInv

(* Every step that stage 2 may take on its way to the kernel.              *)
LoadStep == \/ Load
            \/ \E ok \in BOOLEAN : FindDisk(ok) \/ FAT_Initialize(ok)
            \/ UNCHANGED LoadVars

LEMMA LoadKeeps ==
  ASSUME AllLoadable, LoadInv, LoadStep
  PROVE  LoadInv'
<1> USE DEF LoadInv, Whole, Pages, Wanted, File, Zero, Stale, Wrong, Ahead, Done, Loaded
<1>0. UNCHANGED <<fd, readsFail>> => OnDisks'
  BY DEF OnDisks
<1> HIDE DEF OnDisks
<1>1. ASSUME NEW ok \in BOOLEAN, FindDisk(ok) \/ FAT_Initialize(ok) PROVE LoadInv'
  BY <1>0, <1>1 DEF FindDisk, FAT_Initialize, elf, image
<1>2. CASE MBR_DetectPartition \/ FirstBlock \/ StoreBlock \/ BlocksEnd
  BY <1>0, <1>2 DEF MBR_DetectPartition, FirstBlock, StoreBlock, BlocksEnd, elf, image
<1>3. CASE OpenHeader
  <2>1. /\ pc' \in {"header", "wild"} /\ UNCHANGED <<readsFail, left>>
        /\ fd' = fd \/ fd' = Opened(FALSE) \/ (readsFail /\ fd' = Opened(TRUE))
    BY <1>3 DEF OpenHeader, OpenThen, image
  <2>2. OnDisks'
    <3>1. CASE fd' = fd
      BY <1>0, <2>1, <3>1
    <3>2. ASSUME NEW l \in BOOLEAN, fd' = Opened(l), l => readsFail PROVE OnDisks'
      <4>1. fd' \in Files /\ fd'.stale = FALSE /\ fd'.lost = l
        BY <3>2 DEF Files, Opened
      <4> QED
        BY <2>1, <3>2, <4>1 DEF OnDisks
    <3> QED
      BY <2>1, <3>1, <3>2
  <2> QED
    BY <2>1, <2>2
<1>4. CASE ReadHeaders
  <2>1. /\ fd' = [fd EXCEPT !.opened = FALSE] /\ UNCHANGED <<readsFail, left>>
        /\ segments' \in Images /\ i' = 1 /\ pc' = "segments"
    BY <1>4 DEF ReadHeaders
  <2>2. OnDisks'
    BY <2>1 DEF OnDisks, Files
  <2>3. \A k \in Loaded(segments') : k \in Nat \ {0}
    BY <2>1, SegmentFits
  <2> QED
    BY <2>1, <2>2, <2>3
<1>5. CASE SkipSegment
  <2>1. /\ UNCHANGED <<segments, readsFail, fd, left, memory, pc>> /\ pc = "segments"
        /\ i' = i + 1 /\ i \notin Loaded(segments)
    BY <1>5 DEF SkipSegment, image
  <2>2. \A k \in Loaded(segments) : k \in Nat /\ (k < i + 1 => k < i)
    BY <2>1, SegmentFits
  <2>3. \A k \in Loaded(segments') : k < i' => Whole(segments[k])'
    BY <2>1, <2>2
  <2>4. OnDisks' /\ i' \in Nat \ {0}
    BY <1>0, <2>1
  <2> QED
    BY <2>1, <2>3, <2>4
<1>6. CASE ShortOfData \/ WrongHeaders
  BY <1>0, <1>6 DEF ShortOfData, WrongHeaders, Halt, elf, image
<1>7. CASE EnterKernel
  BY <1>0, <1>7 DEF EnterKernel, elf, image
<1>8. CASE UNCHANGED LoadVars
  BY <1>0, <1>8 DEF LoadVars
<1> QED
  BY <1>1, <1>2, <1>3, <1>4, <1>5, <1>6, <1>7, <1>8,
     BeginKeeps, SeekKeeps, CopyKeeps, EndKeeps DEF LoadStep, Load

LEMMA UnloadedLoadInv ==
  ASSUME Unloaded
  PROVE  LoadInv
BY DEF Unloaded, LoadInv, OnDisks, Files

LEMMA LoadInvWhole ==
  ASSUME AllLoadable, LoadInv
  PROVE  KernelWhole
<1> SUFFICES ASSUME pc = "kernel", NEW k \in DOMAIN segments, segments[k].load
             PROVE  Whole(segments[k])
  BY DEF KernelWhole
<1>1. segments \in Images /\ k \in Loaded(segments) /\ i > Len(segments) /\ i \in Nat
  BY DEF LoadInv, Loaded
<1>2. k \in 1..Len(segments) /\ Len(segments) \in Nat
  BY <1>1, SegmentFits, LoadAssumption
<1> QED
  BY <1>1, <1>2 DEF LoadInv

-----------------------------------------------------------------------------
(* Induction over a set of naturals. *)
LEMMA SetInduction ==
  ASSUME NEW S, 0 \in S, \A n \in Nat : n \in S => n + 1 \in S
  PROVE  Nat \subseteq S
<1> DEFINE T == {n \in Nat : n \notin S}
<1>1. SUFFICES ASSUME T # {} PROVE FALSE
  OBVIOUS
<1>2. PICK x \in T : \A y \in T : ~(<<y, x>> \in OpToRel(<, Nat))
  <2>1. T \subseteq Nat /\ IsWellFoundedOn(OpToRel(<, Nat), Nat)
    BY NatLessThanWellFounded
  <2> HIDE DEF T
  <2> QED
    BY <1>1, <2>1, WFMin
<1>3. x \in Nat /\ x \notin S /\ x # 0
  OBVIOUS
<1>4. x - 1 \in T
  BY <1>3
<1>5. <<x - 1, x>> \in OpToRel(<, Nat)
  BY <1>3 DEF OpToRel
<1> QED
  BY <1>2, <1>4, <1>5

Runs == Len(stage2_location)

LEMMA TableType ==
  /\ Runs \in Nat
  /\ \A n \in 1..Runs : stage2_location[n].lba \in Nat /\ stage2_location[n].count \in 1..128
<1> DEFINE R == [lba : Nat, count : 1..128]
<1>1. stage2_location \in Seq(R)
  BY TableAssumption
<1>2. \A r \in R : r.lba \in Nat /\ r.count \in 1..128
  OBVIOUS
<1> HIDE DEF R
<1>3. Runs \in Nat /\ \A n \in 1..Runs : stage2_location[n] \in R
  BY <1>1 DEF Runs
<1> QED
  BY <1>2, <1>3

Adds(S, n) == IF n = 0 THEN 0 ELSE S[n - 1] + stage2_location[n].count

(* The recursion that defines Size has a solution on every prefix.         *)
LEMMA SumsExist ==
  \A n \in Nat : n <= Runs => \E f \in [0..n -> Nat] : f = [m \in 0..n |-> Adds(f, m)]
<1> DEFINE Solved(n, f) == \A m \in 0..n : f[m] = Adds(f, m)
           S == {n \in Nat : n <= Runs => \E f \in [0..n -> Nat] : Solved(n, f)}
<1>1. 0 \in S
  <2>1. [m \in 0..0 |-> 0] \in [0..0 -> Nat] /\ Solved(0, [m \in 0..0 |-> 0])
    BY DEF Adds
  <2> QED
    BY <2>1
<1>2. ASSUME NEW n \in Nat, n + 1 <= Runs, NEW f \in [0..n -> Nat], Solved(n, f)
      PROVE  \E g \in [0..(n + 1) -> Nat] : Solved(n + 1, g)
  <2> DEFINE c == stage2_location[n + 1].count
             g == [m \in 0..(n + 1) |-> IF m <= n THEN f[m] ELSE f[n] + c]
  <2>1. n + 1 \in 1..Runs
    BY <1>2, TableType
  <2>2. c \in Nat /\ f[n] \in Nat
    <3>1. c \in 1..128
      BY <2>1, TableType
    <3> HIDE DEF c, g
    <3>2. n \in 0..n
      OBVIOUS
    <3> QED
      BY <3>1, <3>2
  <2> HIDE DEF c
  <2>3. g \in [0..(n + 1) -> Nat]
    BY <2>2
  <2>4. ASSUME NEW m \in 0..(n + 1) PROVE g[m] = Adds(g, m)
    <3>1. CASE m = 0
      BY <1>2, <3>1 DEF Adds
    <3>2. CASE m \in 1..n
      <4>1. g[m] = f[m] /\ g[m - 1] = f[m - 1]
        BY <3>2
      <4>2. f[m] = Adds(f, m)
        BY <1>2, <3>2
      <4> QED
        BY <3>2, <4>1, <4>2 DEF Adds
    <3>3. CASE m = n + 1
      <4>1. g[m] = f[n] + c /\ g[m - 1] = f[n]
        BY <3>3
      <4> QED
        BY <3>3, <4>1 DEF Adds, c
    <3> QED
      BY <3>1, <3>2, <3>3
  <2> HIDE DEF g
  <2> QED
    BY <2>3, <2>4
<1>3. ASSUME NEW n \in Nat, n \in S PROVE n + 1 \in S
  <2>1. SUFFICES ASSUME n + 1 <= Runs PROVE \E g \in [0..(n + 1) -> Nat] : Solved(n + 1, g)
    OBVIOUS
  <2>2. n <= Runs
    BY <2>1, TableType
  <2>3. \E f \in [0..n -> Nat] : Solved(n, f)
    BY <1>3, <2>2
  <2> HIDE DEF Solved
  <2> QED
    BY <1>2, <2>1, <2>3
<1>4. Nat \subseteq S
  <2> HIDE DEF S
  <2> QED
    BY <1>1, <1>3, SetInduction, Zenon
<1> QED
  <2> SUFFICES ASSUME NEW n \in Nat, n <= Runs
               PROVE  \E f \in [0..n -> Nat] : f = [m \in 0..n |-> Adds(f, m)]
    OBVIOUS
  <2>1. PICK f \in [0..n -> Nat] : Solved(n, f)
    BY <1>4
  <2>2. f = [m \in 0..n |-> f[m]] /\ \A m \in 0..n : f[m] = Adds(f, m)
    BY <2>1
  <2>3. f = [m \in 0..n |-> Adds(f, m)]
    BY <2>2
  <2> QED
    BY <2>3, Zenon

LEMMA SizeRecursion ==
  /\ One!Size[0] = 0
  /\ \A n \in 1..Runs : One!Size[n] = One!Size[n - 1] + stage2_location[n].count
<1>1. \E S : S = [n \in 0..Runs |-> Adds(S, n)]
  BY SumsExist, TableType
<1>2. One!Size = CHOOSE S : S = [n \in 0..Runs |-> Adds(S, n)]
  BY DEF One!Size, Runs, Adds
<1>3. One!Size = [n \in 0..Runs |-> Adds(One!Size, n)]
  BY <1>1, <1>2, Zenon
<1> HIDE DEF One!Size
<1>4. \A n \in 0..Runs : One!Size[n] = Adds(One!Size, n)
  BY <1>3
<1>5. 0 \in 0..Runs /\ \A n \in 1..Runs : n \in 0..Runs /\ n # 0
  BY TableType
<1> QED
  BY <1>4, <1>5 DEF Adds

LEMMA SizeGrows ==
  /\ \A n \in 0..Runs : One!Size[n] \in Nat
  /\ \A m, n \in 0..Runs : m < n => One!Size[m] < One!Size[n]
<1> HIDE DEF One!Size
<1>1. ASSUME NEW n \in 1..Runs
      PROVE  One!Size[n] = One!Size[n - 1] + stage2_location[n].count /\ stage2_location[n].count \in 1..128
  BY SizeRecursion, TableType
<1> DEFINE Z == One!Size
           Fine(n) == Z[n] \in Nat /\ \A m \in 0..(n - 1) : Z[m] < Z[n]
           S == {n \in Nat : n <= Runs => \A k \in 0..n : Fine(k)}
<1>2. 0 \in S
  BY SizeRecursion
<1>3. ASSUME NEW n \in Nat, n + 1 <= Runs, \A k \in 0..n : Fine(k) PROVE Fine(n + 1)
  <2>1. n + 1 \in 1..Runs
    BY <1>3, TableType
  <2>2. Z[n + 1] = Z[n] + stage2_location[n + 1].count /\ stage2_location[n + 1].count \in 1..128
    BY <1>1, <2>1
  <2> HIDE DEF Z
  <2>3. Z[n] \in Nat /\ \A m \in 0..(n - 1) : Z[m] < Z[n]
    BY <1>3
  <2>4. Z[n + 1] \in Nat /\ Z[n] < Z[n + 1]
    BY <2>2, <2>3
  <2>5. ASSUME NEW m \in 0..(n + 1 - 1) PROVE Z[m] < Z[n + 1]
    <3>1. CASE m = n
      BY <2>4, <3>1
    <3>2. CASE m # n
      <4>1. m \in 0..(n - 1) /\ m \in 0..n
        BY <3>2
      <4>2. Z[m] < Z[n] /\ Z[m] \in Nat
        BY <1>3, <2>3, <4>1
      <4> QED
        BY <2>3, <2>4, <4>2
    <3> QED
      BY <3>1, <3>2
  <2> QED
    BY <2>4, <2>5
<1>4. ASSUME NEW n \in Nat, n \in S PROVE n + 1 \in S
  <2>1. SUFFICES ASSUME n + 1 <= Runs PROVE \A k \in 0..(n + 1) : Fine(k)
    OBVIOUS
  <2>2. n <= Runs
    BY <2>1, TableType
  <2>3. \A k \in 0..n : Fine(k)
    BY <1>4, <2>2
  <2>4. \A k \in 0..(n + 1) : k \in 0..n \/ k = n + 1
    OBVIOUS
  <2> HIDE DEF Fine
  <2> QED
    BY <1>3, <2>1, <2>3, <2>4
<1>5. Nat \subseteq S
  <2> HIDE DEF S
  <2> QED
    BY <1>2, <1>4, SetInduction, Zenon
<1>6. \A n \in 0..Runs : Fine(n)
  <2>1. Runs \in S
    BY <1>5, TableType
  <2> HIDE DEF Fine
  <2> QED
    BY <2>1, TableType
<1> QED
  BY <1>6, TableType

(* Sector k of stage 2 is that of the only run that holds it.              *)
LEMMA Stage2Sector ==
  ASSUME NEW m \in 1..Runs, NEW k \in Nat, One!Size[m - 1] <= k, k < One!Size[m]
  PROVE  /\ k \in DOMAIN One!Stage2
         /\ One!Stage2[k] = stage2_location[m].lba + (k - One!Size[m - 1])
<1> HIDE DEF One!Size
<1> DEFINE Z == One!Size
           Holds(n) == Z[n - 1] <= k /\ k < Z[n]
<1>1. \A n \in 0..Runs : Z[n] \in Nat /\ \A l \in 0..Runs : l < n => Z[l] < Z[n]
  BY SizeGrows
<1>2. DOMAIN stage2_location = 1..Runs /\ Runs \in Nat
  BY TableAssumption, TableType DEF Runs
<1>3. k \in 0..Z[Runs] - 1
  <2>1. m \in 0..Runs /\ Runs \in 0..Runs
    BY <1>2
  <2>2. Z[m] <= Z[Runs]
    BY <1>1, <1>2, <2>1
  <2> QED
    BY <1>1, <2>1, <2>2
<1>4. ASSUME NEW n \in 1..Runs, Holds(n) PROVE n = m
  <2>1. n \in 0..Runs /\ n - 1 \in 0..Runs /\ m \in 0..Runs /\ m - 1 \in 0..Runs
    BY <1>2
  <2> HIDE DEF Z
  <2>2. CASE n < m
    <3>1. Z[n] <= Z[m - 1]
      BY <1>1, <2>1, <2>2
    <3> QED
      BY <1>1, <1>4, <2>1, <3>1 DEF Z
  <2>3. CASE m < n
    <3>1. Z[m] <= Z[n - 1]
      BY <1>1, <2>1, <2>3
    <3> QED
      BY <1>1, <1>4, <2>1, <3>1 DEF Z
  <2> QED
    BY <2>1, <2>2, <2>3
<1>5. m = CHOOSE n \in DOMAIN stage2_location : Holds(n)
  <2>1. Holds(m)
    OBVIOUS
  <2> HIDE DEF Holds
  <2> QED
    BY <1>2, <1>4, <2>1
<1>6. One!Stage2[k] = LET n == CHOOSE x \in DOMAIN stage2_location : Holds(x)
                      IN  stage2_location[n].lba + (k - Z[n - 1])
  BY <1>3 DEF One!Stage2, Runs
<1>7. k \in DOMAIN One!Stage2
  BY <1>3 DEF One!Stage2, Runs
<1> QED
  BY <1>5, <1>6, <1>7
-----------------------------------------------------------------------------
(* The boot sector. *)

(* The boot sector's arithmetic gives the same registers as disk.c's.      *)
LEMMA SameRegisters ==
  ASSUME NEW n \in Reachable, Word(n) = n
  PROVE  lba_to_chs([heads |-> Heads, sectors |-> SectorsPerTrack], n)
           = x86_Disk_Read(DISK_LBA2CHS(Geometry, n))
<1> DEFINE t == n \div SectorsPerTrack
           s == n % SectorsPerTrack
           c == t \div Heads
           h == t % Heads
<1>1. n \in Nat /\ SectorsPerTrack \in Nat \ {0} /\ Heads \in Nat \ {0}
  BY GeometryAssumption DEF Reachable
<1>2. t \in Nat /\ s \in 0..SectorsPerTrack - 1 /\ n = SectorsPerTrack * t + s
  BY <1>1, DivMod
<1>3. t <= n
  BY <1>1, <1>2, QuotientSmaller
<1> HIDE DEF t, s
<1>4. c \in Nat /\ h \in 0..Heads - 1 /\ t = Heads * c + h
  BY <1>1, <1>2, DivMod
<1>5. c <= t
  BY <1>1, <1>2, QuotientSmaller
<1> HIDE DEF c, h
<1>6. Word(n) = n /\ Word(s + 1) = s + 1 /\ Word(c) = c /\ Word(h) = h /\ (s + 1) % 64 = s + 1
  BY <1>1, <1>2, <1>3, <1>4, <1>5, GeometryAssumption, Z3 DEF Word
<1>7. DISK_LBA2CHS(Geometry, n) = [sector |-> s + 1, cylinder |-> c, head |-> h]
  BY <1>6 DEF DISK_LBA2CHS, Geometry, s, c, h, t
<1>8. x86_Disk_Read(DISK_LBA2CHS(Geometry, n))
        = [ch |-> Byte(c), cl |-> Byte(Byte(c \div 256) * 64) + (s + 1), dh |-> Byte(h)]
  BY <1>6, <1>7 DEF x86_Disk_Read
<1>9. lba_to_chs([heads |-> Heads, sectors |-> SectorsPerTrack], n)
        = [ch |-> Byte(c), cl |-> Byte(Byte(c \div 256) * 64) + s + 1, dh |-> Byte(h)]
  BY <1>6 DEF lba_to_chs, s, c, h, t
<1>10. Byte(Byte(c \div 256) * 64) + s + 1 = Byte(Byte(c \div 256) * 64) + (s + 1)
  <2>1. c \div 256 \in Nat
    BY <1>4, Z3
  <2>2. Byte(c \div 256) \in Nat
    BY <2>1, Z3 DEF Byte
  <2>3. Byte(Byte(c \div 256) * 64) \in Nat
    BY <2>2, Z3 DEF Byte
  <2> QED
    BY <1>2, <2>3
<1> QED
  BY <1>8, <1>9, <1>10

LEMMA FirstSectorIsAsked ==
  ASSUME Addressable, have_extensions \/ One!SameGeometry, NEW n \in 1..Runs
  PROVE  One!FirstSector(stage2_location[n].lba) = stage2_location[n].lba
<1> DEFINE l == stage2_location[n].lba
<1>1. l \in Reachable /\ Word(l) = l
  <2>1. n \in DOMAIN stage2_location
    BY TableAssumption DEF Runs
  <2> QED
    BY <2>1 DEF Addressable
<1>2. CASE have_extensions
  BY <1>2 DEF One!FirstSector
<1>3. CASE ~have_extensions
  <2>1. bdb = [heads |-> Heads, sectors |-> SectorsPerTrack]
    BY <1>3 DEF One!SameGeometry
  <2>2. One!FirstSector(l) = BiosSector(lba_to_chs(bdb, l))
    BY <1>3 DEF One!FirstSector, One!BiosSector, BiosSector, One!lba_to_chs, lba_to_chs,
                One!Byte, Byte, One!Word, Word
  <2> HIDE DEF l
  <2>3. BiosSector(lba_to_chs(bdb, l)) = l
    BY <1>1, <2>1, SameRegisters, RoundTrip
  <2> QED
    BY <2>2, <2>3 DEF l
<1> QED
  BY <1>2, <1>3

Reading == {"start", "after", "loop", "retry", "reset"}
Sound   == have_extensions \/ One!SameGeometry

(* A sector the boot sector has asked for, and what of it may be missing.  *)
Brought(k) == stage2[k] = One!Stage2[k] \/ (shortened /\ stage2[k] = One!Empty)

SectorInv ==
  /\ stage2 = [k \in DOMAIN One!Stage2 |-> stage2[k]]
  /\ at \in {"start", "after"} => si = 1 /\ ~shortened
  /\ at \in Reading => si \in 1..(Runs + 1) /\ es = One!Size[si - 1]
  /\ at \in {"retry", "reset"} => si <= Runs
  /\ at = "retry" => failed \in 0..2 /\ di = 3 - failed
  /\ at = "reset" => failed \in 1..3 /\ di = 4 - failed
  /\ at = "floppy_error" => failed = IF di = 0 THEN 3 ELSE 4 - di
  /\ shortened => have_extensions
  /\ at \in {"retry", "reset"} /\ have_extensions =>
       /\ count \in 0..stage2_location[si].count
       /\ shortened \/ count = stage2_location[si].count
  /\ at \in Reading => \A k \in DOMAIN One!Stage2 : k >= es => stage2[k] = One!Empty
  /\ Sound => /\ at \in Reading => \A k \in 0..(es - 1) : Brought(k)
              /\ at = "stage2" => \A k \in DOMAIN One!Stage2 : Brought(k)

LEMMA SizeInside ==
  ASSUME NEW m \in 0..Runs, NEW k \in 0..(One!Size[m] - 1)
  PROVE  k \in DOMAIN One!Stage2
<1> HIDE DEF One!Size
<1>1. Runs \in 0..Runs /\ One!Size[m] \in Nat /\ One!Size[Runs] \in Nat
  BY TableType, SizeGrows
<1>2. One!Size[m] <= One!Size[Runs]
  <2>1. CASE m = Runs
    BY <1>1, <2>1
  <2>2. CASE m < Runs
    BY <1>1, <2>2, SizeGrows
  <2> QED
    BY <2>1, <2>2, TableType
<1>3. k \in 0..One!Size[Runs] - 1
  BY <1>1, <1>2
<1> QED
  BY <1>3 DEF One!Stage2, Runs

(* A run read from its first sector on is stage 2's next stretch.          *)
LEMMA ReadKeeps ==
  ASSUME Addressable, SectorInv, One!ReadSucceeds
  PROVE  SectorInv'
<1> HIDE DEF One!Size, One!Stage2
<1> DEFINE run == stage2_location[si]
           n == IF have_extensions THEN count ELSE run.count
<1>1. /\ at = "retry" /\ at' = "loop" /\ si' = si + 1 /\ es' = es + run.count
      /\ UNCHANGED <<bdb, have_extensions, di, count, failed, shortened>>
      /\ stage2' = One!Transferred
  BY DEF One!ReadSucceeds
<1>2. si \in 1..Runs /\ Runs \in Nat /\ es = One!Size[si - 1]
  BY <1>1, TableType DEF SectorInv, Reading
<1>3. es' = One!Size[si] /\ es \in Nat /\ es' \in Nat /\ run.count \in 1..128 /\ run.lba \in Nat
  BY <1>1, <1>2, SizeRecursion, SizeGrows, TableType
<1>4. stage2' = [k \in DOMAIN One!Stage2 |->
                   IF k - es \in 0..n - 1 THEN One!FirstSector(run.lba) + k - es ELSE stage2[k]]
  BY <1>1 DEF One!Transferred, SectorInv
<1>5. Sound' <=> Sound
  BY <1>1 DEF Sound, One!SameGeometry
<1>6. n \in 0..run.count /\ (shortened \/ n = run.count)
  BY <1>1, <1>2, <1>3 DEF SectorInv
<1>7. ASSUME NEW k \in DOMAIN One!Stage2, k - es \notin 0..n - 1 PROVE stage2'[k] = stage2[k]
  BY <1>4, <1>7
<1>8. ASSUME Sound, NEW k \in 0..(es' - 1) PROVE Brought(k)'
  <2>1. One!FirstSector(run.lba) = run.lba
    BY <1>2, <1>8, FirstSectorIsAsked DEF Sound
  <2>2. k \in DOMAIN One!Stage2
    BY <1>2, <1>3, <1>8, SizeInside
  <2>3. CASE k < es
    <3>1. k - es \notin 0..n - 1
      BY <1>3, <1>6, <2>3
    <3>2. Brought(k)
      BY <1>1, <1>2, <1>3, <1>8, <2>3 DEF SectorInv, Reading
    <3> QED
      BY <1>1, <1>7, <2>2, <3>1, <3>2 DEF Brought
  <2>4. CASE k >= es /\ k - es \in 0..n - 1
    <3>1. One!Stage2[k] = run.lba + (k - es)
      BY <1>2, <1>3, <1>8, <2>4, Stage2Sector
    <3>2. stage2'[k] = run.lba + k - es
      BY <1>4, <2>1, <2>2, <2>4
    <3>3. stage2'[k] = One!Stage2[k]
      BY <1>3, <2>4, <3>1, <3>2
    <3> QED
      BY <3>3 DEF Brought
  <2>5. CASE k >= es /\ k - es \notin 0..n - 1
    <3>1. shortened
      BY <1>1, <1>3, <1>6, <1>8, <2>5
    <3>2. stage2[k] = One!Empty
      BY <1>1, <2>2, <2>5 DEF SectorInv, Reading
    <3>3. stage2'[k] = One!Empty
      BY <1>7, <2>2, <2>5, <3>2
    <3> QED
      BY <1>1, <3>1, <3>3 DEF Brought
  <2> QED
    BY <1>3, <2>3, <2>4, <2>5
<1>9. ASSUME NEW k \in DOMAIN One!Stage2, k >= es' PROVE stage2'[k] = One!Empty
  <2>1. k \in Nat
    BY <1>9, TableType, SizeGrows DEF One!Stage2, Runs
  <2>2. k >= es /\ k - es \notin 0..n - 1
    BY <1>1, <1>3, <1>6, <1>9, <2>1
  <2>3. stage2[k] = One!Empty
    BY <1>1, <1>9, <2>2 DEF SectorInv, Reading
  <2> QED
    BY <1>7, <1>9, <2>2, <2>3
<1>10. stage2' = [k \in DOMAIN One!Stage2 |-> stage2'[k]]
  BY <1>4
<1>11. si' \in 1..(Runs + 1) /\ es' = One!Size[si' - 1]
  BY <1>1, <1>2, <1>3
<1>12. shortened' => have_extensions'
  BY <1>1 DEF SectorInv
<1>13. DOMAIN One!Stage2' = DOMAIN One!Stage2
  BY DEF One!Stage2
<1> QED
  BY <1>1, <1>5, <1>8, <1>9, <1>10, <1>11, <1>12, <1>13 DEF SectorInv, Reading, One!Stage2, One!Empty

LEMMA SectorKeeps ==
  ASSUME Addressable, SectorInv, One!Next \/ UNCHANGED sector
  PROVE  SectorInv'
<1> HIDE DEF One!Size, One!Stage2
<1> USE DEF SectorInv, Reading, Sound, Brought, One!SameGeometry
<1>1. CASE One!MovePartitionEntry
  <2>1. /\ at = "start" /\ at' = "after"
        /\ UNCHANGED <<bdb, have_extensions, si, di, es, count, stage2, failed, shortened>>
    BY <1>1 DEF One!MovePartitionEntry
  <2> QED
    BY <2>1
<1>2. CASE One!CheckExtensions
  BY <1>2, SizeRecursion DEF One!CheckExtensions
<1>3. CASE One!ReadFinish
  <2>1. /\ at = "loop" /\ at' = "stage2" /\ UNCHANGED <<bdb, have_extensions, stage2, shortened>>
        /\ si > Runs
    BY <1>3 DEF One!ReadFinish, Runs
  <2>2. Sound => \A k \in DOMAIN One!Stage2 : Brought(k)
    <3>1. si = Runs + 1 /\ es = One!Size[Runs]
      BY <2>1, TableType
    <3>2. DOMAIN One!Stage2 = 0..(es - 1)
      BY <3>1 DEF One!Stage2, Runs
    <3> QED
      BY <2>1, <3>2
  <2> QED
    BY <2>1, <2>2
<1>4. CASE One!NextRun
  <2>1. /\ at = "loop" /\ at' = "retry" /\ si <= Runs /\ di' = 3 /\ failed' = 0
        /\ count' = IF have_extensions THEN stage2_location[si].count ELSE count
        /\ UNCHANGED <<bdb, have_extensions, si, es, stage2, shortened>>
    BY <1>4 DEF One!NextRun, Runs
  <2>2. stage2_location[si].count \in 1..128
    BY <2>1, TableType
  <2> QED
    BY <2>1, <2>2
<1>5. CASE One!ReadSucceeds
  BY <1>5, ReadKeeps
<1>6. CASE One!ReadFails
  <2>1. /\ at = "retry" /\ at' = "reset" /\ failed' = IF failed > 3 THEN failed ELSE failed + 1
        /\ UNCHANGED <<bdb, have_extensions, si, di, es, stage2>>
    BY <1>6 DEF One!ReadFails
  <2>2. \/ UNCHANGED <<count, shortened>>
        \/ have_extensions /\ count' \in 0..count - 1 /\ shortened' = TRUE
    BY <1>6 DEF One!ReadFails
  <2>3. stage2_location[si].count \in 1..128
    BY <2>1, TableType
  <2>4. /\ shortened' => have_extensions
        /\ shortened => shortened'
    BY <2>2
  <2>5. have_extensions => /\ count' \in 0..stage2_location[si].count
                           /\ shortened' \/ count' = stage2_location[si].count
    BY <2>1, <2>2, <2>3
  <2>6. failed' \in 1..3 /\ di' = 4 - failed'
    BY <2>1
  <2>7. Sound' => \A k \in 0..(es - 1) : Brought(k)'
    BY <2>1, <2>4
  <2>8. /\ es' = One!Size[si' - 1] /\ si' \in 1..(Runs + 1) /\ si' <= Runs
        /\ stage2' = [k \in DOMAIN One!Stage2 |-> stage2'[k]]
        /\ \A k \in DOMAIN One!Stage2 : k >= es' => stage2'[k] = One!Empty
    BY <2>1 DEF One!Empty
  <2> HIDE DEF Brought, Sound
  <2> QED
    BY <2>1, <2>4, <2>5, <2>6, <2>7, <2>8
<1>7. CASE One!ResetSucceeds
  BY <1>7 DEF One!ResetSucceeds
<1>8. CASE One!ResetFails
  BY <1>8 DEF One!ResetFails
<1>9. CASE UNCHANGED sector
  BY <1>9 DEF sector
<1> QED
  BY <1>1, <1>2, <1>3, <1>4, <1>5, <1>6, <1>7, <1>8, <1>9 DEF One!Next

LEMMA SectorInit == BootInit => SectorInv
<1> HIDE DEF One!Size, One!Stage2
<1> SUFFICES ASSUME BootInit PROVE SectorInv
  OBVIOUS
<1>1. /\ si = 1 /\ di = 0 /\ es = 0 /\ failed = 0 /\ at = "start" /\ have_extensions = FALSE
      /\ stage2 = [k \in DOMAIN One!Stage2 |-> One!Empty]
  BY DEF BootInit, One!Init
<1>2. \A k \in DOMAIN One!Stage2 : stage2[k] = One!Empty
  BY <1>1
<1>3. shortened = FALSE
  BY DEF BootInit, One!Init
<1> QED
  BY <1>1, <1>2, <1>3, SizeRecursion, TableType DEF SectorInv, Reading, One!Empty
-----------------------------------------------------------------------------
(* Address line A20. *)

Bytes == [bit0 : BOOLEAN, a20 : BOOLEAN, rest : {"empty", "lines", "key"}]

(* What each line has left in the controller's input buffer, at most.      *)
Sent == CASE line = "ask"                  -> {A20!None, A20!Code("0xAD")}
          [] line \in {"answer", "write"}  -> {A20!None, A20!Code("0xD0")}
          [] line = "value"                -> {A20!None, A20!Code("0xD1")}
          [] line = "enable"               -> {A20!None} \cup {A20!Data(b) : b \in {c \in Bytes : c.a20}}
          [] line = "last"                 -> {A20!None, A20!Code("0xAE")}
          [] OTHER                         -> {A20!None}

(* With no key typed, the byte goes from the port to AL and back, and      *)
(* nothing else enters the output buffer.                                  *)
Untouched ==
  /\ line # "reset" /\ command # "answer" /\ port \in {A20!Own(TRUE), A20!Own(FALSE)}
  /\ line # "answer" => output = A20!Empty
  /\ line = "answer" => output = A20!Empty \/ (input = A20!None /\ output = port)
  /\ line = "write" => input = A20!None
  /\ line \in {"write", "value"} => al = port
  /\ line = "enable" => input \in {A20!None, A20!Data(A20!Own(TRUE))}

A20Inv ==
  /\ {al, output, port} \subseteq Bytes
  /\ input \in Sent
  /\ (line = "enable" /\ input = A20!None) \/ line \in {"last", "start"} => port.a20
  /\ ~typed => Untouched

LEMMA A20Init == BootInit => A20Inv
<1> SUFFICES ASSUME BootInit PROVE A20Inv
  OBVIOUS
<1>1. PICK open \in BOOLEAN : port = A20!Own(open)
  BY DEF BootInit, A20!Init
<1>2. /\ al = A20!Empty /\ input = A20!None /\ output = A20!Empty /\ command = "none"
      /\ typed = FALSE /\ line = "entry"
  BY DEF BootInit, A20!Init
<1>3. port \in Bytes /\ A20!Empty \in Bytes
  BY <1>1 DEF Bytes, A20!Own, A20!Empty
<1>4. port \in {A20!Own(TRUE), A20!Own(FALSE)}
  BY <1>1
<1>5. Untouched
  BY <1>2, <1>4 DEF Untouched
<1> QED
  BY <1>2, <1>3, <1>5 DEF A20Inv, Sent

(* The processor's OUT to a line's next. *)
LEMMA OutKeeps ==
  ASSUME A20Inv, NEW here, NEW byte, NEW next, A20!Out(here, byte, next),
         \/ here = "disable" /\ byte = A20!Code("0xAD") /\ next = "ask"
         \/ here = "ask"     /\ byte = A20!Code("0xD0") /\ next = "answer"
         \/ here = "write"   /\ byte = A20!Code("0xD1") /\ next = "value"
         \/ here = "value"   /\ byte = A20!Data(A20!Opened(al)) /\ next = "enable"
         \/ here = "enable"  /\ byte = A20!Code("0xAE") /\ next = "last"
  PROVE  A20Inv'
<1>1. /\ line = here /\ input = A20!None /\ input' = byte /\ line' = next
      /\ UNCHANGED <<al, output, command, port, typed>>
  BY DEF A20!Out, A20!cpu
<1>2. {al, output, port} \subseteq Bytes
  BY DEF A20Inv
<1>3. {al, output, port}' \subseteq Bytes
  BY <1>1, <1>2
<1>4. A20!Opened(al) \in {c \in Bytes : c.a20}
  BY <1>2 DEF Bytes, A20!Opened
<1>5. input' \in Sent'
  BY <1>1, <1>4 DEF Sent
<1>6. here = "value" => input' # A20!None
  BY <1>1 DEF A20!None, A20!Data
<1>7. (line' = "enable" /\ input' = A20!None) \/ line' \in {"last", "start"} => port'.a20
  BY <1>1, <1>6 DEF A20Inv
<1>8. ASSUME ~typed PROVE Untouched'
  <2>1. Untouched
    BY <1>8 DEF A20Inv
  <2>2. here = "value" => A20!Opened(al) = A20!Own(TRUE)
    <3>1. ASSUME here = "value" PROVE al \in {A20!Own(TRUE), A20!Own(FALSE)}
      BY <1>1, <2>1, <3>1 DEF Untouched
    <3>2. ASSUME NEW b \in BOOLEAN PROVE A20!Opened(A20!Own(b)) = A20!Own(TRUE)
      BY DEF A20!Own, A20!Opened
    <3> QED
      BY <3>1, <3>2
  <2> QED
    BY <1>1, <2>1, <2>2 DEF Untouched
<1> QED
  BY <1>1, <1>3, <1>5, <1>7, <1>8 DEF A20Inv

LEMMA TakeKeeps ==
  ASSUME A20Inv, A20!Take, A20!Running
  PROVE  A20Inv'
<1>1. /\ input # A20!None /\ input' = A20!None /\ UNCHANGED <<al, typed>>
      /\ input \in Sent /\ {al, output, port} \subseteq Bytes
  BY DEF A20!Take, A20!cpu, A20Inv
<1>2. ASSUME NEW b \in Bytes, input = A20!Data(b), line = "enable", b.a20
      PROVE  A20Inv'
  <2>1. /\ port' = b /\ line' = (IF b.bit0 THEN line ELSE "reset") /\ UNCHANGED output
        /\ command' = (IF command = "write" THEN "none" ELSE command)
    BY <1>2 DEF A20!Take, A20!Data
  <2>2. input' \in Sent' /\ {al, output, port}' \subseteq Bytes
    BY <1>1, <1>2, <2>1 DEF Sent
  <2>3. ASSUME ~typed PROVE Untouched'
    <3>1. Untouched
      BY <2>3 DEF A20Inv
    <3>2. b = A20!Own(TRUE)
      BY <1>1, <1>2, <3>1 DEF Untouched, A20!Data
    <3>3. b.bit0
      BY <3>2 DEF A20!Own
    <3> QED
      BY <1>1, <1>2, <2>1, <3>1, <3>2, <3>3 DEF Untouched
  <2> QED
    BY <1>1, <1>2, <2>1, <2>2, <2>3 DEF A20Inv
<1>3. ASSUME input = A20!Code("0xD0"), line \in {"answer", "write"}
      PROVE  A20Inv'
  <2>1. /\ UNCHANGED <<port, line>>
        /\ \/ output' = port /\ UNCHANGED command
           \/ output # A20!Empty /\ command' = "answer" /\ UNCHANGED output
    BY <1>3 DEF A20!Take, A20!Code
  <2>2. input' \in Sent' /\ {al, output, port}' \subseteq Bytes
    BY <1>1, <1>3, <2>1 DEF Sent
  <2>3. ASSUME ~typed PROVE Untouched'
    <3>1. Untouched
      BY <2>3 DEF A20Inv
    <3>2. line = "answer" /\ output = A20!Empty
      BY <1>1, <1>3, <3>1 DEF Untouched
    <3> QED
      BY <1>1, <2>1, <3>1, <3>2 DEF Untouched
  <2> QED
    BY <1>1, <1>3, <2>1, <2>2, <2>3 DEF A20Inv
<1>4. ASSUME \/ input = A20!Code("0xAD") /\ line = "ask"
             \/ input = A20!Code("0xD1") /\ line = "value"
             \/ input = A20!Code("0xAE") /\ line = "last"
      PROVE  A20Inv'
  <2>1. UNCHANGED <<port, line, output>> /\ (command' = "write" \/ UNCHANGED command)
    <3>1. CASE input = A20!Code("0xAD")
      BY <3>1 DEF A20!Take, A20!Code
    <3>2. CASE input = A20!Code("0xD1")
      BY <3>2 DEF A20!Take, A20!Code
    <3>3. CASE input = A20!Code("0xAE")
      BY <3>3 DEF A20!Take, A20!Code
    <3> QED
      BY <1>4, <3>1, <3>2, <3>3
  <2>2. input' \in Sent' /\ {al, output, port}' \subseteq Bytes
    BY <1>1, <1>4, <2>1 DEF Sent
  <2>3. ASSUME ~typed PROVE Untouched'
    BY <1>1, <1>4, <2>1, <2>3 DEF A20Inv, Untouched
  <2> QED
    BY <1>1, <1>4, <2>1, <2>2, <2>3 DEF A20Inv
<1> QED
  BY <1>1, <1>2, <1>3, <1>4 DEF Sent

LEMMA A20Keeps ==
  ASSUME A20Inv,
         \/ A20!Running /\ (A20!Steps \/ A20!TypeKey)
         \/ line = "start" /\ BiosTakesKey /\ UNCHANGED <<al, input, port, typed, line>>
         \/ UNCHANGED gate
  PROVE  A20Inv'
<1>1. CASE A20!entry
  <2>1. line = "entry" /\ line' = "disable" /\ UNCHANGED <<al, input, output, command, port, typed>>
    BY <1>1 DEF A20!entry, A20!controller
  <2> QED
    BY <2>1 DEF A20Inv, Untouched, Sent
<1>2. CASE A20!DisableKeyboard \/ A20!AskForOutputPort \/ A20!AskToWrite \/ A20!WriteOutputPort
           \/ A20!EnableKeyboard
  BY <1>2, OutKeeps DEF A20!DisableKeyboard, A20!AskForOutputPort, A20!AskToWrite,
                        A20!WriteOutputPort, A20!EnableKeyboard
<1>3. CASE A20!In
  <2>1. /\ line = "answer" /\ line' = "write" /\ output # A20!Empty
        /\ al' = output /\ output' = A20!Empty /\ UNCHANGED <<input, command, port, typed>>
    BY <1>3 DEF A20!In
  <2>2. A20!Empty \in Bytes
    BY DEF A20!Empty, Bytes
  <2>3. input' \in Sent' /\ {al, output, port}' \subseteq Bytes
    BY <2>1, <2>2 DEF A20Inv, Sent
  <2>4. ASSUME ~typed PROVE Untouched'
    BY <2>1, <2>4 DEF A20Inv, Untouched
  <2> QED
    BY <2>1, <2>3, <2>4 DEF A20Inv
<1>4. CASE A20!ProtectedMode
  <2>1. /\ line = "last" /\ line' = "start" /\ input = A20!None
        /\ UNCHANGED <<al, input, output, command, port, typed>>
    BY <1>4 DEF A20!ProtectedMode, A20!cpu, A20!controller
  <2> QED
    BY <2>1 DEF A20Inv, Untouched, Sent
<1>5. CASE A20!Running /\ A20!Take
  BY <1>5, TakeKeeps
<1>6. CASE A20!Answer
  <2>1. /\ command = "answer" /\ output' = port /\ command' = "none"
        /\ UNCHANGED <<al, input, port, typed, line>>
    BY <1>6 DEF A20!Answer, A20!cpu
  <2> QED
    BY <2>1 DEF A20Inv, Untouched, Sent
<1>7. CASE A20!TypeKey
  <2>1. /\ output' \in ScanCodes /\ typed' = TRUE
        /\ UNCHANGED <<al, input, command, port, line>>
    BY <1>7 DEF A20!TypeKey, A20!cpu
  <2>2. output' \in Bytes
    BY <2>1, ScanCodeAssumption DEF Bytes
  <2> QED
    BY <2>1, <2>2 DEF A20Inv, Sent
<1>8. CASE line = "start" /\ BiosTakesKey /\ UNCHANGED <<al, input, port, typed, line>>
  <2>1. A20!Empty \in Bytes
    BY DEF A20!Empty, Bytes
  <2> QED
    BY <1>8, <2>1 DEF A20Inv, Untouched, Sent, BiosTakesKey
<1>9. CASE UNCHANGED gate
  BY <1>9 DEF gate, A20Inv, Untouched, Sent
<1> QED
  BY <1>1, <1>2, <1>3, <1>4, <1>5, <1>6, <1>7, <1>8, <1>9 DEF A20!Steps
-----------------------------------------------------------------------------
(* The partition entry lies where the boot sector put it until it has been *)
(* read, and the registers passed on and saved point there.                *)
EntryInv ==
  /\ at # "start" /\ pc \in {"disk", "partition"} => low = "partition_entry"
  /\ at = "stage2" => si = 0 /\ di = 8192
  /\ line \notin {"entry", "reset"} => at = "stage2" /\ segoffset_to_linear(pointer) = MEMORY_FAT_ADDR
  /\ PartitionIsTheEntry

LEMMA EntryKeeps ==
  ASSUME EntryInv, A20Inv, [Cpu \/ Typing]_BootVars
  PROVE  EntryInv'
<1> USE DEF EntryInv
<1>1. CASE BootSector
  <2>1. UNCHANGED <<line, pointer, pc, partition>> /\ One!Next
    BY <1>1 DEF BootSector, gate, loader
  <2>2. CASE One!MovePartitionEntry
    BY <2>1, <2>2 DEF One!MovePartitionEntry, PartitionIsTheEntry, segoffset_to_linear
  <2>3. CASE One!CheckExtensions \/ One!NextRun \/ One!ReadSucceeds \/ One!ReadFails
    BY <2>1, <2>3 DEF One!CheckExtensions, One!NextRun, One!ReadSucceeds, One!ReadFails,
                      PartitionIsTheEntry, segoffset_to_linear
  <2>4. CASE One!ResetSucceeds \/ One!ResetFails
    BY <2>1, <2>4 DEF One!ResetSucceeds, One!ResetFails, PartitionIsTheEntry, segoffset_to_linear
  <2>5. CASE One!ReadFinish
    BY <2>1, <2>5 DEF One!ReadFinish, One!PARTITION_ENTRY_OFFSET, One!PARTITION_ENTRY_SEGMENT,
                      PartitionIsTheEntry, segoffset_to_linear
  <2> QED
    BY <2>1, <2>2, <2>3, <2>4, <2>5 DEF One!Next
<1>2. CASE Entry \/ Typing
  <2>1. /\ UNCHANGED <<sector, loader, low>> /\ at = "stage2"
        /\ A20!Running /\ (A20!Steps \/ A20!TypeKey)
    BY <1>2 DEF Entry, Typing, Stage2Runs
  <2>2. \/ line = "entry" /\ pointer' = [off |-> si, seg |-> di]
        \/ line # "entry" /\ UNCHANGED pointer
        \/ line' \in {line, "reset"} /\ UNCHANGED pointer
    <3>1. CASE A20!entry
      BY <3>1 DEF A20!entry
    <3>2. CASE A20!DisableKeyboard \/ A20!AskForOutputPort \/ A20!AskToWrite
               \/ A20!WriteOutputPort \/ A20!EnableKeyboard
      BY <3>2 DEF A20!DisableKeyboard, A20!AskForOutputPort, A20!AskToWrite, A20!WriteOutputPort,
                  A20!EnableKeyboard, A20!Out, A20!cpu
    <3>3. CASE A20!In \/ A20!ProtectedMode
      BY <3>3 DEF A20!In, A20!ProtectedMode, A20!cpu
    <3>4. CASE A20!Take
      <4>1. UNCHANGED pointer
        BY <3>4 DEF A20!Take, A20!cpu
      <4>2. \/ \E c \in {"0xAD", "0xAE", "0xD0", "0xD1"} : input = A20!Code(c)
            \/ \E b \in Bytes : input = A20!Data(b)
        BY <3>4 DEF A20!Take, A20Inv, Sent
      <4>3. ASSUME NEW c \in {"0xAD", "0xAE", "0xD0", "0xD1"}, input = A20!Code(c)
            PROVE  line' = line
        <5>1. CASE c = "0xAD"
          BY <3>4, <4>3, <5>1 DEF A20!Take, A20!Code
        <5>2. CASE c = "0xAE"
          BY <3>4, <4>3, <5>2 DEF A20!Take, A20!Code
        <5>3. CASE c = "0xD0"
          BY <3>4, <4>3, <5>3 DEF A20!Take, A20!Code
        <5>4. CASE c = "0xD1"
          BY <3>4, <4>3, <5>4 DEF A20!Take, A20!Code
        <5> QED
          BY <5>1, <5>2, <5>3, <5>4
      <4>4. ASSUME NEW b \in Bytes, input = A20!Data(b)
            PROVE  line' = IF b.bit0 THEN line ELSE "reset"
        BY <3>4, <4>4 DEF A20!Take, A20!Data
      <4> QED
        BY <4>1, <4>2, <4>3, <4>4
    <3>5. CASE A20!Answer \/ A20!TypeKey
      BY <3>5 DEF A20!Answer, A20!TypeKey, A20!cpu
    <3> QED
      BY <2>1, <3>1, <3>2, <3>3, <3>4, <3>5 DEF A20!Steps
  <2>3. CASE line = "entry" /\ pointer' = [off |-> si, seg |-> di]
    <3>1. pointer'.seg = 8192 /\ pointer'.off = 0
      BY <2>1, <2>3
    <3> QED
      BY <2>1, <3>1 DEF sector, loader, PartitionIsTheEntry, segoffset_to_linear, MEMORY_FAT_ADDR
  <2>4. CASE UNCHANGED pointer /\ (line # "entry" \/ line' \in {line, "reset"})
    BY <2>1, <2>4 DEF sector, loader, PartitionIsTheEntry, segoffset_to_linear, A20!Running
  <2> QED
    BY <2>2, <2>3, <2>4
<1>3. CASE Initializing \/ Asking
  <2>1. UNCHANGED <<sector, pointer, partition, line, low>> /\ (pc = "disk" \/ UNCHANGED pc)
    BY <1>3 DEF Initializing, Asking, FindDisk, elf, image, loader, gate
  <2> QED
    BY <1>3, <2>1 DEF sector, PartitionIsTheEntry, segoffset_to_linear, Initializing, Asking, FindDisk
<1>4. CASE Loading
  <2>1. line = "start" /\ UNCHANGED <<sector, line>> /\ Load
    BY <1>4 DEF Loading, gate
  <2>2. CASE MBR_DetectPartition
    <3>1. Pointed = low
      BY <2>1 DEF Pointed
    <3> QED
      BY <2>1, <2>2, <3>1 DEF MBR_DetectPartition, elf, image, sector, PartitionIsTheEntry, segoffset_to_linear
  <2>3. CASE ~MBR_DetectPartition
    <3>1. /\ UNCHANGED <<pointer, low, partition>>
          /\ pc \notin {"disk", "partition"} /\ pc' \notin {"disk", "partition"}
      <4> USE DEF elf, image
      <4>1. CASE FirstBlock \/ StoreBlock \/ BlocksEnd
        BY <4>1 DEF FirstBlock, StoreBlock, BlocksEnd
      <4>2. CASE OpenHeader
        <5>1. pc = "open" /\ UNCHANGED <<image, low, partition>> /\ OpenThen("header")
          BY <4>2 DEF OpenHeader
        <5>2. pc' = "header" \/ pc' = "wild"
          BY <5>1 DEF OpenThen, Opened
        <5> QED
          BY <5>1, <5>2
      <4>3. CASE ReadHeaders \/ WrongHeaders \/ SkipSegment
        BY <4>3 DEF ReadHeaders, WrongHeaders, SkipSegment
      <4>4. CASE BeginSegment
        <5>1. pc = "segments" /\ UNCHANGED <<image, low, partition>> /\ OpenThen("seek")
          BY <4>4 DEF BeginSegment
        <5>2. pc' = "seek" \/ pc' = "wild"
          BY <5>1 DEF OpenThen, Opened
        <5> QED
          BY <5>1, <5>2
      <4>5. CASE Seek
        BY <4>5 DEF Seek
      <4>6. CASE Copy
        BY <4>6 DEF Copy
      <4>7. CASE ShortOfData \/ EndSegment \/ EnterKernel
        BY <4>7 DEF ShortOfData, EndSegment, EnterKernel, Halt
      <4> QED
        BY <2>1, <2>3, <4>1, <4>2, <4>3, <4>4, <4>5, <4>6, <4>7 DEF Load
    <3> QED
      BY <2>1, <3>1 DEF sector, PartitionIsTheEntry, segoffset_to_linear
  <2> QED
    BY <2>2, <2>3
<1>5. CASE Told
  BY <1>5 DEF Told, FAT_Initialize, elf, image, sector, gate, PartitionIsTheEntry, segoffset_to_linear
<1>6. CASE UNCHANGED BootVars
  BY <1>6 DEF BootVars, sector, gate, loader, PartitionIsTheEntry, segoffset_to_linear
<1> QED
  BY <1>1, <1>2, <1>3, <1>4, <1>5, <1>6 DEF Cpu
-----------------------------------------------------------------------------
(* The whole boot.  Every step of it is one of the part that runs, and     *)
(* leaves the others' variables alone.                                     *)
LEMMA BootStep ==
  ASSUME [Cpu \/ Typing]_BootVars
  PROVE  /\ One!Next \/ UNCHANGED sector
         /\ \/ A20!Running /\ (A20!Steps \/ A20!TypeKey)
            \/ line = "start" /\ BiosTakesKey /\ UNCHANGED <<al, input, port, typed, line>>
            \/ UNCHANGED gate
         /\ [ReadNext]_readVars
         /\ \/ Load
            \/ \E ok \in BOOLEAN : FindDisk(ok) \/ FAT_Initialize(ok)
            \/ UNCHANGED loader
<1>1. CASE BootSector
  BY <1>1 DEF BootSector
<1>2. CASE Entry \/ Typing
  BY <1>2 DEF Entry, Typing
<1>3. CASE Initializing
  BY <1>3 DEF Initializing, ReadNext
<1>4. CASE Loading
  BY <1>4 DEF Loading
<1>5. CASE Asking
  BY <1>5 DEF Asking, ReadNext
<1>6. CASE Told
  <2>1. (disk = "true") \in BOOLEAN
    OBVIOUS
  <2> QED
    BY <1>6, <2>1 DEF Told, ReadNext
<1>7. CASE UNCHANGED BootVars
  BY <1>7 DEF BootVars
<1> QED
  BY <1>1, <1>2, <1>3, <1>4, <1>5, <1>6, <1>7 DEF Cpu

(* Wherever the image builder put stage 2, and whichever reads fail, each  *)
(* of its sectors is in its place when it is entered, the BIOS having      *)
(* extensions or the volume the drive's geometry; only the sectors cut off *)
(* by a lowered block count are missing.  The boot sector gives up after   *)
(* three failed reads, or when a reset has failed.                         *)
THEOREM Stage2IsWhole ==
  ASSUME Addressable
  PROVE  BootSpec => []Stage2WholeOrReadsFailed
<1>1. SectorInv /\ [Cpu \/ Typing]_BootVars => SectorInv'
  BY BootStep, SectorKeeps
<1>2. SectorInv => Stage2WholeOrReadsFailed
  BY DEF SectorInv, Stage2WholeOrReadsFailed, One!Stage2WholeOrReadsFailed, Sound, Brought
<1> QED
  BY <1>1, <1>2, SectorInit, PTL DEF BootSpec

(* A20 is open when the C code runs, and the rest of the controller's      *)
(* output port is as it was unless a key was typed, whatever its code.     *)
THEOREM A20IsOpen == BootSpec => []OnlyA20Changes
<1>1. A20Inv /\ [Cpu \/ Typing]_BootVars => A20Inv'
  BY BootStep, A20Keeps
<1>2. A20Inv => OnlyA20Changes
  <2> SUFFICES ASSUME A20Inv PROVE OnlyA20Changes
    OBVIOUS
  <2>1. line = "start" => port.a20
    BY DEF A20Inv
  <2>2. line = "start" => typed \/ port = A20!Own(TRUE)
    <3>1. A20!Own(FALSE).a20 = FALSE
      BY DEF A20!Own
    <3> QED
      BY <2>1, <3>1 DEF A20Inv, Untouched
  <2>3. line = "reset" => typed
    BY DEF A20Inv, Untouched
  <2> QED
    BY <2>1, <2>2, <2>3 DEF OnlyA20Changes, A20!OnlyA20Changes
<1> QED
  BY <1>1, <1>2, A20Init, PTL DEF BootSpec

(* The partition entry is read while it still lies where the boot sector   *)
(* put it, whatever the driver does with that place later, and through the *)
(* registers and the pointer that entry.asm saved.                         *)
THEOREM EntryReadInTime == BootSpec => []PartitionIsTheEntry
<1>1. BootInit => EntryInv
  BY DEF BootInit, One!Init, A20!Init, Unloaded, EntryInv, PartitionIsTheEntry
<1>2. EntryInv /\ A20Inv /\ [Cpu \/ Typing]_BootVars => EntryInv'
  BY EntryKeeps
<1>3. A20Inv /\ [Cpu \/ Typing]_BootVars => A20Inv'
  BY BootStep, A20Keeps
<1>4. EntryInv => PartitionIsTheEntry
  BY DEF EntryInv
<1> QED
  BY <1>1, <1>2, <1>3, <1>4, A20Init, PTL DEF BootSpec

(* DISK_ReadSectors never says that it read a sector other than the one    *)
(* asked for, whatever the BIOS fails on the way.                          *)
THEOREM SectorRead ==
  ASSUME Lbas \subseteq Reachable
  PROVE  BootSpec => []ReadsTheSector
<1>1. BootInit => ReadInv
  BY DEF BootInit, ReadInit, ReadInv, ReadsTheSector
<1>2. ReadInv /\ [Cpu \/ Typing]_BootVars => ReadInv'
  BY BootStep, ReadInvKeeps
<1>3. ReadInv => ReadsTheSector
  BY DEF ReadInv
<1> QED
  BY <1>1, <1>2, <1>3, PTL DEF BootSpec

(* And it gives up after exactly three failures.                           *)
THEOREM ThreeTries == BootSpec => []GivesUpAfterThree
<1>1. BootInit => ThreeAtMost
  BY DEF BootInit, ReadInit, ThreeAtMost
<1>2. ThreeAtMost /\ [Cpu \/ Typing]_BootVars => ThreeAtMost'
  BY BootStep, ThreeKeeps
<1>3. ThreeAtMost => GivesUpAfterThree
  BY DEF ThreeAtMost, GivesUpAfterThree
<1> QED
  BY <1>1, <1>2, <1>3, PTL DEF BootSpec

(* The map the kernel gets begins with the BIOS's blocks in order and      *)
(* misses at most the last, for maps of any length.                        *)
THEOREM MapIsTheBioss == BootSpec => []RegionsAreTheFirst
<1>1. BootInit => Listing
  <2> SUFFICES ASSUME BootInit PROVE Listing
    OBVIOUS
  <2>1. regions = <<>> /\ pc = "disk"
    BY DEF BootInit, Unloaded
  <2>2. regions \in Seq(Nat) /\ Counted
    BY <2>1 DEF Counted
  <2> QED
    BY <2>1, <2>2 DEF Listing
<1>2. Listing /\ [Cpu \/ Typing]_BootVars => Listing'
  BY BootStep, ListingKeeps DEF loader
<1>3. Listing => RegionsAreTheFirst
  BY DEF Listing, Counted, RegionsAreTheFirst
<1> QED
  BY <1>1, <1>2, <1>3, PTL DEF BootSpec

(* For all kernels of segments below 64 KiB that lie apart: on a disk that *)
(* reads, the kernel is entered only with every page of every segment in   *)
(* place; on one that does not, a page of the file may hold a sector twice *)
(* or another's cluster, but none is left out, and bss is zero.            *)
THEOREM KernelIsWhole ==
  ASSUME AllLoadable
  PROVE  BootSpec => []KernelWhole
<1>1. BootInit => LoadInv
  BY UnloadedLoadInv DEF BootInit
<1>2. LoadInv /\ [Cpu \/ Typing]_BootVars => LoadInv'
  BY BootStep, LoadKeeps DEF LoadStep, LoadVars, loader
<1>3. LoadInv => KernelWhole
  BY LoadInvWhole
<1> QED
  BY <1>1, <1>2, <1>3, PTL DEF BootSpec
=============================================================================
