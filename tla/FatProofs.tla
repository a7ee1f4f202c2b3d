------------------------------ MODULE FatProofs ------------------------------
(***************************************************************************)
(* Theorems about the boot loader's FAT driver, for every volume, every    *)
(* size of sectors, clusters and cache and any number of calls: what is    *)
(* marked as open is what callers hold; and, on volumes in order on a disk *)
(* that reads, an open file's buffer is the sector its position lies in, a *)
(* read ends with all it was asked for, and, where paths can be followed   *)
(* as well, the driver is the store of FileStore.                          *)
(***************************************************************************)
EXTENDS Fat, WellFoundedInduction, FiniteSetTheorems, TLAPS

FileData == [opened : BOOLEAN, dir : BOOLEAN, position : Nat, size : Nat,
             first : Int, cluster : Int, sector : Nat, buffer : Nat]

DirectoryEntry == [name : Seq(STRING), dir : BOOLEAN, cluster : Nat, size : Nat]

TypeOK ==
  /\ volume \in DOMAIN Volumes
  /\ g \in [type : {0, 12, 16, 32}, dataLba : Nat]
  /\ root \in FileData
  /\ files \in [Handles -> FileData]
  /\ cache \in [position : Int, holds : Int]
  /\ held \subseteq Handles

Mountable == {"mount", "unmounted"}

(* What FAT_Initialize has learnt of the volume. *)
LayoutKnown ==
  call.op \notin Mountable =>
    g = [type |-> Type(volume), dataLba |-> Layout(BootSector).data]

(* Nothing is read past an end that is known. *)
NoEnd(fd)  == fd.dir /\ fd.size = 0
Within(fd) == NoEnd(fd) \/ fd.position <= fd.size
AllWithin  == Within(root) /\ \A h \in Handles : Within(files[h])

OnVolume(e) ==
  /\ e \in DirectoryEntry
  /\ e.size > 0 => \E sector \in Range(Mounted.entries) : e \in Range(sector)

CallFits ==
  /\ call.op \in Mountable \cup {"idle", "wild", "find", "enter", "read"}
  /\ call.op \in Mountable => held = {}
  /\ call.op = "find" => call.dir \in (Handles \ held) \cup {ROOT_DIRECTORY_HANDLE}
  /\ call.op = "enter" => OnVolume(call.entry)
  /\ call.op = "read" =>
       /\ call = [op |-> "read", handle |-> call.handle, left |-> call.left]
       /\ call.handle \in held /\ call.left \in Nat \ {0}
       /\ \/ NoEnd(files[call.handle])
          \/ call.left <= files[call.handle].size - files[call.handle].position

(* The handles marked as open, one by one. *)
Balanced == \A h \in Handles : files[h].opened = (h \in held \/ (call.op = "find" /\ call.dir = h))

(* The inductive invariant: an open handle is held or being searched, never both. *)
FatInv == TypeOK /\ LayoutKnown /\ AllWithin /\ CallFits /\ Balanced

TrueCache(c) == c.position = Unloaded \/ c.holds = c.position
CacheTrue    == TrueCache(cache)

(* At the sector of its position, in a chain with room for size bytes. *)
WalksTo(fd, size) ==
  LET k == fd.position \div SECTOR_SIZE
  IN  /\ OrderlyChain(volume, fd.first, size) /\ fd.first \in Nat
      /\ fd.sector = k % SectorsPerCluster
      /\ fd.cluster = Links(volume, fd.first)[k \div SectorsPerCluster]
      /\ fd.buffer = Chain(volume, fd.first)[k]

Walks(fd) == OrderlyFile(volume, fd.first, fd.size) /\ WalksTo(fd, fd.size)

OwnSectors ==
  ~ReadsFail => CacheTrue /\ \A h \in held : files[h].position < files[h].size => Walks(files[h])

-----------------------------------------------------------------------------
(* What is read has its type. *)

LEMMA Constants ==
  /\ SECTOR_SIZE \in Nat \ {0} /\ SECTOR_SIZE % 32 = 0
  /\ FAT_CACHE_SIZE \in Nat \ {0} /\ MAX_FILE_HANDLES \in Nat \ {0} /\ SectorsPerCluster \in Nat \ {0}
  /\ TotalSectors \in Nat /\ FAT12_CLUSTERS \in Nat
  /\ Counts \subseteq Nat \ {0}
BY FatAssumption

LEMMA EntryType ==
  ASSUME NEW v \in DOMAIN Volumes, NEW c
  PROVE  Entry(v, c) \in Nat
BY FatAssumption DEF Entry, Range

LEMMA LayoutType ==
  ASSUME NEW v \in DOMAIN Volumes
  PROVE  /\ Layout(Volumes[v].boot).data \in Nat /\ Layout(Volumes[v].boot).root \in Int
         /\ Layout(Volumes[v].boot).size \in Nat
         /\ Type(v) \in {12, 16, 32}
<1> DEFINE bs == Volumes[v].boot
           fats == bs.ReservedSectors + bs.FatCount * (IF bs.SectorsPerFat = 0 THEN bs.SectorsPerFat32 ELSE bs.SectorsPerFat)
           size == ENTRY_SIZE * bs.DirEntryCount
<1>1. bs \in [{"ReservedSectors", "FatCount", "SectorsPerFat", "SectorsPerFat32",
               "DirEntryCount", "TotalSectors", "LargeSectorCount", "RootDirectoryCluster"} -> Nat]
  BY FatAssumption
<1> HIDE DEF bs
<1>2. /\ bs.ReservedSectors \in Nat /\ bs.FatCount \in Nat /\ bs.SectorsPerFat \in Nat
      /\ bs.SectorsPerFat32 \in Nat /\ bs.DirEntryCount \in Nat /\ bs.RootDirectoryCluster \in Nat
  BY <1>1
<1>3. fats \in Nat /\ size \in Nat
  BY <1>2 DEF ENTRY_SIZE
<1>4. Layout(bs) = IF bs.SectorsPerFat = 0
        THEN [data |-> fats, root |-> fats + (bs.RootDirectoryCluster - 2) * SectorsPerCluster, size |-> size]
        ELSE [data |-> fats + (size + SECTOR_SIZE - 1) \div SECTOR_SIZE, root |-> fats, size |-> size]
  BY DEF Layout
<1> HIDE DEF fats, size
<1>5. (bs.RootDirectoryCluster - 2) * SectorsPerCluster \in Int
  BY <1>2, Constants
<1>6. (size + SECTOR_SIZE - 1) \div SECTOR_SIZE \in Nat
  BY <1>3, Constants, Z3
<1>7. Layout(bs).data \in Nat /\ Layout(bs).root \in Int /\ Layout(bs).size \in Nat
  BY <1>2, <1>3, <1>4, <1>5, <1>6
<1>8. Type(v) \in {12, 16, 32}
  BY DEF Type, FAT_Detect
<1> QED
  BY <1>7, <1>8 DEF bs

LEMMA ReadType ==
  ASSUME NEW lba \in Int, NEW b \in Nat, NEW r \in ReadSectors(lba, b)
  PROVE  /\ r.ok \in BOOLEAN /\ r.buffer \in Nat
         /\ ~ReadsFail /\ lba \in 0..TotalSectors - 1 => r.ok /\ r.buffer = lba
<1> DEFINE there == IF lba \in 0..TotalSectors - 1 THEN lba ELSE TotalSectors
<1>1. there \in Nat
  BY Constants
<1>2. \/ r = [ok |-> TRUE, buffer |-> there]
      \/ (ReadsFail \/ lba \notin 0..TotalSectors - 1) /\ r = [ok |-> FALSE, buffer |-> b]
  BY DEF ReadSectors
<1>3. lba \in 0..TotalSectors - 1 => there = lba
  OBVIOUS
<1> HIDE DEF there
<1>4. CASE r = [ok |-> TRUE, buffer |-> there]
  BY <1>1, <1>3, <1>4
<1>5. CASE (ReadsFail \/ lba \notin 0..TotalSectors - 1) /\ r = [ok |-> FALSE, buffer |-> b]
  <2>1. r.ok = FALSE /\ r.buffer = b
    BY <1>5
  <2> QED
    BY <1>5, <2>1, Zenon
<1> QED
  BY <1>2, <1>4, <1>5

LEMMA EntryAtType ==
  ASSUME TypeOK, NEW fd \in FileData
  PROVE  OnVolume(EntryAt(fd))
<1>1. CASE fd.buffer \in DOMAIN Mounted.entries
  <2> DEFINE i == (fd.position % SECTOR_SIZE) \div ENTRY_SIZE + 1
             s == Mounted.entries[fd.buffer]
  <2>1. i \in 1..SECTOR_SIZE \div 32
    <3>1. fd.position \in Nat
      BY DEF FileData
    <3>2. fd.position % SECTOR_SIZE \in 0..SECTOR_SIZE - 1
      BY <3>1, Constants, Z3
    <3> DEFINE p == fd.position % SECTOR_SIZE
    <3> HIDE DEF p
    <3>3. p \in 0..SECTOR_SIZE - 1
      BY <3>2 DEF p
    <3>4. p \div 32 + 1 \in 1..SECTOR_SIZE \div 32
      BY <3>3, Constants, Z3
    <3> QED
      BY <3>4 DEF p, ENTRY_SIZE
  <2>2. s \in Range(Mounted.entries)
    BY <1>1 DEF Range
  <2>3. s \in [1..SECTOR_SIZE \div 32 -> DirectoryEntry]
    BY <2>2, FatAssumption DEF Mounted, TypeOK, DirectoryEntry
  <2> HIDE DEF i, s
  <2>4. s[i] \in DirectoryEntry /\ s[i] \in Range(s)
    BY <2>1, <2>3 DEF Range
  <2>5. EntryAt(fd) = s[i]
    BY <1>1 DEF EntryAt, s, i
  <2> QED
    BY <2>2, <2>4, <2>5 DEF OnVolume
<1>2. CASE fd.buffer \notin DOMAIN Mounted.entries
  <2>1. EntryAt(fd) = [name |-> <<>>, dir |-> FALSE, cluster |-> 0, size |-> 0]
    BY <1>2 DEF EntryAt
  <2>2. EntryAt(fd) \in DirectoryEntry /\ EntryAt(fd).size = 0
    BY <2>1 DEF DirectoryEntry
  <2> QED
    BY <2>2 DEF OnVolume
<1> QED
  BY <1>1, <1>2

(* The cached part of the table. *)

CacheType == [position : Int, holds : Int]

LEMMA CachedType ==
  ASSUME TypeOK, FatType \in {12, 16, 32}, NEW c \in CacheType, NEW cluster \in Int
  PROVE  EntryByte(FatType, cluster) \in Int /\ SignExtend(Cached(cluster, c)) \in Int
<1>1. EntryByte(FatType, cluster) \in Int
  BY Z3 DEF EntryByte
<1>2. \A x : TableEntry(x) \in Nat
  BY EntryType DEF TableEntry, TypeOK
<1>3. \A i \in Int : FatByte12(i) \in Int
  <2> SUFFICES ASSUME NEW i \in Int PROVE FatByte12(i) \in Int
    OBVIOUS
  <2> DEFINE a == TableEntry((i \div 3) * 2)
             b == TableEntry((i \div 3) * 2 + 1)
  <2>1. a \in Nat /\ b \in Nat
    BY <1>2
  <2>2. FatByte12(i) = CASE i % 3 = 0 -> a % 256
                         [] i % 3 = 1 -> a \div 256 + (b % 16) * 16
                         [] OTHER     -> b \div 16
    BY DEF FatByte12
  <2> HIDE DEF a, b
  <2> QED
    BY <2>1, <2>2, Z3
<1>4. \A j \in Int : CacheByte12(c, j) \in Int
  BY <1>3, Constants DEF CacheByte12, CacheType
<1>5. Cached(cluster, c) \in Int
  <2>1. CASE FatType # 12
    BY <1>2, <2>1 DEF Cached
  <2>2. CASE FatType = 12
    <3> DEFINE j == EntryByte(FatType, cluster) - c.position * SECTOR_SIZE
               word == CacheByte12(c, j) + 256 * CacheByte12(c, j + 1)
    <3>1. j \in Int
      BY <1>1, Constants DEF CacheType
    <3>2. word \in Int
      BY <1>4, <3>1
    <3>3. Cached(cluster, c) = IF cluster % 2 = 0 THEN word % 4096 ELSE word \div 16
      BY <2>2 DEF Cached
    <3> HIDE DEF word
    <3> QED
      BY <3>2, <3>3, Z3
  <2> QED
    BY <2>1, <2>2
<1> QED
  BY <1>1, <1>5 DEF SignExtend

LEMMA NextClusterType ==
  ASSUME TypeOK, FatType \in {12, 16, 32}, NEW cluster \in Int,
         NEW n \in FAT_NextCluster(cluster, cache)
  PROVE  n.cluster \in Int /\ n.cache \in CacheType
<1> DEFINE sector == EntryByte(FatType, cluster) \div SECTOR_SIZE
<1>1. cache \in CacheType
  BY DEF TypeOK, CacheType
<1>2. sector \in Int
  BY <1>1, CachedType, Constants
<1> HIDE DEF sector
<1>3. PICK now : /\ now = cache \/ now = [position |-> sector, holds |-> sector] \/ now = [cache EXCEPT !.position = sector]
                 /\ n = [cluster |-> SignExtend(Cached(cluster, now)), cache |-> now]
  BY DEF FAT_NextCluster, sector
<1>4. now \in CacheType
  BY <1>1, <1>2, <1>3 DEF CacheType
<1> QED
  BY <1>3, <1>4, CachedType

-----------------------------------------------------------------------------
(* One turn of FAT_Read's loop. *)

(* What a turn leaves alone in the file, and where it may move the end. *)
Kept(fd, to, now) ==
  /\ now \in FileData /\ now.opened = fd.opened /\ now.dir = fd.dir /\ now.first = fd.first
  /\ now.position = to
  /\ now.size \in {fd.size, to}

LEMMA RootSectorKept ==
  ASSUME TypeOK, NEW fd \in FileData, NEW o \in NextRootSector(fd)
  PROVE  /\ Kept(fd, fd.position, o.fd) /\ o.cache \in CacheType /\ o.ok \in BOOLEAN
         /\ o.ok => o.fd.size = fd.size
<1>1. fd.cluster + 1 \in Int /\ fd.buffer \in Nat
  BY DEF FileData
<1>2. PICK r \in ReadSectors(fd.cluster + 1, fd.buffer) :
        o = [fd |-> [fd EXCEPT !.cluster = @ + 1, !.buffer = r.buffer], cache |-> cache, ok |-> r.ok]
  BY DEF NextRootSector
<1>3. r.ok \in BOOLEAN /\ r.buffer \in Nat
  BY <1>1, ReadType
<1>4. cache \in CacheType
  BY DEF TypeOK, CacheType
<1>5. /\ Kept(fd, fd.position, [fd EXCEPT !.cluster = @ + 1, !.buffer = r.buffer])
      /\ [fd EXCEPT !.cluster = @ + 1, !.buffer = r.buffer].size = fd.size
  BY <1>1, <1>3 DEF FileData, Kept
<1> QED
  BY <1>2, <1>3, <1>4, <1>5

Leaves(fd)   == fd.sector + 1 >= SectorsPerCluster
SectorOf(fd) == IF Leaves(fd) THEN 0 ELSE fd.sector + 1
MovedTo(fd, n) == [fd EXCEPT !.cluster = n.cluster, !.sector = SectorOf(fd)]

LEMMA FileSectorCases ==
  ASSUME NEW fd, NEW o \in NextFileSector(fd)
  PROVE  \E n \in NextClusterIf(Leaves(fd), fd) :
           \/ /\ n.cluster \in EndMarks
              /\ o = [fd |-> [MovedTo(fd, n) EXCEPT !.size = fd.position], cache |-> n.cache, ok |-> FALSE]
           \/ /\ n.cluster \notin EndMarks
              /\ \E r \in ReadSectors(FAT_ClusterToLba(n.cluster) + SectorOf(fd), fd.buffer) :
                   o = [fd |-> [MovedTo(fd, n) EXCEPT !.buffer = r.buffer], cache |-> n.cache, ok |-> r.ok]
BY DEF NextFileSector, Leaves, SectorOf, MovedTo

LEMMA ClusterIfType ==
  ASSUME TypeOK, FatType \in {12, 16, 32}, NEW fd \in FileData, NEW leaves, NEW n \in NextClusterIf(leaves, fd)
  PROVE  n.cluster \in Int /\ n.cache \in CacheType
<1>1. fd.cluster \in Int /\ cache \in CacheType
  BY DEF FileData, TypeOK, CacheType
<1>2. CASE leaves
  BY <1>1, <1>2, NextClusterType DEF NextClusterIf
<1>3. CASE ~leaves
  BY <1>1, <1>3 DEF NextClusterIf
<1> QED
  BY <1>2, <1>3

LEMMA FileSectorKept ==
  ASSUME TypeOK, FatType \in {12, 16, 32}, NEW fd \in FileData, NEW o \in NextFileSector(fd)
  PROVE  /\ Kept(fd, fd.position, o.fd) /\ o.cache \in CacheType /\ o.ok \in BOOLEAN
         /\ o.ok => o.fd.size = fd.size
<1>1. PICK n \in NextClusterIf(Leaves(fd), fd) :
           \/ /\ n.cluster \in EndMarks
              /\ o = [fd |-> [MovedTo(fd, n) EXCEPT !.size = fd.position], cache |-> n.cache, ok |-> FALSE]
           \/ /\ n.cluster \notin EndMarks
              /\ \E r \in ReadSectors(FAT_ClusterToLba(n.cluster) + SectorOf(fd), fd.buffer) :
                   o = [fd |-> [MovedTo(fd, n) EXCEPT !.buffer = r.buffer], cache |-> n.cache, ok |-> r.ok]
  BY FileSectorCases
<1>2. n.cluster \in Int /\ n.cache \in CacheType
  BY ClusterIfType
<1>3. fd.position \in Nat /\ fd.buffer \in Nat /\ SectorOf(fd) \in Nat
  BY DEF FileData, SectorOf
<1>4. FAT_ClusterToLba(n.cluster) + SectorOf(fd) \in Int
  BY <1>2, <1>3, Constants DEF FAT_ClusterToLba, TypeOK
<1>5. MovedTo(fd, n) \in FileData /\ Kept(fd, fd.position, MovedTo(fd, n)) /\ MovedTo(fd, n).size = fd.size
  BY <1>2, <1>3 DEF FileData, Kept, MovedTo
<1>6. Kept(fd, fd.position, [MovedTo(fd, n) EXCEPT !.size = fd.position])
  BY <1>3, <1>5 DEF Kept, FileData
<1>7. ASSUME NEW b \in Nat
      PROVE  /\ Kept(fd, fd.position, [MovedTo(fd, n) EXCEPT !.buffer = b])
             /\ [MovedTo(fd, n) EXCEPT !.buffer = b].size = fd.size
  BY <1>5, <1>7 DEF Kept, FileData
<1>8. CASE n.cluster \in EndMarks
  <2>1. o = [fd |-> [MovedTo(fd, n) EXCEPT !.size = fd.position], cache |-> n.cache, ok |-> FALSE]
    BY <1>1, <1>8
  <2>2. o.fd = [MovedTo(fd, n) EXCEPT !.size = fd.position] /\ o.cache = n.cache /\ o.ok = FALSE
    BY <2>1
  <2> QED
    BY <1>2, <1>6, <2>2, Zenon
<1>9. CASE n.cluster \notin EndMarks
  <2>1. PICK r \in ReadSectors(FAT_ClusterToLba(n.cluster) + SectorOf(fd), fd.buffer) :
               o = [fd |-> [MovedTo(fd, n) EXCEPT !.buffer = r.buffer], cache |-> n.cache, ok |-> r.ok]
    BY <1>1, <1>9
  <2>2. r.ok \in BOOLEAN /\ r.buffer \in Nat
    BY <1>3, <1>4, ReadType
  <2>3. /\ Kept(fd, fd.position, [MovedTo(fd, n) EXCEPT !.buffer = r.buffer])
        /\ [MovedTo(fd, n) EXCEPT !.buffer = r.buffer].size = fd.size
    BY <1>7, <2>2
  <2> QED
    BY <1>2, <2>1, <2>2, <2>3
<1> QED
  BY <1>8, <1>9

Take(fd, count) == Least(count, Left(fd))

LEMMA TakeType ==
  ASSUME NEW fd \in FileData, NEW count \in Nat \ {0}
  PROVE  /\ Left(fd) \in 1..SECTOR_SIZE
         /\ Take(fd, count) \in 1..count /\ Take(fd, count) <= Left(fd)
<1>1. fd.position % SECTOR_SIZE \in 0..SECTOR_SIZE - 1
  <2>1. fd.position \in Nat
    BY DEF FileData
  <2> QED
    BY <2>1, Constants, Z3
<1>2. Left(fd) \in 1..SECTOR_SIZE
  BY <1>1, Constants DEF Left
<1> HIDE DEF Left
<1> QED
  BY <1>2, Constants DEF Take, Least

LEMMA CopyCases ==
  ASSUME NEW h, NEW count, NEW o \in Copy(h, count)
  PROVE  LET fd    == Fd(h)
             moved == [fd EXCEPT !.position = @ + Take(fd, count)]
         IN  \/ /\ Take(fd, count) # Left(fd)
                /\ o = [fd |-> moved, cache |-> cache, ok |-> TRUE]
             \/ /\ Take(fd, count) = Left(fd)
                /\ IF h = ROOT_DIRECTORY_HANDLE THEN o \in NextRootSector(moved) ELSE o \in NextFileSector(moved)
BY DEF Copy, Take

LEMMA CopyKept ==
  ASSUME TypeOK, FatType \in {12, 16, 32}, NEW h \in Handles \cup {ROOT_DIRECTORY_HANDLE},
         NEW count \in Nat \ {0}, NEW o \in Copy(h, count)
  PROVE  /\ Fd(h) \in FileData
         /\ Kept(Fd(h), Fd(h).position + Take(Fd(h), count), o.fd)
         /\ o.cache \in CacheType /\ o.ok \in BOOLEAN
         /\ o.ok => o.fd.size = Fd(h).size
<1> DEFINE fd    == Fd(h)
           to    == fd.position + Take(fd, count)
           moved == [fd EXCEPT !.position = @ + Take(fd, count)]
<1>1. fd \in FileData
  BY DEF Fd, TypeOK
<1>2. \/ o = [fd |-> moved, cache |-> cache, ok |-> TRUE]
      \/ o \in NextRootSector(moved)
      \/ o \in NextFileSector(moved)
  BY CopyCases
<1>3. to \in Nat
  BY <1>1, TakeType DEF FileData
<1>4. moved \in FileData /\ moved.position = to /\ Kept(fd, to, moved) /\ moved.size = fd.size
  BY <1>1, <1>3 DEF FileData, Kept
<1>5. cache \in CacheType
  BY DEF TypeOK, CacheType
<1> HIDE DEF fd, to, moved
<1>6. Kept(moved, to, o.fd) => Kept(fd, to, o.fd)
  BY <1>4 DEF Kept
<1>7. CASE o = [fd |-> moved, cache |-> cache, ok |-> TRUE]
  BY <1>1, <1>4, <1>5, <1>7 DEF fd, to
<1>8. CASE o \in NextRootSector(moved)
  BY <1>1, <1>4, <1>6, <1>8, RootSectorKept DEF fd, to
<1>9. CASE o \in NextFileSector(moved)
  BY <1>1, <1>4, <1>6, <1>9, FileSectorKept DEF fd, to
<1> QED
  BY <1>1, <1>2, <1>7, <1>8, <1>9 DEF fd, to

-----------------------------------------------------------------------------
(* The inductive invariant is kept. *)

LEMMA FatInit == Init => FatInv
<1> SUFFICES ASSUME Init PROVE FatInv
  OBVIOUS
<1>1. root \in FileData /\ files \in [Handles -> FileData]
  BY DEF Init, FileData
<1>2. cache \in [position : Int, holds : Int]
  BY DEF Init, Unloaded
<1>3. AllWithin
  BY DEF Init, AllWithin, Within
<1>4. Balanced
  BY DEF Init, Balanced
<1> QED
  BY <1>1, <1>2, <1>3, <1>4 DEF Init, FatInv, TypeOK, LayoutKnown, CallFits, Mountable

LEMMA InitializeKeeps ==
  ASSUME FatInv, FAT_Initialize, UNCHANGED volume
  PROVE  FatInv'
<1>1. TypeOK /\ call.op = "mount" /\ held = {} /\ volume \in DOMAIN Volumes
  BY DEF FatInv, TypeOK, FAT_Initialize, CallFits, Mountable
<1>2. Balanced' /\ CallFits' /\ g' \in [type : {0, 12, 16, 32}, dataLba : Nat]
      /\ root' \in FileData /\ Within(root)' /\ LayoutKnown'
  <2>1. CASE ReadsFail /\ Unmounted /\ UNCHANGED <<root, g>>
    <3>1. call' = [op |-> "unmounted"] /\ call'.op = "unmounted"
      BY <2>1 DEF Unmounted
    <3> QED
      BY <1>1, <2>1, <3>1 DEF FatInv, TypeOK, AllWithin, Within, NoEnd, Balanced, CallFits, LayoutKnown,
                              Mountable, FAT_Initialize
  <2>2. ASSUME NEW r \in ReadSectors(Layout(BootSector).root, root.buffer),
               root' = [opened |-> TRUE, dir |-> TRUE, position |-> 0, size |-> Layout(BootSector).size,
                          first |-> Layout(BootSector).root, cluster |-> Layout(BootSector).root, sector |-> 0, buffer |-> r.buffer],
               g' = [type |-> IF r.ok THEN FAT_Detect(BootSector, Layout(BootSector).data) ELSE 0,
                     dataLba |-> Layout(BootSector).data],
               IF r.ok THEN call' = Idle ELSE Unmounted
        PROVE  Balanced' /\ CallFits' /\ g' \in [type : {0, 12, 16, 32}, dataLba : Nat]
               /\ root' \in FileData /\ Within(root)' /\ LayoutKnown'
    <3> DEFINE layout == Layout(BootSector)
    <3>1. layout.data \in Nat /\ layout.root \in Int /\ layout.size \in Nat /\ Type(volume) \in {12, 16, 32}
      BY <1>1, LayoutType DEF BootSector, Mounted
    <3>2. r.ok \in BOOLEAN /\ r.buffer \in Nat
      <4>1. root.buffer \in Nat
        BY <1>1 DEF TypeOK, FileData
      <4> QED
        BY <3>1, <4>1, ReadType
    <3>3. Type(volume) = FAT_Detect(BootSector, layout.data)
      BY DEF Type, BootSector, Mounted
    <3>4. r.ok => g' = [type |-> Type(volume)', dataLba |-> Layout(BootSector).data']
      <4>1. BootSector' = BootSector /\ Type(volume)' = Type(volume)
        BY DEF BootSector, Mounted, FAT_Initialize
      <4> QED
        BY <2>2, <3>3, <4>1
    <3>5. g' \in [type : {0, 12, 16, 32}, dataLba : Nat]
      BY <2>2, <3>1, <3>2, <3>3
    <3> HIDE DEF layout
    <3>6. root' = [opened |-> TRUE, dir |-> TRUE, position |-> 0, size |-> layout.size,
                   first |-> layout.root, cluster |-> layout.root, sector |-> 0, buffer |-> r.buffer]
      BY <2>2 DEF layout
    <3>7. root' \in FileData /\ Within(root)'
      BY <3>1, <3>2, <3>6 DEF FileData, Within, NoEnd
    <3>8. call'.op = (IF r.ok THEN "idle" ELSE "unmounted")
      BY <2>2 DEF Idle, Unmounted
    <3>9. Balanced' /\ CallFits'
      BY <1>1, <3>8 DEF FatInv, Balanced, CallFits, Mountable, FAT_Initialize
    <3> QED
      BY <3>4, <3>5, <3>7, <3>8, <3>9 DEF LayoutKnown, Mountable
  <2> QED
    BY <2>1, <2>2 DEF FAT_Initialize
<1>3. AllWithin'
  BY <1>2 DEF FatInv, AllWithin, FAT_Initialize, Within, NoEnd
<1> QED
  BY <1>1, <1>2, <1>3 DEF FatInv, TypeOK, FAT_Initialize

LEMMA KnownType ==
  ASSUME FatInv, call.op \notin Mountable
  PROVE  FatType \in {12, 16, 32} /\ FatType = Type(volume) /\ g.dataLba = Layout(BootSector).data
<1>1. g = [type |-> Type(volume), dataLba |-> Layout(BootSector).data]
  BY DEF FatInv, LayoutKnown
<1>2. Type(volume) \in {12, 16, 32}
  BY LayoutType DEF FatInv, TypeOK
<1> QED
  BY <1>1, <1>2 DEF FatType

LEMMA SetFdKeeps ==
  ASSUME TypeOK, AllWithin, NEW h \in Handles \cup {ROOT_DIRECTORY_HANDLE},
         NEW now \in FileData, Within(now), SetFd(h, now)
  PROVE  /\ root' \in FileData /\ files' \in [Handles -> FileData] /\ AllWithin'
         /\ \A i \in Handles : files'[i] = IF i = h THEN now ELSE files[i]
<1>1. CASE h = ROOT_DIRECTORY_HANDLE
  <2>1. root' = now /\ files' = files /\ h \notin Handles
    BY <1>1 DEF SetFd, ROOT_DIRECTORY_HANDLE, Handles
  <2> QED
    BY <1>1, <2>1 DEF TypeOK, AllWithin, Within, NoEnd
<1>2. CASE h # ROOT_DIRECTORY_HANDLE
  <2>1. root' = root /\ files' = [files EXCEPT ![h] = now] /\ h \in Handles
    BY <1>2 DEF SetFd
  <2>2. files' \in [Handles -> FileData] /\ \A i \in Handles : files'[i] = IF i = h THEN now ELSE files[i]
    BY <2>1 DEF TypeOK
  <2>3. AllWithin'
    BY <2>1, <2>2 DEF AllWithin, Within, NoEnd
  <2> QED
    BY <2>1, <2>2, <2>3 DEF TypeOK
<1> QED
  BY <1>1, <1>2

LEMMA ClosedFd ==
  ASSUME NEW h \in Handles \cup {ROOT_DIRECTORY_HANDLE}, NEW fd \in FileData, Within(fd)
  PROVE  /\ Closed(fd, h) \in FileData /\ Within(Closed(fd, h))
         /\ h # ROOT_DIRECTORY_HANDLE => Closed(fd, h).opened = FALSE
<1>1. CASE h = ROOT_DIRECTORY_HANDLE
  <2>1. Closed(fd, h) = [fd EXCEPT !.position = 0, !.cluster = fd.first]
    BY <1>1 DEF Closed
  <2> DEFINE first == fd.first
  <2>2. first \in Int
    BY DEF FileData
  <2> HIDE DEF first
  <2>4. Closed(fd, h) = [fd EXCEPT !.position = 0, !.cluster = first]
    BY <2>1 DEF first
  <2>6. ASSUME NEW p \in Nat
        PROVE  LET now == [fd EXCEPT !.position = p, !.cluster = first] IN now \in FileData /\ now.position = p
    BY <2>2 DEF FileData
  <2>5. Closed(fd, h) \in FileData /\ Closed(fd, h).position = 0
    BY <2>4, <2>6
  <2>3. Closed(fd, h).size \in Nat
    BY <2>5 DEF FileData
  <2> QED
    BY <1>1, <2>5, <2>3 DEF Within
<1>2. CASE h # ROOT_DIRECTORY_HANDLE
  <2>1. Closed(fd, h) = [fd EXCEPT !.opened = FALSE]
    BY <1>2 DEF Closed
  <2> QED
    BY <1>2, <2>1 DEF FileData, Within, NoEnd
<1> QED
  BY <1>1, <1>2

LEMMA RootIsNoHandle == ROOT_DIRECTORY_HANDLE \notin Handles
BY DEF ROOT_DIRECTORY_HANDLE, Handles

LEMMA InvIsBalanced == FatInv => HandlesBalanced
<1> SUFFICES ASSUME FatInv PROVE HandlesBalanced
  OBVIOUS
<1>0. TypeOK /\ CallFits /\ Balanced
  BY DEF FatInv
<1>1. \A h \in Handles : files[h].opened <=> (h \in held \/ (call.op = "find" /\ call.dir = h))
  BY <1>0, Zenon DEF Balanced
<1>2. /\ held \subseteq Handles
      /\ call.op = "find" => call.dir \in Handles \cup {ROOT_DIRECTORY_HANDLE}
  BY <1>0 DEF TypeOK, CallFits
<1> QED
  BY <1>1, <1>2, RootIsNoHandle DEF HandlesBalanced

(* What all but FAT_Initialize leave alone. *)
LEMMA KnownKept ==
  ASSUME LayoutKnown, UNCHANGED <<volume, g>>, call.op \notin Mountable
  PROVE  LayoutKnown'
<1>1. Type(volume)' = Type(volume) /\ BootSector' = BootSector
  BY DEF BootSector, Mounted
<1> QED
  BY <1>1 DEF LayoutKnown

LEMMA FatInvParts ==
  ASSUME FatInv
  PROVE  /\ TypeOK /\ LayoutKnown /\ AllWithin /\ CallFits /\ Balanced
         /\ \A h \in Handles \cup {ROOT_DIRECTORY_HANDLE} : Fd(h) \in FileData /\ Within(Fd(h))
<1>1. TypeOK /\ LayoutKnown /\ AllWithin /\ CallFits /\ Balanced
  BY DEF FatInv
<1>3. \A h \in Handles \cup {ROOT_DIRECTORY_HANDLE} : Fd(h) \in FileData /\ Within(Fd(h))
  BY <1>1 DEF TypeOK, AllWithin, Fd
<1> QED
  BY <1>1, <1>3

(* The invariant after a step that leaves the volume alone. *)
LEMMA FatInvNext ==
  ASSUME FatInv, UNCHANGED <<volume, g>>, call.op \notin Mountable,
         root' \in FileData, files' \in [Handles -> FileData], AllWithin',
         cache' \in CacheType, held' \subseteq Handles, CallFits', Balanced'
  PROVE  FatInv'
<1>1. TypeOK'
  BY DEF FatInv, TypeOK, CacheType
<1> QED
  BY <1>1, KnownKept DEF FatInv

LEMMA FindEndsKeeps ==
  ASSUME FatInv, FindEnds, UNCHANGED <<volume, g>>
  PROVE  FatInv'
<1> DEFINE dir == call.dir
           now == Closed(Fd(dir), dir)
<1>1. /\ call.op = "find" /\ SetFd(dir, now) /\ call' = Idle /\ UNCHANGED <<cache, held>>
      /\ call.op \notin Mountable
  BY DEF FindEnds, Return, Mountable
<1>2. dir \in (Handles \ held) \cup {ROOT_DIRECTORY_HANDLE} /\ Fd(dir) \in FileData /\ Within(Fd(dir))
  BY <1>1, FatInvParts DEF CallFits
<1>3. now \in FileData /\ Within(now) /\ (dir \in Handles => now.opened = FALSE)
  <2>1. dir \in Handles => dir # ROOT_DIRECTORY_HANDLE
    BY RootIsNoHandle
  <2> QED
    BY <1>2, <2>1, ClosedFd
<1> HIDE DEF now, dir
<1>4. /\ root' \in FileData /\ files' \in [Handles -> FileData] /\ AllWithin'
      /\ \A i \in Handles : files'[i] = IF i = dir THEN now ELSE files[i]
  BY <1>1, <1>2, <1>3, FatInvParts, SetFdKeeps
<1>5. call'.op = "idle"
  BY <1>1 DEF Idle
<1>6. CallFits' /\ cache' \in CacheType /\ held' \subseteq Handles
  BY <1>1, <1>5, FatInvParts DEF CallFits, Mountable, TypeOK, CacheType
<1>7. Balanced'
  <2>1. \A i \in Handles : files[i].opened = (i \in held \/ dir = i)
    BY <1>1, FatInvParts DEF Balanced, dir
  <2>2. \A i \in Handles : files'[i].opened = (i \in held' \/ FALSE)
    <3> SUFFICES ASSUME NEW i \in Handles PROVE files'[i].opened = (i \in held')
      OBVIOUS
    <3>1. CASE i = dir
      <4>1. files'[i] = now
        BY <1>4, <3>1
      <4>2. now.opened = FALSE
        BY <1>3, <3>1, Zenon
      <4>3. i \notin held'
        BY <1>1, <1>2, <3>1, RootIsNoHandle
      <4>4. (i \in held') = FALSE
        BY <4>3
      <4> QED
        BY <4>1, <4>2, <4>4, Zenon
    <3>2. CASE i # dir
      <4>1. files'[i] = files[i]
        BY <1>4, <3>2
      <4>2. files[i].opened = (i \in held \/ dir = i)
        BY <2>1, Zenon
      <4>3. (i \in held \/ dir = i) = (i \in held')
        BY <1>1, <3>2
      <4> QED
        BY <4>1, <4>2, <4>3, Zenon
    <3> QED
      BY <3>1, <3>2
  <2> QED
    BY <1>5, <2>2 DEF Balanced
<1> QED
  BY <1>1, <1>4, <1>6, <1>7, FatInvNext

LEMMA FindEntryKeeps ==
  ASSUME FatInv, FindEntry, UNCHANGED <<volume, g>>
  PROVE  FatInv'
<1> DEFINE dir == call.dir
<1>1. /\ call.op = "find" /\ call.op \notin Mountable /\ UNCHANGED held
      /\ Limit(Fd(dir), ENTRY_SIZE) = ENTRY_SIZE
  BY DEF FindEntry, Mountable
<1>2. PICK o \in Copy(dir, ENTRY_SIZE) :
        /\ cache' = o.cache
        /\ \/ SetFd(dir, Closed(o.fd, dir)) /\ call' = Entering(EntryAt(Fd(dir)))
           \/ SetFd(dir, o.fd) /\ UNCHANGED call
  BY DEF FindEntry
<1>3. dir \in (Handles \ held) \cup {ROOT_DIRECTORY_HANDLE} /\ Fd(dir) \in FileData /\ Within(Fd(dir))
  BY <1>1, FatInvParts DEF CallFits
<1>4. FatType \in {12, 16, 32}
  BY <1>1, KnownType
<1>5. /\ Kept(Fd(dir), Fd(dir).position + Take(Fd(dir), ENTRY_SIZE), o.fd) /\ o.cache \in CacheType
      /\ Take(Fd(dir), ENTRY_SIZE) \in 1..ENTRY_SIZE
  <2>1. ENTRY_SIZE \in Nat \ {0} /\ TypeOK
    BY FatInvParts DEF ENTRY_SIZE
  <2> QED
    BY <1>3, <1>4, <2>1, CopyKept, TakeType
<1> HIDE DEF dir
<1>6. o.fd \in FileData /\ Within(o.fd) /\ o.fd.opened = Fd(dir).opened
  <2>1. Fd(dir).position \in Nat /\ Fd(dir).size \in Nat
    BY <1>3 DEF FileData
  <2>2. NoEnd(Fd(dir)) \/ Fd(dir).position + ENTRY_SIZE <= Fd(dir).size
    BY <1>1, <2>1 DEF Limit, NoEnd, Least, ENTRY_SIZE
  <2> DEFINE fd == Fd(dir)
             t  == Take(Fd(dir), ENTRY_SIZE)
  <2>3. t \in 1..ENTRY_SIZE /\ o.fd.position = fd.position + t /\ o.fd.size \in {fd.size, fd.position + t}
        /\ o.fd.dir = fd.dir
    BY <1>5 DEF Kept
  <2> HIDE DEF t, fd
  <2>4. fd.position \in Nat /\ fd.size \in Nat /\ (NoEnd(fd) \/ fd.position + ENTRY_SIZE <= fd.size)
    BY <2>1, <2>2 DEF fd
  <2>5. Within(o.fd)
    BY <2>3, <2>4 DEF Within, NoEnd, ENTRY_SIZE
  <2> QED
    BY <1>5, <2>5 DEF Kept
<1>7. CASE SetFd(dir, Closed(o.fd, dir)) /\ call' = Entering(EntryAt(Fd(dir)))
  <2> DEFINE now == Closed(o.fd, dir)
  <2>1. now \in FileData /\ Within(now) /\ (dir \in Handles => now.opened = FALSE)
    <3>1. dir \in Handles => dir # ROOT_DIRECTORY_HANDLE
      BY RootIsNoHandle
    <3> QED
      BY <1>3, <1>6, <3>1, ClosedFd
  <2> HIDE DEF now
  <2>2. /\ root' \in FileData /\ files' \in [Handles -> FileData] /\ AllWithin'
        /\ \A i \in Handles : files'[i] = IF i = dir THEN now ELSE files[i]
    BY <1>3, <1>7, <2>1, FatInvParts, SetFdKeeps DEF now
  <2>3. call'.op = "enter" /\ call'.entry = EntryAt(Fd(dir))
    BY <1>7 DEF Entering
  <2>4. OnVolume(EntryAt(Fd(dir))) /\ (OnVolume(call.entry)' <=> OnVolume(EntryAt(Fd(dir))))
    <3>1. Mounted' = Mounted
      BY DEF Mounted
    <3> QED
      BY <1>3, <2>3, <3>1, EntryAtType, FatInvParts DEF OnVolume
  <2>5. CallFits' /\ held' \subseteq Handles
    BY <1>1, <2>3, <2>4, FatInvParts DEF CallFits, Mountable, TypeOK
  <2>6. Balanced'
    <3>1. \A i \in Handles : files[i].opened = (i \in held \/ dir = i)
      BY <1>1, FatInvParts DEF Balanced, dir
    <3>2. \A i \in Handles : files'[i].opened = (i \in held' \/ FALSE)
      <4> SUFFICES ASSUME NEW i \in Handles PROVE files'[i].opened = (i \in held')
        OBVIOUS
      <4>1. CASE i = dir
        <5>1. files'[i] = now
          BY <2>2, <4>1
        <5>2. now.opened = FALSE
          BY <2>1, <4>1, Zenon
        <5>3. i \notin held'
          BY <1>1, <1>3, <4>1, RootIsNoHandle
        <5>4. (i \in held') = FALSE
          BY <5>3
        <5> QED
          BY <5>1, <5>2, <5>4, Zenon
      <4>2. CASE i # dir
        <5>1. files'[i] = files[i]
          BY <2>2, <4>2
        <5>2. files[i].opened = (i \in held \/ dir = i)
          BY <3>1, Zenon
        <5>3. (i \in held \/ dir = i) = (i \in held')
          BY <1>1, <4>2
        <5> QED
          BY <5>1, <5>2, <5>3, Zenon
      <4> QED
        BY <4>1, <4>2
    <3> QED
      BY <2>3, <3>2 DEF Balanced
  <2> QED
    BY <1>1, <1>2, <1>5, <2>2, <2>5, <2>6, FatInvNext
<1>8. CASE SetFd(dir, o.fd) /\ UNCHANGED call
  <2>1. /\ root' \in FileData /\ files' \in [Handles -> FileData] /\ AllWithin'
        /\ \A i \in Handles : files'[i] = IF i = dir THEN o.fd ELSE files[i]
    BY <1>3, <1>6, <1>8, FatInvParts, SetFdKeeps
  <2>2. CallFits' /\ held' \subseteq Handles
    BY <1>1, <1>8, FatInvParts DEF CallFits, Mountable, TypeOK
  <2>3. \A i \in Handles : files'[i].opened = files[i].opened
    BY <1>6, <2>1 DEF Fd, ROOT_DIRECTORY_HANDLE, Handles
  <2>4. Balanced'
    BY <1>1, <1>8, <2>3, FatInvParts DEF Balanced
  <2> QED
    BY <1>1, <1>2, <1>5, <2>1, <2>2, <2>4, FatInvNext
<1> QED
  BY <1>2, <1>7, <1>8

LEMMA GiveUpFits ==
  ASSUME GiveUp
  PROVE  call'.op \in {"idle", "wild"}
BY DEF GiveUp, Return, Idle

LEMMA NoHandleKeeps ==
  ASSUME FatInv, NoHandle, UNCHANGED <<volume, g>>
  PROVE  FatInv'
<1>1. /\ call.op = "enter" /\ call.op \notin Mountable /\ UNCHANGED <<root, files, cache, held>>
      /\ call'.op \in {"idle", "wild"}
  BY GiveUpFits DEF NoHandle, Mountable
<1>2. Balanced' /\ CallFits' /\ AllWithin'
  BY <1>1, FatInvParts DEF Balanced, CallFits, Mountable, AllWithin, Within, NoEnd
<1> QED
  BY <1>1, <1>2, FatInvParts, FatInvNext DEF TypeOK, CacheType

(* FAT_OpenEntry takes a free handle, and the file begins at its first byte. *)
Opened(h) ==
  /\ h \in FreeHandles
  /\ \E r \in ReadSectors(FAT_ClusterToLba(call.entry.cluster), files[h].buffer) :
       /\ files' = [files EXCEPT ![h] = Opening(h, r)]
       /\ \/ ~r.ok /\ GiveUp /\ UNCHANGED held
          \/ /\ r.ok /\ ~IsLast
             /\ Searching(h, call.asked, call.part + 1)
             /\ reply' = Nothing
             /\ UNCHANGED held
          \/ /\ r.ok /\ IsLast
             /\ held' = held \cup {h}
             /\ Return([opened |-> h])

LEMMA SomeOpened ==
  ASSUME FAT_OpenEntry
  PROVE  \E h \in FreeHandles : Opened(h)
<1> DEFINE h == CHOOSE i \in FreeHandles : \A j \in FreeHandles : i <= j
<1>1. h \in FreeHandles
  <2>1. \E i \in FreeHandles : \A j \in FreeHandles : i <= j
    <3>1. FreeHandles # {} /\ FreeHandles \subseteq Nat
      BY DEF FAT_OpenEntry, FreeHandles, Handles
    <3>2. PICK i \in FreeHandles : \A j \in FreeHandles : ~(<<j, i>> \in OpToRel(<, Nat))
      BY <3>1, NatLessThanWellFounded, WFMin
    <3>3. \A j \in FreeHandles : ~(j < i)
      BY <3>1, <3>2 DEF OpToRel
    <3> QED
      BY <3>1, <3>3
  <2> QED
    BY <2>1, Zenon
<1> HIDE DEF h
<1>2. Opened(h)
  BY <1>1 DEF FAT_OpenEntry, Opened, h
<1> QED
  BY <1>1, <1>2

LEMMA OpeningType ==
  ASSUME FatInv, call.op = "enter", NEW h \in Handles,
         NEW r \in ReadSectors(FAT_ClusterToLba(call.entry.cluster), files[h].buffer)
  PROVE  /\ r.ok \in BOOLEAN /\ FAT_ClusterToLba(call.entry.cluster) \in Int
         /\ Opening(h, r) \in FileData /\ Opening(h, r).opened = r.ok /\ Within(Opening(h, r))
<1>1. call.entry \in DirectoryEntry /\ g.dataLba \in Nat /\ files[h] \in FileData
  BY FatInvParts DEF CallFits, OnVolume, TypeOK
<1>2. /\ call.entry.cluster \in Nat /\ call.entry.size \in Nat /\ call.entry.dir \in BOOLEAN
      /\ files[h].buffer \in Nat
  BY <1>1 DEF DirectoryEntry, FileData
<1>3. FAT_ClusterToLba(call.entry.cluster) \in Int
  BY <1>1, <1>2, Constants DEF FAT_ClusterToLba
<1>4. r.ok \in BOOLEAN /\ r.buffer \in Nat
  BY <1>2, <1>3, ReadType
<1> DEFINE e == call.entry
           now == Opening(h, r)
<1>5. now = [opened |-> r.ok, dir |-> e.dir, position |-> 0, size |-> e.size,
                        first |-> e.cluster, cluster |-> e.cluster, sector |-> 0, buffer |-> r.buffer]
  BY DEF Opening
<1>6. e.cluster \in Nat /\ e.size \in Nat /\ e.dir \in BOOLEAN
  BY <1>2
<1> HIDE DEF e, now
<1>7. now \in FileData
  BY <1>4, <1>5, <1>6 DEF FileData
<1>8. Within(now)
  BY <1>5, <1>6 DEF Within
<1>9. now.opened = r.ok
  BY <1>5, Zenon
<1> QED
  BY <1>3, <1>4, <1>7, <1>8, <1>9 DEF now

LEMMA OpenEntryKeeps ==
  ASSUME FatInv, FAT_OpenEntry, UNCHANGED <<volume, g>>
  PROVE  FatInv'
<1>1. call.op = "enter" /\ call.op \notin Mountable /\ UNCHANGED <<root, cache>>
  BY DEF FAT_OpenEntry, Mountable
<1>2. PICK h \in FreeHandles : Opened(h)
  BY SomeOpened
<1>3. h \in Handles /\ ~files[h].opened
  BY DEF FreeHandles
<1>4. PICK r \in ReadSectors(FAT_ClusterToLba(call.entry.cluster), files[h].buffer) :
       /\ files' = [files EXCEPT ![h] = Opening(h, r)]
       /\ \/ ~r.ok /\ GiveUp /\ UNCHANGED held
          \/ /\ r.ok /\ ~IsLast
             /\ Searching(h, call.asked, call.part + 1)
             /\ UNCHANGED held
          \/ /\ r.ok /\ IsLast
             /\ held' = held \cup {h}
             /\ Return([opened |-> h])
  BY <1>2 DEF Opened
<1> DEFINE now == Opening(h, r)
<1>5. r.ok \in BOOLEAN /\ now \in FileData /\ now.opened = r.ok /\ Within(now)
  BY <1>1, <1>3, OpeningType
<1> HIDE DEF now
<1>6. /\ root' \in FileData /\ files' \in [Handles -> FileData] /\ AllWithin'
      /\ \A i \in Handles : files'[i] = IF i = h THEN now ELSE files[i]
  <2>1. SetFd(h, now)
    BY <1>1, <1>3, <1>4, RootIsNoHandle DEF SetFd, now
  <2> QED
    BY <1>3, <1>5, <2>1, FatInvParts, SetFdKeeps
<1>7. \A i \in Handles : files[i].opened = (i \in held)
  BY <1>1, FatInvParts DEF Balanced
<1>8. h \notin held
  BY <1>3, <1>7
<1>9. ASSUME \A i \in Handles : (i \in held' \/ (call'.op = "find" /\ call'.dir = i)) <=> (IF i = h THEN r.ok ELSE i \in held)
      PROVE  Balanced'
  <2> SUFFICES ASSUME NEW i \in Handles
               PROVE  files'[i].opened = (i \in held' \/ (call'.op = "find" /\ call'.dir = i))
    BY DEF Balanced
  <2>1. files'[i].opened = IF i = h THEN r.ok ELSE i \in held
    <3>1. CASE i = h
      BY <1>5, <1>6, <3>1, Zenon
    <3>2. CASE i # h
      BY <1>6, <1>7, <3>2, Zenon
    <3> QED
      BY <3>1, <3>2
  <2> QED
    BY <1>5, <1>9, <2>1
<1>10. CASE ~r.ok /\ GiveUp /\ UNCHANGED held
  <2>1. call'.op \in {"idle", "wild"}
    BY <1>10, GiveUpFits
  <2>2. CallFits' /\ held' \subseteq Handles
    BY <1>10, <2>1, FatInvParts DEF CallFits, Mountable, TypeOK
  <2>3. Balanced'
    BY <1>8, <1>9, <1>10, <2>1
  <2> QED
    BY <1>1, <1>6, <2>2, <2>3, FatInvParts, FatInvNext DEF TypeOK, CacheType
<1>11. CASE r.ok /\ Searching(h, call.asked, call.part + 1) /\ UNCHANGED held
  <2>1. call'.op = "find" /\ call'.dir = h
    BY <1>11 DEF Searching
  <2>2. CallFits' /\ held' \subseteq Handles
    BY <1>3, <1>8, <1>11, <2>1, FatInvParts DEF CallFits, Mountable, TypeOK
  <2>3. Balanced'
    BY <1>8, <1>9, <1>11, <2>1
  <2> QED
    BY <1>1, <1>6, <2>2, <2>3, FatInvParts, FatInvNext DEF TypeOK, CacheType
<1>12. CASE r.ok /\ held' = held \cup {h} /\ Return([opened |-> h])
  <2>1. call'.op = "idle"
    BY <1>12 DEF Return, Idle
  <2>2. CallFits' /\ held' \subseteq Handles
    BY <1>3, <1>12, <2>1, FatInvParts DEF CallFits, Mountable, TypeOK
  <2>3. Balanced'
    BY <1>8, <1>9, <1>12, <2>1
  <2> QED
    BY <1>1, <1>6, <2>2, <2>3, FatInvParts, FatInvNext DEF TypeOK, CacheType
<1> QED
  BY <1>4, <1>10, <1>11, <1>12

LEMMA OpenKeeps ==
  ASSUME FatInv, NEW path, FAT_Open(path), UNCHANGED <<volume, g>>
  PROVE  FatInv'
<1>1. /\ call = Idle /\ UNCHANGED <<root, files, cache, held>>
      /\ Searching(ROOT_DIRECTORY_HANDLE, path, 1)
  BY DEF FAT_Open
<1>2. call.op = "idle" /\ call.op \notin Mountable
  BY <1>1 DEF Idle, Mountable
<1>3. call'.op = "find" /\ call'.dir = ROOT_DIRECTORY_HANDLE
  BY <1>1 DEF Searching
<1>4. CallFits' /\ AllWithin'
  BY <1>1, <1>3, FatInvParts DEF CallFits, Mountable, AllWithin, Within, NoEnd
<1>5. Balanced'
  <2> SUFFICES ASSUME NEW i \in Handles
               PROVE  files'[i].opened = (i \in held' \/ (call'.op = "find" /\ call'.dir = i))
    BY DEF Balanced
  <2>1. files[i].opened = (i \in held \/ (call.op = "find" /\ call.dir = i))
    BY FatInvParts DEF Balanced
  <2>2. (i \in held \/ (call.op = "find" /\ call.dir = i)) = (i \in held' \/ (call'.op = "find" /\ call'.dir = i))
    BY <1>1, <1>2, <1>3, RootIsNoHandle
  <2> QED
    BY <1>1, <2>1, <2>2, Zenon
<1> QED
  BY <1>1, <1>2, <1>4, <1>5, FatInvParts, FatInvNext DEF TypeOK, CacheType

LEMMA CloseKeeps ==
  ASSUME FatInv, NEW h \in Handles, FAT_Close(h), UNCHANGED <<volume, g>>
  PROVE  FatInv'
<1> DEFINE now == Closed(files[h], h)
<1>1. /\ call = Idle /\ h \in held /\ files' = [files EXCEPT ![h] = now] /\ held' = held \ {h}
      /\ call' = Idle /\ UNCHANGED <<root, cache>>
  BY DEF FAT_Close, Return
<1>2. call.op = "idle" /\ call'.op = "idle" /\ call.op \notin Mountable
  BY <1>1 DEF Idle, Mountable
<1>3. now \in FileData /\ Within(now) /\ now.opened = FALSE
  <2>1. h # ROOT_DIRECTORY_HANDLE /\ files[h] \in FileData /\ Within(files[h])
    BY RootIsNoHandle, FatInvParts DEF TypeOK, AllWithin
  <2> QED
    BY <2>1, ClosedFd
<1> HIDE DEF now
<1>4. /\ root' \in FileData /\ files' \in [Handles -> FileData] /\ AllWithin'
      /\ \A i \in Handles : files'[i] = IF i = h THEN now ELSE files[i]
  <2>1. SetFd(h, now)
    BY <1>1, RootIsNoHandle DEF SetFd
  <2> QED
    BY <1>3, <2>1, FatInvParts, SetFdKeeps
<1>5. CallFits' /\ held' \subseteq Handles
  BY <1>1, <1>2, FatInvParts DEF CallFits, Mountable, TypeOK
<1>6. Balanced'
  <2> SUFFICES ASSUME NEW i \in Handles
               PROVE  files'[i].opened = (i \in held' \/ (call'.op = "find" /\ call'.dir = i))
    BY DEF Balanced
  <2>1. files[i].opened = (i \in held \/ (call.op = "find" /\ call.dir = i))
    BY FatInvParts DEF Balanced
  <2>2. CASE i = h
    <3>1. files'[i].opened = FALSE
      BY <1>3, <1>4, <2>2, Zenon
    <3>2. (i \in held' \/ (call'.op = "find" /\ call'.dir = i)) = FALSE
      BY <1>1, <1>2, <2>2
    <3> QED
      BY <3>1, <3>2, Zenon
  <2>3. CASE i # h
    <3>1. files'[i] = files[i]
      BY <1>4, <2>3
    <3>2. (i \in held \/ (call.op = "find" /\ call.dir = i)) = (i \in held' \/ (call'.op = "find" /\ call'.dir = i))
      BY <1>1, <1>2, <2>3
    <3> QED
      BY <2>1, <3>1, <3>2, Zenon
  <2> QED
    BY <2>2, <2>3
<1> QED
  BY <1>1, <1>2, <1>4, <1>5, <1>6, FatInvParts, FatInvNext DEF TypeOK, CacheType

(* A step that moves no handle's mark and ends or begins no search. *)
LEMMA SameBalance ==
  ASSUME FatInv, call.op # "find", call'.op # "find", held' = held,
         \A i \in Handles : files'[i].opened = files[i].opened
  PROVE  Balanced'
<1> SUFFICES ASSUME NEW i \in Handles
             PROVE  files'[i].opened = (i \in held' \/ (call'.op = "find" /\ call'.dir = i))
  BY DEF Balanced
<1>1. files[i].opened = (i \in held \/ (call.op = "find" /\ call.dir = i))
  BY FatInvParts DEF Balanced
<1>2. (i \in held \/ (call.op = "find" /\ call.dir = i)) = (i \in held' \/ (call'.op = "find" /\ call'.dir = i))
  OBVIOUS
<1>3. files'[i].opened = files[i].opened
  OBVIOUS
<1> QED
  BY <1>1, <1>2, <1>3, Zenon

LEMMA LimitFits ==
  ASSUME NEW fd \in FileData, Within(fd), NEW n \in Nat \ {0}, Limit(fd, n) # 0
  PROVE  Limit(fd, n) \in Nat \ {0} /\ (NoEnd(fd) \/ Limit(fd, n) <= fd.size - fd.position)
<1>1. fd.size \in Nat /\ fd.position \in Nat
  BY DEF FileData
<1> QED
  BY <1>1 DEF Limit, Within, NoEnd, Least

LEMMA ReadKeeps ==
  ASSUME FatInv, NEW h \in Handles, NEW n \in Counts, FAT_Read(h, n), UNCHANGED <<volume, g>>
  PROVE  FatInv'
<1> DEFINE count == Limit(files[h], n)
<1>1. /\ call = Idle /\ h \in held /\ UNCHANGED <<root, files, cache, held>>
      /\ call' = IF count = 0 THEN Idle ELSE [op |-> "read", handle |-> h, left |-> count]
  BY DEF FAT_Read
<1>2. call.op = "idle" /\ call.op \notin Mountable
  BY <1>1 DEF Idle, Mountable
<1>3. count # 0 => count \in Nat \ {0} /\ (NoEnd(files[h]) \/ count <= files[h].size - files[h].position)
  <2>1. files[h] \in FileData /\ Within(files[h]) /\ n \in Nat \ {0}
    BY FatInvParts, Constants DEF TypeOK, AllWithin
  <2> QED
    BY <2>1, LimitFits
<1> HIDE DEF count
<1>4. AllWithin' /\ held' \subseteq Handles
  BY <1>1, FatInvParts DEF AllWithin, Within, NoEnd, TypeOK
<1>5. CallFits' /\ call'.op # "find"
  <2>1. CASE count = 0
    <3>1. call'.op = "idle"
      BY <1>1, <2>1 DEF Idle
    <3> QED
      BY <3>1 DEF CallFits, Mountable
  <2>2. CASE count # 0
    <3>1. call' = [op |-> "read", handle |-> h, left |-> count]
      BY <1>1, <2>2
    <3>2. call'.op = "read" /\ call'.handle = h /\ call'.left = count
      BY <3>1
    <3>3. files'[call'.handle] = files[h] /\ call'.handle \in held'
      BY <1>1, <3>2
    <3> QED
      BY <1>3, <2>2, <3>1, <3>2, <3>3 DEF CallFits, Mountable, NoEnd
  <2> QED
    BY <2>1, <2>2
<1>6. Balanced'
  BY <1>1, <1>2, <1>5, SameBalance
<1> QED
  BY <1>1, <1>2, <1>4, <1>5, <1>6, FatInvParts, FatInvNext DEF TypeOK, CacheType

LEMMA ReadOnStep ==
  ASSUME FatInv, ReadOn
  PROVE  /\ call = [op |-> "read", handle |-> call.handle, left |-> call.left]
         /\ call.op \notin Mountable /\ held' = held
         /\ call.handle \in held /\ call.handle \in Handles /\ call.left \in Nat \ {0}
         /\ FatType \in {12, 16, 32}
         /\ LET h == call.handle
                t == Take(files[h], call.left)
            IN  /\ t \in 1..call.left /\ files[h] \in FileData /\ Within(files[h])
                /\ NoEnd(files[h]) \/ files[h].position + call.left <= files[h].size
                /\ \E o \in Copy(h, call.left) :
                     /\ Kept(files[h], files[h].position + t, o.fd)
                     /\ o.cache \in CacheType /\ o.ok \in BOOLEAN
                     /\ o.ok => o.fd.size = files[h].size
                     /\ SetFd(h, o.fd) /\ cache' = o.cache
                     /\ reply'.length = t
                     /\ call' = IF t = call.left \/ ~o.ok THEN Idle ELSE [call EXCEPT !.left = @ - t]
<1> DEFINE h == call.handle
           t == Take(files[h], call.left)
<1>1. call.op = "read" /\ call.op \notin Mountable /\ held' = held
  BY DEF ReadOn, Mountable
<1>2. /\ call = [op |-> "read", handle |-> call.handle, left |-> call.left]
      /\ h \in held /\ call.left \in Nat \ {0}
      /\ NoEnd(files[h]) \/ call.left <= files[h].size - files[h].position
  BY <1>1, FatInvParts DEF CallFits
<1>3. h \in Handles /\ Fd(h) = files[h] /\ files[h] \in FileData /\ Within(files[h])
  BY <1>2, FatInvParts, RootIsNoHandle DEF TypeOK, AllWithin, Fd
<1>4. FatType \in {12, 16, 32} /\ TypeOK
  BY <1>1, KnownType, FatInvParts
<1>5. t \in 1..call.left
  BY <1>2, <1>3, TakeType
<1>6. PICK o \in Copy(h, call.left) :
        /\ SetFd(h, o.fd) /\ cache' = o.cache
        /\ reply' = [first |-> files[h].first, lba |-> files[h].buffer,
                     offset |-> files[h].position % SECTOR_SIZE, length |-> t]
        /\ call' = IF t = call.left \/ ~o.ok THEN Idle ELSE [call EXCEPT !.left = @ - t]
  BY DEF ReadOn, Take
<1>7. /\ Kept(files[h], files[h].position + t, o.fd) /\ o.cache \in CacheType /\ o.ok \in BOOLEAN
      /\ o.ok => o.fd.size = files[h].size
  BY <1>2, <1>3, <1>4, CopyKept
<1>8. reply'.length = t
  BY <1>6
<1>9. NoEnd(files[h]) \/ files[h].position + call.left <= files[h].size
  <2>1. files[h].position \in Nat /\ files[h].size \in Nat
    BY <1>3 DEF FileData
  <2> QED
    BY <1>2, <2>1
<1> QED
  BY <1>1, <1>2, <1>3, <1>4, <1>5, <1>6, <1>7, <1>8, <1>9

LEMMA ReadOnKeeps ==
  ASSUME FatInv, ReadOn, UNCHANGED <<volume, g>>
  PROVE  FatInv'
<1> DEFINE h == call.handle
           t == Take(files[h], call.left)
<1>1. /\ call = [op |-> "read", handle |-> h, left |-> call.left]
      /\ call.op \notin Mountable /\ held' = held
      /\ h \in held /\ h \in Handles /\ call.left \in Nat \ {0}
      /\ t \in 1..call.left /\ files[h] \in FileData /\ Within(files[h])
      /\ NoEnd(files[h]) \/ files[h].position + call.left <= files[h].size
  BY ReadOnStep
<1>2. PICK o \in Copy(h, call.left) :
        /\ Kept(files[h], files[h].position + t, o.fd)
        /\ o.cache \in CacheType /\ o.ok \in BOOLEAN
        /\ o.ok => o.fd.size = files[h].size
        /\ SetFd(h, o.fd) /\ cache' = o.cache
        /\ call' = IF t = call.left \/ ~o.ok THEN Idle ELSE [call EXCEPT !.left = @ - t]
  BY ReadOnStep
<1> DEFINE fd == files[h]
<1>3. fd.position \in Nat /\ fd.size \in Nat
  BY <1>1 DEF FileData
<1>4. /\ o.fd \in FileData /\ o.fd.opened = fd.opened /\ o.fd.dir = fd.dir
      /\ o.fd.position = fd.position + t /\ o.fd.size \in {fd.size, fd.position + t}
      /\ o.ok => o.fd.size = fd.size
  BY <1>2 DEF Kept
<1>5. (NoEnd(fd) \/ fd.position + call.left <= fd.size) /\ t \in 1..call.left
  BY <1>1
<1> HIDE DEF fd, t
<1>6. /\ Within(o.fd)
      /\ o.ok => NoEnd(o.fd) \/ call.left - t <= o.fd.size - o.fd.position
  BY <1>1, <1>3, <1>4, <1>5 DEF Within, NoEnd
<1> HIDE DEF h
<1>7. /\ root' \in FileData /\ files' \in [Handles -> FileData] /\ AllWithin'
      /\ \A i \in Handles : files'[i] = IF i = h THEN o.fd ELSE files[i]
  BY <1>1, <1>2, <1>4, <1>6, FatInvParts, SetFdKeeps
<1>8. CallFits' /\ call'.op # "find"
  <2>1. CASE t = call.left \/ ~o.ok
    <3>1. call'.op = "idle"
      BY <1>2, <2>1 DEF Idle
    <3> QED
      BY <3>1 DEF CallFits, Mountable
  <2>2. CASE ~(t = call.left \/ ~o.ok)
    <3>1. call' = [op |-> "read", handle |-> h, left |-> call.left - t]
      BY <1>1, <1>2, <2>2
    <3>2. call'.op = "read" /\ call'.handle = h /\ call'.left = call.left - t
      BY <3>1
    <3>3. files'[call'.handle] = o.fd /\ call'.handle \in held' /\ call.left - t \in Nat \ {0}
      BY <1>1, <1>5, <1>7, <2>2, <3>2
    <3> QED
      BY <1>6, <2>2, <3>1, <3>2, <3>3 DEF CallFits, Mountable
  <2> QED
    BY <2>1, <2>2
<1>9. Balanced'
  <2>1. call.op = "read"
    BY <1>1
  <2>2. ASSUME NEW i \in Handles PROVE files'[i].opened = files[i].opened
    <3>1. CASE i = h
      BY <1>4, <1>7, <3>1, Zenon DEF fd
    <3>2. CASE i # h
      BY <1>7, <3>2, Zenon
    <3> QED
      BY <3>1, <3>2
  <2> QED
    BY <1>1, <1>8, <2>1, <2>2, SameBalance
<1> QED
  BY <1>1, <1>2, <1>7, <1>8, <1>9, FatInvParts, FatInvNext DEF TypeOK

LEMMA FatNext == FatInv /\ [Next]_vars => FatInv'
<1> SUFFICES ASSUME FatInv, [Next]_vars PROVE FatInv'
  OBVIOUS
<1>1. CASE FAT_Initialize /\ UNCHANGED volume
  BY <1>1, InitializeKeeps
<1>2. CASE (Search \/ ReadOn) /\ UNCHANGED <<volume, g>>
  BY <1>2, FindEndsKeeps, FindEntryKeeps, NoHandleKeeps, OpenEntryKeeps, ReadOnKeeps DEF Search
<1>3. ASSUME NEW path \in Mounted.paths, FAT_Open(path), UNCHANGED <<volume, g>> PROVE FatInv'
  BY <1>3, OpenKeeps
<1>4. ASSUME NEW h \in Handles, FAT_Close(h), UNCHANGED <<volume, g>> PROVE FatInv'
  BY <1>4, CloseKeeps
<1>5. ASSUME NEW h \in Handles, NEW n \in Counts, FAT_Read(h, n), UNCHANGED <<volume, g>> PROVE FatInv'
  BY <1>5, ReadKeeps
<1>6. CASE UNCHANGED vars
  <2>1. UNCHANGED <<volume, g, root, files, cache, call, held>>
    BY <1>6 DEF vars
  <2>2. Type(volume)' = Type(volume) /\ BootSector' = BootSector /\ Mounted' = Mounted
    BY <2>1 DEF BootSector, Mounted
  <2> QED
    BY <2>1, <2>2 DEF FatInv, TypeOK, LayoutKnown, AllWithin, Within, NoEnd, CallFits, OnVolume, Balanced
<1> QED
  BY <1>1, <1>2, <1>3, <1>4, <1>5, <1>6 DEF Next, Step

LEMMA FatAlways == Spec => []FatInv
<1> QED
  BY FatInit, FatNext, PTL DEF Spec

(* For every volume, medium and number of calls: what is marked as open is *)
(* what callers hold and the directory being searched.                     *)
THEOREM HandlesStayBalanced == Spec => []HandlesBalanced
<1> QED
  BY FatAlways, InvIsBalanced, PTL

-----------------------------------------------------------------------------
(* Quotients. *)

LEMMA DivMod ==
  ASSUME NEW a \in Nat, NEW b \in Nat \ {0}
  PROVE  /\ a \div b \in Nat /\ a % b \in 0..b - 1
         /\ a = b * (a \div b) + (a % b)
  BY Z3

LEMMA DivModUnique ==
  ASSUME NEW b \in Nat \ {0}, NEW q \in Nat, NEW r \in 0..b - 1
  PROVE  (b * q + r) \div b = q /\ (b * q + r) % b = r
<1> DEFINE a == b * q + r
           x == a \div b
           y == a % b
<1>1. a \in Nat
  BY Z3
<1>2. x \in Nat /\ y \in 0..b - 1 /\ a = b * x + y
  BY <1>1, DivMod
<1>3. b * q + r = b * x + y
  BY <1>2
<1> HIDE DEF x, y
<1>4. ~(q < x)
  <2>1. SUFFICES ASSUME q < x PROVE FALSE
    OBVIOUS
  <2>2. b * x >= b * (q + 1)
    BY <1>2, <2>1, Z3
  <2>3. b * (q + 1) = b * q + b
    BY Z3
  <2> QED
    BY <1>2, <1>3, <2>2, <2>3, Z3
<1>5. ~(x < q)
  <2>1. SUFFICES ASSUME x < q PROVE FALSE
    OBVIOUS
  <2>2. b * q >= b * (x + 1)
    BY <1>2, <2>1, Z3
  <2>3. b * (x + 1) = b * x + b
    BY <1>2, Z3
  <2> QED
    BY <1>2, <1>3, <2>2, <2>3, Z3
<1>6. x = q
  BY <1>2, <1>4, <1>5
<1>7. y = r
  BY <1>2, <1>3, <1>6, Z3
<1> QED
  BY <1>6, <1>7 DEF x, y

LEMMA QuotientBound ==
  ASSUME NEW a \in Nat, NEW b \in Nat \ {0}, NEW n \in Nat, a < n * b
  PROVE  a \div b < n
<1> DEFINE q == a \div b
<1>1. q \in Nat /\ a >= b * q
  BY DivMod, Z3
<1> HIDE DEF q
<1>2. SUFFICES ASSUME q >= n PROVE FALSE
  BY <1>1, Z3 DEF q
<1>3. b * q >= b * n
  BY <1>1, <1>2, Z3
<1> QED
  BY <1>1, <1>3, Z3

(* From one sector of a file to the next. *)
LEMMA NextPlace ==
  ASSUME NEW k \in Nat, NEW b \in Nat \ {0}
  PROVE  IF (k % b) + 1 >= b
         THEN (k + 1) \div b = (k \div b) + 1 /\ (k + 1) % b = 0
         ELSE (k + 1) \div b = k \div b /\ (k + 1) % b = (k % b) + 1
<1> DEFINE q == k \div b
           r == k % b
<1>1. q \in Nat /\ r \in 0..b - 1 /\ k = b * q + r
  BY DivMod
<1> HIDE DEF q, r
<1>2. CASE r + 1 >= b
  <2>1. k + 1 = b * (q + 1) + 0
    BY <1>1, <1>2, Z3
  <2>2. (b * (q + 1) + 0) \div b = q + 1 /\ (b * (q + 1) + 0) % b = 0
    <3>1. q + 1 \in Nat /\ 0 \in 0..b - 1
      BY <1>1
    <3> QED
      BY <3>1, DivModUnique
  <2> QED
    BY <1>2, <2>1, <2>2 DEF q, r
<1>3. CASE ~(r + 1 >= b)
  <2>1. k + 1 = b * q + (r + 1)
    BY <1>1, Z3
  <2>2. (b * q + (r + 1)) \div b = q /\ (b * q + (r + 1)) % b = r + 1
    <3>1. r + 1 \in 0..b - 1
      BY <1>1, <1>3
    <3> QED
      BY <1>1, <3>1, DivModUnique
  <2> QED
    BY <1>3, <2>1, <2>2 DEF q, r
<1> QED
  BY <1>2, <1>3 DEF q, r

(* Where t bytes more lead, t not beyond the sector's end. *)
LEMMA Further ==
  ASSUME NEW p \in Nat, NEW s \in Nat \ {0}, NEW t \in Nat, t <= s - (p % s)
  PROVE  (p + t) \div s = IF t = s - (p % s) THEN (p \div s) + 1 ELSE p \div s
<1> DEFINE q == p \div s
           r == p % s
<1>1. q \in Nat /\ r \in 0..s - 1 /\ p = s * q + r
  BY DivMod
<1>0. t <= s - r
  OBVIOUS
<1> HIDE DEF q, r
<1>2. CASE t = s - r
  <2>1. p + t = s * (q + 1) + 0
    BY <1>1, <1>2, Z3
  <2>2. (s * (q + 1) + 0) \div s = q + 1
    <3>1. q + 1 \in Nat /\ 0 \in 0..s - 1
      BY <1>1
    <3> QED
      BY <3>1, DivModUnique
  <2> QED
    BY <1>2, <2>1, <2>2 DEF q, r
<1>3. CASE t # s - r
  <2>1. p + t = s * q + (r + t) /\ r + t \in 0..s - 1
    BY <1>0, <1>1, <1>3, Z3
  <2>2. (s * q + (r + t)) \div s = q
    BY <1>1, <2>1, DivModUnique
  <2> QED
    BY <1>3, <2>1, <2>2 DEF q, r
<1> QED
  BY <1>2, <1>3 DEF q, r

-----------------------------------------------------------------------------
(* A file's clusters. *)

LEMMA SetInduction ==
  ASSUME NEW S, 0 \in S, \A n \in Nat : n \in S => n + 1 \in S
  PROVE  Nat \subseteq S
<1> DEFINE T == {n \in Nat : n \notin S}
<1>1. SUFFICES ASSUME T # {} PROVE FALSE
  OBVIOUS
<1>2. PICK x \in T : \A y \in T : ~(<<y, x>> \in OpToRel(<, Nat))
  <2>1. T \subseteq Nat /\ IsWellFoundedOn(OpToRel(<, Nat), Nat)
    BY NatLessThanWellFounded
  <2> HIDE DEF T
  <2> QED
    BY <1>1, <2>1, WFMin
<1>3. x \in Nat /\ x \notin S /\ x # 0
  OBVIOUS
<1>4. x - 1 \in T
  BY <1>3
<1>5. <<x - 1, x>> \in OpToRel(<, Nat)
  BY <1>3 DEF OpToRel
<1> QED
  BY <1>2, <1>4, <1>5

Follow(v, first, C, k) == IF k = 0 THEN first ELSE Entry(v, C[k - 1])

(* The recursion that defines Links has a solution on every prefix.        *)
LEMMA LinksExist ==
  ASSUME NEW v \in DOMAIN Volumes, NEW first \in Nat
  PROVE  \A n \in Nat : \E f \in [0..n -> Nat] : f = [k \in 0..n |-> Follow(v, first, f, k)]
<1> DEFINE Solved(n, f) == \A k \in 0..n : f[k] = Follow(v, first, f, k)
           S == {n \in Nat : \E f \in [0..n -> Nat] : Solved(n, f)}
<1>1. 0 \in S
  <2>1. [k \in 0..0 |-> first] \in [0..0 -> Nat] /\ Solved(0, [k \in 0..0 |-> first])
    BY DEF Follow
  <2> QED
    BY <2>1
<1>2. ASSUME NEW n \in Nat, NEW f \in [0..n -> Nat], Solved(n, f)
      PROVE  \E h \in [0..(n + 1) -> Nat] : Solved(n + 1, h)
  <2> DEFINE c == Entry(v, f[n])
             h == [k \in 0..(n + 1) |-> IF k <= n THEN f[k] ELSE c]
  <2>1. c \in Nat
    BY EntryType
  <2> HIDE DEF c
  <2>2. h \in [0..(n + 1) -> Nat]
    BY <2>1
  <2>3. ASSUME NEW k \in 0..(n + 1) PROVE h[k] = Follow(v, first, h, k)
    <3>1. CASE k = 0
      BY <1>2, <3>1 DEF Follow
    <3>2. CASE k \in 1..n
      <4>1. h[k] = f[k] /\ h[k - 1] = f[k - 1]
        BY <3>2
      <4>2. f[k] = Follow(v, first, f, k)
        BY <1>2, <3>2
      <4> QED
        BY <3>2, <4>1, <4>2 DEF Follow
    <3>3. CASE k = n + 1
      <4>1. h[k] = c /\ h[k - 1] = f[n]
        BY <3>3
      <4> QED
        BY <3>3, <4>1 DEF Follow, c
    <3> QED
      BY <3>1, <3>2, <3>3
  <2> HIDE DEF h
  <2> QED
    BY <2>2, <2>3
<1>3. ASSUME NEW n \in Nat, n \in S PROVE n + 1 \in S
  <2>1. PICK f \in [0..n -> Nat] : Solved(n, f)
    BY <1>3
  <2> HIDE DEF Solved
  <2> QED
    BY <1>2, <2>1
<1>4. Nat \subseteq S
  <2> HIDE DEF S
  <2> QED
    BY <1>1, <1>3, SetInduction, Zenon
<1> QED
  <2> SUFFICES ASSUME NEW n \in Nat
               PROVE  \E f \in [0..n -> Nat] : f = [k \in 0..n |-> Follow(v, first, f, k)]
    OBVIOUS
  <2>1. PICK f \in [0..n -> Nat] : Solved(n, f)
    BY <1>4
  <2>2. f = [k \in 0..n |-> f[k]] /\ \A k \in 0..n : f[k] = Follow(v, first, f, k)
    BY <2>1
  <2>3. f = [k \in 0..n |-> Follow(v, first, f, k)]
    BY <2>2
  <2> QED
    BY <2>3, Zenon

LEMMA LinksRecursion ==
  ASSUME NEW v \in DOMAIN Volumes, NEW first \in Nat
  PROVE  /\ Cardinality(InUse(v)) \in Nat
         /\ Links(v, first)[0] = first
         /\ \A k \in 1..Cardinality(InUse(v)) : Links(v, first)[k] = Entry(v, Links(v, first)[k - 1])
<1> DEFINE N == Cardinality(InUse(v))
           C == Links(v, first)
<1>1. N \in Nat
  BY FatAssumption, FS_CardinalityType DEF InUse
<1>2. C = CHOOSE f : f = [k \in 0..N |-> Follow(v, first, f, k)]
  BY DEF Links, Follow
<1>3. \E f : f = [k \in 0..N |-> Follow(v, first, f, k)]
  <2> HIDE DEF N
  <2> QED
    BY <1>1, LinksExist
<1>4. C = [k \in 0..N |-> Follow(v, first, C, k)]
  BY <1>2, <1>3, Zenon
<1> HIDE DEF N, C
<1>5. \A k \in 0..N : C[k] = Follow(v, first, C, k)
  BY <1>4
<1> QED
  BY <1>1, <1>5 DEF Follow, N, C

(* Each sector of an orderly chain lies in one of its clusters, on the volume. *)
LEMMA ChainSector ==
  ASSUME NEW v \in DOMAIN Volumes, NEW first \in Nat, NEW size \in Nat, OrderlyChain(v, first, size),
         NEW k \in Nat, k * SECTOR_SIZE < size
  PROVE  LET i == k \div SectorsPerCluster
             cluster == Links(v, first)[i]
         IN  /\ i + 1 \in 1..Cardinality(InUse(v)) /\ cluster \in InUse(v)
             /\ Chain(v, first)[k] = Lba(v, cluster) + (k % SectorsPerCluster)
             /\ Chain(v, first)[k] \in 0..TotalSectors - 1
<1> DEFINE L == Length(v, first)
           i == k \div SectorsPerCluster
           S == L * SectorsPerCluster
<1>1. L \in 1..Cardinality(InUse(v)) /\ IsLength(v, first, L)
  <2>1. \E n \in 1..Cardinality(InUse(v)) : IsLength(v, first, n)
    BY DEF OrderlyChain
  <2> QED
    BY <2>1, Zenon DEF Length
<1>2. Cardinality(InUse(v)) \in Nat
  BY LinksRecursion
<1>3. size <= S * SECTOR_SIZE /\ S \in Nat
  <2>1. size <= L * SectorsPerCluster * SECTOR_SIZE
    BY DEF OrderlyChain, Capacity
  <2> HIDE DEF L
  <2> QED
    BY <1>1, <1>2, <2>1, Constants
<1> HIDE DEF S
<1>4. k < S
  <2>1. SUFFICES ASSUME S <= k PROVE FALSE
    BY <1>3
  <2>2. S * SECTOR_SIZE <= k * SECTOR_SIZE
    BY <1>3, <2>1, Constants, Z3
  <2>3. k * SECTOR_SIZE \in Nat /\ S * SECTOR_SIZE \in Nat
    BY <1>3, Constants
  <2> QED
    BY <1>3, <2>2, <2>3
<1>5. i < L /\ i \in Nat
  <2>1. i < L
    BY <1>1, <1>2, <1>4, Constants, QuotientBound DEF S
  <2> QED
    BY <2>1, DivMod, Constants
<1>6. Links(v, first)[i] \in InUse(v)
  <2>1. i \in 0..L - 1
    BY <1>1, <1>2, <1>5
  <2> HIDE DEF L, i
  <2> QED
    BY <1>1, <2>1 DEF IsLength
<1>7. k \in 0..S - 1
  BY <1>3, <1>4
<1>8. /\ Chain(v, first)[k] = Lba(v, Links(v, first)[i]) + (k % SectorsPerCluster)
      /\ Chain(v, first)[k] \in Range(Chain(v, first))
  BY <1>7 DEF Chain, Range, S, L, i
<1>9. Chain(v, first)[k] \in 0..TotalSectors - 1
  BY <1>8 DEF OrderlyChain
<1>10. i + 1 \in 1..Cardinality(InUse(v))
  <2> HIDE DEF L, i
  <2> QED
    BY <1>1, <1>2, <1>5
<1> QED
  BY <1>6, <1>8, <1>9, <1>10

(* From a cluster to the file's next. *)
LEMMA NextLink ==
  ASSUME NEW v \in DOMAIN Volumes, NEW first \in Nat, NEW i \in Nat,
         i + 2 \in 1..Cardinality(InUse(v))
  PROVE  Links(v, first)[i + 1] = Entry(v, Links(v, first)[i])
<1>1. i + 1 \in 1..Cardinality(InUse(v)) /\ (i + 1) - 1 = i
  BY LinksRecursion
<1> QED
  BY <1>1, LinksRecursion

-----------------------------------------------------------------------------
(* The cached part of the table gives a cluster's own entry. *)

Packed(i)         == FatByte12(i) + 256 * FatByte12(i + 1)
Unpacked(c, word) == IF c % 2 = 0 THEN word % 4096 ELSE word \div 16
ThreeHalves(c)    == (c * 3) \div 2

LEMMA Fat12Entry ==
  ASSUME NEW c \in Nat, \A x : TableEntry(x) \in 0..4095
  PROVE  TableEntry(c) = Unpacked(c, Packed(ThreeHalves(c)))
<1> DEFINE i == ThreeHalves(c)
<1>5. i \in Nat /\ i = (c * 3) \div 2
  BY Z3 DEF ThreeHalves
<1> HIDE DEF i
<1> DEFINE m == c \div 2
<1>1. m \in Nat /\ (c = 2 * m \/ c = 2 * m + 1)
  BY Z3
<1> HIDE DEF m
<1>4. ASSUME NEW k \in Nat
      PROVE  FatByte12(k) =
               CASE k % 3 = 0 -> TableEntry((k \div 3) * 2) % 256
                 [] k % 3 = 1 -> TableEntry((k \div 3) * 2) \div 256 + (TableEntry((k \div 3) * 2 + 1) % 16) * 16
                 [] OTHER     -> TableEntry((k \div 3) * 2 + 1) \div 16
  BY DEF FatByte12
<1> DEFINE a == TableEntry(2 * m)
           b == TableEntry(2 * m + 1)
<1>2. CASE c = 2 * m
  <2>1. i = 3 * m /\ i % 3 = 0 /\ (i \div 3) * 2 = 2 * m /\ c % 2 = 0
        /\ (i + 1) % 3 = 1 /\ ((i + 1) \div 3) * 2 = 2 * m
    BY <1>1, <1>2, <1>5, Z3
  <2>2. FatByte12(i) = a % 256
    BY <1>4, <1>5, <2>1
  <2>3. FatByte12(i + 1) = a \div 256 + (b % 16) * 16
    BY <1>4, <1>5, <2>1
  <2>4. a \in 0..4095 /\ b \in 0..4095
    OBVIOUS
  <2> HIDE DEF a, b
  <2>5. ((a % 256) + 256 * (a \div 256 + (b % 16) * 16)) % 4096 = a
    BY <2>4, Z3
  <2> QED
    BY <1>2, <2>1, <2>2, <2>3, <2>5 DEF a, i, Packed, Unpacked
<1>3. CASE c = 2 * m + 1
  <2>1. i = 3 * m + 1 /\ i % 3 = 1 /\ (i \div 3) * 2 = 2 * m /\ c % 2 = 1
        /\ (i + 1) % 3 = 2 /\ ((i + 1) \div 3) * 2 = 2 * m
    BY <1>1, <1>3, <1>5, Z3
  <2>2. FatByte12(i) = a \div 256 + (b % 16) * 16
    BY <1>4, <1>5, <2>1
  <2>3. FatByte12(i + 1) = b \div 16
    BY <1>4, <1>5, <2>1
  <2>4. a \in 0..4095 /\ b \in 0..4095
    OBVIOUS
  <2> HIDE DEF a, b
  <2>5. (a \div 256 + (b % 16) * 16 + 256 * (b \div 16)) \div 16 = b
    BY <2>4, Z3
  <2>6. c % 2 # 0
    BY <2>1
  <2> QED
    BY <1>3, <2>2, <2>3, <2>5, <2>6 DEF b, i, Packed, Unpacked
<1> QED
  BY <1>1, <1>2, <1>3

(* A FAT is so much of it in the cache as FAT_CACHE_SIZE sectors hold. *)
Holds(c, cluster) ==
  LET sector == EntryByte(FatType, cluster) \div SECTOR_SIZE
  IN  c.position <= sector /\ sector < c.position + FAT_CACHE_SIZE

LEMMA OwnEntry ==
  ASSUME volume \in DOMAIN Volumes, OrderlyTable(volume), FatType = Type(volume), FatType \in {12, 16, 32},
         NEW c \in CacheType, c.holds = c.position, NEW cluster \in InUse(volume), Holds(c, cluster)
  PROVE  Cached(cluster, c) = TableEntry(cluster)
<1>1. cluster \in Nat
  BY FatAssumption DEF InUse
<1>2. CASE FatType # 12
  <2> DEFINE width == FatType \div 8
             shift == ((c.holds - c.position) * SECTOR_SIZE) \div width
  <2>1. width \in Nat \ {0}
    BY <1>2
  <2>2. (c.holds - c.position) * SECTOR_SIZE = 0
    BY Constants DEF CacheType
  <2> HIDE DEF width
  <2>3. 0 \div width = 0
    BY <2>1, Z3
  <2>4. cluster + shift = cluster
    BY <1>1, <2>2, <2>3
  <2>5. Cached(cluster, c) = TableEntry(cluster + shift)
    BY <1>2 DEF Cached, width
  <2> QED
    BY <2>4, <2>5
<1>3. CASE FatType = 12
  <2> DEFINE e == EntryByte(FatType, cluster)
             p == c.position
             j == e - p * SECTOR_SIZE
             s == e \div SECTOR_SIZE
             r == e % SECTOR_SIZE
  <2>1. e = (cluster * 3) \div 2 /\ e \in Nat
    BY <1>1, <1>3, Z3 DEF EntryByte
  <2>2. r # SECTOR_SIZE - 1
    BY <1>3 DEF OrderlyTable
  <2>3. p \in Int /\ p <= s /\ s < p + FAT_CACHE_SIZE
    BY DEF Holds, CacheType
  <2> HIDE DEF e, p
  <2>4. s \in Nat /\ r \in 0..SECTOR_SIZE - 1 /\ e = SECTOR_SIZE * s + r
    BY <2>1, Constants, DivMod
  <2> HIDE DEF s, r
  <2>5. j \in Int /\ j + 1 < FAT_CACHE_SIZE * SECTOR_SIZE
    <3> DEFINE d == s - p
    <3>1. d \in Int /\ d <= FAT_CACHE_SIZE - 1 /\ r <= SECTOR_SIZE - 2
      BY <2>2, <2>3, <2>4, Constants
    <3>2. j = SECTOR_SIZE * d + r
      BY <2>3, <2>4, Constants, Z3
    <3> HIDE DEF d, j
    <3>3. SECTOR_SIZE * d <= SECTOR_SIZE * (FAT_CACHE_SIZE - 1)
      BY <3>1, Constants, Z3
    <3>4. SECTOR_SIZE * (FAT_CACHE_SIZE - 1) = FAT_CACHE_SIZE * SECTOR_SIZE - SECTOR_SIZE
      BY Constants, Z3
    <3>5. SECTOR_SIZE * d \in Int /\ FAT_CACHE_SIZE * SECTOR_SIZE \in Int
      BY <3>1, Constants
    <3> QED
      BY <2>4, <3>1, <3>2, <3>3, <3>4, <3>5, Constants
  <2>6. j + p * SECTOR_SIZE = e /\ (j + 1) + p * SECTOR_SIZE = e + 1
    BY <2>1, <2>3, Constants
  <2> HIDE DEF j
  <2>7. CacheByte12(c, j) = FatByte12(e) /\ CacheByte12(c, j + 1) = FatByte12(e + 1)
    <3>1. j < FAT_CACHE_SIZE * SECTOR_SIZE /\ j + 1 < FAT_CACHE_SIZE * SECTOR_SIZE
      BY <2>5, Constants
    <3> QED
      BY <2>6, <3>1 DEF CacheByte12, p
  <2>8. \A x : TableEntry(x) \in 0..4095
    <3> SUFFICES ASSUME NEW x PROVE TableEntry(x) \in 0..4095
      OBVIOUS
    <3>1. TableEntry(x) \in Nat
      BY EntryType DEF TableEntry
    <3>2. x \in InUse(volume) => TableEntry(x) < 4096
      BY <1>3 DEF OrderlyTable, TableEntry, Entry, InUse
    <3>3. x \notin InUse(volume) => TableEntry(x) = 0
      BY DEF TableEntry, Entry, InUse
    <3> QED
      BY <3>1, <3>2, <3>3
  <2>9. TableEntry(cluster) = Unpacked(cluster, Packed(ThreeHalves(cluster)))
    BY <1>1, <2>8, Fat12Entry
  <2>10. Cached(cluster, c) = Unpacked(cluster, CacheByte12(c, j) + 256 * CacheByte12(c, j + 1))
    BY <1>3 DEF Cached, Unpacked, j, e, p
  <2>11. ThreeHalves(cluster) = e
    BY <2>1 DEF ThreeHalves
  <2> QED
    BY <2>7, <2>9, <2>10, <2>11 DEF Packed
<1> QED
  BY <1>2, <1>3

LEMMA KeepsItsWidth ==
  ASSUME OrderlyTable(volume), FatType = Type(volume), NEW c \in InUse(volume), c \in Nat
  PROVE  SignExtend(c) = c /\ c \notin EndMarks
<1>1. (FatType = 12 => c < 4088) /\ (FatType = 16 => c < 65528)
  BY DEF OrderlyTable
<1> QED
  BY <1>1 DEF SignExtend, EndMarks

LEMMA OwnNextCluster ==
  ASSUME volume \in DOMAIN Volumes, OrderlyTable(volume), FatType = Type(volume), FatType \in {12, 16, 32},
         cache \in CacheType, CacheTrue, ~ReadsFail, NEW cluster \in InUse(volume),
         NEW n \in FAT_NextCluster(cluster, cache)
  PROVE  n.cluster = SignExtend(TableEntry(cluster))
<1> DEFINE sector == EntryByte(FatType, cluster) \div SECTOR_SIZE
<1>1. sector \in Int /\ sector < Unloaded
  <2>1. cluster \in Nat
    BY FatAssumption DEF InUse
  <2>2. EntryByte(FatType, cluster) \in Int
    BY <2>1, Z3 DEF EntryByte
  <2>3. sector < Unloaded
    BY DEF OrderlyTable
  <2> QED
    BY <2>2, <2>3, Constants
<1>2. PICK now : /\ \/ now = cache /\ Holds(cache, cluster)
                    \/ now = [position |-> sector, holds |-> sector]
                 /\ n = [cluster |-> SignExtend(Cached(cluster, now)), cache |-> now]
  BY DEF FAT_NextCluster, Holds
<1>3. now \in CacheType /\ now.holds = now.position /\ Holds(now, cluster)
  <2>1. CASE now = cache /\ Holds(cache, cluster)
    <3>1. cache.position # Unloaded
      <4>1. cache.position <= sector /\ cache.position \in Int /\ Unloaded \in Int
        BY <2>1 DEF Holds, CacheType, Unloaded
      <4> HIDE DEF sector
      <4> QED
        BY <1>1, <4>1
    <3> QED
      BY <2>1, <3>1 DEF CacheTrue, TrueCache
  <2>2. CASE now = [position |-> sector, holds |-> sector]
    <3> HIDE DEF sector
    <3>1. now \in CacheType /\ now.holds = sector /\ now.position = sector
      BY <1>1, <2>2 DEF CacheType
    <3>2. sector <= sector /\ sector < sector + FAT_CACHE_SIZE
      BY <1>1, Constants
    <3> QED
      BY <3>1, <3>2 DEF Holds, sector
  <2> QED
    BY <1>2, <2>1, <2>2
<1>4. Cached(cluster, now) = TableEntry(cluster)
  BY <1>3, OwnEntry
<1> QED
  BY <1>2, <1>4

-----------------------------------------------------------------------------
(* A turn of FAT_Read's loop leaves the buffer the sector of the new       *)
(* position, and the cache true to its position.                           *)

LEMMA CopyTrue ==
  ASSUME ~ReadsFail, CacheTrue, NEW h, NEW count, NEW o \in Copy(h, count)
  PROVE  TrueCache(o.cache)
<1>1. ASSUME NEW cluster, NEW n \in FAT_NextCluster(cluster, cache) PROVE TrueCache(n.cache)
  <2> DEFINE sector == EntryByte(FatType, cluster) \div SECTOR_SIZE
  <2>1. n.cache = cache \/ n.cache = [position |-> sector, holds |-> sector]
    BY <1>1 DEF FAT_NextCluster
  <2> HIDE DEF sector
  <2> QED
    BY <2>1 DEF CacheTrue, TrueCache
<1>2. ASSUME NEW fd, NEW leaves, NEW n \in NextClusterIf(leaves, fd) PROVE TrueCache(n.cache)
  <2>1. n \in FAT_NextCluster(fd.cluster, cache) \/ n.cache = cache
    BY <1>2 DEF NextClusterIf
  <2> QED
    BY <1>1, <2>1 DEF CacheTrue
<1>3. ASSUME NEW fd, o \in NextRootSector(fd) PROVE TrueCache(o.cache)
  <2>1. \E now, ok : o = [fd |-> now, cache |-> cache, ok |-> ok]
    BY <1>3, Zenon DEF NextRootSector
  <2> QED
    BY <2>1 DEF CacheTrue
<1>4. ASSUME NEW fd, o \in NextFileSector(fd) PROVE TrueCache(o.cache)
  <2>1. \E n \in NextClusterIf(Leaves(fd), fd) : o.cache = n.cache
    BY <1>4, FileSectorCases
  <2> QED
    BY <1>2, <2>1
<1> DEFINE moved == [Fd(h) EXCEPT !.position = @ + Take(Fd(h), count)]
<1>5. o.cache = cache \/ o \in NextRootSector(moved) \/ o \in NextFileSector(moved)
  BY CopyCases
<1> HIDE DEF moved
<1> QED
  BY <1>3, <1>4, <1>5 DEF CacheTrue

LEMMA NextSectorWalks ==
  ASSUME FatInv, ~ReadsFail, CacheTrue, Orderly(volume), call.op \notin Mountable,
         NEW fd \in FileData, NEW size \in Nat, NEW k \in Nat,
         fd.position = (k + 1) * SECTOR_SIZE, fd.position < size,
         OrderlyChain(volume, fd.first, size), fd.first \in Nat,
         fd.sector = k % SectorsPerCluster,
         fd.cluster = Links(volume, fd.first)[k \div SectorsPerCluster],
         NEW o \in NextFileSector(fd)
  PROVE  /\ o.ok /\ WalksTo(o.fd, size)
         /\ o.fd.first = fd.first /\ o.fd.size = fd.size
<1> DEFINE v == volume
           first == fd.first
           C == Links(v, first)
           i == k \div SectorsPerCluster
           i1 == (k + 1) \div SectorsPerCluster
<1>1. /\ v \in DOMAIN Volumes /\ FatType \in {12, 16, 32} /\ FatType = Type(v) /\ TypeOK
      /\ cache \in CacheType /\ OrderlyTable(v) /\ g.dataLba = Volumes[v].dataLba /\ first \in Nat /\ size \in Nat
  BY KnownType, FatInvParts DEF TypeOK, CacheType, Orderly, BootSector, Mounted, FileData
<1>2. /\ k * SECTOR_SIZE < size /\ (k + 1) * SECTOR_SIZE < size /\ k + 1 \in Nat
  <2>1. (k + 1) * SECTOR_SIZE = k * SECTOR_SIZE + SECTOR_SIZE /\ k * SECTOR_SIZE \in Nat
    BY Constants
  <2> QED
    BY <1>1, <2>1, Constants
<1>3. C[i] \in InUse(v) /\ i \in Nat
  BY <1>1, <1>2, ChainSector, DivMod, Constants
<1>4. /\ i1 + 1 \in 1..Cardinality(InUse(v)) /\ C[i1] \in InUse(v)
      /\ Chain(v, first)[k + 1] = Lba(v, C[i1]) + ((k + 1) % SectorsPerCluster)
      /\ Chain(v, first)[k + 1] \in 0..TotalSectors - 1
  BY <1>1, <1>2, ChainSector
<1>5. C[i1] \in Nat
  BY <1>1, <1>4, FatAssumption DEF InUse
<1>6. PICK n \in NextClusterIf(Leaves(fd), fd) :
           \/ /\ n.cluster \in EndMarks
              /\ o = [fd |-> [MovedTo(fd, n) EXCEPT !.size = fd.position], cache |-> n.cache, ok |-> FALSE]
           \/ /\ n.cluster \notin EndMarks
              /\ \E r \in ReadSectors(FAT_ClusterToLba(n.cluster) + SectorOf(fd), fd.buffer) :
                   o = [fd |-> [MovedTo(fd, n) EXCEPT !.buffer = r.buffer], cache |-> n.cache, ok |-> r.ok]
  BY FileSectorCases
<1>7. n.cluster = C[i1] /\ SectorOf(fd) = (k + 1) % SectorsPerCluster
  <2>1. CASE (k % SectorsPerCluster) + 1 >= SectorsPerCluster
    <3>1. i1 = i + 1 /\ (k + 1) % SectorsPerCluster = 0
      BY <2>1, NextPlace, Constants
    <3>2. Leaves(fd) /\ SectorOf(fd) = 0
      BY <2>1 DEF Leaves, SectorOf
    <3>3. n \in FAT_NextCluster(C[i], cache)
      BY <3>2 DEF NextClusterIf
    <3>4. n.cluster = SignExtend(TableEntry(C[i]))
      BY <1>1, <1>3, <3>3, OwnNextCluster
    <3>5. C[i1] = TableEntry(C[i])
      <4>1. i + 2 \in 1..Cardinality(InUse(v))
        BY <1>3, <1>4, <3>1
      <4> QED
        BY <1>1, <1>3, <3>1, <4>1, NextLink DEF TableEntry
    <3>6. SignExtend(C[i1]) = C[i1]
      BY <1>1, <1>4, <1>5, KeepsItsWidth
    <3> QED
      BY <3>1, <3>2, <3>4, <3>5, <3>6
  <2>2. CASE ~((k % SectorsPerCluster) + 1 >= SectorsPerCluster)
    <3>1. i1 = i /\ (k + 1) % SectorsPerCluster = (k % SectorsPerCluster) + 1
      BY <2>2, NextPlace, Constants
    <3>2. ~Leaves(fd) /\ SectorOf(fd) = fd.sector + 1
      BY <2>2 DEF Leaves, SectorOf
    <3>3. n.cluster = fd.cluster
      BY <3>2 DEF NextClusterIf
    <3> QED
      BY <3>1, <3>2, <3>3
  <2> QED
    BY <2>1, <2>2
<1> HIDE DEF i, i1, C
<1>8. n.cluster \notin EndMarks
  BY <1>5, <1>7 DEF EndMarks
<1>9. PICK r \in ReadSectors(FAT_ClusterToLba(n.cluster) + SectorOf(fd), fd.buffer) :
        o = [fd |-> [MovedTo(fd, n) EXCEPT !.buffer = r.buffer], cache |-> n.cache, ok |-> r.ok]
  BY <1>6, <1>8
<1>10. FAT_ClusterToLba(n.cluster) + SectorOf(fd) = Chain(v, first)[k + 1]
  BY <1>1, <1>4, <1>7 DEF FAT_ClusterToLba, Lba
<1>11. r.ok /\ r.buffer = Chain(v, first)[k + 1]
  <2>1. fd.buffer \in Nat
    BY DEF FileData
  <2> QED
    BY <1>4, <1>10, <2>1, ReadType
<1>12. n.cluster \in Int /\ SectorOf(fd) \in Nat
  <2>1. fd.sector \in Nat
    BY DEF FileData
  <2> QED
    BY <1>5, <1>7, <2>1 DEF SectorOf
<1> DEFINE now == [MovedTo(fd, n) EXCEPT !.buffer = r.buffer]
<1>13. /\ now.first = first /\ now.size = fd.size /\ now.position = fd.position
       /\ now.sector = SectorOf(fd) /\ now.cluster = n.cluster /\ now.buffer = r.buffer
  <2>1. /\ MovedTo(fd, n) \in FileData /\ MovedTo(fd, n).first = first /\ MovedTo(fd, n).size = fd.size
        /\ MovedTo(fd, n).position = fd.position
        /\ MovedTo(fd, n).sector = SectorOf(fd) /\ MovedTo(fd, n).cluster = n.cluster
    BY <1>12 DEF MovedTo, FileData
  <2> QED
    BY <2>1 DEF FileData
<1> HIDE DEF now
<1>14. fd.position \div SECTOR_SIZE = k + 1
  <2>1. fd.position = SECTOR_SIZE * (k + 1) + 0
    BY Constants
  <2>2. k + 1 \in Nat /\ 0 \in 0..SECTOR_SIZE - 1 /\ SECTOR_SIZE \in Nat \ {0}
    BY Constants
  <2>3. (SECTOR_SIZE * (k + 1) + 0) \div SECTOR_SIZE = k + 1
    BY <2>2, DivModUnique
  <2> QED
    BY <2>1, <2>3
<1>15. WalksTo(now, size)
  BY <1>1, <1>7, <1>11, <1>13, <1>14 DEF WalksTo, C, i1
<1> QED
  BY <1>9, <1>11, <1>13, <1>15 DEF now

LEMMA WalksOn ==
  ASSUME FatInv, ~ReadsFail, CacheTrue, Orderly(volume), call.op \notin Mountable,
         NEW h \in Handles, NEW size \in Nat, files[h].position < size, WalksTo(files[h], size),
         NEW count \in Nat \ {0}, NEW o \in Copy(h, count),
         files[h].position + Take(files[h], count) < size
  PROVE  /\ o.ok /\ WalksTo(o.fd, size)
         /\ o.fd.first = files[h].first /\ o.fd.size = files[h].size
<1> DEFINE fd == files[h]
           k == fd.position \div SECTOR_SIZE
           t == Take(fd, count)
           moved == [fd EXCEPT !.position = @ + t]
<1>1. fd \in FileData /\ Fd(h) = fd /\ h # ROOT_DIRECTORY_HANDLE
  BY FatInvParts, RootIsNoHandle DEF TypeOK, Fd
<1>2. /\ \/ t # Left(fd) /\ o = [fd |-> moved, cache |-> cache, ok |-> TRUE]
         \/ t = Left(fd) /\ o \in NextFileSector(moved)
  BY <1>1, CopyCases
<1>3. t \in 1..count /\ t <= Left(fd)
  BY <1>1, TakeType
<1>4. fd.position \in Nat /\ k \in Nat /\ fd.position % SECTOR_SIZE \in 0..SECTOR_SIZE - 1
      /\ fd.position = SECTOR_SIZE * k + (fd.position % SECTOR_SIZE)
  <2>1. fd.position \in Nat
    BY <1>1 DEF FileData
  <2> QED
    BY <2>1, DivMod, Constants
<1>5. /\ OrderlyChain(volume, fd.first, size) /\ fd.first \in Nat
      /\ fd.sector = k % SectorsPerCluster
      /\ fd.cluster = Links(volume, fd.first)[k \div SectorsPerCluster]
      /\ fd.buffer = Chain(volume, fd.first)[k]
  BY DEF WalksTo
<1>6. fd.position + t < size
  OBVIOUS
<1>7. (fd.position + t) \div SECTOR_SIZE = IF t = Left(fd) THEN k + 1 ELSE k
  <2>1. t \in Nat /\ t <= SECTOR_SIZE - (fd.position % SECTOR_SIZE)
    BY <1>3 DEF Left
  <2> HIDE DEF t, fd
  <2> QED
    BY <1>4, <2>1, Further, Constants DEF Left, k
<1> HIDE DEF fd, k, t
<1>8. /\ moved \in FileData /\ moved.position = fd.position + t /\ moved.first = fd.first /\ moved.size = fd.size
      /\ moved.sector = fd.sector /\ moved.cluster = fd.cluster /\ moved.buffer = fd.buffer
  BY <1>1, <1>3, <1>4 DEF FileData
<1> HIDE DEF moved
<1>9. CASE t # Left(fd) /\ o = [fd |-> moved, cache |-> cache, ok |-> TRUE]
  <2>1. WalksTo(moved, size)
    BY <1>5, <1>7, <1>8, <1>9 DEF WalksTo
  <2> QED
    BY <1>8, <1>9, <2>1 DEF fd
<1>10. CASE t = Left(fd) /\ o \in NextFileSector(moved)
  <2>1. moved.position = (k + 1) * SECTOR_SIZE
    <3> DEFINE m == fd.position % SECTOR_SIZE
    <3>1. t = SECTOR_SIZE - m
      BY <1>10 DEF Left
    <3>2. m \in 0..SECTOR_SIZE - 1 /\ fd.position = SECTOR_SIZE * k + m
      BY <1>4
    <3> HIDE DEF m
    <3>3. fd.position + t = SECTOR_SIZE * k + SECTOR_SIZE
      BY <1>4, <3>1, <3>2, Constants
    <3>4. (k + 1) * SECTOR_SIZE = SECTOR_SIZE * k + SECTOR_SIZE
      BY <1>4, Constants
    <3> QED
      BY <1>8, <3>3, <3>4
  <2> QED
    <3>1. moved \in FileData /\ k \in Nat /\ moved.position < size /\ moved.first \in Nat
      BY <1>4, <1>5, <1>6, <1>8
    <3>2. OrderlyChain(volume, moved.first, size)
      BY <1>5, <1>8
    <3>3. /\ moved.sector = k % SectorsPerCluster
          /\ moved.cluster = Links(volume, moved.first)[k \div SectorsPerCluster]
      BY <1>5, <1>8
    <3>4. o.ok /\ WalksTo(o.fd, size) /\ o.fd.first = moved.first /\ o.fd.size = moved.size
      BY <1>10, <2>1, <3>1, <3>2, <3>3, NextSectorWalks
    <3> QED
      BY <1>8, <3>4 DEF fd
<1> QED
  BY <1>2, <1>9, <1>10 DEF fd

LEMMA FileWalksOn ==
  ASSUME FatInv, ~ReadsFail, CacheTrue, Orderly(volume), call.op \notin Mountable,
         NEW h \in Handles, files[h].position < files[h].size, Walks(files[h]),
         NEW count \in Nat \ {0}, NEW o \in Copy(h, count),
         files[h].position + Take(files[h], count) < files[h].size
  PROVE  o.ok /\ Walks(o.fd)
<1>1. OrderlyFile(volume, files[h].first, files[h].size) /\ WalksTo(files[h], files[h].size)
  BY DEF Walks
<1>2. files[h].size \in Nat
  BY FatInvParts DEF TypeOK, FileData
<1>3. /\ o.ok /\ WalksTo(o.fd, files[h].size)
      /\ o.fd.first = files[h].first /\ o.fd.size = files[h].size
  BY <1>1, <1>2, WalksOn
<1> QED
  BY <1>1, <1>3 DEF Walks

-----------------------------------------------------------------------------
(* On volumes in order, open files stay at their own sectors. *)

LEMMA KeptWalks ==
  ASSUME OwnSectors, UNCHANGED volume, ReadsFail \/ TrueCache(cache'),
         \A h \in held' : \/ h \in held /\ files'[h] = files[h]
                          \/ ReadsFail
                          \/ files'[h].position < files'[h].size => Walks(files'[h])
  PROVE  OwnSectors'
<1>1. ReadsFail' = ReadsFail
  BY DEF ReadsFail, Mounted
<1>2. ASSUME NEW h \in held', files'[h].position < files'[h].size, ~ReadsFail
      PROVE  Walks(files'[h])
  <2>1. CASE h \in held /\ files'[h] = files[h]
    BY <1>2, <2>1 DEF OwnSectors
  <2> QED
    BY <1>2, <2>1
<1>3. \A h \in held' : Walks(files[h])' <=> Walks(files'[h])
  BY DEF Walks, WalksTo
<1>4. CacheTrue' <=> TrueCache(cache')
  BY DEF CacheTrue, TrueCache
<1> QED
  BY <1>1, <1>2, <1>3, <1>4 DEF OwnSectors

LEMMA ReadOnWalks ==
  ASSUME FatInv, OwnSectors, AllOrderly, ReadOn, UNCHANGED <<volume, g>>
  PROVE  /\ OwnSectors'
         /\ ~ReadsFail /\ ~files[call.handle].dir /\ call'.op = "idle" => reply'.length = call.left
<1> DEFINE h == call.handle
           fd == files[h]
           t == Take(fd, call.left)
<1>1. /\ call = [op |-> "read", handle |-> h, left |-> call.left]
      /\ call.op \notin Mountable /\ held' = held
      /\ h \in held /\ h \in Handles /\ call.left \in Nat \ {0}
      /\ t \in 1..call.left /\ fd \in FileData
      /\ NoEnd(fd) \/ fd.position + call.left <= fd.size
  BY ReadOnStep
<1>2. PICK o \in Copy(h, call.left) :
        /\ Kept(fd, fd.position + t, o.fd)
        /\ o.ok \in BOOLEAN /\ SetFd(h, o.fd) /\ cache' = o.cache /\ reply'.length = t
        /\ call' = IF t = call.left \/ ~o.ok THEN Idle ELSE [call EXCEPT !.left = @ - t]
  BY ReadOnStep
<1>3. fd.position \in Nat /\ fd.size \in Nat /\ fd.dir \in BOOLEAN
  BY <1>1 DEF FileData
<1>4. /\ o.fd.position = fd.position + t /\ o.fd.size \in {fd.size, fd.position + t}
  BY <1>2 DEF Kept
<1>5. ASSUME ~ReadsFail, fd.position + t < fd.size PROVE o.ok /\ Walks(o.fd)
  <2>1. CacheTrue /\ Walks(fd)
    <3>1. fd.position < fd.size
      BY <1>1, <1>3, <1>5
    <3> QED
      BY <1>1, <1>5, <3>1 DEF OwnSectors
  <2>2. Orderly(volume)
    BY <1>5, FatInvParts DEF AllOrderly, ReadsFail, Mounted, TypeOK
  <2>3. fd.position < fd.size
    BY <1>1, <1>3, <1>5
  <2> QED
    BY <1>1, <1>5, <2>1, <2>2, <2>3, FileWalksOn
<1>6. \A i \in held' : files'[i] = IF i = h THEN o.fd ELSE files[i]
  <2>1. files' = [files EXCEPT ![h] = o.fd]
    BY <1>1, <1>2, RootIsNoHandle DEF SetFd
  <2> QED
    BY <1>1, <2>1, FatInvParts DEF TypeOK
<1> HIDE DEF t, fd
<1>7. ASSUME ~ReadsFail, o.fd.position < o.fd.size PROVE Walks(o.fd)
  BY <1>1, <1>3, <1>4, <1>5, <1>7
<1>8. ReadsFail \/ TrueCache(cache')
  <2>1. ~ReadsFail => CacheTrue
    BY DEF OwnSectors
  <2> QED
    BY <1>2, <2>1, CopyTrue
<1> HIDE DEF h
<1>9. OwnSectors'
  <2>1. ASSUME NEW i \in held'
        PROVE  \/ i \in held /\ files'[i] = files[i]
               \/ ReadsFail
               \/ files'[i].position < files'[i].size => Walks(files'[i])
    <3>1. CASE i = h
      BY <1>6, <1>7, <3>1
    <3>2. CASE i # h
      BY <1>1, <1>6, <3>2
    <3> QED
      BY <3>1, <3>2
  <2> QED
    BY <1>8, <2>1, KeptWalks
<1>10. ASSUME ~ReadsFail, ~fd.dir, call'.op = "idle" PROVE t = call.left
  <2>1. SUFFICES ASSUME t # call.left PROVE FALSE
    OBVIOUS
  <2>2. fd.position + call.left <= fd.size
    BY <1>1, <1>10 DEF NoEnd
  <2>3. o.ok
    BY <1>1, <1>3, <1>5, <1>10, <2>1, <2>2
  <2>4. call' = [op |-> "read", handle |-> h, left |-> call.left - t]
    BY <1>1, <1>2, <2>1, <2>3
  <2> QED
    BY <1>10, <2>4
<1> QED
  BY <1>2, <1>9, <1>10 DEF fd, h

(* A file just opened is at its first sector. *)
LEMMA OpensAtFirst ==
  ASSUME FatInv, ~ReadsFail, Orderly(volume), call.op = "enter", NEW h \in Handles,
         NEW r \in ReadSectors(FAT_ClusterToLba(call.entry.cluster), files[h].buffer),
         Opening(h, r).position < Opening(h, r).size
  PROVE  Walks(Opening(h, r))
<1> DEFINE v == volume
           e == call.entry
           now == Opening(h, r)
<1>1. /\ v \in DOMAIN Volumes /\ g.dataLba = Volumes[v].dataLba
      /\ e \in DirectoryEntry /\ (e.size > 0 => \E sector \in Range(Volumes[v].entries) : e \in Range(sector))
  <2>1. call.op \notin Mountable
    BY DEF Mountable
  <2> QED
    BY <2>1, KnownType, FatInvParts DEF TypeOK, CallFits, OnVolume, Mounted, Orderly, BootSector
<1>2. e.cluster \in Nat /\ e.size \in Nat
  BY <1>1 DEF DirectoryEntry
<1>3. /\ now.position = 0 /\ now.size = e.size /\ now.first = e.cluster /\ now.cluster = e.cluster
      /\ now.sector = 0 /\ now.buffer = r.buffer
  BY DEF Opening
<1>4. e.size > 0
  BY <1>3
<1>5. OrderlyFile(v, e.cluster, e.size) /\ OrderlyChain(v, e.cluster, e.size)
  BY <1>1, <1>4 DEF Orderly, OrderlyFile
<1> HIDE DEF now, e
<1>6. 0 \div SECTOR_SIZE = 0 /\ 0 \div SectorsPerCluster = 0 /\ 0 % SectorsPerCluster = 0
  BY Constants, Z3
<1>7. Links(v, e.cluster)[0] = e.cluster
  BY <1>1, <1>2, LinksRecursion
<1>8. /\ Chain(v, e.cluster)[0] = Lba(v, e.cluster) + 0
      /\ Chain(v, e.cluster)[0] \in 0..TotalSectors - 1
  <2>1. 0 * SECTOR_SIZE < e.size
    BY <1>2, <1>4, Constants
  <2> QED
    BY <1>1, <1>2, <1>5, <1>6, <1>7, <2>1, ChainSector
<1>9. r.buffer = Chain(v, e.cluster)[0]
  <2>1. FAT_ClusterToLba(e.cluster) = Lba(v, e.cluster)
    BY <1>1 DEF FAT_ClusterToLba, Lba
  <2>2. Lba(v, e.cluster) \in Int
    BY <1>1, <1>2, FatAssumption DEF Lba
  <2>3. files[h].buffer \in Nat
    BY FatInvParts DEF TypeOK, FileData
  <2>4. r \in ReadSectors(Lba(v, e.cluster), files[h].buffer)
    BY <2>1 DEF e
  <2> QED
    BY <1>8, <2>2, <2>3, <2>4, ReadType
<1>10. Walks(now)
  BY <1>2, <1>3, <1>5, <1>6, <1>7, <1>9 DEF Walks, WalksTo
<1> QED
  BY <1>10 DEF now

LEMMA OpenEntryWalks ==
  ASSUME FatInv, OwnSectors, AllOrderly, FAT_OpenEntry, UNCHANGED <<volume, g>>
  PROVE  OwnSectors'
<1>1. call.op = "enter" /\ UNCHANGED cache
  BY DEF FAT_OpenEntry
<1>2. PICK h \in FreeHandles : Opened(h)
  BY SomeOpened
<1>3. h \in Handles /\ h \notin held
  <2>1. h \in Handles /\ ~files[h].opened
    BY DEF FreeHandles
  <2> QED
    BY <2>1, FatInvParts DEF Balanced
<1>4. PICK r \in ReadSectors(FAT_ClusterToLba(call.entry.cluster), files[h].buffer) :
       files' = [files EXCEPT ![h] = Opening(h, r)] /\ (held' = held \/ held' = held \cup {h})
  BY <1>2 DEF Opened
<1>5. ~ReadsFail => Orderly(volume)
  BY FatInvParts DEF AllOrderly, ReadsFail, Mounted, TypeOK
<1>6. ReadsFail \/ TrueCache(cache')
  BY <1>1 DEF OwnSectors, CacheTrue
<1>7. ASSUME NEW i \in held'
      PROVE  \/ i \in held /\ files'[i] = files[i]
             \/ ReadsFail
             \/ files'[i].position < files'[i].size => Walks(files'[i])
  <2>1. files \in [Handles -> FileData] /\ held \subseteq Handles
    BY FatInvParts DEF TypeOK
  <2>2. CASE i = h
    BY <1>1, <1>3, <1>4, <1>5, <2>1, <2>2, OpensAtFirst
  <2>3. CASE i # h
    BY <1>4, <2>1, <2>3
  <2> QED
    BY <2>2, <2>3
<1> QED
  BY <1>6, <1>7, KeptWalks

LEMMA SearchWalks ==
  ASSUME FatInv, OwnSectors, FindEnds \/ FindEntry, UNCHANGED <<volume, g>>
  PROVE  OwnSectors'
<1>1. call.op = "find" /\ held' = held
  BY DEF FindEnds, FindEntry
<1>2. call.dir \notin held /\ held \subseteq Handles
  BY <1>1, FatInvParts, RootIsNoHandle DEF CallFits, TypeOK
<1>3. /\ \E now : SetFd(call.dir, now)
      /\ cache' = cache \/ \E o \in Copy(call.dir, ENTRY_SIZE) : cache' = o.cache
  <2>1. CASE FindEnds
    BY <2>1 DEF FindEnds
  <2>2. CASE FindEntry
    BY <2>2 DEF FindEntry
  <2> QED
    BY <2>1, <2>2
<1>4. ReadsFail \/ TrueCache(cache')
  BY <1>3, CopyTrue DEF OwnSectors, CacheTrue
<1>5. \A i \in held' : i \in held /\ files'[i] = files[i]
  BY <1>1, <1>2, <1>3, FatInvParts DEF SetFd, TypeOK
<1> QED
  BY <1>4, <1>5, KeptWalks

LEMMA OthersWalk ==
  ASSUME FatInv, OwnSectors, UNCHANGED <<volume, cache>>,
         \A h \in held' : h \in held /\ files'[h] = files[h]
  PROVE  OwnSectors'
<1>1. ReadsFail \/ TrueCache(cache')
  BY DEF OwnSectors, CacheTrue
<1> QED
  BY <1>1, KeptWalks

LEMMA OwnSectorsInit == Init => OwnSectors
BY DEF Init, OwnSectors, CacheTrue, TrueCache

LEMMA OwnSectorsNext ==
  ASSUME AllOrderly
  PROVE  FatInv /\ OwnSectors /\ [Next]_vars => OwnSectors'
<1> SUFFICES ASSUME FatInv, OwnSectors, [Next]_vars PROVE OwnSectors'
  OBVIOUS
<1>1. CASE FAT_Initialize /\ UNCHANGED volume
  BY <1>1, OthersWalk DEF FAT_Initialize
<1>2. CASE (Search \/ ReadOn) /\ UNCHANGED <<volume, g>>
  <2>1. CASE FindEnds \/ FindEntry
    BY <1>2, <2>1, SearchWalks
  <2>2. CASE NoHandle
    BY <1>2, <2>2, OthersWalk DEF NoHandle
  <2>3. CASE FAT_OpenEntry
    BY <1>2, <2>3, OpenEntryWalks
  <2>4. CASE ReadOn
    BY <1>2, <2>4, ReadOnWalks
  <2> QED
    BY <1>2, <2>1, <2>2, <2>3, <2>4 DEF Search
<1>3. ASSUME NEW path, FAT_Open(path), UNCHANGED <<volume, g>> PROVE OwnSectors'
  BY <1>3, OthersWalk DEF FAT_Open
<1>4. ASSUME NEW h \in Handles, FAT_Close(h), UNCHANGED <<volume, g>> PROVE OwnSectors'
  <2>1. /\ held' = held \ {h} /\ cache' = cache
        /\ files' = [files EXCEPT ![h] = Closed(files[h], h)]
    BY <1>4 DEF FAT_Close
  <2>2. \A i \in held' : i \in held /\ files'[i] = files[i]
    BY <2>1, FatInvParts DEF TypeOK
  <2> QED
    BY <1>4, <2>1, <2>2, OthersWalk
<1>5. ASSUME NEW h, NEW n, FAT_Read(h, n), UNCHANGED <<volume, g>> PROVE OwnSectors'
  BY <1>5, OthersWalk DEF FAT_Read
<1>6. CASE UNCHANGED vars
  BY <1>6, OthersWalk DEF vars
<1> QED
  BY <1>1, <1>2, <1>3, <1>4, <1>5, <1>6 DEF Next, Step

(* The sectors of a stored file are its clusters' sectors. *)
LEMMA SectorsAreChain ==
  ASSUME volume \in DOMAIN Volumes, NEW first, NEW size, OrderlyFile(volume, first, size)
  PROVE  SectorsOf(first) = Chain(volume, first)
<1> DEFINE S == Stored[volume]
<1>1. \E path \in DOMAIN S : S[path].first = first
  BY DEF OrderlyFile
<1>2. PathOf(first) \in DOMAIN S /\ S[PathOf(first)].first = first
  BY <1>1, Zenon DEF PathOf
<1>3. \A path \in DOMAIN S : S[path].sectors = Chain(volume, S[path].first)
  BY DEF Stored
<1> QED
  BY <1>2, <1>3, Zenon DEF SectorsOf

LEMMA OwnSectorsCurrent == FatInv /\ OwnSectors => BufferIsCurrent
<1> SUFFICES ASSUME FatInv, OwnSectors, ~ReadsFail, NEW h \in held, files[h].position < files[h].size
             PROVE  files[h].buffer = SectorsOf(files[h].first)[files[h].position \div SECTOR_SIZE]
  BY DEF BufferIsCurrent
<1>1. Walks(files[h]) /\ volume \in DOMAIN Volumes
  BY FatInvParts DEF OwnSectors, TypeOK
<1>2. OrderlyFile(volume, files[h].first, files[h].size)
      /\ files[h].buffer = Chain(volume, files[h].first)[files[h].position \div SECTOR_SIZE]
  BY <1>1 DEF Walks, WalksTo
<1>3. SectorsOf(files[h].first) = Chain(volume, files[h].first)
  BY <1>1, <1>2, SectorsAreChain
<1> QED
  BY <1>2, <1>3

LEMMA OwnAlways ==
  ASSUME AllOrderly
  PROVE  Spec => [](FatInv /\ OwnSectors)
<1>1. Init => FatInv /\ OwnSectors
  BY FatInit, OwnSectorsInit
<1>2. FatInv /\ OwnSectors /\ [Next]_vars => FatInv' /\ OwnSectors'
  BY FatNext, OwnSectorsNext
<1> QED
  BY <1>1, <1>2, PTL DEF Spec

(* On every volume in order on a disk that reads, whichever handles were   *)
(* read, searched and closed in between, the buffer of each open file is   *)
(* the sector its position lies in: the next byte read is its own.         *)
THEOREM BuffersStayCurrent ==
  ASSUME AllOrderly
  PROVE  Spec => []BufferIsCurrent
<1> QED
  BY OwnAlways, OwnSectorsCurrent, PTL

(* There a call of FAT_Read for a file ends only with all it was asked     *)
(* for, up to the end of the file: the chain ends no sooner.               *)
THEOREM ReadsAreWhole ==
  ASSUME AllOrderly
  PROVE  Spec => ReadsWhole
<1> DEFINE A == ~ReadsFail /\ call.op = "read" /\ ~files[call.handle].dir /\ call'.op = "idle"
                  => reply'.length = call.left
<1>1. FatInv /\ OwnSectors /\ [Next]_vars => [A]_vars
  <2> SUFFICES ASSUME FatInv, OwnSectors, [Next]_vars, ~ReadsFail, call.op = "read", ~files[call.handle].dir,
                      call'.op = "idle", ~UNCHANGED vars
               PROVE  reply'.length = call.left
    BY Zenon
  <2>1. ReadOn /\ UNCHANGED <<volume, g>>
    BY DEF Next, Step, Search, FAT_Initialize, FindEnds, FindEntry, NoHandle, FAT_OpenEntry, FAT_Open, FAT_Close, FAT_Read, Idle
  <2> QED
    BY <2>1, ReadOnWalks
<1> QED
  BY <1>1, OwnAlways, PTL DEF Spec, ReadsWhole

-----------------------------------------------------------------------------
(* On volumes in order whose paths can be followed, a search looks where   *)
(* the path leads, and what is held is what was asked for.                 *)

(* The directory entry at byte p, which lies in the sector lba. *)
SlotEntry(v, lba, p) ==
  IF lba \in DOMAIN Volumes[v].entries
  THEN Volumes[v].entries[lba][(p % SECTOR_SIZE) \div ENTRY_SIZE + 1] ELSE Blank

(* The root r is searched no further than the first name's place. *)
RootSearch(r, path) ==
  /\ r.position % ENTRY_SIZE = 0
  /\ \A i \in 1..SECTOR_SIZE \div ENTRY_SIZE - 1 :
       Mounted.entries[Mounted.rootLba][i].name = path[1] => r.position <= (i - 1) * ENTRY_SIZE

(* Up to the position no entry has the n-th name; at the chain's end the   *)
(* directory's size is known.                                              *)
DirectorySearch(fd, path, n) ==
  LET end == Capacity(volume, fd.first)
  IN  /\ n # 1 /\ \E e \in Found(volume, path)[n - 1] : fd.first = e.cluster
      /\ fd.dir /\ fd.position % ENTRY_SIZE = 0 /\ fd.position <= end
      /\ IF fd.position < end THEN fd.size = 0 /\ WalksTo(fd, end) ELSE fd.size = end
      /\ \A p \in 0..fd.position - 1 :
           p % ENTRY_SIZE = 0 =>
             SlotEntry(volume, Chain(volume, fd.first)[p \div SECTOR_SIZE], p).name # path[n]

SearchingRoot(c) == c.op = "find" /\ c.dir = ROOT_DIRECTORY_HANDLE

RootFits(c, r) ==
  /\ r.dir /\ r.size = Mounted.rootSize /\ r.buffer = Mounted.rootLba
  /\ ~SearchingRoot(c) => r.position = 0

Asks(c) == c.asked \in Mounted.paths /\ c.part \in 1..Len(c.asked)

FindFits(c, r, fs) ==
  /\ Asks(c)
  /\ \E name \in NamesTaken(c.asked, c.part) : c.short = FAT_GetShortName(name)
  /\ IF c.dir = ROOT_DIRECTORY_HANDLE THEN c.part = 1 /\ RootSearch(r, c.asked)
     ELSE DirectorySearch(fs[c.dir], c.asked, c.part)

EnterFits(c) == Asks(c) /\ c.entry \in Found(volume, c.asked)[c.part]

SearchFits(c, r, fs) ==
  /\ c.op = "find" => FindFits(c, r, fs)
  /\ c.op = "enter" => EnterFits(c)

(* The file at path. *)
IsFile(fd, path) ==
  /\ path \in DOMAIN Stored[volume] /\ ~fd.dir
  /\ fd.first = Stored[volume][path].first /\ fd.size = Stored[volume][path].size

IsStored(fd) == \E path : IsFile(fd, path)

Tracks ==
  ~ReadsFail =>
    /\ call.op \notin Mountable => RootFits(call, root)
    /\ SearchFits(call, root, files)
    /\ \A h \in held : IsStored(files[h])

(* With this the invariant implies that the driver is the file store. *)
StoreInv == FatInv /\ OwnSectors /\ Tracks

InOrder == ~ReadsFail /\ Orderly(volume) /\ OrderlyTree(volume)

-----------------------------------------------------------------------------
(* The sectors of a chain are as many as its length says, and differ. *)

LEMMA ChainLength ==
  ASSUME NEW v \in DOMAIN Volumes, NEW first \in Nat, NEW size, OrderlyChain(v, first, size)
  PROVE  /\ Length(v, first) \in 1..Cardinality(InUse(v)) /\ Length(v, first) \in Nat \ {0}
         /\ Cardinality(InUse(v)) \in Nat /\ IsLength(v, first, Length(v, first))
         /\ Length(v, first) * SectorsPerCluster \in Nat \ {0}
         /\ Capacity(v, first) = (Length(v, first) * SectorsPerCluster) * SECTOR_SIZE
         /\ Capacity(v, first) \in Nat \ {0}
         /\ OrderlyChain(v, first, Capacity(v, first))
<1> DEFINE L == Length(v, first)
           S == L * SectorsPerCluster
<1>1. \E n \in 1..Cardinality(InUse(v)) : IsLength(v, first, n)
  BY DEF OrderlyChain
<1>2. L \in 1..Cardinality(InUse(v)) /\ IsLength(v, first, L)
  BY <1>1, Zenon DEF Length
<1>3. Cardinality(InUse(v)) \in Nat
  BY LinksRecursion
<1>4. L \in Nat \ {0}
  <2> HIDE DEF L
  <2> QED
    BY <1>2, <1>3
<1>5. S \in Nat \ {0}
  <2> HIDE DEF L
  <2> QED
    BY <1>4, Constants, Z3
<1>6. Capacity(v, first) = S * SECTOR_SIZE
  BY DEF Capacity
<1>7. S * SECTOR_SIZE \in Nat \ {0}
  <2> HIDE DEF S
  <2> QED
    BY <1>5, Constants, Z3
<1>8. Capacity(v, first) <= Capacity(v, first)
  <2> HIDE DEF S
  <2> QED
    BY <1>6, <1>7
<1>9. OrderlyChain(v, first, Capacity(v, first))
  BY <1>8 DEF OrderlyChain
<1> QED
  BY <1>2, <1>3, <1>4, <1>5, <1>6, <1>7, <1>9

LEMMA ClustersDiffer ==
  ASSUME NEW v \in DOMAIN Volumes, NEW first \in Nat, NEW size, OrderlyChain(v, first, size),
         NEW i \in Nat, NEW j \in Nat, i < j, j < Length(v, first)
  PROVE  Links(v, first)[i] # Links(v, first)[j]
<1> DEFINE L == Length(v, first)
           C == Links(v, first)
           Same(d) == j + d <= L => C[i + d] = C[j + d]
           S == {d \in Nat : Same(d)}
<1>1. L \in Nat /\ Cardinality(InUse(v)) \in Nat /\ L <= Cardinality(InUse(v)) /\ IsLength(v, first, L)
  BY ChainLength
<1> HIDE DEF L
<1>2. SUFFICES ASSUME C[i] = C[j] PROVE FALSE
  OBVIOUS
<1>3. 0 \in S
  BY <1>2
<1>4. ASSUME NEW d \in Nat, Same(d) PROVE Same(d + 1)
  <2>1. SUFFICES ASSUME j + (d + 1) <= L PROVE C[i + (d + 1)] = C[j + (d + 1)]
    OBVIOUS
  <2>2. C[i + d] = C[j + d]
    BY <1>1, <1>4, <2>1
  <2> HIDE DEF C, Same
  <2>3. ASSUME NEW m \in Nat, m + 1 <= L PROVE C[m + 1] = Entry(v, C[m])
    <3>1. m + 1 \in 1..Cardinality(InUse(v)) /\ (m + 1) - 1 = m
      BY <1>1, <2>3
    <3> QED
      BY <3>1, LinksRecursion DEF C
  <2>4. C[(i + d) + 1] = Entry(v, C[i + d]) /\ C[(j + d) + 1] = Entry(v, C[j + d])
    BY <1>1, <2>1, <2>3
  <2>5. (i + d) + 1 = i + (d + 1) /\ (j + d) + 1 = j + (d + 1)
    OBVIOUS
  <2> QED
    BY <2>2, <2>4, <2>5
<1>5. \A d \in Nat : d \in S => d + 1 \in S
  <2> HIDE DEF Same
  <2> QED
    BY <1>4
<1>6. L - j \in S
  <2>1. Nat \subseteq S
    <3> HIDE DEF S
    <3> QED
      BY <1>3, <1>5, SetInduction, Zenon
  <2>2. L - j \in Nat
    BY <1>1 DEF L
  <2> HIDE DEF S
  <2> QED
    BY <2>1, <2>2
<1>7. C[i + (L - j)] = C[L]
  <2>1. j + (L - j) = L /\ L <= L
    BY <1>1
  <2>2. Same(L - j)
    BY <1>6
  <2> HIDE DEF C
  <2> QED
    BY <2>1, <2>2
<1>8. C[L] \notin InUse(v) /\ C[i + (L - j)] \in InUse(v)
  <2>1. i + (L - j) \in 0..L - 1
    BY <1>1 DEF L
  <2> QED
    BY <1>1, <2>1 DEF IsLength
<1> QED
  BY <1>7, <1>8

LEMMA SectorsDiffer ==
  ASSUME NEW v \in DOMAIN Volumes, NEW first \in Nat, NEW size, OrderlyChain(v, first, size),
         NEW k \in DOMAIN Chain(v, first), NEW m \in DOMAIN Chain(v, first),
         Chain(v, first)[k] = Chain(v, first)[m]
  PROVE  k = m
<1> DEFINE L == Length(v, first)
           C == Links(v, first)
           s == SectorsPerCluster
           n == L * s
<1>1. /\ L \in Nat /\ n \in Nat /\ IsLength(v, first, L) /\ s \in Nat \ {0}
  BY ChainLength, Constants
<1>2. DOMAIN Chain(v, first) = 0..n - 1
  BY DEF Chain
<1>3. ASSUME NEW x \in DOMAIN Chain(v, first)
      PROVE  /\ x \in Nat /\ x \div s \in Nat /\ x \div s < L /\ x % s \in 0..s - 1
             /\ x = s * (x \div s) + (x % s) /\ C[x \div s] \in Nat
             /\ Chain(v, first)[x] = (Volumes[v].dataLba + (C[x \div s] - 2) * s) + (x % s)
  <2>1. x \in Nat /\ x < n
    <3> HIDE DEF n
    <3> QED
      BY <1>1, <1>2
  <2>2. /\ x \div s \in Nat /\ x % s \in 0..s - 1 /\ x = s * (x \div s) + (x % s)
    BY <1>1, <2>1, DivMod
  <2>3. x \div s < L
    BY <1>1, <2>1, QuotientBound
  <2>4. C[x \div s] \in InUse(v)
    <3> DEFINE q == x \div s
    <3> HIDE DEF q, L, C
    <3>1. q \in 0..L - 1
      BY <1>1, <2>2, <2>3 DEF q
    <3> QED
      BY <1>1, <3>1 DEF IsLength, q, C
  <2>5. C[x \div s] \in Nat
    BY <2>4, FatAssumption DEF InUse
  <2>6. Chain(v, first)[x] = (Volumes[v].dataLba + (C[x \div s] - 2) * s) + (x % s)
    BY <1>2, <1>3 DEF Chain, Lba
  <2> QED
    BY <2>1, <2>2, <2>3, <2>5, <2>6
<1> HIDE DEF L, C, n
<1> DEFINE c == C[k \div s]
           d == C[m \div s]
<1>4. c \in Nat /\ d \in Nat /\ k % s \in 0..s - 1 /\ m % s \in 0..s - 1 /\ Volumes[v].dataLba \in Nat
  BY <1>3, FatAssumption
<1>5. (Volumes[v].dataLba + (c - 2) * s) + (k % s) = (Volumes[v].dataLba + (d - 2) * s) + (m % s)
  BY <1>3
<1> HIDE DEF c, d
<1>6. s * c + (k % s) = s * d + (m % s)
  <2> DEFINE kr == k % s
             mr == m % s
  <2>1. kr \in Nat /\ mr \in Nat
    BY <1>1, <1>4
  <2>2. (Volumes[v].dataLba + (c - 2) * s) + kr = (Volumes[v].dataLba + (d - 2) * s) + mr
    BY <1>5
  <2> HIDE DEF kr, mr
  <2>3. (c - 2) * s = s * c - 2 * s /\ (d - 2) * s = s * d - 2 * s
    BY <1>1, <1>4, Z3
  <2>4. s * c \in Nat /\ s * d \in Nat /\ 2 * s \in Nat /\ s \in Nat
    BY <1>1, <1>4
  <2>5. s * c + kr = s * d + mr
    BY <1>4, <2>1, <2>2, <2>3, <2>4
  <2> QED
    BY <2>5 DEF kr, mr
<1>7. c = d /\ k % s = m % s
  <2>1. (s * c + (k % s)) \div s = c /\ (s * c + (k % s)) % s = k % s
    BY <1>1, <1>4, DivModUnique
  <2>2. (s * d + (m % s)) \div s = d /\ (s * d + (m % s)) % s = m % s
    BY <1>1, <1>4, DivModUnique
  <2> QED
    BY <1>6, <2>1, <2>2
<1>8. k \div s = m \div s
  <2> DEFINE a == k \div s
             b == m \div s
  <2>1. a \in Nat /\ b \in Nat /\ a < L /\ b < L
    BY <1>3
  <2> HIDE DEF a, b
  <2>2. ~(a < b) /\ ~(b < a)
    BY <1>7, <2>1, ClustersDiffer DEF C, L, c, d, a, b
  <2> QED
    BY <2>1, <2>2 DEF a, b
<1> QED
  BY <1>3, <1>7, <1>8

-----------------------------------------------------------------------------
(* What a path names, one directory after another. *)

FoundFrom(v, path, E, n) ==
  IF n = 1 THEN Named(v, RootLbas(v), path[1])
  ELSE UNION {Named(v, Range(Chain(v, e.cluster)), path[n]) : e \in E[n - 1]}

LEMMA FoundExists ==
  ASSUME NEW v, NEW path
  PROVE  \A n \in Nat : \E f : f = [k \in 1..n |-> FoundFrom(v, path, f, k)]
<1> DEFINE Solves(f, n) == f = [k \in 1..n |-> FoundFrom(v, path, f, k)]
           S == {n \in Nat : \E f : Solves(f, n)}
<1>1. 0 \in S
  <2> DEFINE f == [k \in 1..0 |-> {}]
  <2>1. f = [k \in 1..0 |-> FoundFrom(v, path, f, k)]
    OBVIOUS
  <2> QED
    BY <2>1
<1>2. ASSUME NEW n \in Nat, NEW f, Solves(f, n) PROVE \E h : Solves(h, n + 1)
  <2> DEFINE c == FoundFrom(v, path, f, n + 1)
             h == [k \in 1..(n + 1) |-> IF k <= n THEN f[k] ELSE c]
  <2>1. \A k \in 1..n : f[k] = FoundFrom(v, path, f, k)
    BY <1>2
  <2>2. \A k \in 1..n : h[k] = f[k]
    OBVIOUS
  <2>3. h[n + 1] = c
    OBVIOUS
  <2>4. ASSUME NEW k \in 1..(n + 1) PROVE FoundFrom(v, path, f, k) = FoundFrom(v, path, h, k)
    <3>1. CASE k = 1
      BY <3>1 DEF FoundFrom
    <3>2. CASE k # 1
      <4>1. f[k - 1] = h[k - 1]
        BY <3>2, <2>2
      <4> HIDE DEF h
      <4> QED
        BY <3>2, <4>1, Zenon DEF FoundFrom
    <3> QED
      BY <3>1, <3>2
  <2>5. ASSUME NEW k \in 1..(n + 1) PROVE h[k] = FoundFrom(v, path, h, k)
    <3>1. CASE k \in 1..n
      <4>1. h[k] = f[k] /\ f[k] = FoundFrom(v, path, f, k)
        BY <2>1, <2>2, <3>1
      <4> QED
        BY <4>1, <2>4, Zenon
    <3>2. CASE k \notin 1..n
      <4>1. k = n + 1
        BY <3>2
      <4> QED
        BY <4>1, <2>3, <2>4
    <3> QED
      BY <3>1, <3>2
  <2>6. h = [k \in 1..(n + 1) |-> h[k]]
    OBVIOUS
  <2> HIDE DEF h
  <2>7. Solves(h, n + 1)
    BY <2>5, <2>6
  <2> QED
    BY <2>7
<1>3. \A n \in Nat : n \in S => n + 1 \in S
  <2> HIDE DEF Solves
  <2> QED
    BY <1>2
<1>4. Nat \subseteq S
  <2> HIDE DEF S
  <2> QED
    BY <1>1, <1>3, SetInduction, Zenon
<1> QED
  BY <1>4

LEMMA FoundRecursion ==
  ASSUME NEW v, NEW path, Len(path) \in Nat
  PROVE  \A n \in 1..Len(path) : Found(v, path)[n] = FoundFrom(v, path, Found(v, path), n)
<1> DEFINE L == Len(path)
           E == Found(v, path)
<1>1. E = CHOOSE f : f = [k \in 1..L |-> FoundFrom(v, path, f, k)]
  BY DEF Found, FoundFrom
<1>2. \E f : f = [k \in 1..L |-> FoundFrom(v, path, f, k)]
  BY FoundExists
<1> HIDE DEF E
<1>3. E = [k \in 1..L |-> FoundFrom(v, path, E, k)]
  BY <1>1, <1>2, Zenon
<1> HIDE DEF L
<1>4. \A n \in 1..L : E[n] = FoundFrom(v, path, E, n)
  BY <1>3
<1> QED
  BY <1>4 DEF L, E

LEMMA FoundInRoot ==
  ASSUME NEW v, NEW path, Len(path) \in Nat \ {0}
  PROVE  Found(v, path)[1] = Named(v, RootLbas(v), path[1])
<1>1. 1 \in 1..Len(path)
  OBVIOUS
<1> QED
  BY <1>1, FoundRecursion DEF FoundFrom

LEMMA FoundInDirectory ==
  ASSUME NEW v, NEW path, Len(path) \in Nat, NEW n \in 1..Len(path), n # 1,
         NEW e \in Found(v, path)[n - 1], \A f \in Found(v, path)[n - 1] : f = e
  PROVE  Found(v, path)[n] = Named(v, Range(Chain(v, e.cluster)), path[n])
<1>1. Found(v, path)[n] = UNION {Named(v, Range(Chain(v, f.cluster)), path[n]) : f \in Found(v, path)[n - 1]}
  <2>1. Found(v, path)[n] = FoundFrom(v, path, Found(v, path), n)
    BY FoundRecursion
  <2> QED
    BY <2>1, Zenon DEF FoundFrom
<1> DEFINE F == Found(v, path)[n - 1]
           N(f) == Named(v, Range(Chain(v, f.cluster)), path[n])
<1>2. Found(v, path)[n] = UNION {N(f) : f \in F} /\ e \in F /\ \A f \in F : f = e
  BY <1>1
<1> HIDE DEF F, N
<1>3. UNION {N(f) : f \in F} = N(e)
  BY <1>2
<1> QED
  BY <1>2, <1>3 DEF N

(* A path of which one name is not there is not stored. *)
LEMMA NotFound ==
  ASSUME NEW v, NEW path, Len(path) \in Nat, NEW n \in 1..Len(path), Found(v, path)[n] = {}
  PROVE  Find(v, path) = {}
<1> DEFINE S == {d \in Nat : n + d <= Len(path) => Found(v, path)[n + d] = {}}
<1>1. 0 \in S
  OBVIOUS
<1>2. ASSUME NEW d \in Nat, d \in S PROVE d + 1 \in S
  <2>1. SUFFICES ASSUME n + (d + 1) <= Len(path) PROVE Found(v, path)[n + (d + 1)] = {}
    OBVIOUS
  <2>2. n + (d + 1) \in 1..Len(path) /\ n + (d + 1) # 1 /\ (n + (d + 1)) - 1 = n + d
    BY <2>1
  <2>3. Found(v, path)[n + d] = {}
    BY <1>2, <2>1
  <2>4. Found(v, path)[n + (d + 1)]
          = UNION {Named(v, Range(Chain(v, e.cluster)), path[n + (d + 1)]) : e \in Found(v, path)[n + d]}
    <3> DEFINE m == n + (d + 1)
    <3>1. m \in 1..Len(path) /\ m # 1 /\ m - 1 = n + d
      BY <2>2
    <3> HIDE DEF m
    <3>2. Found(v, path)[m] = FoundFrom(v, path, Found(v, path), m)
      BY <3>1, FoundRecursion
    <3>3. Found(v, path)[m] = UNION {Named(v, Range(Chain(v, e.cluster)), path[m]) : e \in Found(v, path)[n + d]}
      BY <3>1, <3>2, Zenon DEF FoundFrom
    <3> QED
      BY <3>3 DEF m
  <2> QED
    BY <2>3, <2>4
<1>3. Nat \subseteq S
  <2> HIDE DEF S
  <2> QED
    BY <1>1, <1>2, SetInduction, Zenon
<1>4. Len(path) - n \in S
  <2> HIDE DEF S
  <2> QED
    BY <1>3
<1>5. n + (Len(path) - n) = Len(path) /\ Len(path) <= Len(path)
  OBVIOUS
<1> QED
  BY <1>4, <1>5 DEF Find

-----------------------------------------------------------------------------
(* The places of a directory. *)

LEMMA PathParts ==
  ASSUME volume \in DOMAIN Volumes, NEW path \in Mounted.paths
  PROVE  /\ Len(path) \in Nat \ {0} /\ DOMAIN path = 1..Len(path)
         /\ \A n \in 1..Len(path) : path[n] # <<>>
<1> DEFINE Names == Seq(STRING) \ {<<>>}
<1>1. path \in Seq(Names) \ {<<>>}
  BY FatAssumption DEF Mounted
<1>2. \A x \in Names : x # <<>>
  OBVIOUS
<1> HIDE DEF Names
<1>3. path \in Seq(Names) /\ path # <<>>
  BY <1>1
<1>4. Len(path) \in Nat /\ DOMAIN path = 1..Len(path) /\ \A n \in 1..Len(path) : path[n] \in Names
  BY <1>3
<1>5. Len(path) # 0
  BY <1>3
<1> QED
  BY <1>2, <1>4, <1>5

LEMMA SlotInSector ==
  ASSUME NEW v \in DOMAIN Volumes, NEW lba \in DOMAIN Volumes[v].entries, NEW p \in Nat
  PROVE  /\ Volumes[v].entries[lba] \in Range(Volumes[v].entries)
         /\ Volumes[v].entries[lba] \in [1..SECTOR_SIZE \div 32 -> DirectoryEntry]
         /\ (p % SECTOR_SIZE) \div ENTRY_SIZE + 1 \in 1..SECTOR_SIZE \div 32
         /\ SlotEntry(v, lba, p) = Volumes[v].entries[lba][(p % SECTOR_SIZE) \div ENTRY_SIZE + 1]
         /\ SlotEntry(v, lba, p) \in Range(Volumes[v].entries[lba])
<1> DEFINE s == Volumes[v].entries[lba]
           i == (p % SECTOR_SIZE) \div ENTRY_SIZE + 1
<1>1. s \in Range(Volumes[v].entries)
  BY DEF Range
<1>2. s \in [1..SECTOR_SIZE \div 32 -> DirectoryEntry]
  BY <1>1, FatAssumption DEF DirectoryEntry
<1>3. i \in 1..SECTOR_SIZE \div 32
  <2> DEFINE m == p % SECTOR_SIZE
  <2>1. m \in 0..SECTOR_SIZE - 1
    BY Constants, DivMod
  <2> HIDE DEF m
  <2>2. m \div 32 + 1 \in 1..SECTOR_SIZE \div 32
    BY <2>1, Constants, Z3
  <2> QED
    BY <2>2 DEF m, ENTRY_SIZE
<1>4. SlotEntry(v, lba, p) = s[i]
  BY DEF SlotEntry
<1> HIDE DEF s, i
<1>5. s[i] \in Range(s)
  BY <1>2, <1>3 DEF Range
<1> QED
  BY <1>1, <1>2, <1>3, <1>4, <1>5 DEF s, i

(* Where p lies: in place i of sector k. *)
LEMMA PlaceOfEntry ==
  ASSUME NEW k \in Nat, NEW i \in 1..SECTOR_SIZE \div 32, NEW n \in Nat, k < n
  PROVE  LET p == k * SECTOR_SIZE + (i - 1) * 32
         IN  /\ p \in 0..n * SECTOR_SIZE - 1 /\ p % ENTRY_SIZE = 0
             /\ p \div SECTOR_SIZE = k /\ (p % SECTOR_SIZE) \div ENTRY_SIZE + 1 = i
<1> DEFINE q == SECTOR_SIZE \div 32
           r == (i - 1) * 32
           p == k * SECTOR_SIZE + r
<1>1. q \in Nat /\ SECTOR_SIZE = 32 * q /\ i \in 1..q /\ SECTOR_SIZE \in Nat
  <2>1. SECTOR_SIZE = 32 * q + (SECTOR_SIZE % 32) /\ q \in Nat
    BY Constants, DivMod
  <2> QED
    BY <2>1, Constants
<1> HIDE DEF q
<1>2. r \in 0..SECTOR_SIZE - 32 /\ i \in Nat
  BY <1>1
<1>3. p = SECTOR_SIZE * k + r /\ r \in 0..SECTOR_SIZE - 1
  <2> HIDE DEF r
  <2> QED
    BY <1>2, Constants
<1>4. p \div SECTOR_SIZE = k /\ p % SECTOR_SIZE = r
  <2> HIDE DEF r, p
  <2> QED
    BY <1>3, DivModUnique, Constants
<1>5. r = 32 * (i - 1) + 0 /\ i - 1 \in Nat
  BY <1>1
<1>6. r \div 32 = i - 1
  <2> HIDE DEF r
  <2>1. 0 \in 0..32 - 1 /\ 32 \in Nat \ {0}
    OBVIOUS
  <2>2. (32 * (i - 1) + 0) \div 32 = i - 1
    BY <1>5, <2>1, DivModUnique
  <2> QED
    BY <1>5, <2>2
<1>7. p % 32 = 0
  <2>1. p = 32 * (q * k + (i - 1)) + 0
    <3>1. k * SECTOR_SIZE = 32 * (q * k)
      BY <1>1, Z3
    <3>2. q * k \in Nat
      BY <1>1
    <3> QED
      BY <1>5, <3>1, <3>2
  <2>2. q * k + (i - 1) \in Nat /\ 0 \in 0..32 - 1 /\ 32 \in Nat \ {0}
    <3>1. q * k \in Nat
      BY <1>1
    <3> QED
      BY <1>5, <3>1
  <2> HIDE DEF p
  <2>3. (32 * (q * k + (i - 1)) + 0) % 32 = 0
    BY <2>2, DivModUnique
  <2> QED
    BY <2>1, <2>3
<1>8. p \in 0..n * SECTOR_SIZE - 1
  <2>1. k * SECTOR_SIZE + SECTOR_SIZE = (k + 1) * SECTOR_SIZE /\ k * SECTOR_SIZE \in Nat
    BY <1>1, Z3
  <2>2. (k + 1) * SECTOR_SIZE <= n * SECTOR_SIZE
    BY <1>1, Z3
  <2>3. n * SECTOR_SIZE \in Nat /\ (k + 1) * SECTOR_SIZE \in Nat
    BY <1>1
  <2> HIDE DEF r
  <2> QED
    BY <1>1, <1>3, <2>1, <2>2, <2>3
<1> HIDE DEF r
<1> QED
  BY <1>4, <1>6, <1>7, <1>8 DEF ENTRY_SIZE, r

LEMMA NamedHasPlace ==
  ASSUME NEW v \in DOMAIN Volumes, NEW first \in Nat, NEW size, OrderlyChain(v, first, size),
         NEW name, NEW e \in Named(v, Range(Chain(v, first)), name)
  PROVE  \E p \in 0..Capacity(v, first) - 1 :
           p % ENTRY_SIZE = 0 /\ SlotEntry(v, Chain(v, first)[p \div SECTOR_SIZE], p).name = name
<1> DEFINE n == Length(v, first) * SectorsPerCluster
           es == Volumes[v].entries
<1>1. PICK lba \in Range(Chain(v, first)) \cap DOMAIN es : e \in Range(es[lba]) /\ e.name = name
  BY DEF Named
<1>2. PICK k \in DOMAIN Chain(v, first) : lba = Chain(v, first)[k]
  BY <1>1 DEF Range
<1>3. k \in 0..n - 1
  BY <1>2 DEF Chain
<1>4. n \in Nat \ {0} /\ Capacity(v, first) = n * SECTOR_SIZE
  BY ChainLength
<1> HIDE DEF n
<1>5. k \in Nat /\ k < n
  BY <1>3, <1>4
<1>6. es[lba] \in [1..SECTOR_SIZE \div 32 -> DirectoryEntry]
  <2>1. 0 \in Nat
    OBVIOUS
  <2> QED
    BY <1>1, <2>1, SlotInSector
<1>7. PICK i \in 1..SECTOR_SIZE \div 32 : e = es[lba][i]
  BY <1>1, <1>6 DEF Range
<1> DEFINE p == k * SECTOR_SIZE + (i - 1) * 32
<1>8. /\ p \in 0..n * SECTOR_SIZE - 1 /\ p % ENTRY_SIZE = 0
      /\ p \div SECTOR_SIZE = k /\ (p % SECTOR_SIZE) \div ENTRY_SIZE + 1 = i
  BY <1>4, <1>5, <1>7, PlaceOfEntry
<1> HIDE DEF p
<1>9. SlotEntry(v, lba, p) = e
  BY <1>1, <1>7, <1>8 DEF SlotEntry
<1>10. p \div SECTOR_SIZE = k /\ SlotEntry(v, Chain(v, first)[p \div SECTOR_SIZE], p).name = name
  BY <1>1, <1>2, <1>8, <1>9
<1> QED
  BY <1>4, <1>8, <1>10

(* The entry a search for the n-th part takes is the one of its name. *)
LEMMA TakesOwnName ==
  ASSUME NEW v \in DOMAIN Volumes, NEW path, NEW n, Told(v, path, n), NEW name \in NamesTaken(path, n),
         NEW lba, NEW p \in Nat
  PROVE  OnDisk(SlotEntry(v, lba, p).name) = FAT_GetShortName(name) <=> SlotEntry(v, lba, p).name = path[n]
<1>1. SlotEntry(v, lba, p) \in EntriesRead(v)
  <2>1. CASE lba \in DOMAIN Volumes[v].entries
    BY <2>1, SlotInSector DEF EntriesRead
  <2>2. CASE lba \notin DOMAIN Volumes[v].entries
    BY <2>2 DEF SlotEntry, EntriesRead
  <2> QED
    BY <2>1, <2>2
<1> QED
  BY <1>1, Zenon DEF Told

(* And it is one of those the name has in the directory. *)
LEMMA TakenIsNamed ==
  ASSUME NEW v \in DOMAIN Volumes, NEW lbas, NEW lba \in lbas, NEW p \in Nat, NEW name, name # <<>>,
         SlotEntry(v, lba, p).name = name
  PROVE  SlotEntry(v, lba, p) \in Named(v, lbas, name)
<1>1. lba \in DOMAIN Volumes[v].entries
  <2>1. Blank.name = <<>>
    BY DEF Blank
  <2> QED
    BY <2>1 DEF SlotEntry
<1>2. SlotEntry(v, lba, p) \in Range(Volumes[v].entries[lba])
  BY <1>1, SlotInSector
<1> QED
  BY <1>1, <1>2 DEF Named

-----------------------------------------------------------------------------
(* One entry of a directory after another. *)

LEMMA EntryPlace ==
  ASSUME NEW p \in Nat, p % ENTRY_SIZE = 0
  PROVE  LET i == (p % SECTOR_SIZE) \div ENTRY_SIZE + 1
         IN  /\ i \in 1..SECTOR_SIZE \div 32 /\ p % SECTOR_SIZE = (i - 1) * 32
             /\ (p + 32) % ENTRY_SIZE = 0
<1> DEFINE q == SECTOR_SIZE \div 32
           k == p \div SECTOR_SIZE
           m == p % SECTOR_SIZE
           a == p \div 32
<1>1. q \in Nat /\ SECTOR_SIZE = 32 * q /\ SECTOR_SIZE \in Nat \ {0}
  <2>1. SECTOR_SIZE = 32 * q + (SECTOR_SIZE % 32) /\ q \in Nat
    BY Constants, DivMod
  <2> QED
    BY <2>1, Constants
<1>2. k \in Nat /\ m \in 0..SECTOR_SIZE - 1 /\ p = SECTOR_SIZE * k + m
  BY <1>1, DivMod
<1>3. a \in Nat /\ p = 32 * a
  <2>1. p = 32 * a + (p % 32) /\ a \in Nat
    BY DivMod
  <2> QED
    BY <2>1 DEF ENTRY_SIZE
<1> HIDE DEF q, k, m, a
<1>4. SECTOR_SIZE * k = 32 * (q * k) /\ q * k \in Nat
  BY <1>1, <1>2, Z3
<1>5. m = 32 * (a - q * k)
  BY <1>2, <1>3, <1>4
<1> DEFINE j == a - q * k
<1>6. j \in Nat /\ j < q /\ m = 32 * j + 0
  BY <1>1, <1>2, <1>3, <1>4, <1>5
<1> HIDE DEF j
<1>7. m \div 32 = j
  <2>1. (32 * j + 0) \div 32 = j
    <3>1. 0 \in 0..32 - 1 /\ 32 \in Nat \ {0}
      OBVIOUS
    <3> QED
      BY <1>6, <3>1, DivModUnique
  <2> QED
    BY <1>6, <2>1
<1>8. (p + 32) % 32 = 0
  <2>1. 0 \in 0..32 - 1 /\ 32 \in Nat \ {0} /\ a + 1 \in Nat
    BY <1>3
  <2>2. (32 * (a + 1) + 0) % 32 = 0
    BY <2>1, DivModUnique
  <2>3. p + 32 = 32 * (a + 1) + 0
    BY <1>3
  <2> QED
    BY <2>2, <2>3
<1>9. j + 1 \in 1..q /\ m = ((j + 1) - 1) * 32
  BY <1>1, <1>6
<1> QED
  BY <1>7, <1>8, <1>9 DEF m, q, ENTRY_SIZE

LEMMA WholeEntry ==
  ASSUME NEW fd \in FileData, fd.position % ENTRY_SIZE = 0
  PROVE  LET i == (fd.position % SECTOR_SIZE) \div ENTRY_SIZE + 1
         IN  /\ Take(fd, ENTRY_SIZE) = 32
             /\ Left(fd) = 32 <=> i = SECTOR_SIZE \div 32
<1> DEFINE q == SECTOR_SIZE \div 32
           m == fd.position % SECTOR_SIZE
           i == m \div ENTRY_SIZE + 1
<1>1. fd.position \in Nat
  BY DEF FileData
<1>2. i \in 1..q /\ m = (i - 1) * 32
  BY <1>1, EntryPlace
<1>3. q \in Nat /\ SECTOR_SIZE = 32 * q
  <2>1. SECTOR_SIZE = 32 * q + (SECTOR_SIZE % 32) /\ q \in Nat
    BY Constants, DivMod
  <2> QED
    BY <2>1, Constants
<1>4. Left(fd) = SECTOR_SIZE - m
  BY DEF Left
<1> HIDE DEF i, m, q, Left
<1>5. i \in Nat /\ Left(fd) = 32 * (q - i) + 32
  BY <1>2, <1>3, <1>4
<1>6. Left(fd) >= 32 /\ Left(fd) \in Nat
  BY <1>2, <1>3, <1>5
<1>7. Take(fd, ENTRY_SIZE) = 32
  BY <1>6 DEF Take, Least, ENTRY_SIZE
<1>8. Left(fd) = 32 <=> i = q
  BY <1>2, <1>3, <1>5
<1> QED
  BY <1>7, <1>8 DEF i, m, q

IsEndMark(mark) ==
  CASE FatType = 12 -> mark \in 4088..4095
    [] FatType = 16 -> mark \in 65528..65535
    [] OTHER -> FALSE

LEMMA EndMarkEnds ==
  ASSUME NEW mark \in Nat, IsEndMark(mark)
  PROVE  SignExtend(mark) \in EndMarks
<1>1. CASE FatType = 12
  BY <1>1 DEF IsEndMark, SignExtend, EndMarks
<1>2. CASE FatType = 16
  BY <1>2 DEF IsEndMark, SignExtend, EndMarks
<1>3. FatType = 12 \/ FatType = 16
  BY DEF IsEndMark
<1> QED
  BY <1>1, <1>2, <1>3

(* At the end of its chain the driver learns a directory's size. *)
LEMMA ChainEnds ==
  ASSUME FatInv, ~ReadsFail, CacheTrue, Orderly(volume), call.op \notin Mountable,
         NEW fd \in FileData, NEW k \in Nat, NEW size,
         OrderlyChain(volume, fd.first, size), fd.first \in Nat,
         k + 1 = Length(volume, fd.first) * SectorsPerCluster,
         fd.sector = k % SectorsPerCluster,
         fd.cluster = Links(volume, fd.first)[k \div SectorsPerCluster],
         IsEndMark(Links(volume, fd.first)[Length(volume, fd.first)]),
         NEW o \in NextFileSector(fd)
  PROVE  o.fd.size = fd.position
<1> DEFINE v == volume
           C == Links(v, fd.first)
           L == Length(v, fd.first)
           i == k \div SectorsPerCluster
<1>1. /\ v \in DOMAIN Volumes /\ FatType \in {12, 16, 32} /\ FatType = Type(v) /\ TypeOK
      /\ cache \in CacheType /\ OrderlyTable(v)
  BY KnownType, FatInvParts DEF TypeOK, CacheType, Orderly
<1>2. /\ L \in 1..Cardinality(InUse(v)) /\ L \in Nat \ {0} /\ IsLength(v, fd.first, L)
  BY <1>1, ChainLength
<1> HIDE DEF L
<1>3. i = L - 1 /\ k % SectorsPerCluster = SectorsPerCluster - 1
  <2>1. k = SectorsPerCluster * (L - 1) + (SectorsPerCluster - 1)
    <3>1. SectorsPerCluster * (L - 1) = L * SectorsPerCluster - SectorsPerCluster
      BY <1>2, Constants, Z3
    <3>2. L * SectorsPerCluster \in Nat
      BY <1>2, Constants
    <3> QED
      BY <3>1, <3>2, Constants DEF L
  <2>2. L - 1 \in Nat /\ SectorsPerCluster - 1 \in 0..SectorsPerCluster - 1 /\ SectorsPerCluster \in Nat \ {0}
    BY <1>2, Constants
  <2>3. /\ (SectorsPerCluster * (L - 1) + (SectorsPerCluster - 1)) \div SectorsPerCluster = L - 1
        /\ (SectorsPerCluster * (L - 1) + (SectorsPerCluster - 1)) % SectorsPerCluster = SectorsPerCluster - 1
    BY <2>2, DivModUnique
  <2> QED
    BY <2>1, <2>3
<1>4. Leaves(fd)
  BY <1>3, Constants DEF Leaves
<1>5. C[L - 1] \in InUse(v)
  <2>1. L - 1 \in 0..L - 1
    BY <1>2
  <2> QED
    BY <1>2, <2>1 DEF IsLength
<1>6. C[L] = TableEntry(C[L - 1])
  BY <1>1, <1>2, LinksRecursion DEF TableEntry
<1>7. PICK n \in NextClusterIf(Leaves(fd), fd) :
           \/ /\ n.cluster \in EndMarks
              /\ o = [fd |-> [MovedTo(fd, n) EXCEPT !.size = fd.position], cache |-> n.cache, ok |-> FALSE]
           \/ /\ n.cluster \notin EndMarks
              /\ \E r \in ReadSectors(FAT_ClusterToLba(n.cluster) + SectorOf(fd), fd.buffer) :
                   o = [fd |-> [MovedTo(fd, n) EXCEPT !.buffer = r.buffer], cache |-> n.cache, ok |-> r.ok]
  BY FileSectorCases
<1>8. n.cluster = SignExtend(C[L])
  <2>1. n \in FAT_NextCluster(C[L - 1], cache)
    <3>1. fd.cluster = C[L - 1]
      BY <1>3
    <3> QED
      BY <1>4, <3>1 DEF NextClusterIf
  <2> HIDE DEF C
  <2>2. n.cluster = SignExtend(TableEntry(C[L - 1]))
    BY <1>1, <1>5, <2>1, OwnNextCluster
  <2> QED
    BY <1>6, <2>2
<1>9. n.cluster \in EndMarks
  <2>1. C[L] \in Nat
    BY <1>1, <1>6, EntryType DEF TableEntry
  <2>2. IsEndMark(C[L])
    BY DEF L
  <2> HIDE DEF C
  <2> QED
    BY <1>8, <2>1, <2>2, EndMarkEnds
<1>10. o.fd = [MovedTo(fd, n) EXCEPT !.size = fd.position]
  BY <1>7, <1>9
<1>11. MovedTo(fd, n) \in FileData
  <2>1. n.cluster \in Int
    BY <1>1, ClusterIfType
  <2>2. SectorOf(fd) \in Nat
    BY DEF SectorOf, FileData
  <2> QED
    BY <2>1, <2>2 DEF MovedTo, FileData
<1> QED
  BY <1>10, <1>11 DEF FileData

(* One entry on in a directory: at its next sector or, at its end, with    *)
(* its size.                                                               *)
LEMMA DirectoryWalksOn ==
  ASSUME FatInv, ~ReadsFail, CacheTrue, Orderly(volume), call.op \notin Mountable,
         NEW h \in Handles, NEW end, end = Capacity(volume, files[h].first),
         files[h].dir, files[h].size = 0, files[h].position % ENTRY_SIZE = 0,
         files[h].position < end, WalksTo(files[h], end),
         NEW o \in Copy(h, ENTRY_SIZE)
  PROVE  /\ o.fd.first = files[h].first /\ o.fd.dir /\ o.fd.position = files[h].position + 32
         /\ o.fd.position % ENTRY_SIZE = 0 /\ o.fd.position <= end
         /\ o.fd.position < end => o.fd.size = 0 /\ WalksTo(o.fd, end)
         /\ o.fd.position = end /\ IsEndMark(Links(volume, files[h].first)[Length(volume, files[h].first)])
              => o.fd.size = end
<1> DEFINE fd == files[h]
           v == volume
           first == fd.first
           n == Length(v, first) * SectorsPerCluster
           p == fd.position
           k == p \div SECTOR_SIZE
           q == SECTOR_SIZE \div 32
           i == (p % SECTOR_SIZE) \div ENTRY_SIZE + 1
<1>1. /\ TypeOK /\ v \in DOMAIN Volumes /\ FatType \in {12, 16, 32} /\ fd \in FileData
      /\ Fd(h) = fd /\ h # ROOT_DIRECTORY_HANDLE
  BY KnownType, FatInvParts, RootIsNoHandle DEF TypeOK, Fd
<1>2. /\ OrderlyChain(v, first, end) /\ first \in Nat
      /\ fd.sector = k % SectorsPerCluster
      /\ fd.cluster = Links(v, first)[k \div SectorsPerCluster]
  BY DEF WalksTo
<1>3. n \in Nat \ {0} /\ end = n * SECTOR_SIZE /\ end \in Nat
  BY <1>1, <1>2, ChainLength
<1>4. p \in Nat
  BY <1>1 DEF FileData
<1>5. /\ Take(fd, ENTRY_SIZE) = 32 /\ (Left(fd) = 32 <=> i = q)
  BY <1>1, WholeEntry
<1>6. /\ i \in 1..q /\ p % SECTOR_SIZE = (i - 1) * 32 /\ (p + 32) % ENTRY_SIZE = 0
  <2>1. p % ENTRY_SIZE = 0
    OBVIOUS
  <2> HIDE DEF p
  <2> QED
    BY <1>4, <2>1, EntryPlace
<1>7. q \in Nat /\ SECTOR_SIZE = 32 * q /\ SECTOR_SIZE \in Nat \ {0}
  <2>1. SECTOR_SIZE = 32 * q + (SECTOR_SIZE % 32) /\ q \in Nat
    BY Constants, DivMod
  <2> QED
    BY <2>1, Constants
<1>8. k \in Nat /\ p = SECTOR_SIZE * k + (i - 1) * 32 /\ k < n
  <2>1. k \in Nat /\ p = SECTOR_SIZE * k + (p % SECTOR_SIZE)
    BY <1>4, <1>7, DivMod
  <2>2. k < n
    <3>1. p < n * SECTOR_SIZE
      BY <1>3
    <3> HIDE DEF n, p
    <3> QED
      BY <1>3, <1>4, <1>7, <3>1, QuotientBound DEF k
  <2> QED
    BY <1>6, <2>1, <2>2
<1>9. ENTRY_SIZE \in Nat \ {0} /\ ENTRY_SIZE = 32
  BY DEF ENTRY_SIZE
<1>10. /\ Kept(fd, p + 32, o.fd)
  <2>1. h \in Handles \cup {ROOT_DIRECTORY_HANDLE} /\ ENTRY_SIZE \in Nat \ {0}
    BY <1>9
  <2>2. Kept(Fd(h), Fd(h).position + Take(Fd(h), ENTRY_SIZE), o.fd)
    BY <1>1, <2>1, CopyKept
  <2>3. Fd(h).position + Take(Fd(h), ENTRY_SIZE) = p + 32
    BY <1>1, <1>5
  <2> QED
    BY <1>1, <2>2, <2>3, Zenon
<1>11. o.fd.first = first /\ o.fd.dir = fd.dir /\ o.fd.position = p + 32
  BY <1>10 DEF Kept
<1> HIDE DEF n, q, i, k
<1>12. p + 32 <= end /\ (p + 32 = end => i = q /\ k + 1 = n)
  <2>1. SECTOR_SIZE * k = 32 * (q * k) /\ q * k \in Nat
    BY <1>7, <1>8, Z3
  <2>2. end = 32 * (n * q) /\ n * q \in Nat
    BY <1>3, <1>7, Z3
  <2> DEFINE a == q * k
             b == n * q
  <2>3. p = 32 * a + 32 * i - 32 /\ a \in Nat /\ i \in Nat
    BY <1>6, <1>7, <1>8, <2>1
  <2>4. end = 32 * b /\ b \in Nat
    BY <2>2
  <2>5. a + q = q * (k + 1) /\ q * (k + 1) <= b
    BY <1>3, <1>7, <1>8, Z3
  <2>6. a + i <= b
    BY <1>6, <1>7, <2>3, <2>4, <2>5
  <2>7. p + 32 = 32 * (a + i)
    BY <2>3
  <2>8. p + 32 <= end
    <3> HIDE DEF a, b, p
    <3> QED
      BY <2>3, <2>4, <2>6, <2>7
  <2>9. ASSUME p + 32 = end PROVE i = q /\ k + 1 = n
    <3>1. a + i = b
      <4> HIDE DEF a, b, p
      <4> QED
        BY <2>3, <2>4, <2>7, <2>9
    <3>2. i = q /\ a + q = b
      <4>1. i <= q
        BY <1>6, <1>7
      <4>2. a + q <= b
        BY <2>5
      <4> HIDE DEF a, b
      <4> QED
        BY <1>7, <2>3, <2>4, <3>1, <4>1, <4>2
    <3>3. q # 0
      BY <1>7
    <3>4. q * (k + 1) = q * n
      <4>1. b = q * n
        BY <1>3, <1>7, Z3
      <4> QED
        BY <2>5, <3>2, <4>1
    <3>5. k + 1 = n
      <4>1. (q * (k + 1) + 0) \div q = k + 1 /\ (q * n + 0) \div q = n
        <5>1. q \in Nat \ {0} /\ k + 1 \in Nat /\ n \in Nat /\ 0 \in 0..q - 1
          BY <1>3, <1>7, <1>8, <3>3
        <5> QED
          BY <5>1, DivModUnique
      <4> QED
        BY <3>4, <4>1
    <3> QED
      BY <3>2, <3>5
  <2> QED
    BY <2>8, <2>9
<1>13. ASSUME p + 32 < end PROVE o.fd.size = 0 /\ WalksTo(o.fd, end)
  <2>1. files[h].position + Take(files[h], ENTRY_SIZE) < end
    BY <1>5, <1>13
  <2>2. WalksTo(files[h], end)
    OBVIOUS
  <2> HIDE DEF fd
  <2>3. WalksTo(o.fd, end) /\ o.fd.size = files[h].size
    BY <1>3, <1>9, <2>1, <2>2, WalksOn
  <2> QED
    BY <2>3
<1>14. ASSUME p + 32 = end, IsEndMark(Links(v, first)[Length(v, first)]) PROVE o.fd.size = end
  <2> DEFINE moved == [fd EXCEPT !.position = @ + 32]
  <2>1. Take(fd, ENTRY_SIZE) = Left(fd)
    BY <1>5, <1>12, <1>14
  <2>2. o \in NextFileSector(moved)
    BY <1>1, <1>5, <2>1, CopyCases
  <2>3. /\ moved \in FileData /\ moved.position = p + 32 /\ moved.first = first
        /\ moved.sector = fd.sector /\ moved.cluster = fd.cluster
    BY <1>1, <1>4 DEF FileData
  <2> HIDE DEF moved
  <2>4. k + 1 = Length(v, moved.first) * SectorsPerCluster
    BY <1>12, <1>14, <2>3 DEF n
  <2>5. /\ OrderlyChain(v, moved.first, end) /\ moved.first \in Nat
        /\ moved.sector = k % SectorsPerCluster
        /\ moved.cluster = Links(v, moved.first)[k \div SectorsPerCluster]
        /\ IsEndMark(Links(v, moved.first)[Length(v, moved.first)])
    BY <1>2, <1>14, <2>3 DEF k
  <2>6. o.fd.size = moved.position
    BY <1>8, <2>2, <2>3, <2>4, <2>5, ChainEnds
  <2> QED
    BY <1>14, <2>3, <2>6
<1> QED
  BY <1>6, <1>11, <1>12, <1>13, <1>14

-----------------------------------------------------------------------------
(* The volume mounted. *)

LEMMA OrderHere ==
  ASSUME FatInv, AllOrderly, AllFindable, ~ReadsFail
  PROVE  InOrder
BY FatInvParts DEF AllOrderly, AllFindable, InOrder, ReadsFail, Mounted, TypeOK

LEMMA FoundType ==
  ASSUME NEW v \in DOMAIN Volumes, NEW path, Len(path) \in Nat, NEW n \in 1..Len(path),
         NEW e \in Found(v, path)[n]
  PROVE  e \in DirectoryEntry /\ e.name = path[n]
<1>1. Found(v, path)[n] = FoundFrom(v, path, Found(v, path), n)
  BY FoundRecursion
<1>2. PICK lbas : e \in Named(v, lbas, path[n])
  <2>1. CASE n = 1
    <3>1. Found(v, path)[n] = Named(v, RootLbas(v), path[n])
      BY <1>1, <2>1, Zenon DEF FoundFrom
    <3> QED
      BY <3>1
  <2>2. CASE n # 1
    <3>1. Found(v, path)[n] = UNION {Named(v, Range(Chain(v, f.cluster)), path[n]) : f \in Found(v, path)[n - 1]}
      BY <1>1, <2>2, Zenon DEF FoundFrom
    <3> QED
      BY <3>1, Zenon
  <2> QED
    BY <2>1, <2>2
<1>3. PICK lba \in DOMAIN Volumes[v].entries : e \in Range(Volumes[v].entries[lba])
  BY <1>2 DEF Named
<1>4. Volumes[v].entries[lba] \in [1..SECTOR_SIZE \div 32 -> DirectoryEntry]
  <2>1. 0 \in Nat
    OBVIOUS
  <2> QED
    BY <1>3, <2>1, SlotInSector
<1>5. e.name = path[n]
  BY <1>2 DEF Named
<1> QED
  BY <1>3, <1>4, <1>5 DEF Range

LEMMA PathOrder ==
  ASSUME FatInv, InOrder, NEW path \in Mounted.paths, NEW n \in 1..Len(path)
  PROVE  /\ volume \in DOMAIN Volumes /\ Len(path) \in Nat \ {0} /\ path[n] # <<>>
         /\ Told(volume, path, n)
         /\ \A e, f \in Found(volume, path)[n] : e = f
         /\ Type(volume) = 32 => Found(volume, path)[n] # {}
         /\ \A e \in Found(volume, path)[n] :
              /\ e \in DirectoryEntry /\ e.cluster \in Nat
              /\ Lba(volume, e.cluster) \in 0..TotalSectors - 1
              /\ IF n < Len(path) THEN OrderlyDirectory(volume, e) ELSE ~e.dir
<1>1. volume \in DOMAIN Volumes
  BY FatInvParts DEF TypeOK
<1>2. OrderlyPath(volume, path)
  BY DEF InOrder, OrderlyTree, Mounted
<1>3. Len(path) \in Nat \ {0} /\ DOMAIN path = 1..Len(path) /\ path[n] # <<>>
  BY <1>1, PathParts
<1>4. \A e \in Found(volume, path)[n] : e \in DirectoryEntry
  BY <1>1, <1>3, FoundType
<1>5. \A e \in Found(volume, path)[n] : e.cluster \in Nat
  BY <1>4 DEF DirectoryEntry
<1> QED
  BY <1>1, <1>2, <1>3, <1>4, <1>5 DEF OrderlyPath

(* Where the first name lies. *)
LEMMA RootOrder ==
  ASSUME FatInv, InOrder
  PROVE  /\ volume \in DOMAIN Volumes
         /\ Layout(BootSector).root = Mounted.rootLba /\ Layout(BootSector).size = Mounted.rootSize
         /\ Mounted.rootLba \in DOMAIN Mounted.entries /\ Mounted.rootLba \in 0..TotalSectors - 1
         /\ Mounted.rootSize \in Nat /\ Mounted.rootLba \in RootLbas(volume)
<1> DEFINE lba == Volumes[volume].rootLba
           size == Volumes[volume].rootSize
<1>1. volume \in DOMAIN Volumes
  BY FatInvParts DEF TypeOK
<1>2. /\ Layout(Volumes[volume].boot).root = lba /\ Layout(Volumes[volume].boot).size = size
      /\ lba \in DOMAIN Volumes[volume].entries \cap 0..TotalSectors - 1
  BY DEF InOrder, OrderlyTree
<1>3. lba \in Nat /\ size \in Nat
  BY <1>1, FatAssumption
<1> DEFINE n == IF size = 0 THEN SectorsPerCluster ELSE (size + SECTOR_SIZE - 1) \div SECTOR_SIZE
<1>4. RootLbas(volume) = lba..lba + n - 1
  BY DEF RootLbas
<1> HIDE DEF lba, size
<1>5. n \in Nat /\ n >= 1
  <2>1. CASE size = 0
    BY <2>1, Constants
  <2>2. CASE size # 0
    <3>1. size - 1 \in Nat /\ SECTOR_SIZE \in Nat \ {0}
      BY <1>3, <2>2, Constants
    <3> DEFINE a == size + SECTOR_SIZE - 1
    <3>2. a \in Nat /\ a >= SECTOR_SIZE
      BY <1>3, <2>2, <3>1
    <3> HIDE DEF a
    <3>3. a \div SECTOR_SIZE \in Nat /\ a \div SECTOR_SIZE >= 1
      BY <3>1, <3>2, Z3
    <3> QED
      BY <2>2, <3>3 DEF a
  <2> QED
    BY <2>1, <2>2
<1> HIDE DEF n
<1>6. lba \in lba..lba + n - 1
  BY <1>3, <1>5
<1> QED
  BY <1>1, <1>2, <1>3, <1>4, <1>6 DEF lba, size, Mounted, BootSector

LEMMA TracksNext ==
  ASSUME UNCHANGED volume,
         \/ ReadsFail
         \/ /\ call'.op \notin Mountable => RootFits(call', root')
            /\ SearchFits(call', root', files')
            /\ \A h \in held' : IsStored(files'[h])
  PROVE  Tracks'
<1>1. ReadsFail' = ReadsFail
  BY DEF ReadsFail, Mounted
<1> SUFFICES ASSUME ~ReadsFail PROVE Tracks'
  BY <1>1 DEF Tracks
<1>2. RootFits(call, root)' <=> RootFits(call', root')
  BY DEF RootFits, SearchingRoot, Mounted
<1>3. (\A h \in held : IsStored(files[h]))' <=> \A h \in held' : IsStored(files'[h])
  BY DEF IsStored, IsFile
<1>4. Asks(call)' <=> Asks(call')
  BY DEF Asks, Mounted
<1>5. EnterFits(call)' <=> EnterFits(call')
  BY <1>4 DEF EnterFits
<1>6. RootSearch(root, call.asked)' <=> RootSearch(root', call'.asked)
  BY DEF RootSearch, Mounted
<1>7. DirectorySearch(files[call.dir], call.asked, call.part)'
        <=> DirectorySearch(files'[call'.dir], call'.asked, call'.part)
  BY DEF DirectorySearch, WalksTo
<1>8. FindFits(call, root, files)' <=> FindFits(call', root', files')
  BY <1>4, <1>6, <1>7, Zenon DEF FindFits
<1>9. SearchFits(call, root, files)' <=> SearchFits(call', root', files')
  BY <1>5, <1>8, Zenon DEF SearchFits
<1> QED
  BY <1>1, <1>2, <1>3, <1>9, Zenon DEF Tracks

-----------------------------------------------------------------------------
(* Searches keep to the path. *)

LEMMA MountTracks ==
  ASSUME FatInv, ReadsFail \/ InOrder, FAT_Initialize, UNCHANGED volume
  PROVE  Tracks'
<1>1. SUFFICES ASSUME InOrder, ~ReadsFail
               PROVE  RootFits(call', root') /\ SearchFits(call', root', files') /\ held' = {}
  BY TracksNext
<1> DEFINE layout == Layout(BootSector)
<1>2. layout.root = Mounted.rootLba /\ layout.size = Mounted.rootSize /\ Mounted.rootLba \in 0..TotalSectors - 1
  BY <1>1, RootOrder
<1>3. PICK r \in ReadSectors(layout.root, root.buffer) :
        /\ root' = [opened |-> TRUE, dir |-> TRUE, position |-> 0, size |-> layout.size,
                    first |-> layout.root, cluster |-> layout.root, sector |-> 0, buffer |-> r.buffer]
        /\ IF r.ok THEN call' = Idle ELSE Unmounted
  BY <1>1, Zenon DEF FAT_Initialize
<1>4. r.ok /\ r.buffer = layout.root
  <2>1. layout.root \in Int /\ layout.root \in 0..TotalSectors - 1
    BY <1>2
  <2>2. root.buffer \in Nat
    BY FatInvParts DEF TypeOK, FileData
  <2> HIDE DEF layout
  <2> QED
    BY <1>1, <2>1, <2>2, ReadType
<1>5. call'.op = "idle"
  BY <1>3, <1>4 DEF Idle
<1> HIDE DEF layout
<1>6. root'.dir /\ root'.size = layout.size /\ root'.buffer = layout.root /\ root'.position = 0
  BY <1>3, <1>4
<1>7. RootFits(call', root')
  BY <1>2, <1>6 DEF RootFits
<1>8. SearchFits(call', root', files')
  BY <1>5 DEF SearchFits
<1>9. held' = {}
  <2>1. call.op = "mount" /\ held' = held
    BY DEF FAT_Initialize
  <2> QED
    BY <2>1, FatInvParts DEF CallFits, Mountable
<1> QED
  BY <1>7, <1>8, <1>9

LEMMA OpenTracks ==
  ASSUME FatInv, Tracks, NEW path \in Mounted.paths, FAT_Open(path), UNCHANGED <<volume, g>>
  PROVE  Tracks'
<1>1. call.op = "idle" /\ UNCHANGED <<root, files, held>>
  BY DEF FAT_Open, Idle
<1>2. PICK name \in NamesTaken(path, 1) :
        call' = [op |-> "find", dir |-> ROOT_DIRECTORY_HANDLE, short |-> FAT_GetShortName(name),
                 asked |-> path, part |-> 1]
  BY DEF FAT_Open, Searching
<1> SUFFICES ASSUME ~ReadsFail PROVE Tracks'
  BY TracksNext
<1>3. RootFits(call, root) /\ \A h \in held : IsStored(files[h])
  <2>1. call.op \notin Mountable
    BY <1>1 DEF Mountable
  <2> QED
    BY <2>1 DEF Tracks
<1>4. root.position = 0 /\ root.dir /\ root.size = Mounted.rootSize /\ root.buffer = Mounted.rootLba
  BY <1>1, <1>3 DEF RootFits, SearchingRoot
<1>5. /\ call'.op = "find" /\ call'.dir = ROOT_DIRECTORY_HANDLE /\ call'.short = FAT_GetShortName(name)
      /\ call'.asked = path /\ call'.part = 1
  BY <1>2
<1>6. RootFits(call', root')
  BY <1>1, <1>4, <1>5 DEF RootFits, SearchingRoot
<1>7. RootSearch(root', path)
  <2>1. 0 % 32 = 0 /\ SECTOR_SIZE \div 32 \in Int
    BY Constants
  <2> QED
    BY <1>1, <1>4, <2>1 DEF RootSearch, ENTRY_SIZE
<1>8. Asks(call')
  <2>1. Len(path) \in Nat \ {0}
    BY FatInvParts, PathParts DEF TypeOK
  <2> QED
    BY <1>5, <2>1 DEF Asks
<1>9. FindFits(call', root', files')
  BY <1>5, <1>7, <1>8 DEF FindFits
<1>10. SearchFits(call', root', files')
  BY <1>5, <1>9 DEF SearchFits
<1> QED
  BY <1>1, <1>3, <1>6, <1>10, TracksNext

LEMMA EntryAtSlot ==
  ASSUME NEW fd
  PROVE  EntryAt(fd) = SlotEntry(volume, fd.buffer, fd.position)
BY DEF EntryAt, SlotEntry, Blank, Mounted

RootSearched ==
  /\ call.op = "find" /\ call.dir = ROOT_DIRECTORY_HANDLE
  /\ RootFits(call, root) /\ FindFits(call, root, files)

(* Up to the first name's place the root's search stays in its sector. *)
LEMMA RootPlace ==
  ASSUME FatInv, InOrder, RootSearched
  PROVE  LET p    == root.position
             j    == (p % SECTOR_SIZE) \div ENTRY_SIZE + 1
             name == call.asked[1]
         IN  /\ p \in Nat /\ p % ENTRY_SIZE = 0
             /\ Take(root, ENTRY_SIZE) = 32 /\ Left(root) # 32
             /\ Limit(root, ENTRY_SIZE) = ENTRY_SIZE
             /\ EntryAt(root) = Mounted.entries[Mounted.rootLba][j]
             /\ j \in 1..SECTOR_SIZE \div 32 - 1 /\ p = (j - 1) * 32
<1> DEFINE lba == Mounted.rootLba
           size == Mounted.rootSize
           N == SECTOR_SIZE \div 32
           p == root.position
           j == (p % SECTOR_SIZE) \div ENTRY_SIZE + 1
           name == call.asked[1]
<1>1. /\ call.asked \in Mounted.paths /\ root.dir /\ root.size = size /\ root.buffer = lba
      /\ RootSearch(root, call.asked)
  BY DEF RootSearched, FindFits, RootFits, Asks
<1>2. root \in FileData /\ p \in Nat
  BY FatInvParts DEF TypeOK, FileData
<1>3. PICK i \in 1..N - 1 : Mounted.entries[lba][i].name = name /\ (size # 0 => i * ENTRY_SIZE <= size)
  <2>1. OrderlyPath(volume, call.asked)
    BY <1>1 DEF InOrder, OrderlyTree, Mounted
  <2> QED
    BY <2>1 DEF OrderlyPath, Mounted, ENTRY_SIZE
<1>4. p % ENTRY_SIZE = 0 /\ p <= (i - 1) * 32
  BY <1>1, <1>3 DEF RootSearch, ENTRY_SIZE
<1>5. lba \in DOMAIN Mounted.entries /\ size \in Nat
  BY RootOrder
<1>6. N \in Nat /\ SECTOR_SIZE = 32 * N /\ SECTOR_SIZE \in Nat \ {0}
  <2>1. SECTOR_SIZE = 32 * N + (SECTOR_SIZE % 32) /\ N \in Nat
    BY Constants, DivMod
  <2> QED
    BY <2>1, Constants
<1>7. j \in 1..N /\ p % SECTOR_SIZE = (j - 1) * 32
  <2> HIDE DEF p
  <2> QED
    BY <1>2, <1>4, EntryPlace
<1>8. Take(root, ENTRY_SIZE) = 32 /\ (Left(root) = 32 <=> j = N)
  BY <1>2, <1>4, WholeEntry
<1>9. EntryAt(root) = Mounted.entries[lba][j]
  <2>1. EntryAt(root) = SlotEntry(volume, lba, p)
    BY <1>1, EntryAtSlot
  <2> QED
    BY <1>5, <2>1 DEF SlotEntry, Mounted
<1> HIDE DEF lba, size, N, j, name, p
<1>10. p % SECTOR_SIZE = p
  <2>1. p \in 0..SECTOR_SIZE - 1 /\ p = SECTOR_SIZE * 0 + p
    BY <1>2, <1>3, <1>4, <1>6
  <2>2. (SECTOR_SIZE * 0 + p) % SECTOR_SIZE = p
    BY <1>6, <2>1, DivModUnique
  <2> QED
    BY <2>1, <2>2
<1>11. j \in 1..N - 1 /\ p = (j - 1) * 32
  BY <1>3, <1>4, <1>6, <1>7, <1>10
<1>12. Limit(root, ENTRY_SIZE) = ENTRY_SIZE
  <2>1. CASE size = 0
    BY <1>1, <2>1 DEF Limit
  <2>2. CASE size # 0
    <3>1. p + 32 <= size
      BY <1>2, <1>3, <1>4, <1>5, <1>6, <2>2 DEF ENTRY_SIZE
    <3> QED
      BY <1>1, <1>2, <1>5, <2>2, <3>1 DEF Limit, Least, ENTRY_SIZE, p
  <2> QED
    BY <2>1, <2>2
<1> QED
  BY <1>2, <1>4, <1>6, <1>8, <1>9, <1>11, <1>12 DEF lba, N, j, p

(* It goes on, or finds the first name. *)
LEMMA RootEntry ==
  ASSUME FatInv, InOrder, RootSearched, NEW o \in Copy(ROOT_DIRECTORY_HANDLE, ENTRY_SIZE)
  PROVE  LET entry == EntryAt(root)
         IN  /\ o.fd.dir /\ o.fd.size = Mounted.rootSize /\ o.fd.buffer = Mounted.rootLba
             /\ OnDisk(entry.name) = call.short => entry \in Found(volume, call.asked)[1]
             /\ OnDisk(entry.name) # call.short => RootSearch(o.fd, call.asked)
<1> DEFINE lba == Mounted.rootLba
           p == root.position
           j == (p % SECTOR_SIZE) \div ENTRY_SIZE + 1
           path == call.asked
           entry == EntryAt(root)
           moved == [root EXCEPT !.position = @ + 32]
<1>1. /\ p \in Nat /\ p % ENTRY_SIZE = 0
      /\ Take(root, ENTRY_SIZE) = 32 /\ Left(root) # 32
      /\ entry = Mounted.entries[lba][j]
      /\ j \in 1..SECTOR_SIZE \div 32 - 1 /\ p = (j - 1) * 32
  BY RootPlace
<1>2. /\ path \in Mounted.paths /\ root.dir /\ root.size = Mounted.rootSize /\ root.buffer = lba
      /\ call.part = 1 /\ 1 \in 1..Len(path) /\ RootSearch(root, path)
      /\ \E name \in NamesTaken(path, 1) : call.short = FAT_GetShortName(name)
  BY DEF RootSearched, FindFits, RootFits, Asks
<1>3. root \in FileData
  BY FatInvParts DEF TypeOK
<1>4. o.fd = moved
  <2>1. Fd(ROOT_DIRECTORY_HANDLE) = root
    BY DEF Fd
  <2>2. o = [fd |-> [root EXCEPT !.position = @ + Take(root, ENTRY_SIZE)], cache |-> cache, ok |-> TRUE]
    BY <1>1, <2>1, CopyCases
  <2> QED
    BY <1>1, <2>2
<1>5. o.fd.dir = root.dir /\ o.fd.size = root.size /\ o.fd.buffer = root.buffer /\ o.fd.position = p + 32
  BY <1>1, <1>3, <1>4 DEF FileData
<1>6. /\ volume \in DOMAIN Volumes /\ Len(path) \in Nat \ {0} /\ path[1] # <<>> /\ Told(volume, path, 1)
  BY <1>2, PathOrder
<1>7. OnDisk(entry.name) = call.short <=> entry.name = path[1]
  <2>1. PICK name \in NamesTaken(path, 1) : call.short = FAT_GetShortName(name)
    BY <1>2
  <2>2. entry = SlotEntry(volume, lba, p)
    BY <1>2, EntryAtSlot
  <2> HIDE DEF entry, lba, path
  <2>3. OnDisk(SlotEntry(volume, lba, p).name) = FAT_GetShortName(name) <=> SlotEntry(volume, lba, p).name = path[1]
    BY <1>1, <1>6, TakesOwnName
  <2> QED
    BY <2>1, <2>2, <2>3, Zenon
<1>8. ASSUME entry.name = path[1] PROVE entry \in Found(volume, path)[1]
  <2>1. lba \in RootLbas(volume)
    BY RootOrder
  <2>2. entry = SlotEntry(volume, lba, p)
    BY <1>2, EntryAtSlot
  <2> HIDE DEF entry, lba, path
  <2>3. SlotEntry(volume, lba, p) \in Named(volume, RootLbas(volume), path[1])
    BY <1>1, <1>6, <1>8, <2>1, <2>2, TakenIsNamed
  <2>4. Found(volume, path)[1] = Named(volume, RootLbas(volume), path[1])
    BY <1>6, FoundInRoot
  <2> QED
    BY <2>2, <2>3, <2>4, Zenon
<1>9. ASSUME entry.name # path[1] PROVE RootSearch(o.fd, path)
  <2>1. (p + 32) % ENTRY_SIZE = 0
    <3> HIDE DEF p
    <3> QED
      BY <1>1, EntryPlace
  <2>2. ASSUME NEW i \in 1..SECTOR_SIZE \div ENTRY_SIZE - 1, Mounted.entries[Mounted.rootLba][i].name = path[1]
        PROVE  p + 32 <= (i - 1) * ENTRY_SIZE
    <3>1. p <= (i - 1) * 32
      BY <1>2, <2>2 DEF RootSearch, ENTRY_SIZE
    <3>2. i # j
      BY <1>1, <1>9, <2>2
    <3>3. i \in Int /\ j \in Int
      <4>1. SECTOR_SIZE \div 32 \in Nat
        BY Constants, DivMod
      <4> HIDE DEF j
      <4> QED
        BY <1>1, <4>1
    <3> HIDE DEF j, p
    <3> QED
      BY <1>1, <3>1, <3>2, <3>3 DEF ENTRY_SIZE
  <2>3. o.fd.position % ENTRY_SIZE = 0
    BY <1>5, <2>1
  <2>4. \A i \in 1..SECTOR_SIZE \div ENTRY_SIZE - 1 :
          Mounted.entries[Mounted.rootLba][i].name = path[1] => o.fd.position <= (i - 1) * ENTRY_SIZE
    <3> HIDE DEF p, path
    <3> QED
      BY <1>5, <2>2
  <2> QED
    BY <2>3, <2>4, Zenon DEF RootSearch
<1> QED
  BY <1>2, <1>5, <1>7, <1>8, <1>9

DirectorySearched == call.op = "find" /\ call.dir \in Handles /\ FindFits(call, root, files)

(* The directory that is searched is the one the path has come to. *)
LEMMA DirectoryHere ==
  ASSUME FatInv, InOrder, DirectorySearched
  PROVE  LET fd    == files[call.dir]
             first == fd.first
             n     == call.part
         IN  /\ volume \in DOMAIN Volumes /\ fd \in FileData /\ first \in Nat
             /\ call.asked \in Mounted.paths /\ Len(call.asked) \in Nat /\ n \in 1..Len(call.asked)
             /\ \E name \in NamesTaken(call.asked, n) : call.short = FAT_GetShortName(name)
             /\ DirectorySearch(fd, call.asked, n)
             /\ OrderlyChain(volume, first, Capacity(volume, first)) /\ Capacity(volume, first) \in Nat \ {0}
             /\ Found(volume, call.asked)[n] = Named(volume, Range(Chain(volume, first)), call.asked[n])
             /\ IsEndMark(Links(volume, first)[Length(volume, first)]) \/ Found(volume, call.asked)[n] # {}
<1> DEFINE fd == files[call.dir]
           first == fd.first
           path == call.asked
           n == call.part
           v == volume
<1>1. /\ path \in Mounted.paths /\ n \in 1..Len(path)
      /\ \E name \in NamesTaken(path, n) : call.short = FAT_GetShortName(name)
      /\ DirectorySearch(fd, path, n)
  <2>1. call.dir # ROOT_DIRECTORY_HANDLE
    BY RootIsNoHandle DEF DirectorySearched
  <2> QED
    BY <2>1, Zenon DEF DirectorySearched, FindFits, Asks
<1>2. fd \in FileData
  BY FatInvParts DEF TypeOK, DirectorySearched
<1>3. /\ FatType = Type(v) /\ FatType \in {12, 16, 32}
  <2>1. call.op \notin Mountable
    BY DEF DirectorySearched, Mountable
  <2> QED
    BY <2>1, KnownType
<1>4. PICK e \in Found(v, path)[n - 1] : first = e.cluster
  BY <1>1 DEF DirectorySearch
<1>5. v \in DOMAIN Volumes /\ Len(path) \in Nat \ {0} /\ (Type(v) = 32 => Found(v, path)[n] # {})
  BY <1>1, PathOrder
<1>6. n # 1
  BY <1>1 DEF DirectorySearch
<1>7. n - 1 \in 1..Len(path) /\ n - 1 < Len(path)
  BY <1>1, <1>5, <1>6
<1>8. /\ e.cluster \in Nat /\ OrderlyDirectory(v, e) /\ \A f \in Found(v, path)[n - 1] : f = e
  <2> DEFINE m == n - 1
  <2>1. m \in 1..Len(path) /\ m < Len(path) /\ e \in Found(v, path)[m]
    BY <1>4, <1>7
  <2> HIDE DEF m, path
  <2>2. /\ \A f, d \in Found(v, path)[m] : f = d
        /\ \A d \in Found(v, path)[m] :
              /\ d.cluster \in Nat
              /\ IF m < Len(path) THEN OrderlyDirectory(v, d) ELSE ~d.dir
    BY <1>1, <2>1, PathOrder
  <2> QED
    BY <2>1, <2>2 DEF m
<1>9. Found(v, path)[n] = Named(v, Range(Chain(v, e.cluster)), path[n])
  <2> HIDE DEF path, n, v
  <2> QED
    BY <1>1, <1>4, <1>5, <1>6, <1>8, FoundInDirectory
<1>10. OrderlyChain(v, e.cluster, Capacity(v, e.cluster)) /\ Capacity(v, e.cluster) \in Nat \ {0}
  <2>1. OrderlyChain(v, e.cluster, 0)
    BY <1>8 DEF OrderlyDirectory
  <2> QED
    BY <1>5, <1>8, <2>1, ChainLength
<1>11. IsEndMark(Links(v, e.cluster)[Length(v, e.cluster)]) \/ FatType = 32
  <2> DEFINE mark == Links(v, e.cluster)[Length(v, e.cluster)]
  <2>1. (Type(v) = 12 => mark \in 4088..4095) /\ (Type(v) = 16 => mark \in 65528..65535)
    BY <1>8 DEF OrderlyDirectory
  <2> HIDE DEF mark
  <2>2. IsEndMark(mark) \/ FatType = 32
    BY <1>3, <2>1 DEF IsEndMark
  <2> QED
    BY <2>2 DEF mark
<1> QED
  BY <1>1, <1>2, <1>3, <1>4, <1>5, <1>8, <1>9, <1>10, <1>11

LEMMA AllSearched ==
  ASSUME NEW v \in DOMAIN Volumes, NEW first \in Nat, NEW size, OrderlyChain(v, first, size), NEW name,
         \A p \in 0..Capacity(v, first) - 1 :
           p % ENTRY_SIZE = 0 => SlotEntry(v, Chain(v, first)[p \div SECTOR_SIZE], p).name # name
  PROVE  Named(v, Range(Chain(v, first)), name) = {}
<1> SUFFICES ASSUME NEW e \in Named(v, Range(Chain(v, first)), name) PROVE FALSE
  OBVIOUS
<1>1. \E p \in 0..Capacity(v, first) - 1 :
           p % ENTRY_SIZE = 0 /\ SlotEntry(v, Chain(v, first)[p \div SECTOR_SIZE], p).name = name
  BY NamedHasPlace
<1> QED
  BY <1>1, Zenon

(* A search that ends has seen all: the path is not stored. *)
LEMMA DirectoryEnds ==
  ASSUME FatInv, InOrder, DirectorySearched, Limit(files[call.dir], ENTRY_SIZE) < ENTRY_SIZE
  PROVE  Find(volume, call.asked) = {}
<1> DEFINE fd == files[call.dir]
           path == call.asked
           n == call.part
           end == Capacity(volume, fd.first)
<1>1. /\ volume \in DOMAIN Volumes /\ fd \in FileData /\ fd.first \in Nat
      /\ Len(path) \in Nat /\ n \in 1..Len(path)
      /\ DirectorySearch(fd, path, n)
      /\ OrderlyChain(volume, fd.first, end) /\ end \in Nat \ {0}
      /\ Found(volume, path)[n] = Named(volume, Range(Chain(volume, fd.first)), path[n])
  BY DirectoryHere
<1>2. fd.position <= end /\ fd.dir /\ (fd.position < end => fd.size = 0)
  BY <1>1 DEF DirectorySearch
<1>3. fd.position = end
  <2>1. ~(fd.position < end)
    BY <1>2 DEF Limit, ENTRY_SIZE
  <2>2. fd.position \in Nat
    BY <1>1 DEF FileData
  <2> HIDE DEF fd, end
  <2> QED
    BY <1>1, <1>2, <2>1, <2>2
<1>4. \A p \in 0..end - 1 :
        p % ENTRY_SIZE = 0 =>
          SlotEntry(volume, Chain(volume, fd.first)[p \div SECTOR_SIZE], p).name # path[n]
  BY <1>1, <1>3, Zenon DEF DirectorySearch
<1>5. Named(volume, Range(Chain(volume, fd.first)), path[n]) = {}
  BY <1>1, <1>4, AllSearched
<1> QED
  BY <1>1, <1>5, NotFound

LEMMA MultiplesApart ==
  ASSUME NEW p \in Nat, NEW q \in Nat, p % ENTRY_SIZE = 0, q % ENTRY_SIZE = 0, p < q + 32
  PROVE  p <= q
<1>1. /\ p = 32 * (p \div 32) + (p % 32) /\ p \div 32 \in Nat
      /\ q = 32 * (q \div 32) + (q % 32) /\ q \div 32 \in Nat
  BY DivMod
<1> QED
  BY <1>1 DEF ENTRY_SIZE

(* The search of a directory goes on, or finds the name. *)
LEMMA DirectoryStep ==
  ASSUME FatInv, OwnSectors, InOrder, DirectorySearched, Limit(files[call.dir], ENTRY_SIZE) = ENTRY_SIZE,
         NEW o \in Copy(call.dir, ENTRY_SIZE)
  PROVE  LET entry == EntryAt(files[call.dir])
         IN  /\ OnDisk(entry.name) = call.short => entry \in Found(volume, call.asked)[call.part]
             /\ OnDisk(entry.name) # call.short => DirectorySearch(o.fd, call.asked, call.part)
<1> DEFINE fd == files[call.dir]
           path == call.asked
           n == call.part
           p == fd.position
           first == fd.first
           end == Capacity(volume, first)
           C == Chain(volume, first)
           lba == C[p \div SECTOR_SIZE]
           entry == EntryAt(fd)
<1>1. /\ volume \in DOMAIN Volumes /\ fd \in FileData /\ first \in Nat
      /\ path \in Mounted.paths /\ Len(path) \in Nat /\ n \in 1..Len(path)
      /\ \E name \in NamesTaken(path, n) : call.short = FAT_GetShortName(name)
      /\ DirectorySearch(fd, path, n)
      /\ OrderlyChain(volume, first, end) /\ end \in Nat \ {0}
      /\ Found(volume, path)[n] = Named(volume, Range(C), path[n])
      /\ IsEndMark(Links(volume, first)[Length(volume, first)]) \/ Found(volume, path)[n] # {}
  BY DirectoryHere
<1>2. /\ n # 1 /\ \E e \in Found(volume, path)[n - 1] : first = e.cluster
      /\ fd.dir /\ p % ENTRY_SIZE = 0 /\ p <= end
      /\ IF p < end THEN fd.size = 0 /\ WalksTo(fd, end) ELSE fd.size = end
      /\ \A x \in 0..p - 1 :
           x % ENTRY_SIZE = 0 => SlotEntry(volume, C[x \div SECTOR_SIZE], x).name # path[n]
  BY <1>1, Zenon DEF DirectorySearch
<1>3. p \in Nat
  BY <1>1 DEF FileData
<1>4. p < end /\ fd.size = 0 /\ WalksTo(fd, end)
  <2>1. SUFFICES ASSUME ~(p < end) PROVE FALSE
    BY <1>2
  <2>2. fd.size = end /\ p = end
    <3> HIDE DEF p, end
    <3> QED
      BY <1>1, <1>2, <1>3, <2>1
  <2>3. Limit(fd, ENTRY_SIZE) = 0
    <3>1. fd.size # 0 /\ fd.size - p = 0
      <4> HIDE DEF end
      <4> QED
        BY <1>1, <1>3, <2>2
    <3> QED
      BY <3>1 DEF Limit, Least, ENTRY_SIZE
  <2> QED
    BY <2>3 DEF ENTRY_SIZE
<1>5. fd.buffer = lba
  BY <1>4 DEF WalksTo
<1>6. lba \in Range(C)
  <2> DEFINE m == Length(volume, first) * SectorsPerCluster
  <2>1. m \in Nat /\ end = m * SECTOR_SIZE
    BY <1>1, ChainLength
  <2>2. DOMAIN C = 0..m - 1
    BY DEF Chain
  <2> HIDE DEF m, p
  <2>3. p \div SECTOR_SIZE < m /\ p \div SECTOR_SIZE \in Nat
    <3>1. p < m * SECTOR_SIZE /\ SECTOR_SIZE \in Nat \ {0}
      BY <1>4, <2>1, Constants
    <3> QED
      BY <1>3, <2>1, <3>1, QuotientBound, DivMod
  <2>4. p \div SECTOR_SIZE \in DOMAIN C
    BY <2>1, <2>2, <2>3
  <2> HIDE DEF C
  <2> QED
    BY <2>4 DEF Range
<1>7. entry = SlotEntry(volume, lba, p)
  BY <1>5, EntryAtSlot
<1>8. path[n] # <<>> /\ Told(volume, path, n)
  BY <1>1, PathOrder
<1> HIDE DEF entry, lba, C, end, p, path, n
<1>9. OnDisk(entry.name) = call.short <=> entry.name = path[n]
  <2>1. PICK name \in NamesTaken(path, n) : call.short = FAT_GetShortName(name)
    BY <1>1
  <2>2. OnDisk(SlotEntry(volume, lba, p).name) = FAT_GetShortName(name) <=> SlotEntry(volume, lba, p).name = path[n]
    BY <1>1, <1>3, <1>8, TakesOwnName
  <2> QED
    BY <1>7, <2>1, <2>2, Zenon
<1>10. ASSUME entry.name = path[n] PROVE entry \in Found(volume, path)[n]
  <2>1. SlotEntry(volume, lba, p) \in Named(volume, Range(C), path[n])
    BY <1>1, <1>3, <1>6, <1>7, <1>8, <1>10, TakenIsNamed
  <2> QED
    BY <1>1, <1>7, <2>1
<1>11. ASSUME entry.name # path[n] PROVE DirectorySearch(o.fd, path, n)
  <2>1. call.op \notin Mountable /\ ~ReadsFail /\ Orderly(volume) /\ CacheTrue /\ call.dir \in Handles
    BY DEF DirectorySearched, Mountable, InOrder, OwnSectors
  <2>2. /\ o.fd.first = first /\ o.fd.dir /\ o.fd.position = p + 32
        /\ o.fd.position % ENTRY_SIZE = 0 /\ o.fd.position <= end
        /\ o.fd.position < end => o.fd.size = 0 /\ WalksTo(o.fd, end)
        /\ o.fd.position = end /\ IsEndMark(Links(volume, first)[Length(volume, first)]) => o.fd.size = end
    <3>1. end = Capacity(volume, files[call.dir].first) /\ files[call.dir].position % ENTRY_SIZE = 0
          /\ files[call.dir].position < end
      BY <1>2, <1>4 DEF end, p
    <3> QED
      BY <1>2, <1>4, <2>1, <3>1, DirectoryWalksOn DEF p
  <2>3. \A x \in 0..(p + 32) - 1 :
           x % ENTRY_SIZE = 0 => SlotEntry(volume, C[x \div SECTOR_SIZE], x).name # path[n]
    <3> SUFFICES ASSUME NEW x \in 0..(p + 32) - 1, x % ENTRY_SIZE = 0
                 PROVE  SlotEntry(volume, C[x \div SECTOR_SIZE], x).name # path[n]
      OBVIOUS
    <3>1. x <= p
      BY <1>2, <1>3, MultiplesApart
    <3>2. CASE x < p
      <4>1. x \in 0..p - 1
        BY <1>3, <3>2
      <4> QED
        BY <1>2, <4>1
    <3>3. CASE x = p
      BY <1>7, <1>11, <3>3 DEF lba
    <3> QED
      BY <1>3, <3>1, <3>2, <3>3
  <2>4. o.fd.position = end => o.fd.size = end
    <3> SUFFICES ASSUME p + 32 = end PROVE o.fd.size = end
      BY <2>2
    <3>1. \A x \in 0..end - 1 :
           x % ENTRY_SIZE = 0 => SlotEntry(volume, Chain(volume, first)[x \div SECTOR_SIZE], x).name # path[n]
      BY <2>3 DEF C
    <3>2. OrderlyChain(volume, first, end)
      BY <1>1
    <3>3. Named(volume, Range(Chain(volume, first)), path[n]) = {}
      BY <1>1, <3>1, <3>2, AllSearched DEF end
    <3> QED
      BY <1>1, <2>2, <3>3 DEF C
  <2>5. IF o.fd.position < end THEN o.fd.size = 0 /\ WalksTo(o.fd, end) ELSE o.fd.size = end
    <3>1. o.fd.position < end \/ o.fd.position = end
      BY <1>1, <1>3, <2>2
    <3> QED
      BY <2>2, <2>4, <3>1, Zenon
  <2>6. \A x \in 0..o.fd.position - 1 :
           x % ENTRY_SIZE = 0 =>
             SlotEntry(volume, Chain(volume, o.fd.first)[x \div SECTOR_SIZE], x).name # path[n]
    BY <2>2, <2>3, Zenon DEF C
  <2>7. Capacity(volume, o.fd.first) = end
    BY <2>2 DEF end
  <2>8. \E e \in Found(volume, path)[n - 1] : o.fd.first = e.cluster
    BY <1>2, <2>2
  <2>9. n # 1 /\ o.fd.dir /\ o.fd.position % ENTRY_SIZE = 0 /\ o.fd.position <= end
    BY <1>2, <2>2
  <2> QED
    BY <2>5, <2>6, <2>7, <2>8, <2>9, Zenon DEF DirectorySearch
<1> QED
  BY <1>9, <1>10, <1>11 DEF entry, path, n

(* What the search does to files that are held: nothing. *)
LEMMA SearchKeepsHeld ==
  ASSUME FatInv, call.op = "find", NEW now, SetFd(call.dir, now)
  PROVE  /\ \A h \in held : files'[h] = files[h]
         /\ call.dir = ROOT_DIRECTORY_HANDLE => root' = now /\ UNCHANGED files
         /\ call.dir # ROOT_DIRECTORY_HANDLE =>
              call.dir \in Handles /\ files' = [files EXCEPT ![call.dir] = now] /\ UNCHANGED root
<1>1. call.dir \in (Handles \ held) \cup {ROOT_DIRECTORY_HANDLE}
  BY FatInvParts DEF CallFits
<1>2. files \in [Handles -> FileData] /\ held \subseteq Handles
  BY FatInvParts DEF TypeOK
<1> QED
  BY <1>1, <1>2 DEF SetFd

LEMMA TracksParts ==
  ASSUME FatInv, Tracks, ~ReadsFail, call.op \notin Mountable
  PROVE  /\ RootFits(call, root) /\ \A h \in held : IsStored(files[h])
         /\ call.op = "find" /\ call.dir = ROOT_DIRECTORY_HANDLE => RootSearched
         /\ call.op = "find" /\ call.dir # ROOT_DIRECTORY_HANDLE => DirectorySearched
         /\ call.op = "enter" => EnterFits(call)
         /\ call.op # "find" \/ call.dir # ROOT_DIRECTORY_HANDLE => root.position = 0
<1>1. RootFits(call, root) /\ SearchFits(call, root, files) /\ \A h \in held : IsStored(files[h])
  BY DEF Tracks
<1>2. call.op = "find" => call.dir \in Handles \cup {ROOT_DIRECTORY_HANDLE}
  BY FatInvParts DEF CallFits
<1>3. (call.op = "find" => FindFits(call, root, files)) /\ (call.op = "enter" => EnterFits(call))
  BY <1>1, Zenon DEF SearchFits
<1>4. call.op # "find" \/ call.dir # ROOT_DIRECTORY_HANDLE => root.position = 0
  BY <1>1 DEF RootFits, SearchingRoot
<1> QED
  BY <1>1, <1>2, <1>3, <1>4 DEF RootSearched, DirectorySearched

(* The root is as it was, and not being searched. *)
LEMMA RootRests ==
  ASSUME RootFits(call, root), root.position = 0, NEW c
  PROVE  RootFits(c, root)
BY DEF RootFits

LEMMA FindEndsTracks ==
  ASSUME FatInv, Tracks, ReadsFail \/ InOrder, FindEnds, UNCHANGED <<volume, g>>
  PROVE  /\ Tracks'
         /\ ~ReadsFail => Find(volume, call.asked) = {} /\ call.asked \in Mounted.paths
         /\ held' = held /\ \A h \in held : files'[h] = files[h]
         /\ reply' = [refused |-> call.asked]
<1>1. /\ call.op = "find" /\ held' = held /\ call' = Idle /\ reply' = [refused |-> call.asked]
      /\ Limit(Fd(call.dir), ENTRY_SIZE) < ENTRY_SIZE
      /\ SetFd(call.dir, Closed(Fd(call.dir), call.dir))
  BY DEF FindEnds, Return
<1>2. /\ \A h \in held : files'[h] = files[h]
      /\ call.dir # ROOT_DIRECTORY_HANDLE => UNCHANGED root
  BY <1>1, SearchKeepsHeld
<1>3. ASSUME InOrder, ~ReadsFail
      PROVE  /\ Find(volume, call.asked) = {} /\ call.asked \in Mounted.paths
             /\ RootFits(call', root') /\ SearchFits(call', root', files')
             /\ \A h \in held : IsStored(files[h])
  <2>1. call.op \notin Mountable
    BY <1>1 DEF Mountable
  <2>2. call.dir # ROOT_DIRECTORY_HANDLE
    <3> SUFFICES ASSUME call.dir = ROOT_DIRECTORY_HANDLE PROVE FALSE
      OBVIOUS
    <3>1. RootSearched
      BY <1>1, <1>3, <2>1, TracksParts
    <3>2. Limit(root, ENTRY_SIZE) = ENTRY_SIZE
      BY <1>3, <3>1, RootPlace
    <3> QED
      BY <1>1, <3>2 DEF Fd, ENTRY_SIZE
  <2>3. DirectorySearched /\ RootFits(call, root) /\ root.position = 0 /\ \A h \in held : IsStored(files[h])
    BY <1>1, <1>3, <2>1, <2>2, TracksParts
  <2>4. Find(volume, call.asked) = {} /\ call.asked \in Mounted.paths
    <3>1. Limit(files[call.dir], ENTRY_SIZE) < ENTRY_SIZE
      BY <1>1, <2>2 DEF Fd
    <3> QED
      BY <1>3, <2>3, <3>1, DirectoryEnds, DirectoryHere
  <2>5. RootFits(call', root')
    BY <1>2, <2>2, <2>3, RootRests
  <2>6. SearchFits(call', root', files')
    BY <1>1 DEF SearchFits, Idle
  <2> QED
    BY <2>3, <2>4, <2>5, <2>6
<1>4. Tracks'
  <2>1. CASE ReadsFail
    BY <2>1, TracksNext
  <2>2. CASE ~ReadsFail
    <3>1. \A h \in held' : IsStored(files'[h])
      BY <1>1, <1>2, <1>3, <2>2
    <3> QED
      BY <1>3, <2>2, <3>1, TracksNext
  <2> QED
    BY <2>1, <2>2
<1> QED
  BY <1>1, <1>2, <1>3, <1>4

LEMMA FindEntryTracks ==
  ASSUME FatInv, OwnSectors, Tracks, ReadsFail \/ InOrder, FindEntry, UNCHANGED <<volume, g>>
  PROVE  /\ Tracks'
         /\ held' = held /\ \A h \in held : files'[h] = files[h]
         /\ reply' = Nothing
<1> DEFINE h == call.dir
           fd == Fd(h)
           entry == EntryAt(fd)
<1>1. /\ call.op = "find" /\ held' = held /\ reply' = Nothing
      /\ Limit(fd, ENTRY_SIZE) = ENTRY_SIZE
  BY DEF FindEntry
<1>2. PICK o \in Copy(h, ENTRY_SIZE) :
        \/ OnDisk(entry.name) = call.short /\ SetFd(h, Closed(o.fd, h)) /\ call' = Entering(entry)
        \/ OnDisk(entry.name) # call.short /\ SetFd(h, o.fd) /\ call' = call
  BY DEF FindEntry
<1>3. /\ \A i \in held : files'[i] = files[i]
  <2>1. \E now : SetFd(h, now)
    BY <1>2
  <2> QED
    BY <1>1, <2>1, SearchKeepsHeld
<1>4. o.fd \in FileData /\ call.op \notin Mountable
  <2>1. call.op \notin Mountable
    BY <1>1 DEF Mountable
  <2>2. h \in Handles \cup {ROOT_DIRECTORY_HANDLE}
    BY <1>1, FatInvParts DEF CallFits
  <2>3. ENTRY_SIZE \in Nat \ {0}
    BY DEF ENTRY_SIZE
  <2>4. TypeOK /\ FatType \in {12, 16, 32}
    BY <2>1, KnownType, FatInvParts
  <2>5. Kept(Fd(h), Fd(h).position + Take(Fd(h), ENTRY_SIZE), o.fd)
    BY <2>2, <2>3, <2>4, CopyKept
  <2> QED
    BY <2>1, <2>5 DEF Kept
<1>5. ASSUME InOrder, ~ReadsFail
      PROVE  /\ RootFits(call', root') /\ SearchFits(call', root', files')
             /\ \A i \in held : IsStored(files[i])
  <2>1. /\ RootFits(call, root) /\ \A i \in held : IsStored(files[i])
        /\ h = ROOT_DIRECTORY_HANDLE => RootSearched
        /\ h # ROOT_DIRECTORY_HANDLE => DirectorySearched /\ root.position = 0
    BY <1>1, <1>4, <1>5, TracksParts
  <2>2. Asks(call) /\ \E name \in NamesTaken(call.asked, call.part) : call.short = FAT_GetShortName(name)
    <3>1. FindFits(call, root, files)
      BY <2>1 DEF RootSearched, DirectorySearched
    <3> QED
      BY <3>1, Zenon DEF FindFits
  <2>3. CASE h = ROOT_DIRECTORY_HANDLE
    <3>1. fd = root /\ call.part = 1
      BY <2>1, <2>3 DEF Fd, RootSearched, FindFits
    <3>2. /\ o.fd.dir /\ o.fd.size = Mounted.rootSize /\ o.fd.buffer = Mounted.rootLba
          /\ OnDisk(entry.name) = call.short => entry \in Found(volume, call.asked)[1]
          /\ OnDisk(entry.name) # call.short => RootSearch(o.fd, call.asked)
      <4>1. o \in Copy(ROOT_DIRECTORY_HANDLE, ENTRY_SIZE) /\ entry = EntryAt(root)
        BY <2>3, <3>1
      <4> HIDE DEF entry
      <4> QED
        BY <1>5, <2>1, <2>3, <4>1, RootEntry
    <3> HIDE DEF fd, entry
    <3>3. CASE OnDisk(entry.name) = call.short
      <4>1. root' = Closed(o.fd, ROOT_DIRECTORY_HANDLE) /\ call' = Entering(entry)
        BY <1>1, <1>2, <2>3, <3>3, SearchKeepsHeld
      <4>2. root'.dir /\ root'.size = o.fd.size /\ root'.buffer = o.fd.buffer /\ root'.position = 0
        BY <1>4, <3>2, <4>1 DEF Closed, FileData
      <4>3. RootFits(call', root')
        BY <3>2, <4>2 DEF RootFits
      <4>4. /\ call'.op = "enter" /\ call'.asked = call.asked /\ call'.part = call.part /\ call'.entry = entry
        BY <4>1 DEF Entering
      <4>5. EnterFits(call')
        BY <2>2, <3>1, <3>2, <3>3, <4>4 DEF EnterFits, Asks
      <4>6. SearchFits(call', root', files')
        BY <4>4, <4>5 DEF SearchFits
      <4> QED
        BY <2>1, <4>3, <4>6
    <3>4. CASE OnDisk(entry.name) # call.short
      <4>1. root' = o.fd /\ call' = call
        BY <1>1, <1>2, <2>3, <3>4, SearchKeepsHeld
      <4>2. RootFits(call', root')
        BY <1>1, <2>3, <3>2, <4>1 DEF RootFits, SearchingRoot
      <4>3. FindFits(call', root', files')
        BY <2>2, <2>3, <3>1, <3>2, <3>4, <4>1 DEF FindFits
      <4>4. SearchFits(call', root', files')
        BY <1>1, <4>1, <4>3 DEF SearchFits
      <4> QED
        BY <2>1, <4>2, <4>4
    <3> QED
      BY <3>3, <3>4
  <2>4. CASE h # ROOT_DIRECTORY_HANDLE
    <3>1. fd = files[h]
      BY <2>4 DEF Fd
    <3>2. /\ OnDisk(entry.name) = call.short => entry \in Found(volume, call.asked)[call.part]
          /\ OnDisk(entry.name) # call.short => DirectorySearch(o.fd, call.asked, call.part)
      <4>1. o \in Copy(call.dir, ENTRY_SIZE) /\ entry = EntryAt(files[call.dir])
            /\ Limit(files[call.dir], ENTRY_SIZE) = ENTRY_SIZE
        BY <1>1, <3>1
      <4> HIDE DEF entry
      <4> QED
        BY <1>5, <2>1, <2>4, <4>1, DirectoryStep
    <3> HIDE DEF fd, entry
    <3>3. UNCHANGED root /\ h \in Handles
      <4>1. \E now : SetFd(h, now)
        BY <1>2
      <4> QED
        BY <1>1, <2>4, <4>1, SearchKeepsHeld
    <3>4. \A c : RootFits(c, root')
      BY <2>1, <2>4, <3>3, RootRests
    <3>5. CASE OnDisk(entry.name) = call.short
      <4>1. call' = Entering(entry)
        BY <1>2, <3>5
      <4>2. /\ call'.op = "enter" /\ call'.asked = call.asked /\ call'.part = call.part /\ call'.entry = entry
        BY <4>1 DEF Entering
      <4>3. EnterFits(call')
        BY <2>2, <3>2, <3>5, <4>2 DEF EnterFits, Asks
      <4>4. SearchFits(call', root', files')
        BY <4>2, <4>3 DEF SearchFits
      <4> QED
        BY <2>1, <3>4, <4>4
    <3>6. CASE OnDisk(entry.name) # call.short
      <4>1. files' = [files EXCEPT ![h] = o.fd] /\ call' = call
        BY <1>1, <1>2, <2>4, <3>6, SearchKeepsHeld
      <4>2. files'[h] = o.fd
        BY <3>3, <4>1, FatInvParts DEF TypeOK
      <4>3. FindFits(call', root', files')
        BY <2>2, <2>4, <3>2, <3>6, <4>1, <4>2 DEF FindFits
      <4>4. SearchFits(call', root', files')
        BY <1>1, <4>1, <4>3 DEF SearchFits
      <4> QED
        BY <2>1, <3>4, <4>4
    <3> QED
      BY <3>5, <3>6
  <2> QED
    BY <2>3, <2>4
<1>6. Tracks'
  <2>1. CASE ReadsFail
    BY <2>1, TracksNext
  <2>2. CASE ~ReadsFail
    <3>1. \A i \in held' : IsStored(files'[i])
      BY <1>1, <1>3, <1>5, <2>2
    <3> QED
      BY <1>5, <2>2, <3>1, TracksNext
  <2> QED
    BY <2>1, <2>2
<1> QED
  BY <1>1, <1>3, <1>6

(* A sector on the volume, on a disk that reads, is read. *)
LEMMA OpensOnVolume ==
  ASSUME FatInv, InOrder, call.op = "enter", EnterFits(call), NEW h \in Handles,
         NEW r \in ReadSectors(FAT_ClusterToLba(call.entry.cluster), files[h].buffer)
  PROVE  r.ok /\ r.buffer = Lba(volume, call.entry.cluster)
<1> DEFINE e == call.entry
<1>1. e \in Found(volume, call.asked)[call.part] /\ call.asked \in Mounted.paths /\ call.part \in 1..Len(call.asked)
  BY DEF EnterFits, Asks
<1>2. volume \in DOMAIN Volumes /\ e.cluster \in Nat /\ Lba(volume, e.cluster) \in 0..TotalSectors - 1
  BY <1>1, PathOrder
<1>3. g.dataLba = Volumes[volume].dataLba
  <2>1. call.op \notin Mountable
    BY DEF Mountable
  <2> QED
    BY <2>1, KnownType DEF InOrder, Orderly, BootSector, Mounted
<1>4. FAT_ClusterToLba(e.cluster) = Lba(volume, e.cluster)
  BY <1>3 DEF FAT_ClusterToLba, Lba
<1>5. files[h].buffer \in Nat
  BY FatInvParts DEF TypeOK, FileData
<1>6. r \in ReadSectors(Lba(volume, e.cluster), files[h].buffer)
  BY <1>4
<1> HIDE DEF e
<1>7. Lba(volume, e.cluster) \in Int /\ ~ReadsFail
  BY <1>2 DEF InOrder
<1>8. r.ok /\ r.buffer = Lba(volume, e.cluster)
  BY <1>2, <1>5, <1>6, <1>7, ReadType
<1> QED
  BY <1>8 DEF e

(* A directory just opened is at its first entry. *)
LEMMA DirectoryBegins ==
  ASSUME FatInv, InOrder, call.op = "enter", EnterFits(call), call.part # Len(call.asked), NEW h \in Handles,
         NEW r \in ReadSectors(FAT_ClusterToLba(call.entry.cluster), files[h].buffer)
  PROVE  /\ DirectorySearch(Opening(h, r), call.asked, call.part + 1)
         /\ call.part + 1 \in 1..Len(call.asked)
<1> DEFINE e == call.entry
           v == volume
           now == Opening(h, r)
           n == call.part + 1
           end == Capacity(v, e.cluster)
<1>1. e \in Found(v, call.asked)[call.part] /\ call.asked \in Mounted.paths /\ call.part \in 1..Len(call.asked)
  BY DEF EnterFits, Asks
<1>2. /\ v \in DOMAIN Volumes /\ Len(call.asked) \in Nat /\ e.cluster \in Nat
      /\ call.part < Len(call.asked) => OrderlyDirectory(v, e)
  BY <1>1, PathOrder
<1>3. call.part < Len(call.asked) /\ n \in 1..Len(call.asked) /\ n # 1 /\ n - 1 = call.part
  BY <1>1, <1>2
<1>4. e.dir /\ e.size = 0 /\ OrderlyChain(v, e.cluster, 0)
  BY <1>2, <1>3 DEF OrderlyDirectory
<1>5. OrderlyChain(v, e.cluster, end) /\ end \in Nat \ {0}
  BY <1>2, <1>4, ChainLength
<1>6. r.buffer = Lba(v, e.cluster)
  BY OpensOnVolume
<1>7. /\ now.position = 0 /\ now.size = e.size /\ now.first = e.cluster /\ now.cluster = e.cluster
      /\ now.sector = 0 /\ now.buffer = r.buffer /\ now.dir = e.dir
  BY DEF Opening
<1> HIDE DEF now, e, end, n
<1>8. 0 \div SECTOR_SIZE = 0 /\ 0 \div SectorsPerCluster = 0 /\ 0 % SectorsPerCluster = 0 /\ 0 % ENTRY_SIZE = 0
  BY Constants, Z3 DEF ENTRY_SIZE
<1>9. Links(v, e.cluster)[0] = e.cluster
  BY <1>2, LinksRecursion
<1>10. Chain(v, e.cluster)[0] = Lba(v, e.cluster) + 0
  <2>1. 0 * SECTOR_SIZE < end
    BY <1>5, Constants
  <2> QED
    BY <1>2, <1>5, <1>8, <1>9, <2>1, ChainSector
<1>11. r.buffer = Chain(v, e.cluster)[0]
  <2>1. Lba(v, e.cluster) \in Int
    BY <1>2, FatAssumption, Constants DEF Lba
  <2> QED
    BY <1>6, <1>10, <2>1
<1>12. WalksTo(now, end)
  BY <1>2, <1>5, <1>7, <1>8, <1>9, <1>11 DEF WalksTo
<1>13. DirectorySearch(now, call.asked, n)
  <2>1. Capacity(v, now.first) = end
    BY <1>7 DEF end
  <2>2. \E d \in Found(v, call.asked)[n - 1] : now.first = d.cluster
    BY <1>1, <1>3, <1>7
  <2>3. 0 < end /\ 0 <= end /\ 0..0 - 1 = {}
    BY <1>5
  <2> QED
    BY <1>3, <1>4, <1>7, <1>8, <1>12, <2>1, <2>2, <2>3 DEF DirectorySearch
<1> QED
  BY <1>3, <1>13 DEF now, n

(* A file just opened is the one asked for. *)
LEMMA FileOpens ==
  ASSUME FatInv, InOrder, call.op = "enter", EnterFits(call), call.part = Len(call.asked), NEW h, NEW r
  PROVE  IsFile(Opening(h, r), call.asked)
<1> DEFINE e == call.entry
           path == call.asked
           v == volume
           now == Opening(h, r)
<1>1. e \in Found(v, path)[call.part] /\ path \in Mounted.paths /\ call.part \in 1..Len(path)
  BY DEF EnterFits, Asks
<1>2. /\ v \in DOMAIN Volumes /\ Len(path) \in Nat
      /\ \A f \in Found(v, path)[call.part] : f = e
      /\ call.part < Len(path) \/ ~e.dir
  BY <1>1, PathOrder
<1>3. ~e.dir
  <2>1. ~(call.part < Len(path))
    BY <1>1, <1>2
  <2> QED
    BY <1>2, <2>1
<1>4. e \in Find(v, path) /\ \A f \in Find(v, path) : f = e
  BY <1>1, <1>2 DEF Find
<1>5. now.first = e.cluster /\ now.size = e.size /\ now.dir = e.dir
  BY DEF Opening
<1> HIDE DEF e, path, now
<1>6. (CHOOSE f \in Find(v, path) : TRUE) = e
  BY <1>4
<1>7. path \in {p \in Volumes[v].paths : Find(v, p) # {}}
  BY <1>1, <1>4 DEF Mounted
<1>8. path \in DOMAIN Stored[v]
  BY <1>2, <1>7 DEF Stored
<1>9. Stored[v][path] = [size |-> e.size, first |-> e.cluster, sectors |-> Chain(v, e.cluster)]
  <2>1. Stored[v][path] = LET f == CHOOSE f \in Find(v, path) : TRUE
                          IN  [size |-> f.size, first |-> f.cluster, sectors |-> Chain(v, f.cluster)]
    BY <1>2, <1>7 DEF Stored
  <2> QED
    BY <1>6, <2>1
<1>10. IsFile(now, path)
  BY <1>3, <1>5, <1>8, <1>9 DEF IsFile
<1> QED
  BY <1>10 DEF now, path

LEMMA OpenEntryTracks ==
  ASSUME FatInv, Tracks, ReadsFail \/ InOrder, FAT_OpenEntry, UNCHANGED <<volume, g>>
  PROVE  /\ Tracks'
         /\ ~ReadsFail =>
              \E h \in Handles \ held :
                /\ files' = [files EXCEPT ![h] = files'[h]]
                /\ \/ ~IsLast /\ held' = held /\ reply' = Nothing
                   \/ /\ IsLast /\ held' = held \cup {h} /\ reply' = [opened |-> h]
                      /\ files'[h].position = 0 /\ IsFile(files'[h], call.asked)
<1>1. call.op = "enter" /\ call.op \notin Mountable /\ root' = root
  BY DEF FAT_OpenEntry, Mountable
<1>2. PICK h \in FreeHandles : Opened(h)
  BY SomeOpened
<1>3. h \in Handles /\ h \notin held
  <2>1. h \in Handles /\ ~files[h].opened
    BY DEF FreeHandles
  <2> QED
    BY <2>1, FatInvParts DEF Balanced
<1>4. files \in [Handles -> FileData] /\ held \subseteq Handles
  BY FatInvParts DEF TypeOK
<1>5. CASE ReadsFail
  BY <1>5, TracksNext
<1>6. CASE ~ReadsFail
  <2>1. InOrder
    BY <1>6
  <2>2. RootFits(call, root) /\ EnterFits(call) /\ root.position = 0 /\ \A i \in held : IsStored(files[i])
    BY <1>1, <1>6, TracksParts
  <2>3. PICK r \in ReadSectors(FAT_ClusterToLba(call.entry.cluster), files[h].buffer) :
           /\ files' = [files EXCEPT ![h] = Opening(h, r)]
           /\ \/ ~r.ok /\ GiveUp /\ UNCHANGED held
              \/ /\ r.ok /\ ~IsLast
                 /\ Searching(h, call.asked, call.part + 1)
                 /\ reply' = Nothing
                 /\ UNCHANGED held
              \/ /\ r.ok /\ IsLast
                 /\ held' = held \cup {h}
                 /\ Return([opened |-> h])
    BY <1>2 DEF Opened
  <2>4. r.ok
    BY <1>1, <1>3, <2>1, <2>2, OpensOnVolume
  <2>5. files'[h] = Opening(h, r) /\ \A i \in Handles : i # h => files'[i] = files[i]
    BY <1>3, <1>4, <2>3
  <2>6. files' = [files EXCEPT ![h] = files'[h]]
    BY <2>3, <2>5
  <2>7. \A i \in held : IsStored(files'[i])
    BY <1>3, <1>4, <2>2, <2>5
  <2>8. \A c : RootFits(c, root')
    BY <1>1, <2>2, RootRests
  <2>9. CASE ~IsLast
    <3>1. Searching(h, call.asked, call.part + 1) /\ reply' = Nothing /\ held' = held
      BY <2>3, <2>4, <2>9
    <3>2. PICK name \in NamesTaken(call.asked, call.part + 1) :
            call' = [op |-> "find", dir |-> h, short |-> FAT_GetShortName(name),
                     asked |-> call.asked, part |-> call.part + 1]
      BY <3>1 DEF Searching
    <3>3. /\ call'.op = "find" /\ call'.dir = h /\ call'.short = FAT_GetShortName(name)
          /\ call'.asked = call.asked /\ call'.part = call.part + 1
      BY <3>2
    <3>4. /\ DirectorySearch(files'[h], call.asked, call.part + 1)
          /\ call.part + 1 \in 1..Len(call.asked)
      BY <1>1, <1>3, <2>1, <2>2, <2>5, <2>9, DirectoryBegins DEF IsLast
    <3>5. Asks(call')
      BY <2>2, <3>3, <3>4 DEF EnterFits, Asks
    <3>6. h # ROOT_DIRECTORY_HANDLE
      BY <1>3, RootIsNoHandle
    <3>7. FindFits(call', root', files')
      BY <3>3, <3>4, <3>5, <3>6 DEF FindFits
    <3>8. SearchFits(call', root', files')
      BY <3>3, <3>7 DEF SearchFits
    <3>9. Tracks'
      BY <2>7, <2>8, <3>1, <3>8, TracksNext
    <3> QED
      BY <1>3, <2>6, <2>9, <3>1, <3>9
  <2>10. CASE IsLast
    <3>1. held' = held \cup {h} /\ call' = Idle /\ reply' = [opened |-> h]
      BY <2>3, <2>4, <2>10 DEF Return
    <3>2. IsFile(files'[h], call.asked) /\ files'[h].position = 0
      <4>1. IsFile(Opening(h, r), call.asked)
        BY <1>1, <2>1, <2>2, <2>10, FileOpens DEF IsLast
      <4>2. Opening(h, r).position = 0
        BY DEF Opening
      <4> QED
        BY <2>5, <4>1, <4>2
    <3>3. IsStored(files'[h])
      BY <3>2 DEF IsStored
    <3>4. SearchFits(call', root', files')
      BY <3>1 DEF SearchFits, Idle
    <3>5. \A i \in held' : IsStored(files'[i])
      BY <2>7, <3>1, <3>3
    <3>6. Tracks'
      BY <2>8, <3>4, <3>5, TracksNext
    <3> QED
      BY <1>3, <2>6, <2>10, <3>1, <3>2, <3>6
  <2> QED
    BY <2>9, <2>10
<1> QED
  BY <1>5, <1>6

(* A turn of FAT_Read hands out the bytes at the file's position, before   *)
(* its end, and moves the position on.                                     *)
LEMMA ReadTurn ==
  ASSUME FatInv, OwnSectors, Tracks, InOrder, ReadOn, UNCHANGED <<volume, g>>
  PROVE  LET h  == call.handle
             fd == files[h]
             t  == Take(fd, call.left)
         IN  /\ h \in held /\ h \in Handles /\ held' = held /\ root' = root
             /\ call.op \notin Mountable /\ call'.op \in {"idle", "read"} /\ call.op = "read"
             /\ fd \in FileData /\ IsStored(fd) /\ Walks(fd)
             /\ t \in Nat \ {0} /\ fd.position + t <= fd.size
             /\ files' = [files EXCEPT ![h] = files'[h]]
             /\ files'[h].position = fd.position + t
             /\ files'[h].first = fd.first /\ files'[h].size = fd.size /\ files'[h].dir = fd.dir
             /\ reply' = [first |-> fd.first, lba |-> fd.buffer,
                          offset |-> fd.position % SECTOR_SIZE, length |-> t]
<1> DEFINE h == call.handle
           fd == files[h]
           t == Take(fd, call.left)
<1>1. /\ call = [op |-> "read", handle |-> h, left |-> call.left]
      /\ call.op \notin Mountable /\ held' = held
      /\ h \in held /\ h \in Handles /\ call.left \in Nat \ {0}
      /\ t \in 1..call.left /\ fd \in FileData
      /\ NoEnd(fd) \/ fd.position + call.left <= fd.size
  BY ReadOnStep
<1>2. PICK o \in Copy(h, call.left) :
        /\ Kept(fd, fd.position + t, o.fd)
        /\ o.ok \in BOOLEAN /\ SetFd(h, o.fd)
        /\ o.ok => o.fd.size = fd.size
        /\ call' = IF t = call.left \/ ~o.ok THEN Idle ELSE [call EXCEPT !.left = @ - t]
  BY ReadOnStep
<1>3. ~ReadsFail /\ Orderly(volume) /\ IsStored(fd)
  BY <1>1, TracksParts DEF InOrder
<1>4. ~fd.dir
  BY <1>3 DEF IsStored, IsFile
<1>5. fd.position \in Nat /\ fd.size \in Nat
  BY <1>1 DEF FileData
<1>6. t \in Nat \ {0} /\ fd.position + t <= fd.size /\ fd.position < fd.size
  <2>1. fd.position + call.left <= fd.size
    BY <1>1, <1>4 DEF NoEnd
  <2> HIDE DEF t, fd
  <2> QED
    BY <1>1, <1>5, <2>1
<1>7. Walks(fd) /\ CacheTrue
  BY <1>1, <1>3, <1>6 DEF OwnSectors
<1>8. o.fd.position = fd.position + t /\ o.fd.first = fd.first /\ o.fd.dir = fd.dir /\ o.fd.size \in {fd.size, fd.position + t}
  BY <1>2 DEF Kept
<1>9. o.fd.size = fd.size
  <2>1. CASE fd.position + t = fd.size
    BY <1>8, <2>1
  <2>2. CASE fd.position + t # fd.size
    <3>1. fd.position + t < fd.size
      <4> HIDE DEF t, fd
      <4> QED
        BY <1>5, <1>6, <2>2
    <3>2. o.ok
      BY <1>1, <1>3, <1>6, <1>7, <3>1, FileWalksOn
    <3> QED
      BY <1>2, <3>2
  <2> QED
    BY <2>1, <2>2
<1>10. root' = root /\ files' = [files EXCEPT ![h] = o.fd]
  BY <1>1, <1>2, RootIsNoHandle DEF SetFd
<1>11. files'[h] = o.fd
  BY <1>1, <1>10, FatInvParts DEF TypeOK
<1>12. reply' = [first |-> fd.first, lba |-> fd.buffer, offset |-> fd.position % SECTOR_SIZE, length |-> t]
  BY DEF ReadOn, Take
<1>13. call'.op \in {"idle", "read"} /\ call.op = "read"
  BY <1>1, <1>2 DEF Idle
<1> HIDE DEF t, fd
<1> QED
  BY <1>1, <1>3, <1>6, <1>7, <1>8, <1>9, <1>10, <1>11, <1>12, <1>13 DEF t, fd

(* A step that ends no search and begins none. *)
LEMMA RestTracks ==
  ASSUME FatInv, Tracks, UNCHANGED <<volume, root>>, call.op \notin Mountable, call.op # "find",
         call'.op \notin {"find", "enter"},
         \A h \in held' : h \in held /\ (IsStored(files[h]) => IsStored(files'[h]))
  PROVE  Tracks'
<1>1. CASE ReadsFail
  BY <1>1, TracksNext
<1>2. CASE ~ReadsFail
  <2>1. RootFits(call, root) /\ root.position = 0 /\ \A h \in held : IsStored(files[h])
    BY <1>2, TracksParts
  <2>2. RootFits(call', root')
    BY <2>1, RootRests
  <2>3. SearchFits(call', root', files')
    BY DEF SearchFits
  <2> QED
    BY <2>1, <2>2, <2>3, TracksNext
<1> QED
  BY <1>1, <1>2

LEMMA TracksInit == Init => Tracks
<1> SUFFICES ASSUME Init PROVE Tracks
  OBVIOUS
<1>1. call.op = "mount" /\ held = {}
  BY DEF Init
<1> QED
  BY <1>1 DEF Tracks, SearchFits, Mountable

LEMMA TracksStep ==
  ASSUME AllOrderly, AllFindable
  PROVE  StoreInv /\ [Next]_vars => Tracks'
<1> SUFFICES ASSUME FatInv, OwnSectors, Tracks, [Next]_vars PROVE Tracks'
  BY DEF StoreInv
<1>0. ReadsFail \/ InOrder
  BY OrderHere
<1>1. CASE FAT_Initialize /\ UNCHANGED volume
  BY <1>0, <1>1, MountTracks
<1>2. CASE (Search \/ ReadOn) /\ UNCHANGED <<volume, g>>
  <2>1. CASE FindEnds
    BY <1>0, <1>2, <2>1, FindEndsTracks
  <2>2. CASE FindEntry
    BY <1>0, <1>2, <2>2, FindEntryTracks
  <2>3. CASE NoHandle
    <3>1. call.op = "enter" /\ call'.op \in {"idle", "wild"} /\ UNCHANGED <<root, files, held>>
      BY <2>3, GiveUpFits DEF NoHandle
    <3>2. call.op \notin Mountable
      BY <3>1 DEF Mountable
    <3> QED
      BY <1>2, <3>1, <3>2, RestTracks
  <2>4. CASE FAT_OpenEntry
    BY <1>0, <1>2, <2>4, OpenEntryTracks
  <2>5. CASE ReadOn
    <3>1. CASE ReadsFail
      BY <1>2, <3>1, TracksNext
    <3>2. CASE InOrder
      <4> DEFINE h == call.handle
      <4>1. /\ h \in held /\ h \in Handles /\ held' = held /\ root' = root
            /\ call.op \notin Mountable /\ call'.op \in {"idle", "read"} /\ call.op = "read"
            /\ files' = [files EXCEPT ![h] = files'[h]]
            /\ files'[h].first = files[h].first /\ files'[h].size = files[h].size /\ files'[h].dir = files[h].dir
        BY <1>2, <2>5, <3>2, ReadTurn
      <4> HIDE DEF h
      <4>2. files \in [Handles -> FileData] /\ held \subseteq Handles
        BY FatInvParts DEF TypeOK
      <4>3. ASSUME NEW i \in held' PROVE i \in held /\ (IsStored(files[i]) => IsStored(files'[i]))
        <5>1. CASE i = h
          BY <4>1, <5>1 DEF IsStored, IsFile
        <5>2. CASE i # h
          <6>1. files'[i] = files[i]
            BY <4>1, <4>2, <4>3, <5>2
          <6> QED
            BY <4>1, <6>1
        <5> QED
          BY <5>1, <5>2
      <4> QED
        BY <1>2, <4>1, <4>3, RestTracks
    <3> QED
      BY <1>0, <3>1, <3>2
  <2> QED
    BY <1>2, <2>1, <2>2, <2>3, <2>4, <2>5 DEF Search
<1>3. ASSUME NEW path \in Mounted.paths, FAT_Open(path), UNCHANGED <<volume, g>> PROVE Tracks'
  BY <1>3, OpenTracks
<1>4. ASSUME NEW h \in Handles, FAT_Close(h), UNCHANGED <<volume, g>> PROVE Tracks'
  <2>1. /\ held' = held \ {h} /\ files' = [files EXCEPT ![h] = Closed(files[h], h)]
        /\ call.op = "idle" /\ call'.op = "idle" /\ root' = root
    BY <1>4 DEF FAT_Close, Idle, Return
  <2>2. \A i \in held' : i \in held /\ files'[i] = files[i]
    BY <2>1, FatInvParts DEF TypeOK
  <2>3. call.op \notin Mountable
    BY <2>1 DEF Mountable
  <2> QED
    BY <1>4, <2>1, <2>2, <2>3, RestTracks
<1>5. ASSUME NEW h, NEW n, FAT_Read(h, n), UNCHANGED <<volume, g>> PROVE Tracks'
  <2>1. call.op = "idle" /\ UNCHANGED <<root, files, held>>
    BY <1>5 DEF FAT_Read, Idle
  <2>2. call'.op \in {"idle", "read"}
    BY <1>5 DEF FAT_Read, Idle
  <2>3. call.op \notin Mountable
    BY <2>1 DEF Mountable
  <2> QED
    BY <1>5, <2>1, <2>2, <2>3, RestTracks
<1>6. CASE UNCHANGED vars
  <2>1. UNCHANGED <<volume, root, call, files, held>>
    BY <1>6 DEF vars
  <2>2. CASE ReadsFail
    BY <2>1, <2>2, TracksNext
  <2>3. CASE ~ReadsFail
    <3>1. (call'.op \notin Mountable => RootFits(call', root')) /\ SearchFits(call', root', files')
          /\ \A h \in held' : IsStored(files'[h])
      BY <2>1, <2>3 DEF Tracks
    <3> QED
      BY <2>1, <3>1, TracksNext
  <2> QED
    BY <2>2, <2>3
<1> QED
  BY <1>1, <1>2, <1>3, <1>4, <1>5, <1>6 DEF Next, Step

LEMMA StoreAlways ==
  ASSUME AllOrderly, AllFindable
  PROVE  Spec => []StoreInv
<1>1. Init => StoreInv
  BY FatInit, OwnSectorsInit, TracksInit DEF StoreInv
<1>2. StoreInv /\ [Next]_vars => StoreInv'
  BY FatNext, OwnSectorsNext, TracksStep DEF StoreInv
<1> QED
  BY <1>1, <1>2, PTL DEF Spec

-----------------------------------------------------------------------------
(* The driver is the file store. *)

AtOf(fs, hs) ==
  [h \in Handles |-> IF h \in hs THEN [path |-> PathOf(fs[h].first), position |-> fs[h].position]
                                 ELSE [closed |-> TRUE]]

OutOf(r) ==
  IF r # Nothing /\ "lba" \in DOMAIN r
  THEN LET from == PlaceOf(r.first, r.lba) * SECTOR_SIZE + r.offset
       IN  [path |-> PathOf(r.first), from |-> from, to |-> from + r.length]
  ELSE r

(* The same of another volume. *)
PathIn(v, first) == CHOOSE path \in DOMAIN Stored[v] : Stored[v][path].first = first
PlaceIn(v, first, lba) ==
  LET sectors == Stored[v][PathIn(v, first)].sectors
      places  == {k \in DOMAIN sectors : sectors[k] = lba}
  IN  IF places = {} THEN -1 ELSE CHOOSE k \in places : TRUE
OutIn(v, r) ==
  IF r # Nothing /\ "lba" \in DOMAIN r
  THEN LET from == PlaceIn(v, r.first, r.lba) * SECTOR_SIZE + r.offset
       IN  [path |-> PathIn(v, r.first), from |-> from, to |-> from + r.length]
  ELSE r

LEMMA ImageNext ==
  ASSUME UNCHANGED volume
  PROVE  /\ Sizes' = Sizes /\ ReadsFail' = ReadsFail
         /\ At = AtOf(files, held) /\ At' = AtOf(files', held') /\ Out' = OutOf(reply')
<1>1. Sizes' = Sizes /\ ReadsFail' = ReadsFail
  BY DEF Sizes, ReadsFail, Mounted
<1>2. At = AtOf(files, held) /\ At' = AtOf(files', held')
  BY DEF At, AtOf, PathOf
<1>3. Out' = OutIn(volume', reply')
  BY DEF Out, OutIn, PathIn, PlaceIn, PathOf, PlaceOf, SectorsOf
<1>4. OutOf(reply') = OutIn(volume, reply')
  BY DEF OutOf, OutIn, PathIn, PlaceIn, PathOf, PlaceOf, SectorsOf
<1>5. OutIn(volume', reply') = OutIn(volume, reply')
  OBVIOUS
<1> QED
  BY <1>1, <1>2, <1>3, <1>4, <1>5

LEMMA PlainReplies ==
  /\ OutOf(Nothing) = Store!Nothing
  /\ \A p : OutOf([refused |-> p]) = [refused |-> p]
  /\ \A h : OutOf([opened |-> h]) = [opened |-> h]
<1>1. \A p : "lba" \notin DOMAIN [refused |-> p]
  OBVIOUS
<1>2. \A h : "lba" \notin DOMAIN [opened |-> h]
  OBVIOUS
<1>3. OutOf(Nothing) = Nothing
  BY DEF OutOf
<1>4. \A p : OutOf([refused |-> p]) = [refused |-> p]
  BY <1>1, Zenon DEF OutOf
<1>5. \A h : OutOf([opened |-> h]) = [opened |-> h]
  BY <1>2, Zenon DEF OutOf
<1> QED
  BY <1>3, <1>4, <1>5 DEF Nothing, Store!Nothing

(* A file's path is the one it was opened by. *)
LEMMA PathIs ==
  ASSUME InOrder, NEW path, path \in DOMAIN Stored[volume]
  PROVE  PathOf(Stored[volume][path].first) = path
<1> DEFINE S == Stored[volume]
           x == S[path].first
           Has(p) == p \in DOMAIN S /\ S[p].first = x
<1>1. \A p, q \in DOMAIN S : S[p].first = S[q].first => p = q
  BY DEF InOrder, OrderlyTree
<1>2. Has(path)
  OBVIOUS
<1>3. PathOf(x) = CHOOSE p : Has(p)
  BY DEF PathOf
<1>4. Has(CHOOSE p : Has(p))
  <2> HIDE DEF Has
  <2> QED
    BY <1>2
<1>5. PathOf(x) \in DOMAIN S /\ S[PathOf(x)].first = x
  BY <1>3, <1>4
<1>6. PathOf(x) = path
  <2> HIDE DEF S
  <2> QED
    BY <1>1, <1>2, <1>5, Zenon
<1> QED
  BY <1>6

(* A piece's place in its file. *)
LEMMA PlaceIs ==
  ASSUME FatInv, NEW fd \in FileData, Walks(fd), fd.position < fd.size
  PROVE  PlaceOf(fd.first, fd.buffer) = fd.position \div SECTOR_SIZE
<1> DEFINE first == fd.first
           k == fd.position \div SECTOR_SIZE
           C == Chain(volume, first)
           n == Length(volume, first) * SectorsPerCluster
<1>1. /\ volume \in DOMAIN Volumes /\ first \in Nat /\ fd.position \in Nat /\ fd.size \in Nat
      /\ OrderlyFile(volume, first, fd.size) /\ OrderlyChain(volume, first, fd.size)
      /\ fd.buffer = C[k]
  BY FatInvParts DEF Walks, WalksTo, TypeOK, FileData
<1>2. SectorsOf(first) = C
  BY <1>1, SectorsAreChain
<1>3. k \in DOMAIN C
  <2>1. n \in Nat /\ fd.size <= n * SECTOR_SIZE
    BY <1>1, ChainLength DEF OrderlyChain
  <2>2. DOMAIN C = 0..n - 1
    BY DEF Chain
  <2> HIDE DEF n
  <2>3. fd.position < n * SECTOR_SIZE
    <3>1. n * SECTOR_SIZE \in Nat
      BY <2>1, Constants
    <3> QED
      BY <1>1, <2>1, <3>1
  <2>4. k < n /\ k \in Nat
    BY <1>1, <2>1, <2>3, Constants, QuotientBound, DivMod
  <2> HIDE DEF k, C
  <2> QED
    BY <2>1, <2>2, <2>4
<1>4. \A m \in DOMAIN C : C[m] = fd.buffer => m = k
  <2> HIDE DEF k, first
  <2> QED
    BY <1>1, <1>3, SectorsDiffer
<1> DEFINE places == {m \in DOMAIN SectorsOf(first) : SectorsOf(first)[m] = fd.buffer}
<1>5. places = {k}
  <2> HIDE DEF C, k
  <2> QED
    BY <1>1, <1>2, <1>3, <1>4
<1>6. PlaceOf(first, fd.buffer) = IF places = {} THEN -1 ELSE CHOOSE m \in places : TRUE
  BY DEF PlaceOf
<1> HIDE DEF places, k
<1>7. PlaceOf(first, fd.buffer) = k
  BY <1>5, <1>6
<1> QED
  BY <1>7 DEF k

StoreNext == Store!Next /\ UNCHANGED <<Sizes, ReadsFail>>

LEMMA SameAt ==
  ASSUME held' = held, \A h \in held : files'[h] = files[h]
  PROVE  AtOf(files', held') = AtOf(files, held)
BY DEF AtOf

LEMMA IsQuiet ==
  ASSUME UNCHANGED volume, held' = held, \A h \in held : files'[h] = files[h], reply' = Nothing
  PROVE  StoreNext
<1>1. At' = At
  BY ImageNext, SameAt
<1>2. Out' = Store!Nothing
  BY ImageNext, PlainReplies
<1>3. Store!Quiet
  BY <1>1, <1>2 DEF Store!Quiet
<1> QED
  BY <1>3, ImageNext DEF StoreNext, Store!Next

PathsAsked == UNION {Volumes[v].paths : v \in DOMAIN Volumes}

LEMMA IsRefused ==
  ASSUME FatInv, UNCHANGED volume, held' = held, \A h \in held : files'[h] = files[h],
         NEW path \in Mounted.paths, reply' = [refused |-> path],
         path \notin DOMAIN Sizes \/ \A h \in Handles : h \in held
  PROVE  StoreNext
<1>1. At' = At
  BY ImageNext, SameAt
<1>2. Out' = [refused |-> path]
  BY ImageNext, PlainReplies
<1>3. path \in PathsAsked
  BY FatInvParts DEF PathsAsked, TypeOK, Mounted
<1>4. path \notin DOMAIN Sizes \/ \A h \in Handles : At[h] # Store!Closed
  <2> SUFFICES ASSUME \A h \in Handles : h \in held, NEW h \in Handles PROVE At[h] # Store!Closed
    OBVIOUS
  <2>1. At[h] = [path |-> PathOf(files[h].first), position |-> files[h].position]
    BY DEF At
  <2>2. "path" \in DOMAIN At[h] /\ "path" \notin DOMAIN [closed |-> TRUE]
    BY <2>1
  <2> QED
    BY <2>2 DEF Store!Closed
<1>5. Store!Refuse(path)
  BY <1>1, <1>2, <1>4 DEF Store!Refuse
<1> QED
  BY <1>3, <1>5, ImageNext DEF StoreNext, Store!Next, PathsAsked

LEMMA AskedFor ==
  ASSUME FatInv, NEW path \in Mounted.paths
  PROVE  path \in PathsAsked
BY FatInvParts DEF PathsAsked, TypeOK, Mounted

Row(fs, h) == [path |-> PathOf(fs[h].first), position |-> fs[h].position]

LEMMA AtRows ==
  ASSUME held \subseteq Handles
  PROVE  /\ \A h \in held : At[h] = Row(files, h) /\ At[h] # Store!Closed
         /\ \A h \in Handles \ held : At[h] = Store!Closed
<1>1. ASSUME NEW h \in held PROVE At[h] = Row(files, h) /\ At[h] # Store!Closed
  <2>1. At[h] = Row(files, h)
    BY <1>1 DEF At, Row
  <2>2. "path" \in DOMAIN Row(files, h) /\ "path" \notin DOMAIN Store!Closed
    BY DEF Row, Store!Closed
  <2> QED
    BY <2>1, <2>2
<1>2. ASSUME NEW h \in Handles \ held PROVE At[h] = Store!Closed
  BY <1>2 DEF At, Store!Closed
<1> QED
  BY <1>1, <1>2

(* One row of the table changes, the others stay. *)
LEMMA OneRow ==
  ASSUME FatInv, UNCHANGED volume, NEW h \in Handles, NEW row,
         held' \subseteq Handles, held' \ {h} = held \ {h}, files' = [files EXCEPT ![h] = files'[h]],
         IF h \in held' THEN Row(files', h) = row ELSE Store!Closed = row
  PROVE  At' = [At EXCEPT ![h] = row]
<1>1. At' = AtOf(files', held')
  BY ImageNext
<1>2. files \in [Handles -> FileData]
  BY FatInvParts DEF TypeOK
<1>3. ASSUME NEW i \in Handles, i # h PROVE AtOf(files', held')[i] = At[i]
  <2>1. files'[i] = files[i] /\ (i \in held' <=> i \in held)
    BY <1>2, <1>3
  <2> QED
    BY <1>3, <2>1 DEF AtOf, At
<1>4. AtOf(files', held')[h] = row
  BY Zenon DEF AtOf, Row, Store!Closed
<1>5. AtOf(files', held') = [i \in Handles |-> IF i = h THEN row ELSE At[i]]
  <2>1. AtOf(files', held') = [i \in Handles |-> AtOf(files', held')[i]]
    BY DEF AtOf
  <2> QED
    BY <1>3, <1>4, <2>1
<1>6. DOMAIN At = Handles
  BY DEF At
<1> QED
  BY <1>1, <1>5, <1>6

LEMMA IsOpened ==
  ASSUME FatInv, InOrder, UNCHANGED volume, NEW h \in Handles \ held, NEW path \in Mounted.paths,
         files' = [files EXCEPT ![h] = files'[h]], held' = held \cup {h}, reply' = [opened |-> h],
         files'[h].position = 0, IsFile(files'[h], path)
  PROVE  StoreNext
<1>1. held \subseteq Handles
  BY FatInvParts DEF TypeOK
<1>2. path \in DOMAIN Stored[volume] /\ files'[h].first = Stored[volume][path].first
  BY DEF IsFile
<1>3. path \in DOMAIN Sizes
  BY <1>2 DEF Sizes
<1>4. Row(files', h) = [path |-> path, position |-> 0]
  BY <1>2, PathIs DEF Row
<1>5. At' = [At EXCEPT ![h] = [path |-> path, position |-> 0]]
  <2>1. held' \subseteq Handles /\ held' \ {h} = held \ {h} /\ h \in held' /\ h \in Handles
    BY <1>1
  <2> QED
    BY <1>4, <2>1, OneRow
<1>6. Out' = [opened |-> h]
  BY ImageNext, PlainReplies
<1>7. At[h] = Store!Closed
  BY <1>1, AtRows
<1>8. Store!Open(path, h)
  BY <1>3, <1>5, <1>6, <1>7 DEF Store!Open
<1>9. path \in PathsAsked
  BY AskedFor
<1> QED
  BY <1>8, <1>9, ImageNext DEF StoreNext, Store!Next, PathsAsked

LEMMA IsClosed ==
  ASSUME FatInv, UNCHANGED volume, NEW h \in Handles, FAT_Close(h)
  PROVE  StoreNext
<1>1. held \subseteq Handles /\ files \in [Handles -> FileData]
  BY FatInvParts DEF TypeOK
<1>2. /\ h \in held /\ held' = held \ {h} /\ files' = [files EXCEPT ![h] = Closed(files[h], h)]
      /\ reply' = Nothing
  BY DEF FAT_Close, Return
<1>3. At' = [At EXCEPT ![h] = Store!Closed]
  <2>1. held' \subseteq Handles /\ held' \ {h} = held \ {h} /\ h \notin held'
    BY <1>1, <1>2
  <2>2. files' = [files EXCEPT ![h] = files'[h]]
    BY <1>1, <1>2
  <2> QED
    BY <2>1, <2>2, OneRow
<1>4. Out' = Store!Nothing
  BY <1>2, ImageNext, PlainReplies
<1>5. At[h] # Store!Closed
  BY <1>1, <1>2, AtRows
<1>6. Store!Close(h)
  BY <1>3, <1>4, <1>5 DEF Store!Close
<1> QED
  BY <1>6, ImageNext DEF StoreNext, Store!Next

LEMMA OutOfPiece ==
  ASSUME NEW first, NEW lba, NEW offset, NEW length
  PROVE  OutOf([first |-> first, lba |-> lba, offset |-> offset, length |-> length]) =
           [path |-> PathOf(first), from |-> PlaceOf(first, lba) * SECTOR_SIZE + offset,
            to |-> (PlaceOf(first, lba) * SECTOR_SIZE + offset) + length]
<1> DEFINE piece == [first |-> first, lba |-> lba, offset |-> offset, length |-> length]
<1>1. "lba" \in DOMAIN piece /\ "lba" \notin DOMAIN Nothing
  BY DEF Nothing
<1>2. piece # Nothing
  BY <1>1
<1>3. piece.first = first /\ piece.lba = lba /\ piece.offset = offset /\ piece.length = length
  OBVIOUS
<1> HIDE DEF piece
<1>4. OutOf(piece) = LET from == PlaceOf(piece.first, piece.lba) * SECTOR_SIZE + piece.offset
                     IN  [path |-> PathOf(piece.first), from |-> from, to |-> from + piece.length]
  BY <1>1, <1>2, Zenon DEF OutOf
<1>5. OutOf(piece) = [path |-> PathOf(first), from |-> PlaceOf(first, lba) * SECTOR_SIZE + offset,
                      to |-> (PlaceOf(first, lba) * SECTOR_SIZE + offset) + length]
  BY <1>3, <1>4
<1> QED
  BY <1>5 DEF piece

LEMMA IsRead ==
  ASSUME FatInv, OwnSectors, Tracks, InOrder, ReadOn, UNCHANGED <<volume, g>>
  PROVE  StoreNext
<1> DEFINE h == call.handle
           fd == files[h]
           t == Take(fd, call.left)
           piece == [first |-> fd.first, lba |-> fd.buffer, offset |-> fd.position % SECTOR_SIZE, length |-> t]
<1>1. /\ h \in held /\ h \in Handles /\ held' = held
      /\ fd \in FileData /\ IsStored(fd) /\ Walks(fd)
      /\ t \in Nat \ {0} /\ fd.position + t <= fd.size
      /\ files' = [files EXCEPT ![h] = files'[h]]
      /\ files'[h].position = fd.position + t
      /\ files'[h].first = fd.first
      /\ reply' = piece
  BY ReadTurn
<1>2. held \subseteq Handles /\ UNCHANGED volume
  BY FatInvParts DEF TypeOK
<1>3. PICK path : IsFile(fd, path)
  BY <1>1 DEF IsStored
<1>4. path \in DOMAIN Stored[volume] /\ fd.first = Stored[volume][path].first /\ fd.size = Stored[volume][path].size
  BY <1>3 DEF IsFile
<1>5. PathOf(fd.first) = path
  BY <1>4, PathIs
<1>6. Sizes[path] = fd.size
  BY <1>4 DEF Sizes
<1> DEFINE from == fd.position
           to == fd.position + t
           whole == PlaceOf(fd.first, fd.buffer) * SECTOR_SIZE + (fd.position % SECTOR_SIZE)
<1>7. from \in Nat /\ fd.size \in Nat /\ to \in Nat
  BY <1>1 DEF FileData
<1>8. At[h] # Store!Closed /\ At[h] = [path |-> path, position |-> from]
  <2>1. At[h] = Row(files, h) /\ At[h] # Store!Closed
    BY <1>1, <1>2, AtRows
  <2> QED
    BY <1>5, <2>1 DEF Row
<1>9. At' = [At EXCEPT ![h] = [path |-> path, position |-> to]]
  <2>1. Row(files', h) = [path |-> path, position |-> to]
    BY <1>1, <1>5 DEF Row
  <2>2. held' \subseteq Handles /\ held' \ {h} = held \ {h} /\ h \in held'
    BY <1>1, <1>2
  <2> HIDE DEF h, to
  <2> QED
    BY <1>1, <1>2, <2>1, <2>2, OneRow
<1>10. whole = from
  <2>1. fd.position < fd.size
    <3> HIDE DEF fd, t
    <3> QED
      BY <1>1, <1>7
  <2>2. PlaceOf(fd.first, fd.buffer) = from \div SECTOR_SIZE
    BY <1>1, <2>1, PlaceIs
  <2>3. from = (from \div SECTOR_SIZE) * SECTOR_SIZE + (from % SECTOR_SIZE)
    <3> HIDE DEF from
    <3>1. SECTOR_SIZE \in Nat \ {0}
      BY Constants
    <3>2. from \in Nat
      BY <1>7
    <3>4. from \div SECTOR_SIZE \in Nat /\ from = SECTOR_SIZE * (from \div SECTOR_SIZE) + (from % SECTOR_SIZE)
      BY <3>1, <3>2, DivMod
    <3>3. SECTOR_SIZE * (from \div SECTOR_SIZE) = (from \div SECTOR_SIZE) * SECTOR_SIZE
      BY <3>1, <3>4, Z3
    <3> QED
      BY <3>3, <3>4
  <2> QED
    BY <2>2, <2>3
<1>11. Out' = [path |-> path, from |-> from, to |-> to]
  <2>1. Out' = OutOf(piece)
    BY <1>1, <1>2, ImageNext
  <2>2. OutOf(piece) = [path |-> PathOf(fd.first), from |-> whole, to |-> whole + t]
    <3> HIDE DEF fd, t
    <3> QED
      BY OutOfPiece DEF whole, piece
  <2> HIDE DEF whole, piece
  <2> QED
    BY <1>5, <1>10, <2>1, <2>2
<1>12. to \in from + 1..fd.size /\ to \in 1..fd.size
  <2> HIDE DEF fd, t
  <2> QED
    BY <1>1, <1>7
<1> HIDE DEF fd, t, from, to, h
<1>13. At[h].path = path /\ At[h].position = from
  BY <1>8
<1>14. [At EXCEPT ![h].position = to] = [At EXCEPT ![h] = [path |-> path, position |-> to]]
  <2>1. [At[h] EXCEPT !.position = to] = [path |-> path, position |-> to]
    BY <1>8
  <2>2. [At EXCEPT ![h].position = to] = [At EXCEPT ![h] = [At[h] EXCEPT !.position = to]]
    OBVIOUS
  <2> QED
    BY <2>1, <2>2
<1>15. Store!Read(h, to)
  BY <1>6, <1>8, <1>9, <1>11, <1>12, <1>13, <1>14 DEF Store!Read
<1>16. to \in 1..Sizes[At[h].path]
  BY <1>6, <1>12, <1>13
<1> QED
  BY <1>1, <1>2, <1>8, <1>15, <1>16, ImageNext DEF StoreNext, Store!Next

LEMMA IsUnopened ==
  ASSUME FatInv, Tracks, InOrder, NoHandle, UNCHANGED <<volume, g>>
  PROVE  StoreNext
<1>1. call.op = "enter" /\ FreeHandles = {} /\ GiveUp /\ UNCHANGED <<files, held>>
  BY DEF NoHandle
<1>2. call.op \notin Mountable
  BY <1>1 DEF Mountable
<1>3. call.asked \in Mounted.paths
  <2>1. EnterFits(call)
    BY <1>1, <1>2, TracksParts DEF InOrder
  <2> QED
    BY <2>1 DEF EnterFits, Asks
<1>4. CASE IsLast
  <2>1. reply' = [refused |-> call.asked]
    BY <1>1, <1>4 DEF GiveUp, Return
  <2>2. \A h \in Handles : h \in held
    <3>1. \A h \in Handles : files[h].opened = (h \in held \/ (call.op = "find" /\ call.dir = h))
      BY FatInvParts DEF Balanced
    <3>2. \A h \in Handles : files[h].opened
      BY <1>1 DEF FreeHandles
    <3> QED
      BY <1>1, <3>1, <3>2
  <2> QED
    BY <1>1, <1>3, <2>1, <2>2, IsRefused
<1>5. CASE ~IsLast
  <2>1. reply' = Nothing
    BY <1>1, <1>5 DEF GiveUp
  <2> QED
    BY <1>1, <2>1, IsQuiet
<1> QED
  BY <1>4, <1>5

LEMMA IsStoreStep ==
  ASSUME AllOrderly, AllFindable, FatInv, OwnSectors, Tracks, ~ReadsFail, [Next]_vars
  PROVE  StoreNext \/ UNCHANGED <<Sizes, ReadsFail, At, Out>>
<1>0. InOrder
  BY OrderHere
<1>1. CASE FAT_Initialize /\ UNCHANGED volume
  <2>1. UNCHANGED <<files, held>> /\ reply' = Nothing
    BY <1>1 DEF FAT_Initialize
  <2> QED
    BY <1>1, <2>1, IsQuiet
<1>2. CASE (Search \/ ReadOn) /\ UNCHANGED <<volume, g>>
  <2>1. CASE FindEnds
    <3>1. /\ Find(volume, call.asked) = {} /\ call.asked \in Mounted.paths
          /\ held' = held /\ \A h \in held : files'[h] = files[h]
          /\ reply' = [refused |-> call.asked]
      BY <1>0, <1>2, <2>1, FindEndsTracks
    <3>2. call.asked \notin DOMAIN Sizes
      BY <3>1, FatInvParts DEF Sizes, Stored, TypeOK
    <3> QED
      BY <1>2, <3>1, <3>2, IsRefused
  <2>2. CASE FindEntry
    <3>1. held' = held /\ (\A h \in held : files'[h] = files[h]) /\ reply' = Nothing
      BY <1>0, <1>2, <2>2, FindEntryTracks
    <3> QED
      BY <1>2, <3>1, IsQuiet
  <2>3. CASE NoHandle
    BY <1>0, <1>2, <2>3, IsUnopened
  <2>4. CASE FAT_OpenEntry
    <3>1. call.op = "enter"
      BY <2>4 DEF FAT_OpenEntry
    <3>2. call.op \notin Mountable
      BY <3>1 DEF Mountable
    <3>3. call.asked \in Mounted.paths
      BY <3>1, <3>2, TracksParts DEF EnterFits, Asks
    <3>4. PICK h \in Handles \ held :
            /\ files' = [files EXCEPT ![h] = files'[h]]
            /\ \/ ~IsLast /\ held' = held /\ reply' = Nothing
               \/ /\ IsLast /\ held' = held \cup {h} /\ reply' = [opened |-> h]
                  /\ files'[h].position = 0 /\ IsFile(files'[h], call.asked)
      BY <1>0, <1>2, <2>4, OpenEntryTracks
    <3>5. CASE held' = held /\ reply' = Nothing
      <4>1. \A i \in held : files'[i] = files[i]
        BY <3>4, FatInvParts DEF TypeOK
      <4> QED
        BY <1>2, <3>5, <4>1, IsQuiet
    <3>6. CASE held' = held \cup {h} /\ reply' = [opened |-> h] /\ files'[h].position = 0 /\ IsFile(files'[h], call.asked)
      BY <1>0, <1>2, <3>3, <3>4, <3>6, IsOpened
    <3> QED
      BY <3>4, <3>5, <3>6
  <2>5. CASE ReadOn
    BY <1>0, <1>2, <2>5, IsRead
  <2> QED
    BY <1>2, <2>1, <2>2, <2>3, <2>4, <2>5 DEF Search
<1>3. ASSUME NEW path \in Mounted.paths, FAT_Open(path), UNCHANGED <<volume, g>> PROVE StoreNext
  <2>1. UNCHANGED <<files, held>> /\ reply' = Nothing
    BY <1>3 DEF FAT_Open
  <2> QED
    BY <1>3, <2>1, IsQuiet
<1>4. ASSUME NEW h \in Handles, FAT_Close(h), UNCHANGED <<volume, g>> PROVE StoreNext
  BY <1>4, IsClosed
<1>5. ASSUME NEW h \in Handles, NEW n \in Counts, FAT_Read(h, n), UNCHANGED <<volume, g>> PROVE StoreNext
  <2>1. UNCHANGED <<files, held>> /\ reply' = Nothing
    BY <1>5 DEF FAT_Read
  <2> QED
    BY <1>5, <2>1, IsQuiet
<1>6. CASE UNCHANGED vars
  <2>1. UNCHANGED <<volume, files, held, reply>>
    BY <1>6 DEF vars
  <2>2. At' = At /\ Sizes' = Sizes /\ ReadsFail' = ReadsFail
    BY <2>1, ImageNext, SameAt
  <2>3. Out' = Out
    BY <2>1 DEF Out, PathOf, PlaceOf, SectorsOf
  <2> QED
    BY <2>2, <2>3
<1> QED
  BY <1>1, <1>2, <1>3, <1>4, <1>5, <1>6 DEF Next, Step

LEMMA StoreBegins == Init => Store!Init
<1> SUFFICES ASSUME Init PROVE Store!Init
  OBVIOUS
<1>1. held = {} /\ reply = Nothing
  BY DEF Init
<1>2. At = [h \in Handles |-> Store!Closed]
  BY <1>1 DEF At, Store!Closed
<1>3. Out = Store!Nothing
  BY <1>1 DEF Out, Nothing, Store!Nothing
<1> QED
  BY <1>2, <1>3 DEF Store!Init

(* FAT_Open, FAT_Read and FAT_Close are the operations of a store of whole *)
(* files: while the disk reads, a stored path opens whenever a handle is   *)
(* free and at its first byte, any other path is refused, and every piece  *)
(* that FAT_Read hands out is the file's next bytes (ImplementsFileStore), *)
(* for all volumes in order with paths that can be followed.               *)
THEOREM FatImplementsFileStore ==
  ASSUME AllOrderly, AllFindable
  PROVE  Spec => ImplementsFileStore
<1>1. Init => StoreInv /\ Store!Init
  BY FatInit, OwnSectorsInit, TracksInit, StoreBegins DEF StoreInv
<1>2. StoreInv /\ [Next]_vars =>
        StoreInv' /\ [ReadsFail \/ (Store!Next /\ UNCHANGED <<Sizes, ReadsFail>>)]_<<Sizes, ReadsFail, At, Out>>
  <2> SUFFICES ASSUME FatInv, OwnSectors, Tracks, [Next]_vars
               PROVE  /\ StoreInv'
                      /\ [ReadsFail \/ (Store!Next /\ UNCHANGED <<Sizes, ReadsFail>>)]_<<Sizes, ReadsFail, At, Out>>
    BY DEF StoreInv
  <2>1. FatInv' /\ OwnSectors' /\ Tracks'
    BY FatNext, OwnSectorsNext, TracksStep DEF StoreInv
  <2>2. ReadsFail \/ StoreNext \/ UNCHANGED <<Sizes, ReadsFail, At, Out>>
    BY IsStoreStep
  <2> QED
    BY <2>1, <2>2 DEF StoreInv, StoreNext
<1> HIDE DEF StoreInv, Init, Next, vars
<1> QED
  BY <1>1, <1>2, PTL DEF Spec, ImplementsFileStore, Store!Spec
=============================================================================
