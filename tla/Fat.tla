--------------------------------- MODULE Fat ---------------------------------
(***************************************************************************)
(* The boot loader's FAT driver, fat.c: FAT_Initialize takes the volume's  *)
(* layout from the boot sector, FAT_Open walks the directories, FAT_Read   *)
(* copies from the one sector each open file buffers and fetches the next  *)
(* through the cached part of the FAT, FAT_Close.  A sector's bytes are    *)
(* its address on the volume, which is only read; a name is a sequence of  *)
(* characters without regard to case; a step is a call, or one turn of the *)
(* loop it is in.                                                          *)
(***************************************************************************)
EXTENDS Integers, Sequences, FiniteSets, Functions

CONSTANTS SECTOR_SIZE, FAT_CACHE_SIZE, MAX_FILE_HANDLES,
          SectorsPerCluster, TotalSectors,
          Volumes,                        \* by name, the volumes that may be mounted
          Counts,                         \* how much callers read at a time
          FAT12_CLUSTERS,                 \* 0xFF5
          StackCharacters,                \* what an unwritten place of FAT_Open's name may hold
          MaxHeld,                        \* bound on the files a caller keeps open
          MaxPosition                     \* bound on how far a directory is searched

ASSUME FatAssumption ==
  /\ SECTOR_SIZE \in Nat \ {0} /\ SECTOR_SIZE % 32 = 0
  /\ {FAT_CACHE_SIZE, MAX_FILE_HANDLES, SectorsPerCluster} \subseteq Nat \ {0}
  /\ {TotalSectors, FAT12_CLUSTERS, MaxHeld, MaxPosition} \subseteq Nat /\ Counts \subseteq Nat \ {0}
  /\ \A v \in DOMAIN Volumes :
       /\ Volumes[v].boot \in [{"ReservedSectors", "FatCount", "SectorsPerFat", "SectorsPerFat32",
                                 "DirEntryCount", "TotalSectors", "LargeSectorCount", "RootDirectoryCluster"} -> Nat]
       /\ {Volumes[v].rootLba, Volumes[v].rootSize, Volumes[v].dataLba} \subseteq Nat
       /\ Volumes[v].paths \subseteq Seq(Seq(STRING) \ {<<>>}) \ {<<>>}
       /\ Volumes[v].fails \in BOOLEAN
       /\ IsFiniteSet(DOMAIN Volumes[v].next)
       /\ DOMAIN Volumes[v].next \cup Range(Volumes[v].next) \subseteq Nat
       /\ \A sector \in Range(Volumes[v].entries) :
            sector \in [1..SECTOR_SIZE \div 32 -> [name : Seq(STRING), dir : BOOLEAN, cluster : Nat, size : Nat]]

VARIABLES volume,         \* the volume on the disk
          g,              \* g_FatType, g_DataSectionLba
          root, files,    \* g_Data->RootDirectory, OpenedFiles
          cache,          \* FatCachePosition, and the FAT sector really in FatCache
          call,           \* the call in progress
          held,           \* handles the caller has
          reply           \* what the last step gave the caller

vars == <<volume, g, root, files, cache, call, held, reply>>

Mounted   == Volumes[volume]
FatType   == g.type
BootSector == Mounted.boot               \* what is written in it
ReadsFail == Mounted.fails               \* whether DISK_ReadSectors may give up

ROOT_DIRECTORY_HANDLE == -1
Handles    == 0..MAX_FILE_HANDLES - 1
ENTRY_SIZE == 32
Unloaded   == 2^30             \* 0xFFFFFFFF: beyond every sector of a FAT
EndMarks   == -8..-1           \* 0xFFFFFFF8.. as 32 bits
NUL        == "NUL"
Nothing    == [nothing |-> TRUE]
Least(a, b) == IF a < b THEN a ELSE b

-----------------------------------------------------------------------------
(* Sectors and clusters. *)

Lba(v, cluster) == Volumes[v].dataLba + (cluster - 2) * SectorsPerCluster
FAT_ClusterToLba(cluster) == g.dataLba + (cluster - 2) * SectorsPerCluster

(* Partition_ReadSectors into a buffer: what it may return and leave there. *)
(* Beyond the volume the BIOS refuses or, the address being cut to fit CHS, *)
(* reads some other sector.                                                 *)
ReadSectors(lba, buffer) ==
  {[ok |-> TRUE, buffer |-> IF lba \in 0..TotalSectors - 1 THEN lba ELSE TotalSectors]}
  \cup (IF ReadsFail \/ lba \notin 0..TotalSectors - 1 THEN {[ok |-> FALSE, buffer |-> buffer]} ELSE {})

Entry(v, cluster) == IF cluster \in DOMAIN Volumes[v].next THEN Volumes[v].next[cluster] ELSE 0
TableEntry(cluster) == Entry(volume, cluster)

EntryByte(type, cluster) == CASE type = 12 -> (cluster * 3) \div 2
                              [] type = 16 -> cluster * 2
                              [] type = 32 -> cluster * 4

FatByte12(i) ==                          \* byte i of a FAT of 12-bit entries
  LET even == (i \div 3) * 2
  IN  CASE i % 3 = 0 -> TableEntry(even) % 256
        [] i % 3 = 1 -> TableEntry(even) \div 256 + (TableEntry(even + 1) % 16) * 16
        [] OTHER     -> TableEntry(even + 1) \div 16

(* Byte j of FatCache; the byte after it is the low byte of FatCachePosition. *)
CacheByte12(c, j) == IF j < FAT_CACHE_SIZE * SECTOR_SIZE THEN FatByte12(j + c.holds * SECTOR_SIZE)
                                                         ELSE c.position % 256

(* The entry found in the cache c, which is another cluster's when the     *)
(* cache does not hold what its position says.                             *)
Cached(cluster, c) ==
  LET width == FatType \div 8
      shift == ((c.holds - c.position) * SECTOR_SIZE) \div width
      j     == EntryByte(FatType, cluster) - c.position * SECTOR_SIZE
      word  == CacheByte12(c, j) + 256 * CacheByte12(c, j + 1)
  IN  IF FatType # 12 THEN TableEntry(cluster + shift)
      ELSE IF cluster % 2 = 0 THEN word % 4096 ELSE word \div 16

SignExtendNever(entry) == entry          \* mutant: the end marks keep their width

SignExtend(entry) ==                     \* the end marks of 12 and 16 bits
  CASE FatType = 12 /\ entry >= 4088  -> entry - 4096
    [] FatType = 16 /\ entry >= 65528 -> entry - 65536
    [] OTHER -> entry

NextClusterNoReload(cluster, c) ==       \* mutant: a loaded cache is never refilled
  LET sector == EntryByte(FatType, cluster) \div SECTOR_SIZE
      now    == IF c.position = Unloaded THEN [position |-> sector, holds |-> sector]
                ELSE [c EXCEPT !.position = sector]
  IN  {[cluster |-> SignExtend(Cached(cluster, now)), cache |-> now]}

(* FAT_ReadFat's failure is not looked at: the position moves all the same *)
FAT_NextCluster(cluster, c) ==
  LET sector == EntryByte(FatType, cluster) \div SECTOR_SIZE
      hit    == c.position <= sector /\ sector < c.position + FAT_CACHE_SIZE
      caches == IF hit THEN {c}
                ELSE {[position |-> sector, holds |-> sector]}
                     \cup (IF ReadsFail THEN {[c EXCEPT !.position = sector]} ELSE {})
  IN  {[cluster |-> SignExtend(Cached(cluster, now)), cache |-> now] : now \in caches}

-----------------------------------------------------------------------------
(* FAT_Read's loop: one turn copies what is left of the buffered sector,   *)
(* or less, and fetches the next sector when it has used this one up.      *)

Fd(h) == IF h = ROOT_DIRECTORY_HANDLE THEN root ELSE files[h]

SetFd(h, fd) == IF h = ROOT_DIRECTORY_HANDLE
                THEN root' = fd /\ UNCHANGED files
                ELSE files' = [files EXCEPT ![h] = fd] /\ UNCHANGED root

(* Each outcome is the file, the cache, and whether the loop goes on.      *)
NextRootSector(fd) ==
  {[fd |-> [fd EXCEPT !.cluster = @ + 1, !.buffer = r.buffer], cache |-> cache, ok |-> r.ok] :
     r \in ReadSectors(fd.cluster + 1, fd.buffer)}

NextClusterIf(leaves, fd) ==
  IF leaves THEN FAT_NextCluster(fd.cluster, cache) ELSE {[cluster |-> fd.cluster, cache |-> cache]}

NextFileSector(fd) ==
  LET leaves  == fd.sector + 1 >= SectorsPerCluster
      sector  == IF leaves THEN 0 ELSE fd.sector + 1
      arrive(n) ==
        LET moved == [fd EXCEPT !.cluster = n.cluster, !.sector = sector]
        IN  IF n.cluster \in EndMarks
            THEN {[fd |-> [moved EXCEPT !.size = fd.position], cache |-> n.cache, ok |-> FALSE]}
            ELSE {[fd |-> [moved EXCEPT !.buffer = r.buffer], cache |-> n.cache, ok |-> r.ok] :
                    r \in ReadSectors(FAT_ClusterToLba(n.cluster) + sector, fd.buffer)}
  IN  UNION {arrive(n) : n \in NextClusterIf(leaves, fd)}

Left(fd) == SECTOR_SIZE - (fd.position % SECTOR_SIZE)

Copy(h, count) ==
  LET fd    == Fd(h)
      take  == Least(count, Left(fd))
      moved == [fd EXCEPT !.position = @ + take]
  IN  IF take = Left(fd)
      THEN IF h = ROOT_DIRECTORY_HANDLE THEN NextRootSector(moved) ELSE NextFileSector(moved)
      ELSE {[fd |-> moved, cache |-> cache, ok |-> TRUE]}

Limit(fd, count) ==                      \* a directory of size 0 has no known end
  IF fd.dir /\ fd.size = 0 THEN count ELSE Least(count, fd.size - fd.position)

-----------------------------------------------------------------------------
Idle == [op |-> "idle"]

Init ==                                  \* before FAT_Initialize
  /\ volume \in DOMAIN Volumes
  /\ g = [type |-> 0, dataLba |-> 0]
  /\ root = [opened |-> FALSE, dir |-> TRUE, position |-> 0, size |-> 0,
             first |-> 0, cluster |-> 0, sector |-> 0, buffer |-> 0]
  /\ files = [h \in Handles |->
               [opened |-> FALSE, dir |-> FALSE, position |-> 0, size |-> 0, first |-> 0,
                cluster |-> 0, sector |-> 0, buffer |-> 0]]
  /\ cache = [position |-> Unloaded, holds |-> 0]
  /\ call = [op |-> "mount"] /\ held = {} /\ reply = Nothing

FAT_Detect(bs, dataLba) ==
  LET total == IF bs.TotalSectors = 0 THEN bs.LargeSectorCount ELSE bs.TotalSectors
  IN  CASE (total - dataLba) \div SectorsPerCluster < FAT12_CLUSTERS -> 12
        [] OTHER -> IF bs.SectorsPerFat # 0 THEN 16 ELSE 32

Layout(bs) ==                            \* where the root directory and the data begin
  LET isFat32  == bs.SectorsPerFat = 0
      fatsEnd  == bs.ReservedSectors + bs.FatCount * (IF isFat32 THEN bs.SectorsPerFat32 ELSE bs.SectorsPerFat)
      rootSize == ENTRY_SIZE * bs.DirEntryCount
  IN  IF isFat32
      THEN [data |-> fatsEnd, root |-> fatsEnd + (bs.RootDirectoryCluster - 2) * SectorsPerCluster, size |-> rootSize]
      ELSE [data |-> fatsEnd + (rootSize + SECTOR_SIZE - 1) \div SECTOR_SIZE, root |-> fatsEnd, size |-> rootSize]

Unmounted == call' = [op |-> "unmounted"]      \* "FAT init error"

FAT_Initialize ==
  /\ call.op = "mount"
  /\ \/ ReadsFail /\ Unmounted /\ UNCHANGED <<root, g>>
     \/ LET layout == Layout(BootSector)
        IN  \E r \in ReadSectors(layout.root, root.buffer) :
              /\ root' = [opened |-> TRUE, dir |-> TRUE, position |-> 0, size |-> layout.size,
                          first |-> layout.root, cluster |-> layout.root, sector |-> 0, buffer |-> r.buffer]
              /\ g' = [type |-> IF r.ok THEN FAT_Detect(BootSector, layout.data) ELSE 0, dataLba |-> layout.data]
              /\ IF r.ok THEN call' = Idle ELSE Unmounted
  /\ reply' = Nothing
  /\ UNCHANGED <<files, cache, held>>

Return(r) == call' = Idle /\ reply' = r

ClosedInPlace(fd, h) ==                  \* mutant: the root keeps its position
  [fd EXCEPT !.opened = (h = ROOT_DIRECTORY_HANDLE)]

Closed(fd, h) ==                         \* FAT_Close; the root's buffer stays as it is
  IF h = ROOT_DIRECTORY_HANDLE THEN [fd EXCEPT !.position = 0, !.cluster = fd.first]
                               ELSE [fd EXCEPT !.opened = FALSE]

(* FAT_GetShortName.  The dot that ends the name's first part is not one   *)
(* when it is the twelfth character.                                       *)
FirstDot(name) == LET dots == {i \in DOMAIN name : name[i] = "."}
                  IN  IF dots = {} THEN 12 ELSE CHOOSE i \in dots : \A j \in dots : i <= j
Upto(s, n) == SubSeq(s, 1, Least(n, Len(s)))

FAT_GetShortName(name) ==
  LET dot == FirstDot(name)
  IN  [stem |-> Upto(name, Least(8, dot - 1)),
       ext  |-> IF dot = 12 THEN <<>> ELSE Upto(SubSeq(name, dot + 1, Len(name)), 3)]

(* The name that FAT_Open takes from the path's n-th part on.  The last    *)
(* one's terminator lies a character late (fat.c:481): between the name    *)
(* and it is what earlier parts have left there, or the stack.             *)
LeftBehind(path, n, i) ==                \* what place i may hold once the parts before n were there
  LET over == {k \in 1..n - 1 : Len(path[k]) + 1 >= i}
      k    == CHOOSE k \in over : \A j \in over : j <= k
  IN  IF over = {} THEN StackCharacters
      ELSE {IF Len(path[k]) + 1 = i THEN NUL ELSE path[k][i]}

NamesTaken(path, n) ==
  IF n < Len(path) THEN {path[n]}
  ELSE {IF c = NUL THEN path[n] ELSE Append(path[n], c) : c \in LeftBehind(path, n, Len(path[n]) + 1)}

Searching(dir, path, n) ==
  \E name \in NamesTaken(path, n) :
    call' = [op |-> "find", dir |-> dir, short |-> FAT_GetShortName(name), asked |-> path, part |-> n]

FAT_Open(path) ==
  /\ call = Idle
  /\ Cardinality(held) < MaxHeld
  /\ Searching(ROOT_DIRECTORY_HANDLE, path, 1)
  /\ reply' = Nothing
  /\ UNCHANGED <<root, files, cache, held>>

(* FAT_FindFile, one FAT_ReadEntry after another.  The directory is closed *)
(* when the search ends, either way.                                       *)
FindEnds ==                              \* nothing left to read: not found
  /\ call.op = "find"
  /\ Limit(Fd(call.dir), ENTRY_SIZE) < ENTRY_SIZE
  /\ SetFd(call.dir, Closed(Fd(call.dir), call.dir))
  /\ Return([refused |-> call.asked])
  /\ UNCHANGED <<cache, held>>

EntryAt(fd) == IF fd.buffer \in DOMAIN Mounted.entries
               THEN Mounted.entries[fd.buffer][(fd.position % SECTOR_SIZE) \div ENTRY_SIZE + 1]
               ELSE [name |-> <<>>, dir |-> FALSE, cluster |-> 0, size |-> 0]

OnDisk(name) ==                          \* the eleven characters of a directory entry
  LET dots == {i \in DOMAIN name : name[i] = "."}
      dot  == IF dots = {} THEN Len(name) + 1 ELSE CHOOSE i \in dots : TRUE
  IN  [stem |-> SubSeq(name, 1, dot - 1), ext |-> SubSeq(name, dot + 1, Len(name))]

Entering(entry) == [op |-> "enter", entry |-> entry, asked |-> call.asked, part |-> call.part]

FindLeaks ==                             \* mutant: the directory is not closed
  /\ call.op = "find"
  /\ Limit(Fd(call.dir), ENTRY_SIZE) = ENTRY_SIZE
  /\ \E o \in Copy(call.dir, ENTRY_SIZE) :
       LET entry == EntryAt(Fd(call.dir))
       IN  /\ call' = IF OnDisk(entry.name) = call.short THEN Entering(entry) ELSE call
           /\ SetFd(call.dir, o.fd) /\ cache' = o.cache
  /\ reply' = Nothing
  /\ UNCHANGED held

FindEntry ==
  /\ call.op = "find" /\ Fd(call.dir).position < MaxPosition
  /\ Limit(Fd(call.dir), ENTRY_SIZE) = ENTRY_SIZE
  /\ \E o \in Copy(call.dir, ENTRY_SIZE) :
       LET entry == EntryAt(Fd(call.dir))
       IN  /\ cache' = o.cache
           /\ \/ /\ OnDisk(entry.name) = call.short
                 /\ SetFd(call.dir, Closed(o.fd, call.dir))
                 /\ call' = Entering(entry)
              \/ /\ OnDisk(entry.name) # call.short
                 /\ SetFd(call.dir, o.fd)
                 /\ UNCHANGED call
  /\ reply' = Nothing
  /\ UNCHANGED held

(* FAT_OpenEntry.  NULL in the middle of a path is read through: from      *)
(* there on anything may happen, and the model stops.                      *)
IsLast == call.part = Len(call.asked)

GiveUp == IF IsLast THEN Return([refused |-> call.asked])
                              ELSE call' = [op |-> "wild"] /\ reply' = Nothing

FreeHandles == {h \in Handles : ~files[h].opened}

NoHandle ==
  /\ call.op = "enter" /\ FreeHandles = {}
  /\ GiveUp
  /\ UNCHANGED <<root, files, cache, held>>

Opening(h, r) == [opened |-> r.ok, dir |-> call.entry.dir, position |-> 0, size |-> call.entry.size,
                  first |-> call.entry.cluster, cluster |-> call.entry.cluster, sector |-> 0,
                  buffer |-> r.buffer]

FAT_OpenEntry ==
  /\ call.op = "enter" /\ FreeHandles # {}
  /\ LET h == CHOOSE i \in FreeHandles : \A j \in FreeHandles : i <= j
     IN  \E r \in ReadSectors(FAT_ClusterToLba(call.entry.cluster), files[h].buffer) :
           /\ files' = [files EXCEPT ![h] = Opening(h, r)]
           /\ \/ ~r.ok /\ GiveUp /\ UNCHANGED held
              \/ /\ r.ok /\ ~IsLast
                 /\ Searching(h, call.asked, call.part + 1)
                 /\ reply' = Nothing
                 /\ UNCHANGED held
              \/ /\ r.ok /\ IsLast
                 /\ held' = held \cup {h}
                 /\ Return([opened |-> h])
  /\ UNCHANGED <<root, cache>>

FAT_Read(h, n) ==
  /\ call = Idle /\ h \in held
  /\ LET count == Limit(files[h], n)
     IN  call' = IF count = 0 THEN Idle ELSE [op |-> "read", handle |-> h, left |-> count]
  /\ reply' = Nothing
  /\ UNCHANGED <<root, files, cache, held>>

ReadOnce ==                              \* mutant: the rest of the request is forgotten
  /\ call.op = "read"
  /\ LET fd   == files[call.handle]
         take == Least(call.left, Left(fd))
     IN  \E o \in Copy(call.handle, call.left) :
           /\ SetFd(call.handle, o.fd)
           /\ cache' = o.cache
           /\ Return([first |-> fd.first, lba |-> fd.buffer,
                      offset |-> fd.position % SECTOR_SIZE, length |-> take])
  /\ UNCHANGED held

ReadOn ==
  /\ call.op = "read"
  /\ LET fd   == files[call.handle]
         take == Least(call.left, Left(fd))
     IN  \E o \in Copy(call.handle, call.left) :
           /\ SetFd(call.handle, o.fd)
           /\ cache' = o.cache
           /\ reply' = [first |-> fd.first, lba |-> fd.buffer,
                        offset |-> fd.position % SECTOR_SIZE, length |-> take]
           /\ call' = IF take = call.left \/ ~o.ok THEN Idle ELSE [call EXCEPT !.left = @ - take]
  /\ UNCHANGED held

FAT_Close(h) ==
  /\ call = Idle /\ h \in held
  /\ files' = [files EXCEPT ![h] = Closed(files[h], h)]
  /\ held' = held \ {h}
  /\ Return(Nothing)
  /\ UNCHANGED <<root, cache>>

Search == FindEnds \/ FindEntry \/ NoHandle \/ FAT_OpenEntry

Step == \/ FAT_Initialize /\ UNCHANGED volume
        \/ (Search \/ ReadOn) /\ UNCHANGED <<volume, g>>

Next == \/ Step
        \/ /\ UNCHANGED <<volume, g>>
           /\ \/ \E path \in Mounted.paths : FAT_Open(path)
              \/ \E h \in Handles : FAT_Close(h)
              \/ \E h \in Handles, n \in Counts : FAT_Read(h, n)

Spec     == Init /\ [][Next]_vars
FairSpec == Spec /\ WF_vars(Step)        \* one CPU, nothing else to run

-----------------------------------------------------------------------------
(* Properties. *)

(* What is stored.  A file's or directory's sectors are found by following *)
(* the volume's table from its first cluster, whatever the driver has      *)
(* cached; a path is stored when each name is an entry of the directory    *)
(* before it.                                                              *)
InUse(v) == DOMAIN Volumes[v].next
Links(v, first) ==                       \* its clusters, the first one at 0
  LET C[k \in 0..Cardinality(InUse(v))] == IF k = 0 THEN first ELSE Entry(v, C[k - 1])
  IN  C
IsLength(v, first, n) ==                 \* the n-th is the mark that ends them
  Links(v, first)[n] \notin InUse(v) /\ \A k \in 0..n - 1 : Links(v, first)[k] \in InUse(v)
Length(v, first) == CHOOSE n \in 1..Cardinality(InUse(v)) : IsLength(v, first, n)
Chain(v, first) ==                       \* its sectors, the first one at 0
  [k \in 0..Length(v, first) * SectorsPerCluster - 1 |->
     Lba(v, Links(v, first)[k \div SectorsPerCluster]) + (k % SectorsPerCluster)]

Named(v, lbas, name) ==
  {e \in UNION {Range(Volumes[v].entries[l]) : l \in lbas \cap DOMAIN Volumes[v].entries} : e.name = name}
RootLbas(v) ==
  LET vol == Volumes[v]
  IN  vol.rootLba..vol.rootLba + (IF vol.rootSize = 0 THEN SectorsPerCluster ELSE (vol.rootSize + SECTOR_SIZE - 1) \div SECTOR_SIZE) - 1
Found(v, path) ==                        \* by each name of the path, one directory after another
  LET E[n \in 1..Len(path)] ==
        IF n = 1 THEN Named(v, RootLbas(v), path[1])
        ELSE UNION {Named(v, Range(Chain(v, e.cluster)), path[n]) : e \in E[n - 1]}
  IN  E
Find(v, path) == Found(v, path)[Len(path)]

(* By volume and path, the file's size, its first cluster and its sectors. *)
Stored == [v \in DOMAIN Volumes |->
  [path \in {p \in Volumes[v].paths : Find(v, p) # {}} |->
     LET e == CHOOSE e \in Find(v, path) : TRUE
     IN  [size |-> e.size, first |-> e.cluster, sectors |-> Chain(v, e.cluster)]]]

PathOf(first) == CHOOSE path \in DOMAIN Stored[volume] : Stored[volume][path].first = first
SectorsOf(first) == Stored[volume][PathOf(first)].sectors

(* On a disk that reads, whatever was read, searched and opened before,    *)
(* through whichever handle, each open file's buffer is the sector its     *)
(* position lies in: the next byte FAT_Read gives is the file's next byte. *)
BufferIsCurrent ==
  ~ReadsFail =>
    \A h \in held : files[h].position < files[h].size =>
                    files[h].buffer = SectorsOf(files[h].first)[files[h].position \div SECTOR_SIZE]

(* Every path out of FAT_Open and FAT_Close, read errors included, leaves  *)
(* marked as open what callers hold and the directory being searched.      *)
HandlesBalanced ==
  {h \in Handles : files[h].opened} =
    held \cup (IF call.op = "find" /\ call.dir # ROOT_DIRECTORY_HANDLE THEN {call.dir} ELSE {})

(* On a disk that reads every call returns, or goes astray through NULL:   *)
(* no search or read turns for ever in a chain or a directory.             *)
CallsReturn == call.op # "idle" /\ ~ReadsFail ~> call.op \in {"idle", "wild"}

(* There a call of FAT_Read for a file ends only with all it was asked     *)
(* for, up to the end of the file; a directory's end is not known.         *)
ReadsWhole == [][~ReadsFail /\ call.op = "read" /\ ~files[call.handle].dir /\ call'.op = "idle"
                   => reply'.length = call.left]_vars

(* A volume that a formatter and its writers have left in order: the boot  *)
(* sector gives its layout, its clusters are within reach of the table's   *)
(* entries, of which none lies across two sectors, and each file that has  *)
(* bytes has a path and the clusters for them, on the volume.              *)
Type(v) == FAT_Detect(Volumes[v].boot, Layout(Volumes[v].boot).data)

OrderlyTable(v) ==
  \A c \in InUse(v) :
    /\ c < (CASE Type(v) = 12 -> 4088 [] Type(v) = 16 -> 65528 [] Type(v) = 32 -> Unloaded)
    /\ EntryByte(Type(v), c) \div SECTOR_SIZE < Unloaded
    /\ Type(v) = 12 => Volumes[v].next[c] < 4096 /\ EntryByte(12, c) % SECTOR_SIZE # SECTOR_SIZE - 1

Capacity(v, first) == Length(v, first) * SectorsPerCluster * SECTOR_SIZE

OrderlyChain(v, first, size) ==
  /\ \E n \in 1..Cardinality(InUse(v)) : IsLength(v, first, n)
  /\ size <= Capacity(v, first)
  /\ Range(Chain(v, first)) \subseteq 0..TotalSectors - 1

OrderlyFile(v, first, size) ==
  /\ \E path \in DOMAIN Stored[v] : Stored[v][path].first = first
  /\ OrderlyChain(v, first, size)

Orderly(v) ==
  /\ Layout(Volumes[v].boot).data = Volumes[v].dataLba
  /\ OrderlyTable(v)
  /\ \A sector \in Range(Volumes[v].entries) :
       \A e \in Range(sector) : e.size > 0 => OrderlyFile(v, e.cluster, e.size)

AllOrderly == \A v \in DOMAIN Volumes : ~Volumes[v].fails => Orderly(v)

(* Paths that the driver can follow.  The first name lies in the root's    *)
(* first sector and not in its last place; what is made of each name,      *)
(* whatever follows it on the stack, tells its entry from all the others;  *)
(* all names but the last are directories', the last is a file's, on the   *)
(* volume, with a first cluster of its own; and FAT32, whose end marks are *)
(* not known, is asked for what is there.                                  *)
Blank == [name |-> <<>>, dir |-> FALSE, cluster |-> 0, size |-> 0]

EntriesRead(v) == {Blank} \cup UNION {Range(sector) : sector \in Range(Volumes[v].entries)}

Told(v, path, n) ==
  \A name \in NamesTaken(path, n), e \in EntriesRead(v) :
    OnDisk(e.name) = FAT_GetShortName(name) <=> e.name = path[n]

OrderlyDirectory(v, e) ==
  /\ e.dir /\ e.size = 0
  /\ OrderlyChain(v, e.cluster, 0)
  /\ LET mark == Links(v, e.cluster)[Length(v, e.cluster)]
     IN  (Type(v) = 12 => mark \in 4088..4095) /\ (Type(v) = 16 => mark \in 65528..65535)

OrderlyPath(v, path) ==
  /\ \E i \in 1..SECTOR_SIZE \div ENTRY_SIZE - 1 :
       /\ Volumes[v].entries[Volumes[v].rootLba][i].name = path[1]
       /\ Volumes[v].rootSize # 0 => i * ENTRY_SIZE <= Volumes[v].rootSize
  /\ \A n \in DOMAIN path :
       /\ Told(v, path, n)
       /\ \A e, f \in Found(v, path)[n] : e = f
       /\ Type(v) = 32 => Found(v, path)[n] # {}
       /\ \A e \in Found(v, path)[n] :
            /\ Lba(v, e.cluster) \in 0..TotalSectors - 1
            /\ IF n < Len(path) THEN OrderlyDirectory(v, e) ELSE ~e.dir

OrderlyTree(v) ==
  /\ Layout(Volumes[v].boot).root = Volumes[v].rootLba /\ Layout(Volumes[v].boot).size = Volumes[v].rootSize
  /\ Volumes[v].rootLba \in DOMAIN Volumes[v].entries \cap 0..TotalSectors - 1
  /\ \A path \in Volumes[v].paths : OrderlyPath(v, path)
  /\ \A p, q \in DOMAIN Stored[v] : Stored[v][p].first = Stored[v][q].first => p = q

AllFindable == \A v \in DOMAIN Volumes : ~Volumes[v].fails => OrderlyTree(v)

(* The bytes handed out are the file's own, in order: the driver is the    *)
(* store of FileStore.  A piece's place in its file is where its sector    *)
(* lies in the chain.                                                      *)
PlaceOf(first, lba) ==
  LET places == {k \in DOMAIN SectorsOf(first) : SectorsOf(first)[k] = lba}
  IN  IF places = {} THEN -1 ELSE CHOOSE k \in places : TRUE

Sizes == [path \in DOMAIN Stored[volume] |-> Stored[volume][path].size]
At  == [h \in Handles |-> IF h \in held THEN [path |-> PathOf(files[h].first), position |-> files[h].position]
                                        ELSE [closed |-> TRUE]]
Out == IF reply # Nothing /\ "lba" \in DOMAIN reply
       THEN LET from == PlaceOf(reply.first, reply.lba) * SECTOR_SIZE + reply.offset
            IN  [path |-> PathOf(reply.first), from |-> from, to |-> from + reply.length]
       ELSE reply

Store == INSTANCE FileStore WITH Paths <- UNION {Volumes[v].paths : v \in DOMAIN Volumes}, SizeOf <- Sizes,
                                 fails <- ReadsFail, at <- At, out <- Out
ImplementsFileStore == Store!Spec
=============================================================================
