------------------------------ MODULE StageOne ------------------------------
(***************************************************************************)
(* The boot sector, boot.asm: stage 2 lies in a few runs of sectors that   *)
(* the image builder wrote into stage2_location; each is read to where the *)
(* last one ended, with three tries, through the BIOS's extensions or by   *)
(* cylinder, head and sector.                                              *)
(***************************************************************************)
EXTENDS DiskAddress, Sequences

CONSTANTS stage2_location,      \* the runs, [lba, count]; an lba of 0 ends them
          Bdbs                  \* geometries mkfs.fat may have written into the volume

VARIABLES bdb,                  \* the geometry in the boot sector's header
          have_extensions, si, di,  \* the run at hand, and tries left
          es,                   \* where the next sector goes, in sectors from 0x500
          count,                \* the block count of the extensions' packet
          memory,               \* the sectors from 0x500 on
          low,                  \* what lies at 0x20000
          failed,               \* reads of this run that failed, up to four
          shortened,            \* whether a failed read has lowered the block count
          pc

vars == <<bdb, have_extensions, si, di, es, count, memory, low, failed, shortened, pc>>

PARTITION_ENTRY_SEGMENT == 8192
PARTITION_ENTRY_OFFSET  == 0

Size == LET S[n \in 0..Len(stage2_location)] ==
              IF n = 0 THEN 0 ELSE S[n - 1] + stage2_location[n].count
        IN  S
Stage2 == [k \in 0..Size[Len(stage2_location)] - 1 |->
             LET n == CHOOSE m \in DOMAIN stage2_location : Size[m - 1] <= k /\ k < Size[m]
             IN  stage2_location[n].lba + (k - Size[n - 1])]
Empty == -1

Init == /\ bdb \in Bdbs
        /\ have_extensions = FALSE /\ si = 1 /\ di = 0 /\ es = 0 /\ count = 0
        /\ failed = 0 /\ shortened = FALSE
        /\ memory = [k \in DOMAIN Stage2 |-> Empty]
        /\ low = "junk"
        /\ pc = "start"

MovePartitionEntry ==                    \* the MBR's entry goes where nothing is loaded
  /\ pc = "start"
  /\ low' = "partition_entry"
  /\ pc' = "after"
  /\ UNCHANGED <<bdb, have_extensions, si, di, es, count, memory, failed, shortened>>

CheckExtensions ==                       \* INT 13h, AH=41h
  /\ pc = "after"
  /\ have_extensions' \in BOOLEAN
  /\ pc' = "loop"
  /\ UNCHANGED <<bdb, si, di, es, count, memory, low, failed, shortened>>

ReadFinish ==                            \* DI:SI points to the partition entry
  /\ pc = "loop"
  /\ si > Len(stage2_location)
  /\ si' = PARTITION_ENTRY_OFFSET /\ di' = PARTITION_ENTRY_SEGMENT
  /\ es' = 0 /\ failed' = 0
  /\ pc' = "stage2"
  /\ UNCHANGED <<bdb, have_extensions, count, memory, low, shortened>>

NextRun == /\ pc = "loop"
           /\ si <= Len(stage2_location)
           /\ di' = 3 /\ failed' = 0
           /\ count' = IF have_extensions THEN stage2_location[si].count ELSE count
           /\ pc' = "retry"
           /\ UNCHANGED <<bdb, have_extensions, si, es, memory, low, shortened>>

(* What INT 13h transfers: the packet's blocks, or AL sectors.             *)
FirstSector(lba) == IF have_extensions THEN lba ELSE BiosSector(lba_to_chs(bdb, lba))
Transferred == LET run == stage2_location[si]
                   n   == IF have_extensions THEN count ELSE run.count
               IN  [k \in DOMAIN memory |->
                      IF k - es \in 0..n - 1 THEN FirstSector(run.lba) + k - es ELSE memory[k]]

ReadOverlaps ==                          \* mutant: ES moves by one sector per run
  /\ pc = "retry"
  /\ memory' = Transferred
  /\ es' = es + 1
  /\ si' = si + 1
  /\ pc' = "loop"
  /\ UNCHANGED <<bdb, have_extensions, di, count, low, failed, shortened>>

ReadSucceeds ==                          \* and .loop moves ES behind what was asked for
  /\ pc = "retry"
  /\ memory' = Transferred
  /\ es' = es + stage2_location[si].count
  /\ si' = si + 1
  /\ pc' = "loop"
  /\ UNCHANGED <<bdb, have_extensions, di, count, low, failed, shortened>>

(* The BIOS may leave the number of good blocks in the packet, which the   *)
(* retry then asks for.                                                    *)
ReadFails == /\ pc = "retry"
             /\ failed' = IF failed > 3 THEN failed ELSE failed + 1
             /\ \/ UNCHANGED <<count, shortened>>
                \/ have_extensions /\ count' \in 0..count - 1 /\ shortened' = TRUE
             /\ pc' = "reset"
             /\ UNCHANGED <<bdb, have_extensions, si, di, es, memory, low>>

ResetKeepsCount ==                       \* mutant: DI is not decremented
  /\ pc = "reset"
  /\ pc' = "retry"
  /\ UNCHANGED <<bdb, have_extensions, si, di, es, count, memory, low, failed, shortened>>

ResetSucceeds ==
  /\ pc = "reset"
  /\ di' = di - 1
  /\ pc' = IF di' = 0 THEN "floppy_error" ELSE "retry"
  /\ UNCHANGED <<bdb, have_extensions, si, es, count, memory, low, failed, shortened>>

ResetFails == /\ pc = "reset"
              /\ pc' = "floppy_error"
              /\ UNCHANGED <<bdb, have_extensions, si, di, es, count, memory, low, failed, shortened>>

Next == \/ MovePartitionEntry \/ CheckExtensions \/ NextRun \/ ReadSucceeds \/ ReadFails
        \/ ResetSucceeds \/ ResetFails \/ ReadFinish

Spec     == Init /\ [][Next]_vars
FairSpec == Spec /\ WF_vars(Next)        \* nothing but the CPU moves

SameGeometry == bdb = [heads |-> Heads, sectors |-> SectorsPerTrack]

(* Stage 2 is entered only when every sector of it is in memory, in order, *)
(* disk_read being given the whole address (boot.asm:260); one is left out *)
(* only if the BIOS has lowered the packet's block count, which the retry  *)
(* takes for the number to read (boot.asm:281).  Without the extensions,   *)
(* the volume's geometry must be the drive's (boot.asm:237).  "Read        *)
(* failed!" follows three failed reads of one run, or fewer when a reset   *)
(* has failed (boot.asm:336): as many as DI tells.                         *)
Stage2WholeOrReadsFailed ==
  /\ pc = "stage2" /\ (have_extensions \/ SameGeometry) =>
       \A k \in DOMAIN Stage2 : memory[k] = Stage2[k] \/ (shortened /\ memory[k] = Empty)
  /\ pc = "floppy_error" => failed = IF di = 0 THEN 3 ELSE 4 - di
=============================================================================
