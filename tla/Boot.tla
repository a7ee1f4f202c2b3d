-------------------------------- MODULE Boot --------------------------------
(***************************************************************************)
(* The boot from the BIOS's jump to 0x7C00 to the kernel's entry: the boot *)
(* sector brings stage 2 in and passes on where it put the partition       *)
(* entry, entry.asm saves that, opens A20 and calls C, and stage 2 reads   *)
(* the volume through DISK_ReadSectors and loads the kernel.  Each part    *)
(* runs when the one before has jumped to it; they share the registers SI  *)
(* and DI, the saved pointer and what lies at 0x20000.                     *)
(***************************************************************************)
EXTENDS KernelLoad, DiskRead

CONSTANTS stage2_location, Bdbs, ScanCodes

BootSectorsStack == 59                   \* (0x7C00 - 0x500) / 512

ASSUME BdbAssumption == Bdbs \subseteq [heads : 1..65535, sectors : 1..63]
ASSUME TableAssumption == stage2_location \in Seq([lba : Nat, count : 1..128])
ASSUME ScanCodeAssumption == ScanCodes \subseteq [bit0 : BOOLEAN, a20 : BOOLEAN, rest : {"key"}]

VARIABLES bdb, have_extensions, si, di, es, count, stage2, failed, shortened, at,
          al, input, output, keyboard, command, port, typed, line

One  == INSTANCE StageOne  WITH memory <- stage2, pc <- at
A20  == INSTANCE EnableA20 WITH passed <- [off |-> si, seg |-> di], saved <- pointer, at <- line

(* The table's runs end below the boot sector and its stack, which stage 2 *)
(* would otherwise be read over.                                           *)
ASSUME Stage2Assumption == One!Size[Len(stage2_location)] <= BootSectorsStack

(* Without the extensions the BIOS is asked for the low half of an address *)
(* only (boot.asm:238), and a cylinder has ten bits.                       *)
Addressable == \A n \in DOMAIN stage2_location :
                 LET first == stage2_location[n].lba IN first \in Reachable /\ Word(first) = first

sector == <<bdb, have_extensions, si, di, es, count, stage2, failed, shortened, at>>
gate   == <<al, input, output, keyboard, command, port, typed, line>>
loader == <<segments, readsFail, stored, fd, i, left, memory, partition, detect, pc>>

BootInit == /\ One!Init /\ A20!Init /\ ReadInit /\ Unloaded
            /\ pointer = [off |-> 0, seg |-> 0]

(* What a lowered block count has cut short, or was read by another        *)
(* geometry, is not stage 2.                                               *)
Stage2Runs == at = "stage2" /\ stage2 = One!Stage2

BootSector == One!Next /\ UNCHANGED <<gate, readVars, loader, pointer>>

Entry == Stage2Runs /\ UNCHANGED <<sector, readVars, loader, low>> /\ A20!Running /\ A20!Steps

Typing == Stage2Runs /\ UNCHANGED <<sector, readVars, loader, low>> /\ A20!Running /\ A20!TypeKey

(* The BIOS, called with interrupts on again (x86.asm:22), takes what is   *)
(* left in the keyboard controller's output buffer.                        *)
BiosTakesKey == output' = A20!Empty /\ command' = "none"

Initializing ==
  /\ line = "start"
  /\ \E ok \in BOOLEAN : DISK_Initialize(ok) /\ FindDisk(ok)
  /\ BiosTakesKey
  /\ UNCHANGED <<sector, al, input, keyboard, port, typed, line>>

Loading == line = "start" /\ Load /\ UNCHANGED <<sector, gate, readVars>>

(* FAT_Initialize asks for sectors of the volume and goes by what          *)
(* DISK_ReadSectors tells it, which on a disk that reads is never false.   *)
Asking == /\ line = "start" /\ pc = "fat"
          /\ \/ Call \/ ReadSucceeds \/ Reset \/ GiveUp
             \/ (readsFail \/ try < 2) /\ ReadFails
          /\ UNCHANGED <<sector, gate, loader, low, pointer>>

Told == /\ Return
        /\ FAT_Initialize(disk = "true")
        /\ UNCHANGED <<sector, gate>>

Cpu == BootSector \/ Entry \/ Initializing \/ Loading \/ Asking \/ Told

BootVars == <<sector, gate, readVars, loader, low, pointer>>
BootSpec == BootInit /\ [][Cpu \/ Typing]_BootVars /\ WF_BootVars(Cpu)

-----------------------------------------------------------------------------
(* Stage 2 is entered only when every sector of it is in memory, in order, *)
(* disk_read being given the whole address (boot.asm:260); one is left out *)
(* only if the BIOS has lowered the packet's block count, which the retry  *)
(* takes for the number to read (boot.asm:281).  Without the extensions,   *)
(* the volume's geometry must be the drive's (boot.asm:237).  "Read        *)
(* failed!" follows three failed reads of one run, or fewer when a reset   *)
(* has failed (boot.asm:336): as many as DI tells.                         *)
Stage2WholeOrReadsFailed == One!Stage2WholeOrReadsFailed

(* When stage 2's C code runs, A20 is open, and nothing else of the        *)
(* controller's output port has changed unless a key was typed while the   *)
(* port was being read (entry.asm:85); only then can the machine have been *)
(* reset by the byte written back.                                         *)
OnlyA20Changes == A20!OnlyA20Changes

(* The boot comes to an end: the kernel runs or an error is shown.  Else   *)
(* what was jumped to is not stage 2, a key has reset the machine, or,     *)
(* without the kernel on the volume or on a disk that does not read, NULL  *)
(* or other data are used for it.                                          *)
BootEnds == <>(\/ Ended
               \/ at = "floppy_error"
               \/ at = "stage2" /\ ~Stage2Runs
               \/ line = "reset")
=============================================================================
