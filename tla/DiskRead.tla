------------------------------ MODULE DiskRead ------------------------------
(***************************************************************************)
(* disk.c: DISK_Initialize asks the BIOS for the drive's geometry, then    *)
(* DISK_ReadSectors makes three tries with a controller reset after each   *)
(* that fails.  The BIOS may fail any of them, whatever it is asked.       *)
(***************************************************************************)
EXTENDS DiskAddress

CONSTANTS Lbas            \* the sectors asked for

VARIABLES drive,          \* the DISK structure
          lba,            \* the sector asked for
          try,            \* the loop's counter
          data,           \* the sector last read into dataOut
          failures,       \* the tries that failed in this call
          disk

readVars == <<drive, lba, try, data, failures, disk>>

None == -1

ReadInit == /\ drive = [cylinders |-> 0, heads |-> 0, sectors |-> 0]
            /\ lba = 0 /\ try = 0 /\ data = None /\ failures = 0
            /\ disk = "start"

DISK_Initialize(ok) ==                   \* ok: the BIOS knows the drive
  /\ disk = "start"
  /\ drive' = IF ok THEN x86_Disk_GetDriveParams(DriveParams) ELSE drive
  /\ disk' = IF ok THEN "idle" ELSE "no_disk"
  /\ UNCHANGED <<lba, try, data, failures>>

Call == /\ disk = "idle"
        /\ lba' \in Lbas
        /\ disk' = "read"
        /\ UNCHANGED <<drive, try, data, failures>>

ReadSucceeds ==
  /\ disk = "read" /\ try < 3
  /\ data' = BiosSector(x86_Disk_Read(DISK_LBA2CHS(drive, lba)))
  /\ disk' = "true"
  /\ UNCHANGED <<drive, lba, try, failures>>

ReadFails ==
  /\ disk = "read" /\ try < 3
  /\ failures' = failures + 1
  /\ disk' = "reset"
  /\ UNCHANGED <<drive, lba, try, data>>

ResetForgets ==                          \* mutant: the tries are not counted
  /\ disk = "reset"
  /\ disk' = "read"
  /\ UNCHANGED <<drive, lba, try, data, failures>>

Reset ==                                 \* x86_Disk_Reset, its result unused
  /\ disk = "reset"
  /\ try' = try + 1
  /\ disk' = "read"
  /\ UNCHANGED <<drive, lba, data, failures>>

GiveUp == /\ disk = "read" /\ try >= 3
          /\ disk' = "false"
          /\ UNCHANGED <<drive, lba, try, data, failures>>

Return == /\ disk \in {"true", "false"}
          /\ lba' = 0 /\ try' = 0 /\ data' = None /\ failures' = 0
          /\ disk' = "idle"
          /\ UNCHANGED drive

ReadNext == \/ \E ok \in BOOLEAN : DISK_Initialize(ok)
            \/ Call \/ ReadSucceeds \/ ReadFails \/ Reset \/ GiveUp \/ Return

ReadSpec == ReadInit /\ [][ReadNext]_readVars

(* What DISK_ReadSectors says it read is the sector asked for: no bit of   *)
(* the address is lost between C, the registers and the BIOS.              *)
ReadsTheSector == disk = "true" => data = lba

(* It gives up exactly when three tries have failures: one failure never     *)
(* fails a read, and no disk is tried for ever.                            *)
GivesUpAfterThree == /\ failures <= 3
                     /\ disk = "false" => failures = 3
=============================================================================
