----------------------------- MODULE DiskAddress -----------------------------
(***************************************************************************)
(* How the boot code names a sector to the BIOS: from a linear address to  *)
(* cylinder, head and sector, and from those to the registers of INT 13h.  *)
(* Stage 2 asks the BIOS for the drive's geometry; the boot sector goes by *)
(* what mkfs.fat wrote into the volume.                                    *)
(***************************************************************************)
EXTENDS Integers

CONSTANTS Cylinders, Heads, SectorsPerTrack     \* the drive, as the BIOS sees it

ASSUME GeometryAssumption ==
  Cylinders \in 1..1024 /\ Heads \in 1..256 /\ SectorsPerTrack \in 1..63

Byte(n) == n % 256
Word(n) == n % 65536

(* The BIOS tells the last of each: cylinder, head and sector.             *)
DriveParams == [ch |-> Byte(Cylinders - 1),
                cl |-> ((Cylinders - 1) \div 256) * 64 + SectorsPerTrack,
                dh |-> Heads - 1]

x86_Disk_GetDriveParams(r) ==
  [cylinders |-> Word(r.ch + 256 * (r.cl \div 64) + 1),
   heads     |-> Word(r.dh + 1),
   sectors   |-> r.cl % 64]

(* disk.c: three 16-bit results.                                           *)
DISK_LBA2CHS(disk, lba) ==
  [sector   |-> Word((lba % disk.sectors) + 1),
   cylinder |-> Word((lba \div disk.sectors) \div disk.heads),
   head     |-> Word((lba \div disk.sectors) % disk.heads)]

CylinderLowOnly(chs) ==                  \* mutant: the cylinder's bits 8-9 are left out
  [ch |-> Byte(chs.cylinder), cl |-> chs.sector % 64, dh |-> Byte(chs.head)]

(* x86_Disk_Read: bits 8-9 of the cylinder share CL with the sector.       *)
x86_Disk_Read(chs) ==
  [ch |-> Byte(chs.cylinder),
   cl |-> Byte(Byte(chs.cylinder \div 256) * 64) + (chs.sector % 64),
   dh |-> Byte(chs.head)]

(* boot.asm's lba_to_chs divides AX, the low half of the address.          *)
lba_to_chs(bdb, lba) ==
  LET ax    == Word(lba)
      track == ax \div bdb.sectors
  IN  [ch |-> Byte(track \div bdb.heads),
       cl |-> Byte(Byte((track \div bdb.heads) \div 256) * 64) + (ax % bdb.sectors) + 1,
       dh |-> Byte(track % bdb.heads)]

(* The sector the BIOS finds in its registers.                             *)
BiosSector(r) ==
  ((r.ch + 256 * (r.cl \div 64)) * Heads + r.dh) * SectorsPerTrack + (r.cl % 64) - 1

Reachable == 0..Cylinders * Heads * SectorsPerTrack - 1
=============================================================================
