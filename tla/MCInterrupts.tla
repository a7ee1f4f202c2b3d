---------------------------- MODULE MCInterrupts ----------------------------
(* The kernel's own start-up, which meets StartOrder, with the keyboard     *)
(* (1), the mouse (12) and devices that nobody drives on the lines whose    *)
(* vectors a spurious answer also uses (7, 15).                             *)
EXTENDS StartOrder, KernelStart

MCDevices == {1, 7, 12, 15}
=============================================================================
