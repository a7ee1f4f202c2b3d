---------------------------- MODULE MCKernelLoad ----------------------------
(* A kernel whose one segment is 72 KiB.                                    *)
EXTENDS KernelLoad

Large == {<<[load |-> TRUE, offset |-> 1, address |-> 0, fileSize |-> 18, memorySize |-> 18]>>}
MemoryPages == 0..31
=============================================================================
