------------------------------- MODULE MCBoot -------------------------------
(* A stage 2 in several runs, on a disk of a small, odd geometry that the   *)
(* volume's header has right or wrong, the sectors where a cylinder's bits  *)
(* carry, an even and an odd scan code, and kernels of one segment, small   *)
(* or just under 64 KiB, some beyond 64 KiB into the file, with and without *)
(* bss, or of such a one and a second.                                      *)
EXTENDS Boot

Split == <<[lba |-> 40, count |-> 5], [lba |-> 2000, count |-> 1], [lba |-> 17, count |-> 3],
           [lba |-> 64, count |-> 2], [lba |-> 1000, count |-> 4]>>
Carries == {l \in Reachable : (l \div 6) \in {0, 1, 127, 128, 255, 256, 511, 512, 767, 768, 1023}}
Geometries == {[heads |-> 2, sectors |-> 3], [heads |-> 3, sectors |-> 2]}
Keys == {[bit0 |-> b, a20 |-> FALSE, rest |-> "key"] : b \in BOOLEAN}

Segment(l, o, a, f, m) == [load |-> l, offset |-> o, address |-> a, fileSize |-> f, memorySize |-> m]
First  == {Segment(TRUE, o, 0, f, f + b) : o \in {1, 19}, f \in {0, 3, 13}, b \in {0, 2}}
          \cup {Segment(FALSE, 19, 0, 3, 3)}
Second == {Segment(TRUE, o, 16, f, f + 2) : o \in {1, 33}, f \in {0, 13}}
Small  == {<<x>> : x \in First} \cup {<<x, y>> : x \in First, y \in Second}
MemoryPages == 0..31

ASSUME SplitIsAddressable == Addressable
ASSUME SmallAreLoadable == \A kernel \in Small : Loadable(kernel)
=============================================================================
