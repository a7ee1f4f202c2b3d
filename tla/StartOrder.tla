----------------------------- MODULE StartOrder -----------------------------
(* What a start-up program must respect for the theorems of                *)
(* InterruptsProofs: before it enables interrupts it has set the gates,    *)
(* found the driver, registered the dispatchers and moved both chips to    *)
(* the vectors from 0x20 up; a probe reads back the mask just written;     *)
(* and both chips have the driver's mask whenever it is read again.        *)
EXTENDS Interrupts

Remap(c)         == PIC_REMAP_OFFSET + 8 * c
Earlier(step, i) == \E j \in 1..(i - 1) : Program[j][1] = step
Remapped(c, i)   == \E j \in 1..(i - 1) : Program[j][1] = "icw2" /\ Program[j][2][1] = c

(* The chip's own mask has been written since the last step that changed    *)
(* the driver's, or that restarted the chip.                                *)
Parts(i, c)   == Program[i][1] \in {"mask_is", "unmask"} \/ (Program[i][1] = "icw1" /\ Program[i][2] = c)
MaskOut(c, i) == \E j \in 1..(i - 1) : /\ Program[j][1] = "out_imr" /\ Program[j][2] = c
                                       /\ \A k \in (j + 1)..(i - 1) : ~Parts(k, c)

ASSUME OrderAssumption ==
  \A i \in DOMAIN Program :
    /\ Program[i][1] \in {"sti", "loop"} =>
         /\ Earlier("init_gates", i) /\ Earlier("isr_handlers", i) /\ Earlier("probe", i)
         /\ \A c \in Chips : Remapped(c, i)
    /\ Program[i][1] \in {"unmask", "sti", "loop"} => \A c \in Chips : MaskOut(c, i)
    /\ Program[i][1] = "load_idt" => ~Earlier("init_gates", i)
    /\ Program[i][1] = "icw2" => Program[i][2][2] = Remap(Program[i][2][1])
    /\ Program[i][1] = "probe" =>
         /\ i > 3
         /\ Program[i - 3][1] = "mask_is" /\ Program[i - 3][2] = Program[i][2]
         /\ Program[i - 2][1] = "out_imr" /\ Program[i - 2][2] = 0
         /\ Program[i - 1][1] = "out_imr" /\ Program[i - 1][2] = 1

(* The main program ends in a loop and never returns.                      *)
ASSUME LoopAssumption == Len(Program) > 0 /\ Program[Len(Program)][1] = "loop"
=============================================================================
