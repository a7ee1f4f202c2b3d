-------------------------------- MODULE I8259 --------------------------------
(***************************************************************************)
(* The pair of interrupt controllers and their driver,                     *)
(* kernel/arch/i686/i8259.c.  The chips are external: they are modelled by *)
(* what the bytes the driver writes to their ports make them do (edge      *)
(* triggered, fully nested, no automatic end of interrupt, the slave on    *)
(* line 2 of the master).  Masks are sets of IRQs: a set bit is membership.*)
(***************************************************************************)
EXTENDS Integers, Sequences

IRQs     == 0..15
Cascade  == 2
Chips    == {0, 1}                       \* master, slave
Chip(irq) == IF irq < 8 THEN 0 ELSE 1
Lines(c) == {irq \in IRQs : Chip(irq) = c}

VARIABLES g_PicMask,     \* the driver's copy of the mask
          imr,           \* the chips' masks
          irr,           \* latched requests
          inService,     \* acknowledged, not yet ended
          offset         \* [Chips -> vector of the chip's line 0]

pic == <<g_PicMask, imr, irr, inService, offset>>

(* As the BIOS leaves the chips: its own vectors, any mask.                *)
PicInit == /\ g_PicMask = IRQs
           /\ imr \in {{}, IRQs}
           /\ irr = {}
           /\ inService = {}
           /\ offset = [c \in Chips |-> IF c = 0 THEN 8 ELSE 112]

-----------------------------------------------------------------------------
(* The chips. *)

(* The order in which the pair serves lines: the slave's come between the  *)
(* master's 1 and 3.                                                       *)
Rank(irq) == CASE irq < Cascade -> irq
               [] irq >= 8      -> irq - 6
               [] OTHER         -> irq + 7

(* A line in service holds back its own chip's lines from itself down, and *)
(* the cascade line in service holds back the whole slave.                 *)
MasterLine(irq) == IF irq < 8 THEN irq ELSE Cascade
HeldBack(irq) ==
  \E s \in inService : \/ s < 8 /\ s <= MasterLine(irq)
                       \/ s >= 8 /\ irq >= 8 /\ s <= irq

Deliverable ==
  {irq \in irr \ imr : MasterLine(irq) \notin imr /\ ~HeldBack(irq)}

First(irq) == irq \in Deliverable /\ \A other \in Deliverable : Rank(irq) <= Rank(other)

Vector(irq) == offset[Chip(irq)] + irq - 8 * Chip(irq)

EndOfInterrupt(c) ==             \* the chip forgets its first line in service
  inService' = {s \in inService : Chip(s) # c \/ \E t \in inService : Chip(t) = c /\ t < s}

-----------------------------------------------------------------------------
(* The driver's functions, as the port writes and assignments they make.   *)
(* An interrupt may be taken between any two of them.                      *)

ProbeMask == {0, 1, 2, 4, 5, 8, 9, 12}                        \* 0x1337

i8259_SetMask(newMask) == <<newMask, <<"out_imr", 0>>, <<"out_imr", 1>>>>

i8259_Disable == i8259_SetMask(<<"mask_is", IRQs>>)

i8259_UnmaskNotCascade(irq) ==   \* mutant: the slave's lines only
  i8259_SetMask(<<"unmask", IF irq = Cascade THEN 12 ELSE irq>>)

i8259_Unmask(irq) == i8259_SetMask(<<"unmask", irq>>)

i8259_Probe ==
  i8259_Disable \o i8259_SetMask(<<"mask_is", ProbeMask>>) \o <<<<"probe", ProbeMask>>>>

i8259_Configure(offsetPic1, offsetPic2) ==
  i8259_SetMask(<<"mask_is", IRQs>>)
  \o <<<<"icw1", 0>>, <<"icw1", 1>>, <<"icw2", <<0, offsetPic1>>>>, <<"icw2", <<1, offsetPic2>>>>>>
  \o i8259_SetMask(<<"mask_is", IRQs>>)
=============================================================================
