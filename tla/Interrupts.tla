----------------------------- MODULE Interrupts -----------------------------
(***************************************************************************)
(* Interrupt delivery on the kernel's single CPU: the IDT (idt.c), the     *)
(* dispatchers (isr.c, irq.c) and the driver's end of interrupt, against a *)
(* main program given as the sequence of the steps that matter to them.    *)
(* The program is a constant: module KernelStart has the one of main.c.    *)
(***************************************************************************)
EXTENDS I8259

CONSTANTS Program,     \* sequence of <<step, argument>>
          Devices      \* the lines something is wired to

PIC_REMAP_OFFSET == 32
IrqVectors == PIC_REMAP_OFFSET .. PIC_REMAP_OFFSET + 15
NULL == "NULL"

Steps == {"load_idt", "init_gates", "mask_is", "unmask", "out_imr", "probe", "icw1",
          "icw2", "isr_handlers", "sti", "irq_handler", "loop"}

ASSUME DevicesAssumption == Devices \subseteq IRQs \ {Cascade}

Argument(step) == CASE step \in {"mask_is", "probe"}       -> SUBSET IRQs
                    [] step \in {"unmask", "irq_handler"}  -> IRQs
                    [] step \in {"out_imr", "icw1"}        -> Chips
                    [] step = "icw2"                       -> Chips \X Nat
                    [] OTHER                               -> {NULL}
ASSUME ProgramAssumption ==
  /\ Len(Program) \in Nat /\ DOMAIN Program = 1..Len(Program)
  /\ \A i \in DOMAIN Program : /\ Program[i][1] \in Steps
                               /\ Program[i][2] \in Argument(Program[i][1])

VARIABLES eflagsIF,        \* the CPU's interrupt flag
          intr,            \* the chips' call the CPU is answering, or "none"
          idt,             \* "bios", "loaded", "gates"
          g_Driver,        \* the PIC driver has been found
          g_ISRHandlers,   \* vectors with a handler
          g_IRQHandlers,   \* IRQs with a handler
          pc,              \* the next step of the main program
          cpu,             \* "main", or the stage of the running interrupt
          vector,          \* its vector
          quiet            \* lines whose device waits for the main program

tables == <<idt, g_Driver, g_ISRHandlers, g_IRQHandlers>>
frame  == <<eflagsIF, intr, cpu, vector>>
vars   == <<pic, tables, frame, pc, quiet>>

Init ==
  /\ PicInit
  /\ eflagsIF = FALSE
  /\ intr = "none"
  /\ idt = "bios"
  /\ g_Driver = FALSE
  /\ g_ISRHandlers = {}
  /\ g_IRQHandlers = {}
  /\ pc = 1
  /\ cpu = "main"
  /\ vector = 0
  /\ quiet = {}

-----------------------------------------------------------------------------
(* The devices.  One that has requested waits for the main program to move *)
(* before it requests again: interrupts are rarer than instructions.       *)

Request(irq) ==
  /\ irq \in Devices \ quiet
  /\ irr' = irr \cup {irq}
  /\ quiet' = quiet \cup {irq}
  /\ UNCHANGED <<g_PicMask, imr, inService, offset, tables, frame, pc>>

Withdraw(irq) ==                \* the line falls before the CPU answers
  /\ irq \in irr
  /\ irr' = irr \ {irq}
  /\ UNCHANGED <<g_PicMask, imr, inService, offset, tables, frame, pc, quiet>>

-----------------------------------------------------------------------------
(* The main program. *)

(* Between two instructions the CPU answers a pending call first.          *)
MainMayStep == cpu = "main" /\ intr = "none" /\ ~(eflagsIF /\ Deliverable # {})

Do(step) == /\ MainMayStep
            /\ pc \in DOMAIN Program
            /\ Program[pc][1] = step
            /\ pc' = IF step = "loop" THEN pc ELSE pc + 1
            /\ quiet' = {}
arg == Program[pc][2]

LoadIdt == /\ Do("load_idt")
           /\ idt' = "loaded"
           /\ UNCHANGED <<pic, frame, g_Driver, g_ISRHandlers, g_IRQHandlers>>

InitGates == /\ Do("init_gates")
             /\ idt' = "gates"
             /\ UNCHANGED <<pic, frame, g_Driver, g_ISRHandlers, g_IRQHandlers>>

SetShadow == /\ \/ Do("mask_is") /\ g_PicMask' = arg
                \/ Do("unmask")  /\ g_PicMask' = g_PicMask \ {arg}
             /\ UNCHANGED <<imr, irr, inService, offset, tables, frame>>

OutImrLowByte ==                         \* mutant: newMask goes to both chips unshifted
  /\ Do("out_imr")
  /\ imr' = (imr \ Lines(arg)) \cup {irq \in Lines(arg) : irq % 8 \in g_PicMask}
  /\ UNCHANGED <<g_PicMask, irr, inService, offset, tables, frame>>

OutImr == /\ Do("out_imr")
          /\ imr' = (imr \ Lines(arg)) \cup (g_PicMask \cap Lines(arg))
          /\ UNCHANGED <<g_PicMask, irr, inService, offset, tables, frame>>

Probe == /\ Do("probe")
         /\ g_Driver' = (g_Driver \/ imr = arg)
         /\ UNCHANGED <<pic, frame, idt, g_ISRHandlers, g_IRQHandlers>>

Icw1 == /\ Do("icw1")                    \* restarts the chip, its mask cleared
        /\ imr' = imr \ Lines(arg)
        /\ irr' = irr \ Lines(arg)
        /\ inService' = inService \ Lines(arg)
        /\ UNCHANGED <<g_PicMask, offset, tables, frame>>

Icw2 == /\ Do("icw2")
        /\ offset' = [offset EXCEPT ![arg[1]] = arg[2]]
        /\ UNCHANGED <<g_PicMask, imr, irr, inService, tables, frame>>

RegisterIsrHandlersTooFar ==             \* mutant: i <= 16
  /\ Do("isr_handlers")
  /\ g_ISRHandlers' = IrqVectors \cup {PIC_REMAP_OFFSET + 16}
  /\ UNCHANGED <<pic, frame, idt, g_Driver, g_IRQHandlers>>

RegisterIsrHandlersShort ==              \* mutant: i < 15
  /\ Do("isr_handlers")
  /\ g_ISRHandlers' = IrqVectors \ {PIC_REMAP_OFFSET + 15}
  /\ UNCHANGED <<pic, frame, idt, g_Driver, g_IRQHandlers>>

RegisterIsrHandlers == /\ Do("isr_handlers")
                       /\ g_ISRHandlers' = IrqVectors
                       /\ UNCHANGED <<pic, frame, idt, g_Driver, g_IRQHandlers>>

EnableInterrupts == /\ Do("sti") \/ Do("loop")
                    /\ eflagsIF' = TRUE
                    /\ UNCHANGED <<pic, tables, intr, cpu, vector>>

RegisterIrqHandler == /\ Do("irq_handler")
                      /\ g_IRQHandlers' = g_IRQHandlers \cup {arg}
                      /\ UNCHANGED <<pic, frame, idt, g_Driver, g_ISRHandlers>>

MainStep == \/ LoadIdt \/ InitGates \/ SetShadow \/ OutImr \/ Probe \/ Icw1 \/ Icw2
            \/ RegisterIsrHandlers \/ EnableInterrupts \/ RegisterIrqHandler

-----------------------------------------------------------------------------
(* The CPU answers: interrupts are held until iret, so nothing nests.      *)

Recognise ==
  /\ cpu = "main" /\ intr = "none" /\ eflagsIF
  /\ \E irq \in Devices : First(irq) /\ intr' = IF irq >= 8 THEN "slave" ELSE "master"
  /\ UNCHANGED <<pic, tables, eflagsIF, cpu, vector, pc, quiet>>

Enter(v) == /\ vector' = v
            /\ cpu' = IF idt = "gates" THEN "ISR_Handler" ELSE "fault"
            /\ intr' = "none"
            /\ eflagsIF' = FALSE
            /\ UNCHANGED <<g_PicMask, imr, offset, tables, pc, quiet>>

Acknowledge ==
  /\ intr # "none"
  /\ \E irq \in Devices :
       /\ First(irq)
       /\ irr' = irr \ {irq}
       /\ inService' = inService \cup {irq, MasterLine(irq)}
       /\ Enter(Vector(irq))

(* The request is gone: the master answers with its line 7, or, if it has  *)
(* latched the slave's call, the slave with line 15; neither takes it into *)
(* service.                                                                *)
AcknowledgeSpurious ==
  /\ intr # "none"
  /\ Deliverable = {}
  /\ \/ /\ UNCHANGED inService
        /\ Enter(Vector(7))
     \/ /\ intr = "slave"
        /\ inService' = inService \cup {Cascade}
        /\ Enter(Vector(15))
  /\ UNCHANGED irr

-----------------------------------------------------------------------------
(* The dispatchers. *)

i686_ISR_Handler ==
  /\ cpu = "ISR_Handler"
  /\ cpu' = CASE vector \in g_ISRHandlers -> "IRQ_Handler"
              [] vector \notin g_ISRHandlers /\ vector >= 32 -> "iret"
              [] OTHER -> "panic"
  /\ UNCHANGED <<pic, tables, eflagsIF, intr, vector, pc, quiet>>

Irq == vector - PIC_REMAP_OFFSET

i686_IRQ_Handler ==             \* runs the driver's handler, if there is one
  /\ cpu = "IRQ_Handler"
  /\ cpu' = CASE ~g_Driver \/ Irq \notin IRQs -> "iret"
              [] g_Driver /\ Irq \in 8..15    -> "eoi_slave"
              [] OTHER                        -> "eoi_master"
  /\ UNCHANGED <<pic, tables, eflagsIF, intr, vector, pc, quiet>>

SendSlaveEndNever ==            \* mutant: only the master is told
  /\ cpu = "eoi_slave"
  /\ cpu' = "eoi_master"
  /\ UNCHANGED <<pic, tables, eflagsIF, intr, vector, pc, quiet>>

SendSlaveEnd ==
  /\ cpu = "eoi_slave"
  /\ EndOfInterrupt(1)
  /\ cpu' = "eoi_master"
  /\ UNCHANGED <<g_PicMask, imr, irr, offset, tables, eflagsIF, intr, vector, pc, quiet>>

SendMasterEnd ==
  /\ cpu = "eoi_master"
  /\ EndOfInterrupt(0)
  /\ cpu' = "iret"
  /\ UNCHANGED <<g_PicMask, imr, irr, offset, tables, eflagsIF, intr, vector, pc, quiet>>

Iret ==
  /\ cpu = "iret"
  /\ cpu' = "main"
  /\ eflagsIF' = TRUE
  /\ UNCHANGED <<pic, tables, intr, vector, pc, quiet>>

Interrupt == \/ Recognise \/ Acknowledge \/ AcknowledgeSpurious
             \/ i686_ISR_Handler \/ i686_IRQ_Handler
             \/ SendSlaveEnd \/ SendMasterEnd \/ Iret

Next == \/ \E irq \in Devices : Request(irq) \/ Withdraw(irq)
        \/ MainStep
        \/ Interrupt

Spec == Init /\ [][Next]_vars

(* The CPU executes: its main program's steps and, with IF set, pending    *)
(* calls.  Devices have no fairness.                                       *)
FairSpec == Spec /\ WF_vars(MainStep) /\ WF_vars(Interrupt)

-----------------------------------------------------------------------------
(* Properties. *)

Stages == {"main", "ISR_Handler", "IRQ_Handler", "eoi_slave", "eoi_master", "iret",
           "panic", "fault"}

TypeOK ==
  /\ g_PicMask \subseteq IRQs /\ imr \subseteq IRQs /\ irr \subseteq Devices
  /\ inService \subseteq IRQs /\ offset \in [Chips -> Nat]
  /\ eflagsIF \in BOOLEAN /\ g_Driver \in BOOLEAN
  /\ intr \in {"none", "master", "slave"}
  /\ idt \in {"bios", "loaded", "gates"}
  /\ g_ISRHandlers \in {{}, IrqVectors} /\ g_IRQHandlers \subseteq IRQs
  /\ pc \in 1 .. Len(Program) + 1
  /\ cpu \in Stages /\ vector \in Nat
  /\ quiet \subseteq Devices

(* No hardware interrupt is ever taken on an exception's vector, through   *)
(* an IDT without gates, or past the dispatchers: never a panic, and every *)
(* interrupt taken reaches i686_IRQ_Handler and its end of interrupt.      *)
NoStrayInterrupt ==
  /\ cpu \notin {"panic", "fault"}
  /\ cpu # "main" => g_Driver /\ vector \in g_ISRHandlers /\ Irq \in IRQs

(* What is in service is what the CPU is handling: nothing while the main  *)
(* program runs; in a handler its own line and the cascade's.  So the      *)
(* unspecific end of interrupt ends this interrupt and no other, also for  *)
(* the spurious IRQ 7 and 15 the dispatcher does not tell apart.           *)
InServiceIsHandled ==
  inService \subseteq
    CASE cpu \in {"main", "iret"}               -> {}
      [] cpu \in {"ISR_Handler", "IRQ_Handler"} -> {Irq, MasterLine(Irq)}
      [] cpu = "eoi_slave"                      -> {Irq, Cascade}
      [] OTHER                                  -> {MasterLine(Irq)}

(* Where i8259_Unmask is about to read g_PicMask, where interrupts are     *)
(* enabled and in the main loop, the driver's mask is the chips': the      *)
(* read-modify-write of g_PicMask opens the line it is asked to, no other. *)
MaskMatchesChips ==
  cpu = "main" /\ Program[pc][1] \in {"unmask", "sti", "loop"} => imr = g_PicMask

(* A request on a line whose driver has been installed is answered or      *)
(* withdrawn in the end; on the slave this takes the cascade line too.     *)
Installed(irq) == irq \in g_IRQHandlers /\ pc = Len(Program)
RequestsAnswered ==
  \A irq \in Devices : (irq \in irr /\ Installed(irq)) ~> irq \notin irr
=============================================================================
