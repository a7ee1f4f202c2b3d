-------------------------- MODULE InterruptsProofs --------------------------
(* Theorems about Interrupts, for every set of devices and every start-up  *)
(* program that meets StartOrder's assumption.                             *)
EXTENDS StartOrder, TLAPS

USE DEF PIC_REMAP_OFFSET, IRQs, Cascade, Chips, NULL

LEMMA StepArgument ==
  ASSUME NEW step, Do(step), step \in {"mask_is", "unmask", "irq_handler", "out_imr", "icw1", "icw2", "probe"}
  PROVE  arg \in Argument(step)
BY ProgramAssumption DEF Do, arg

LEMMA PcMoves ==
  ASSUME TypeOK, NEW step, Do(step)
  PROVE  /\ pc \in 1 .. Len(Program) /\ pc \in DOMAIN Program
         /\ pc' \in 1 .. Len(Program) + 1
         /\ pc' = IF step = "loop" THEN pc ELSE pc + 1
         /\ quiet' \subseteq Devices
BY ProgramAssumption DEF Do, TypeOK

LEMMA InitType == Init => TypeOK
<1> SUFFICES ASSUME Init PROVE TypeOK
  OBVIOUS
<1>1. pc \in 1 .. Len(Program) + 1
  BY ProgramAssumption DEF Init
<1>2. offset \in [Chips -> Nat]
  BY DEF Init, PicInit
<1> QED
  BY <1>1, <1>2 DEF Init, PicInit, TypeOK, Stages

LEMMA MainStepType == TypeOK /\ MainStep => TypeOK'
<1> SUFFICES ASSUME TypeOK, MainStep PROVE TypeOK'
  OBVIOUS
<1> USE PcMoves DEF TypeOK, pic, tables, frame
<1>1. CASE LoadIdt
  BY <1>1 DEF LoadIdt
<1>2. CASE InitGates
  BY <1>2 DEF InitGates
<1>3. CASE SetShadow
  <2>1. CASE Do("mask_is") /\ g_PicMask' = arg
    <3>1. arg \subseteq IRQs
      BY <2>1, StepArgument DEF Argument
    <3> QED
      BY <1>3, <2>1, <3>1 DEF SetShadow
  <2>2. CASE Do("unmask") /\ g_PicMask' = g_PicMask \ {arg}
    BY <1>3, <2>2 DEF SetShadow
  <2> QED
    BY <1>3, <2>1, <2>2 DEF SetShadow
<1>4. CASE OutImr
  BY <1>4 DEF OutImr
<1>5. CASE Probe
  <2>1. g_Driver' \in BOOLEAN
    BY <1>5 DEF Probe
  <2> QED
    BY <1>5, <2>1 DEF Probe
<1>6. CASE Icw1
  BY <1>6 DEF Icw1
<1>7. CASE Icw2
  <2>1. arg \in Chips \X Nat
    BY <1>7, StepArgument DEF Icw2, Argument
  <2>2. offset' \in [Chips -> Nat]
    BY <1>7, <2>1 DEF Icw2
  <2> QED
    BY <1>7, <2>2 DEF Icw2
<1>8. CASE RegisterIsrHandlers
  BY <1>8 DEF RegisterIsrHandlers
<1>9. CASE EnableInterrupts
  BY <1>9 DEF EnableInterrupts
<1>10. CASE RegisterIrqHandler
  <2>1. arg \in IRQs
    BY <1>10, StepArgument DEF RegisterIrqHandler, Argument
  <2> QED
    BY <1>10, <2>1 DEF RegisterIrqHandler
<1> QED
  BY <1>1, <1>2, <1>3, <1>4, <1>5, <1>6, <1>7, <1>8, <1>9, <1>10 DEF MainStep

(* A vector of the chips is a number: line 0's plus the line's.            *)
LEMMA VectorNat == TypeOK => \A irq \in IRQs : Vector(irq) \in Nat
<1> SUFFICES ASSUME TypeOK, NEW irq \in IRQs PROVE Vector(irq) \in Nat
  OBVIOUS
<1>1. offset[0] \in Nat /\ offset[1] \in Nat
  BY DEF TypeOK
<1> QED
  BY <1>1 DEF Vector, Chip

LEMMA InterruptType == TypeOK /\ Interrupt => TypeOK'
<1> SUFFICES ASSUME TypeOK, Interrupt PROVE TypeOK'
  OBVIOUS
<1> USE DEF TypeOK, pic, tables, Stages
<1>1. CASE Recognise
  BY <1>1 DEF Recognise
<1>2. CASE Acknowledge
  <2>1. PICK irq \in Devices : /\ First(irq)
                               /\ irr' = irr \ {irq}
                               /\ inService' = inService \cup {irq, MasterLine(irq)}
                               /\ Enter(Vector(irq))
    BY <1>2 DEF Acknowledge
  <2>2. irq \in IRQs /\ MasterLine(irq) \in IRQs
    BY DevicesAssumption DEF MasterLine
  <2> QED
    BY <2>1, <2>2, VectorNat DEF Enter
<1>3. CASE AcknowledgeSpurious
  <2>0. Enter(Vector(7)) \/ Enter(Vector(15))
    BY <1>3 DEF AcknowledgeSpurious
  <2>1. irr' = irr /\ (inService' = inService \/ inService' = inService \cup {2})
    BY <1>3, Zenon DEF AcknowledgeSpurious
  <2>2. PICK irq \in IRQs : Enter(Vector(irq))
    <3>1. 7 \in IRQs /\ 15 \in IRQs
      OBVIOUS
    <3> QED
      BY <2>0, <3>1, Zenon
  <2>3. inService' \subseteq IRQs
    <3>1. inService \subseteq IRQs /\ 2 \in IRQs
      OBVIOUS
    <3> HIDE DEF IRQs, TypeOK
    <3> QED
      BY <2>1, <3>1
  <2>4. /\ Vector(irq) \in Nat /\ vector' = Vector(irq)
        /\ cpu' \in {"ISR_Handler", "fault"} /\ intr' = "none" /\ eflagsIF' = FALSE
        /\ UNCHANGED <<g_PicMask, imr, offset, tables, pc, quiet>>
    BY <2>2, VectorNat DEF Enter
  <2> QED
    BY <2>1, <2>3, <2>4
<1>4. CASE i686_ISR_Handler
  BY <1>4 DEF i686_ISR_Handler
<1>5. CASE i686_IRQ_Handler
  BY <1>5 DEF i686_IRQ_Handler
<1>6. CASE SendSlaveEnd
  BY <1>6 DEF SendSlaveEnd, EndOfInterrupt
<1>7. CASE SendMasterEnd
  BY <1>7 DEF SendMasterEnd, EndOfInterrupt
<1>8. CASE Iret
  BY <1>8 DEF Iret
<1> QED
  BY <1>1, <1>2, <1>3, <1>4, <1>5, <1>6, <1>7, <1>8 DEF Interrupt

LEMMA NextType == TypeOK /\ [Next]_vars => TypeOK'
<1>1. ASSUME TypeOK, NEW irq \in Devices, Request(irq) PROVE TypeOK'
  BY <1>1 DEF Request, TypeOK, tables, frame
<1>2. ASSUME TypeOK, NEW irq \in Devices, Withdraw(irq) PROVE TypeOK'
  BY <1>2 DEF Withdraw, TypeOK, tables, frame
<1>3. ASSUME TypeOK, UNCHANGED vars PROVE TypeOK'
  BY <1>3 DEF vars, TypeOK, pic, tables, frame
<1> QED
  BY <1>1, <1>2, <1>3, MainStepType, InterruptType DEF Next

(* Masks, requests, vectors and stages keep their ranges whatever the      *)
(* devices and the start-up program.                                       *)
THEOREM TypeCorrect == Spec => []TypeOK
BY InitType, NextType, PTL DEF Spec

-----------------------------------------------------------------------------
(* The inductive invariant.  Passed: the steps that must come before the   *)
(* first sti have run.  Ready: what they leave behind.                     *)

Passed == /\ Earlier("init_gates", pc) /\ Earlier("isr_handlers", pc) /\ Earlier("probe", pc)
          /\ \A c \in Chips : Remapped(c, pc)

Ready == /\ idt = "gates" /\ g_ISRHandlers = IrqVectors /\ g_Driver
         /\ \A c \in Chips : offset[c] = Remap(c)

(* What each step of the program leaves behind; while a probe's mask is    *)
(* being written, how much of it has reached the chips.                    *)
History ==
  /\ Earlier("init_gates", pc) => idt = "gates"
  /\ Earlier("isr_handlers", pc) => g_ISRHandlers = IrqVectors
  /\ Earlier("probe", pc) => g_Driver
  /\ \A c \in Chips : Remapped(c, pc) => offset[c] = Remap(c)
  /\ \A k \in DOMAIN Program : Program[k][1] = "probe" =>
       /\ pc \in {k - 2, k - 1, k} => g_PicMask = Program[k][2]
       /\ pc \in {k - 1, k} => imr \cap Lines(0) = Program[k][2] \cap Lines(0)
       /\ pc = k => imr \cap Lines(1) = Program[k][2] \cap Lines(1)

CpuInv ==
  /\ eflagsIF \/ intr # "none" \/ cpu # "main" => Passed
  /\ intr # "none" => cpu = "main"
  /\ cpu # "main" => intr = "none" /\ vector \in IrqVectors
  /\ cpu \notin {"panic", "fault"}
  /\ cpu = "eoi_slave" => Irq >= 8

LEMMA EarlierNext ==
  ASSUME TypeOK, pc \in DOMAIN Program, pc' = pc + 1, NEW step
  PROVE  Earlier(step, pc)' <=> Earlier(step, pc) \/ Program[pc][1] = step
BY DEF TypeOK, Earlier

LEMMA RemappedNext ==
  ASSUME TypeOK, pc \in DOMAIN Program, pc' = pc + 1, NEW c
  PROVE  Remapped(c, pc)' <=> Remapped(c, pc) \/ (Program[pc][1] = "icw2" /\ Program[pc][2][1] = c)
BY DEF TypeOK, Remapped

LEMMA PassedIsReady == History /\ Passed => Ready
BY DEF History, Passed, Ready

LEMMA PassedStays ==
  ASSUME TypeOK, Passed, NEW step, Do(step)
  PROVE  Passed'
<1>1. CASE pc' = pc
  BY <1>1 DEF Passed, Earlier, Remapped
<1>2. CASE pc' = pc + 1
  BY <1>2, PcMoves, EarlierNext, RemappedNext DEF Passed
<1> QED
  BY <1>1, <1>2, PcMoves

(* The part of History about the program so far.                           *)
LEMMA MainKeepsEffects ==
  ASSUME TypeOK, History, MainStep
  PROVE  /\ Earlier("init_gates", pc)' => idt' = "gates"
         /\ Earlier("isr_handlers", pc)' => g_ISRHandlers' = IrqVectors
         /\ \A c \in Chips : Remapped(c, pc)' => offset'[c] = Remap(c)
<1>1. ASSUME NEW step, Do(step), step # "loop"
      PROVE  /\ pc \in DOMAIN Program /\ pc' = pc + 1 /\ Program[pc][1] = step
             /\ \A s : Earlier(s, pc)' <=> Earlier(s, pc) \/ s = step
             /\ \A c : Remapped(c, pc)' <=> Remapped(c, pc) \/ (step = "icw2" /\ arg[1] = c)
  <2>1. pc \in DOMAIN Program /\ pc' = pc + 1 /\ Program[pc][1] = step
    BY <1>1, PcMoves DEF Do
  <2> QED
    BY <2>1, EarlierNext, RemappedNext DEF arg
<1>2. CASE LoadIdt
  <2>1. ~Earlier("init_gates", pc)
    BY <1>1, <1>2, OrderAssumption DEF LoadIdt
  <2> QED
    BY <1>1, <1>2, <2>1 DEF LoadIdt, History, pic
<1>3. CASE InitGates
  BY <1>1, <1>3 DEF InitGates, History, pic
<1>4. CASE SetShadow
  BY <1>1, <1>4 DEF SetShadow, History, tables
<1>5. CASE OutImr
  BY <1>1, <1>5 DEF OutImr, History, tables
<1>6. CASE Probe
  BY <1>1, <1>6 DEF Probe, History, pic
<1>7. CASE Icw1
  BY <1>1, <1>7 DEF Icw1, History, tables
<1>8. CASE Icw2
  <2>1. arg[2] = Remap(arg[1])
    BY <1>1, <1>8, OrderAssumption DEF Icw2, arg
  <2>2. arg \in Chips \X Nat
    BY <1>8, StepArgument DEF Icw2, Argument
  <2>3. \A c \in Chips : Remapped(c, pc)' => offset'[c] = Remap(c)
    BY <1>1, <1>8, <2>1, <2>2 DEF Icw2, History, TypeOK
  <2> QED
    BY <1>1, <1>8, <2>3 DEF Icw2, History, tables
<1>9. CASE RegisterIsrHandlers
  BY <1>1, <1>9 DEF RegisterIsrHandlers, History, pic
<1>10. CASE EnableInterrupts
  <2>1. CASE Do("sti")
    BY <1>1, <1>10, <2>1 DEF EnableInterrupts, History, tables, pic
  <2>2. CASE Do("loop")
    <3>1. pc' = pc
      BY <2>2, PcMoves
    <3> QED
      BY <1>10, <3>1 DEF EnableInterrupts, History, tables, pic, Earlier, Remapped
  <2> QED
    BY <1>10, <2>1, <2>2 DEF EnableInterrupts
<1>11. CASE RegisterIrqHandler
  BY <1>1, <1>11 DEF RegisterIrqHandler, History, pic
<1> QED
  BY <1>2, <1>3, <1>4, <1>5, <1>6, <1>7, <1>8, <1>9, <1>10, <1>11 DEF MainStep

(* A probe reads back the mask it has just written, so it finds the chips. *)
LEMMA MainKeepsProbe ==
  ASSUME TypeOK, History, MainStep, NEW k \in DOMAIN Program, Program[k][1] = "probe"
  PROVE  /\ pc' \in {k - 2, k - 1, k} => g_PicMask' = Program[k][2]
         /\ pc' \in {k - 1, k} => imr' \cap Lines(0) = Program[k][2] \cap Lines(0)
         /\ pc' = k => imr' \cap Lines(1) = Program[k][2] \cap Lines(1)
<1> DEFINE S == Program[k][2]
<1>1. /\ k \in Nat /\ k > 3 /\ pc \in Nat
      /\ Program[k - 3][1] = "mask_is" /\ Program[k - 3][2] = S
      /\ Program[k - 2][1] = "out_imr" /\ Program[k - 2][2] = 0
      /\ Program[k - 1][1] = "out_imr" /\ Program[k - 1][2] = 1
  BY OrderAssumption, ProgramAssumption DEF TypeOK
<1>2. ASSUME NEW step, Do(step), step # "out_imr", step # "mask_is"
      PROVE  pc' \notin {k - 2, k - 1, k}
  <2>1. Program[pc][1] = step /\ pc' = IF step = "loop" THEN pc ELSE pc + 1
    BY <1>2, PcMoves DEF Do
  <2>2. CASE step = "loop"
    BY <1>1, <2>1, <2>2
  <2>3. CASE step # "loop"
    BY <1>1, <1>2, <2>1, <2>3
  <2> QED
    BY <2>2, <2>3
<1>3. CASE SetShadow
  <2>1. CASE Do("mask_is") /\ g_PicMask' = arg
    <3>1. Program[pc][1] = "mask_is" /\ pc' = pc + 1
      BY <2>1, PcMoves DEF Do
    <3>2. pc' \in {k - 2, k - 1, k} => pc = k - 3
      BY <1>1, <3>1
    <3> QED
      BY <1>1, <1>3, <2>1, <3>1, <3>2 DEF SetShadow, arg
  <2>2. CASE Do("unmask")
    BY <1>1, <1>2, <2>2
  <2> QED
    BY <1>3, <2>1, <2>2 DEF SetShadow
<1>4. CASE OutImr
  <2>1. Program[pc][1] = "out_imr" /\ pc' = pc + 1 /\ g_PicMask' = g_PicMask
    BY <1>4, PcMoves DEF Do, OutImr
  <2>2. pc' \in {k - 2, k - 1, k} => pc \in {k - 2, k - 1}
    BY <1>1, <2>1
  <2>3. CASE pc = k - 2
    <3>1. imr' = (imr \ Lines(0)) \cup (g_PicMask \cap Lines(0)) /\ g_PicMask = S
      BY <1>1, <1>4, <2>3 DEF OutImr, arg, History
    <3> QED
      BY <1>1, <2>1, <2>3, <3>1
  <2>4. CASE pc = k - 1
    <3>1. /\ imr' = (imr \ Lines(1)) \cup (g_PicMask \cap Lines(1)) /\ g_PicMask = S
          /\ imr \cap Lines(0) = S \cap Lines(0)
      BY <1>1, <1>4, <2>4 DEF OutImr, arg, History
    <3>2. Lines(0) \cap Lines(1) = {}
      BY DEF Lines
    <3> HIDE DEF S
    <3>3. imr' \cap Lines(0) = S \cap Lines(0) /\ imr' \cap Lines(1) = S \cap Lines(1)
      BY <3>1, <3>2
    <3> QED
      BY <1>1, <2>1, <2>4, <3>1, <3>3 DEF S
  <2> QED
    BY <2>2, <2>3, <2>4, <1>1
<1> QED
  BY <1>2, <1>3, <1>4 DEF MainStep, LoadIdt, InitGates, Probe, Icw1, Icw2, RegisterIsrHandlers,
                          EnableInterrupts, RegisterIrqHandler

LEMMA ProbeFinds == TypeOK /\ History /\ Probe => g_Driver' = TRUE
<1> SUFFICES ASSUME TypeOK, History, Probe PROVE g_Driver' = TRUE
  OBVIOUS
<1>1. pc \in DOMAIN Program /\ Program[pc][1] = "probe" /\ arg \subseteq IRQs
  BY StepArgument DEF Probe, Do, Argument
<1>2. imr \cap Lines(0) = arg \cap Lines(0) /\ imr \cap Lines(1) = arg \cap Lines(1)
  BY <1>1 DEF History, arg
<1>3. \A S \in SUBSET IRQs : S = (S \cap Lines(0)) \cup (S \cap Lines(1))
  BY DEF Lines, Chip
<1>4. imr = arg
  BY <1>1, <1>2, <1>3 DEF TypeOK
<1> QED
  BY <1>4 DEF Probe

LEMMA MainKeepsHistory == TypeOK /\ History /\ MainStep => History'
<1> SUFFICES ASSUME TypeOK, History, MainStep PROVE History'
  OBVIOUS
<1>1. Earlier("probe", pc)' => g_Driver'
  <2>1. CASE Probe
    BY <2>1, ProbeFinds
  <2>2. CASE ~Probe
    <3>1. g_Driver' = g_Driver
      BY <2>2 DEF MainStep, LoadIdt, InitGates, SetShadow, OutImr, Icw1, Icw2,
                  RegisterIsrHandlers, EnableInterrupts, RegisterIrqHandler, tables
    <3>2. PICK step : Do(step) /\ step # "probe"
      BY <2>2 DEF MainStep, LoadIdt, InitGates, SetShadow, OutImr, Icw1, Icw2,
                  RegisterIsrHandlers, EnableInterrupts, RegisterIrqHandler
    <3>3. Earlier("probe", pc)' => Earlier("probe", pc)
      <4>1. CASE pc' = pc
        BY <4>1 DEF Earlier
      <4>2. CASE pc' = pc + 1
        BY <3>2, <4>2, PcMoves, EarlierNext DEF Do
      <4> QED
        BY <3>2, <4>1, <4>2, PcMoves
    <3> QED
      BY <3>1, <3>3 DEF History
  <2> QED
    BY <2>1, <2>2
<1> QED
  BY <1>1, MainKeepsEffects, MainKeepsProbe DEF History

-----------------------------------------------------------------------------
(* The CPU and the lines in service.                                       *)

Inv == TypeOK /\ History /\ CpuInv /\ InServiceIsHandled

LEMMA RemappedVector ==
  TypeOK /\ Ready => \A irq \in IRQs : Vector(irq) = PIC_REMAP_OFFSET + irq
<1> SUFFICES ASSUME TypeOK, Ready, NEW irq \in IRQs PROVE Vector(irq) = PIC_REMAP_OFFSET + irq
  OBVIOUS
<1>1. offset[0] = 32 /\ offset[1] = 40
  BY DEF Ready, Remap
<1> QED
  BY <1>1 DEF Vector, Chip

LEMMA MainKeepsCpu ==
  ASSUME TypeOK, History, CpuInv, InServiceIsHandled, MainStep
  PROVE  CpuInv' /\ InServiceIsHandled'
<1>1. PICK step : Do(step)
  BY DEF MainStep, LoadIdt, InitGates, SetShadow, OutImr, Probe, Icw1, Icw2,
         RegisterIsrHandlers, EnableInterrupts, RegisterIrqHandler
<1>2. cpu = "main" /\ intr = "none"
  BY <1>1 DEF Do, MainMayStep
<1>3. inService' \subseteq inService /\ cpu' = cpu /\ intr' = intr
  BY DEF MainStep, LoadIdt, InitGates, SetShadow, OutImr, Probe, Icw1, Icw2,
         RegisterIsrHandlers, EnableInterrupts, RegisterIrqHandler, pic, frame
<1>4. inService' = {}
  BY <1>2, <1>3 DEF InServiceIsHandled
<1>5. eflagsIF' => Passed'
  <2>1. CASE EnableInterrupts
    <3>1. PICK s \in {"sti", "loop"} : Do(s)
      BY <2>1 DEF EnableInterrupts
    <3>2. Passed
      BY <3>1, PcMoves, OrderAssumption DEF Do, Passed
    <3> QED
      BY <3>1, <3>2, PassedStays
  <2>2. CASE ~EnableInterrupts
    <3>1. eflagsIF' = eflagsIF
      BY <2>2 DEF MainStep, LoadIdt, InitGates, SetShadow, OutImr, Probe, Icw1, Icw2,
                  RegisterIsrHandlers, RegisterIrqHandler, frame
    <3> QED
      BY <1>1, <3>1, PassedStays DEF CpuInv
  <2> QED
    BY <2>1, <2>2
<1> QED
  BY <1>2, <1>3, <1>4, <1>5 DEF CpuInv, InServiceIsHandled

LEMMA AcknowledgeKeeps ==
  ASSUME TypeOK, History, CpuInv, InServiceIsHandled, Acknowledge \/ AcknowledgeSpurious
  PROVE  CpuInv' /\ InServiceIsHandled'
<1>1. intr # "none" /\ cpu = "main" /\ Passed /\ Ready
  BY PassedIsReady DEF Acknowledge, AcknowledgeSpurious, CpuInv
<1>2. inService = {}
  BY <1>1 DEF InServiceIsHandled
<1>3. PICK irq \in IRQs : Enter(Vector(irq)) /\ inService' \subseteq {irq, MasterLine(irq)}
  <2>1. CASE Acknowledge
    BY <1>2, <2>1, DevicesAssumption DEF Acknowledge
  <2>2. CASE AcknowledgeSpurious
    <3>1. 7 \in IRQs /\ 15 \in IRQs /\ MasterLine(15) = 2
      BY DEF MasterLine
    <3>2. CASE Enter(Vector(7)) /\ inService' = inService
      BY <1>2, <3>1, <3>2
    <3>3. CASE Enter(Vector(15)) /\ inService' = inService \cup {2}
      BY <1>2, <3>1, <3>3
    <3> QED
      BY <2>2, <3>2, <3>3, Zenon DEF AcknowledgeSpurious
  <2> QED
    BY <2>1, <2>2
<1>4. vector' = PIC_REMAP_OFFSET + irq
  BY <1>1, <1>3, RemappedVector DEF Enter
<1>5. cpu' = "ISR_Handler" /\ intr' = "none" /\ vector' \in IrqVectors /\ Irq' = irq
  BY <1>1, <1>3, <1>4 DEF Enter, Ready, IrqVectors, Irq
<1>6. Passed'
  BY <1>1, <1>3 DEF Enter, Passed, Earlier, Remapped
<1> QED
  BY <1>3, <1>5, <1>6 DEF CpuInv, InServiceIsHandled

LEMMA HandlerKeeps ==
  ASSUME TypeOK, History, CpuInv, InServiceIsHandled,
         Interrupt, ~Acknowledge, ~AcknowledgeSpurious
  PROVE  CpuInv' /\ InServiceIsHandled'
<1>1. UNCHANGED pc /\ Irq' = Irq /\ vector' = vector
  BY DEF Interrupt, Recognise, i686_ISR_Handler, i686_IRQ_Handler, SendSlaveEnd, SendMasterEnd,
         Iret, Irq
<1>2. Passed' <=> Passed
  BY <1>1 DEF Passed, Earlier, Remapped
<1>3. cpu # "main" => /\ vector \in IrqVectors /\ Irq \in IRQs /\ Ready
  BY PassedIsReady DEF CpuInv, Irq, IrqVectors
<1>4. CASE Recognise
  BY <1>1, <1>2, <1>4 DEF Recognise, CpuInv, InServiceIsHandled, pic
<1>5. CASE i686_ISR_Handler
  <2>1. cpu' = "IRQ_Handler" /\ inService' = inService /\ intr' = intr
    BY <1>3, <1>5 DEF i686_ISR_Handler, Ready, pic
  <2> QED
    BY <1>1, <1>2, <1>5, <2>1 DEF i686_ISR_Handler, CpuInv, InServiceIsHandled
<1>6. CASE i686_IRQ_Handler
  <2>1. /\ cpu' = IF Irq >= 8 THEN "eoi_slave" ELSE "eoi_master"
        /\ inService' = inService /\ intr' = intr
    BY <1>3, <1>6 DEF i686_IRQ_Handler, Ready, pic
  <2>2. Irq >= 8 => MasterLine(Irq) = Cascade
    BY <1>3, <1>6 DEF i686_IRQ_Handler, MasterLine
  <2>3. Irq < 8 => MasterLine(Irq) = Irq
    BY DEF MasterLine
  <2>4. inService \subseteq {Irq, MasterLine(Irq)}
    BY <1>6 DEF i686_IRQ_Handler, InServiceIsHandled
  <2>5. CpuInv'
    BY <1>1, <1>2, <1>6, <2>1 DEF i686_IRQ_Handler, CpuInv
  <2>6. CASE Irq >= 8
    <3>1. cpu' = "eoi_slave" /\ inService' \subseteq {Irq', Cascade}
      BY <1>1, <2>1, <2>2, <2>4, <2>6
    <3> QED
      BY <2>5, <3>1 DEF InServiceIsHandled
  <2>7. CASE ~(Irq >= 8)
    <3>1. Irq \in 0..7
      BY <1>3, <1>6, <2>7 DEF i686_IRQ_Handler
    <3>2. cpu' = "eoi_master" /\ inService' \subseteq {Irq'} /\ MasterLine(Irq)' = Irq'
      BY <1>1, <2>1, <2>3, <2>4, <2>7, <3>1 DEF MasterLine
    <3> QED
      BY <2>5, <3>2 DEF InServiceIsHandled
  <2> QED
    BY <2>5, <2>6, <2>7
<1>7. CASE SendSlaveEnd
  <2>1. Irq >= 8 /\ Irq \in IRQs /\ inService \subseteq {Irq, Cascade} /\ MasterLine(Irq) = Cascade
    BY <1>3, <1>7 DEF SendSlaveEnd, CpuInv, InServiceIsHandled, MasterLine
  <2>2. inService' \subseteq {Cascade}
    <3>1. inService' = {s \in inService : Chip(s) # 1 \/ \E t \in inService : Chip(t) = 1 /\ t < s}
      BY <1>7 DEF SendSlaveEnd, EndOfInterrupt
    <3>2. Chip(Irq) = 1 /\ Chip(Cascade) = 0
      BY <2>1 DEF Chip
    <3>3. ~(Irq < Irq)
      BY <2>1
    <3>4. Irq \notin inService'
      BY <2>1, <3>1, <3>2, <3>3
    <3> QED
      BY <2>1, <3>1, <3>4
  <2> QED
    BY <1>1, <1>2, <1>7, <2>1, <2>2 DEF SendSlaveEnd, CpuInv, InServiceIsHandled, MasterLine
<1>8. CASE SendMasterEnd
  <2>1. MasterLine(Irq) < 8 /\ inService \subseteq {MasterLine(Irq)}
    BY <1>3, <1>8 DEF SendMasterEnd, InServiceIsHandled, MasterLine
  <2>2. MasterLine(Irq) \in IRQs
    BY <1>3, <1>8 DEF SendMasterEnd, MasterLine
  <2>3. inService' = {}
    BY <1>8, <2>1, <2>2 DEF SendMasterEnd, EndOfInterrupt, Chip
  <2> QED
    BY <1>1, <1>2, <1>8, <2>3 DEF SendMasterEnd, CpuInv, InServiceIsHandled
<1>9. CASE Iret
  BY <1>1, <1>2, <1>9 DEF Iret, CpuInv, InServiceIsHandled, pic
<1> QED
  BY <1>4, <1>5, <1>6, <1>7, <1>8, <1>9 DEF Interrupt

LEMMA DevicesKeep ==
  ASSUME TypeOK, History, CpuInv, InServiceIsHandled, NEW irq \in Devices,
         Request(irq) \/ Withdraw(irq) \/ UNCHANGED vars
  PROVE  History' /\ CpuInv' /\ InServiceIsHandled'
<1>1. UNCHANGED <<g_PicMask, imr, inService, offset, tables, frame, pc>>
  BY DEF Request, Withdraw, vars, pic
<1>2. UNCHANGED <<idt, g_Driver, g_ISRHandlers, eflagsIF, intr, cpu, vector>>
  BY <1>1 DEF tables, frame
<1> QED
  BY <1>1, <1>2 DEF History, CpuInv, InServiceIsHandled, Earlier, Remapped, Passed, Irq

LEMMA InterruptKeepsHistory == TypeOK /\ History /\ Interrupt => History'
<1> SUFFICES ASSUME TypeOK, History, Interrupt PROVE History'
  OBVIOUS
<1>1. UNCHANGED <<g_PicMask, imr, offset, tables, pc>>
  BY DEF Interrupt, Recognise, Acknowledge, AcknowledgeSpurious, Enter, i686_ISR_Handler,
         i686_IRQ_Handler, SendSlaveEnd, SendMasterEnd, Iret, pic
<1>2. UNCHANGED <<idt, g_Driver, g_ISRHandlers>>
  BY <1>1 DEF tables
<1> QED
  BY <1>1, <1>2 DEF History, Earlier, Remapped

LEMMA Inductive == Spec => []Inv
<1>1. Init => Inv
  <2> SUFFICES ASSUME Init PROVE Inv
    OBVIOUS
  <2>1. pc = 1 /\ \A step : ~Earlier(step, pc)
    BY DEF Init, Earlier
  <2>2. \A c : ~Remapped(c, pc)
    BY DEF Init, Remapped
  <2>3. \A k \in DOMAIN Program : Program[k][1] = "probe" => k > 3 /\ k \in Nat
    BY OrderAssumption, ProgramAssumption
  <2>4. History
    BY <2>1, <2>2, <2>3 DEF History
  <2> QED
    BY <2>4, InitType DEF Init, PicInit, Inv, CpuInv, InServiceIsHandled
<1>2. Inv /\ [Next]_vars => Inv'
  <2> SUFFICES ASSUME Inv, [Next]_vars PROVE Inv'
    OBVIOUS
  <2>1. TypeOK'
    BY NextType DEF Inv
  <2>2. CASE MainStep
    BY <2>1, <2>2, MainKeepsHistory, MainKeepsCpu DEF Inv
  <2>3. CASE Interrupt
    BY <2>1, <2>3, InterruptKeepsHistory, AcknowledgeKeeps, HandlerKeeps DEF Inv
  <2>4. ASSUME NEW irq \in Devices, Request(irq) \/ Withdraw(irq) PROVE Inv'
    BY <2>1, <2>4, DevicesKeep DEF Inv
  <2>5. CASE UNCHANGED vars
    BY <2>1, <2>5 DEF Inv, vars, pic, tables, frame, History, CpuInv, InServiceIsHandled,
                      Earlier, Remapped, Passed, Irq
  <2> QED
    BY <2>2, <2>3, <2>4, <2>5 DEF Next
<1> QED
  BY <1>1, <1>2, PTL DEF Spec

(* SendEndOfInterrupt ends the interrupt being handled and no other, also  *)
(* for spurious IRQ 7 and 15: between interrupts nothing is in service.    *)
THEOREM EndOfInterruptIsOwn == Spec => []InServiceIsHandled
BY Inductive, PTL DEF Inv

(* No start-up program that respects the order lets a hardware interrupt   *)
(* reach an exception's vector, an empty gate or i686_Panic.               *)
THEOREM NoStray == Spec => []NoStrayInterrupt
<1>1. Inv => NoStrayInterrupt
  <2> SUFFICES ASSUME Inv PROVE NoStrayInterrupt
    OBVIOUS
  <2>1. cpu # "main" => Ready /\ vector \in IrqVectors
    BY PassedIsReady DEF Inv, CpuInv
  <2> QED
    BY <2>1 DEF Inv, CpuInv, NoStrayInterrupt, Ready, IrqVectors, Irq
<1> QED
  BY <1>1, Inductive, PTL

-----------------------------------------------------------------------------
(* The two masks.  A step that parts them is followed by a write to the    *)
(* chip before anything reads the driver's copy again.                     *)

MaskInv == /\ pc \in DOMAIN Program
           /\ \A c \in Chips : MaskOut(c, pc) => imr \cap Lines(c) = g_PicMask \cap Lines(c)

LEMMA MaskOutNext ==
  ASSUME TypeOK, pc \in DOMAIN Program, pc' = pc + 1, NEW c, MaskOut(c, pc)'
  PROVE  \/ Program[pc][1] = "out_imr" /\ Program[pc][2] = c
         \/ MaskOut(c, pc) /\ ~Parts(pc, c)
<1>1. pc \in Nat
  BY DEF TypeOK
<1>2. PICK j \in 1..pc : /\ Program[j][1] = "out_imr" /\ Program[j][2] = c
                         /\ \A k \in (j + 1)..pc : ~Parts(k, c)
  BY <1>1 DEF MaskOut
<1>3. CASE j = pc
  BY <1>2, <1>3
<1>4. CASE j # pc
  <2>1. j \in 1..(pc - 1) /\ pc \in (j + 1)..pc
    BY <1>1, <1>2, <1>4
  <2>2. \A k \in (j + 1)..(pc - 1) : k \in (j + 1)..pc
    BY <1>1
  <2> QED
    BY <1>2, <2>1, <2>2 DEF MaskOut
<1> QED
  BY <1>3, <1>4

(* The lines of one chip are not the other's.                              *)
LEMMA LinesApart ==
  ASSUME NEW c \in Chips, NEW d \in Chips, c # d
  PROVE  Lines(c) \cap Lines(d) = {}
BY DEF Lines, Chip

LEMMA MainKeepsMasks ==
  ASSUME TypeOK, MaskInv, MainStep
  PROVE  MaskInv'
<1>1. PICK step \in Steps : Do(step)
  BY DEF MainStep, LoadIdt, InitGates, SetShadow, OutImr, Probe, Icw1, Icw2,
         RegisterIsrHandlers, EnableInterrupts, RegisterIrqHandler, Steps
<1>2. /\ pc \in 1..Len(Program) /\ Len(Program) \in Nat /\ DOMAIN Program = 1..Len(Program)
      /\ Program[pc][1] = step /\ pc' = IF step = "loop" THEN pc ELSE pc + 1
  BY <1>1, PcMoves, ProgramAssumption DEF Do
<1>3. pc' \in DOMAIN Program
  BY <1>2, LoopAssumption
<1>4. ASSUME NEW c \in Chips, MaskOut(c, pc)'
      PROVE  imr' \cap Lines(c) = g_PicMask' \cap Lines(c)
  <2>1. CASE step = "loop"
    <3>1. EnableInterrupts
      BY <1>2, <2>1 DEF MainStep, LoadIdt, InitGates, SetShadow, OutImr, Probe, Icw1, Icw2,
                        RegisterIsrHandlers, RegisterIrqHandler, Do
    <3>2. MaskOut(c, pc) /\ UNCHANGED <<imr, g_PicMask>>
      BY <1>2, <1>4, <2>1, <3>1 DEF MaskOut, Parts, EnableInterrupts, pic
    <3> QED
      BY <3>2 DEF MaskInv
  <2>2. CASE step # "loop"
    <3>1. \/ Program[pc][1] = "out_imr" /\ Program[pc][2] = c
          \/ MaskOut(c, pc) /\ ~Parts(pc, c)
      BY <1>2, <1>4, <2>2, MaskOutNext
    <3>2. CASE OutImr
      <4>1. imr' = (imr \ Lines(arg)) \cup (g_PicMask \cap Lines(arg)) /\ g_PicMask' = g_PicMask
        BY <3>2 DEF OutImr
      <4>2. arg \in Chips /\ Program[pc][2] = arg
        BY <3>2, StepArgument DEF OutImr, Argument, arg
      <4>3. CASE arg = c
        BY <4>1, <4>3
      <4>4. CASE arg # c
        <5>1. imr \cap Lines(c) = g_PicMask \cap Lines(c)
          BY <3>1, <4>2, <4>4 DEF MaskInv
        <5>2. Lines(c) \cap Lines(arg) = {}
          BY <4>2, <4>4, LinesApart
        <5> QED
          BY <4>1, <5>1, <5>2
      <4> QED
        BY <4>3, <4>4
    <3>3. CASE Icw1
      <4>1. imr' = imr \ Lines(arg) /\ g_PicMask' = g_PicMask /\ Program[pc][1] = "icw1"
        BY <3>3 DEF Icw1, Do
      <4>2. arg \in Chips /\ Program[pc][2] = arg /\ arg # c /\ MaskOut(c, pc)
        BY <3>1, <3>3, <4>1, StepArgument DEF Icw1, Argument, arg, Parts
      <4>3. Lines(c) \cap Lines(arg) = {}
        BY <4>2, LinesApart
      <4> QED
        BY <4>1, <4>2, <4>3 DEF MaskInv
    <3>4. CASE ~OutImr /\ ~Icw1
      <4>1. Program[pc][1] \notin {"out_imr", "mask_is", "unmask"} /\ UNCHANGED <<imr, g_PicMask>>
        BY <3>1, <3>4 DEF MainStep, LoadIdt, InitGates, SetShadow, Probe, Icw2, Do, Parts,
                          RegisterIsrHandlers, EnableInterrupts, RegisterIrqHandler, pic
      <4> QED
        BY <3>1, <4>1 DEF MaskInv
    <3> QED
      BY <3>2, <3>3, <3>4
  <2> QED
    BY <2>1, <2>2
<1> QED
  BY <1>3, <1>4 DEF MaskInv

LEMMA OthersKeepMasks ==
  ASSUME MaskInv, UNCHANGED <<g_PicMask, imr, pc>>
  PROVE  MaskInv'
BY DEF MaskInv, MaskOut, Parts

(* Where the driver reads its copy of the mask, where interrupts are       *)
(* enabled and in the main loop, it is the mask the chips have.            *)
THEOREM MasksAgree == Spec => []MaskMatchesChips
<1>1. Init => MaskInv
  BY ProgramAssumption, LoopAssumption DEF Init, MaskInv, MaskOut
<1>2. TypeOK /\ MaskInv /\ [Next]_vars => MaskInv'
  <2> SUFFICES ASSUME TypeOK, MaskInv, [Next]_vars PROVE MaskInv'
    OBVIOUS
  <2>1. CASE MainStep
    BY <2>1, MainKeepsMasks
  <2>2. CASE Interrupt
    <3>1. UNCHANGED <<g_PicMask, imr, pc>>
      BY <2>2 DEF Interrupt, Recognise, Acknowledge, AcknowledgeSpurious, Enter, pic,
                  i686_ISR_Handler, i686_IRQ_Handler, SendSlaveEnd, SendMasterEnd, Iret
    <3> QED
      BY <3>1, OthersKeepMasks
  <2>3. ASSUME NEW irq \in Devices, Request(irq) \/ Withdraw(irq) PROVE MaskInv'
    BY <2>3, OthersKeepMasks DEF Request, Withdraw
  <2>4. CASE UNCHANGED vars
    BY <2>4, OthersKeepMasks DEF vars, pic
  <2> QED
    BY <2>1, <2>2, <2>3, <2>4 DEF Next
<1>3. TypeOK /\ MaskInv => MaskMatchesChips
  <2> SUFFICES ASSUME TypeOK, MaskInv, Program[pc][1] \in {"unmask", "sti", "loop"}
               PROVE  imr = g_PicMask
    BY DEF MaskMatchesChips
  <2>1. \A c \in Chips : imr \cap Lines(c) = g_PicMask \cap Lines(c)
    BY OrderAssumption DEF MaskInv
  <2>2. \A irq \in IRQs : \E c \in Chips : irq \in Lines(c)
    BY DEF Lines, Chip
  <2> QED
    BY <2>1, <2>2 DEF TypeOK
<1> QED
  BY <1>1, <1>2, <1>3, TypeCorrect, PTL DEF Spec
=============================================================================
