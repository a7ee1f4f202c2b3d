---------------------------- MODULE KernelStart ----------------------------
(***************************************************************************)
(* The kernel's start-up as the sequence of the steps that touch interrupt *)
(* state, function by function.  What the drivers say to the PS/2          *)
(* controller in between is in module Ps2Install.                          *)
(***************************************************************************)
EXTENDS I8259

i686_IRQ_RegisterHandler(irq) == <<<<"irq_handler", irq>>>>
i686_EnableInterrupts         == <<<<"sti", "NULL">>>>
i686_IDT_Initialize           == <<<<"load_idt", "NULL">>>>
i686_ISR_Initialize           == <<<<"init_gates", "NULL">>>>

i686_IRQ_Initialize ==
  i8259_Probe
  \o i8259_Configure(32, 40)
  \o <<<<"isr_handlers", "NULL">>>>
  \o i686_EnableInterrupts
  \o i8259_Unmask(0) \o i8259_Unmask(1)

HAL_Initialize == i686_IDT_Initialize \o i686_ISR_Initialize \o i686_IRQ_Initialize

mouse_install    == i686_IRQ_RegisterHandler(12) \o i8259_Unmask(2) \o i8259_Unmask(12)
keyboard_install == i686_IRQ_RegisterHandler(1) \o i8259_Unmask(1)

start == HAL_Initialize \o mouse_install \o keyboard_install
         \o i686_EnableInterrupts
         \o i686_IRQ_RegisterHandler(0) \o i8259_Unmask(0)
         \o i686_EnableInterrupts
         \o <<<<"loop", "NULL">>>>
=============================================================================
