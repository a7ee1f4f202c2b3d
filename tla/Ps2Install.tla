----------------------------- MODULE Ps2Install -----------------------------
(***************************************************************************)
(* mouse_install and keyboard_install against the PS/2 controller they     *)
(* poll (ps2.c), with both devices sending and IRQ 1 and 12 being taken    *)
(* while they run.  It starts where HAL_Initialize returns: interrupts on, *)
(* the keyboard line open, no handler registered.  The controller and the  *)
(* devices are external.  One output buffer serves both devices; a byte in *)
(* it raises its device's line once, and nothing else comes until it is    *)
(* read.                                                                   *)
(***************************************************************************)
EXTENDS Integers, Sequences

CONSTANTS InputFrom,      \* the steps from which the user may type and move
          Plugged,        \* whether there is a mouse
          MaxKeys,        \* bound on the keys pressed
          MaxMoves,       \* bound on the mouse movements
          MaxInputs,      \* bound on both together
          MaxTimeouts     \* bound on the waits that a slow controller lets end in vain

ASSUME Ps2Assumption == /\ InputFrom \subseteq Nat /\ Plugged \subseteq BOOLEAN
                        /\ {MaxKeys, MaxMoves, MaxInputs, MaxTimeouts} \subseteq Nat

VARIABLES obf,            \* the output buffer: [full, data, aux]; data stays once read
          config,         \* the controller's command byte
          expects,        \* what the next data byte is: "kbd", "config", "aux"
          answer,         \* the controller's own answers, until the buffer is free
          fresh,          \* a byte came in during the CPU's present instruction
          kbdQueue, auxQueue,      \* bytes the devices have yet to send
          reporting,      \* the mouse sends movements
          irr, open, handlers,     \* IRQ lines latched, unmasked, handled
          pc, value,      \* the installs' next step; the byte last read or computed
          mouse_cycle, mouse_byte, packet,
          reported,       \* key bytes keyboard_handler has read
          plugged,        \* there is a mouse
          from, keys, moves,       \* when the user's input begins, and input so far
          timeouts,       \* waits that have ended in vain so far
          prompt,         \* no answer on its way was given up, no access of the command byte
          configured      \* the last command byte computed was written

controller == <<obf, config, expects, answer, fresh>>
devices    == <<kbdQueue, auxQueue, reporting>>
lines      == <<irr, open, handlers>>
program    == <<pc, value>>
received   == <<mouse_cycle, mouse_byte, packet, reported>>
input      == <<plugged, from, keys, moves>>
slowness   == <<timeouts, prompt, configured>>
vars       == <<controller, devices, lines, program, received, input, slowness>>

ACK      == 250                       \* 0xFA
Key      == 30                        \* a make code, 0x1E
Movement == <<8, 1, 2>>               \* flags, dx, dy
Bit(b, i)   == (b \div 2^i) % 2 = 1
SetBit(b, i) == IF Bit(b, i) THEN b ELSE b + 2^i
ClearBit(b, i) == IF Bit(b, i) THEN b - 2^i ELSE b

-----------------------------------------------------------------------------
(* The driver's functions as sequences of port accesses and assignments.   *)
(* A byte is written only when the controller is found ready for it: when  *)
(* it is not, the functions return early and `rest' is skipped.  The third *)
(* part of a step says how far the installs then go on.                    *)

Do(name, arg)           == <<<<name, arg, 1>>>>
IfSent(name, arg, rest) == <<<<name, arg, Len(rest) + 1>>>> \o rest

ps2_flush_output_buffer == Do("flush_poll", 0) \o Do("flush_read", 0)
ps2_send_controller_command(c) == IfSent("command", c, <<>>)
ps2_read_data           == Do("poll", 0) \o Do("read", 0)
ps2_expect_ack          == ps2_read_data

WriteDataExpectAck(b)   == IfSent("data", b, ps2_expect_ack)      \* !write_data(b) || !expect_ack()
WriteMouseExpectAck(b)  == IfSent("command", 212, WriteDataExpectAck(b))                   \* 0xD4

GetWithoutPoll == IfSent("command", 32, Do("read", 0))   \* mutant: the answer is not waited for

ps2_get_command_byte    == IfSent("command", 32, ps2_read_data)                            \* 0x20
SetAnyway ==                  \* mutant: the byte is written although 0x60 was not
  Do("command", 96) \o Do("data_value", 96)

ps2_set_command_byte    == IfSent("command", 96, IfSent("data_value", 96, <<>>))           \* 0x60

ps2_configure_port(irqBit, clockBit) ==      \* enable_irq and enable_clock are true
  ps2_get_command_byte \o Do("set_bit", irqBit) \o Do("clear_bit", clockBit) \o ps2_set_command_byte

ps2_enable_translation == ps2_get_command_byte \o Do("set_bit", 6) \o ps2_set_command_byte

RegisterHandler(irq) == Do("handler", irq)
Unmask(irq)          == Do("unmask", irq)

InstallNoCascade ==                          \* mutant: IRQ 2 stays masked
  ps2_flush_output_buffer
  \o ps2_send_controller_command(168)
  \o ps2_configure_port(1, 5)
  \o WriteMouseExpectAck(246)
  \o WriteMouseExpectAck(244)
  \o RegisterHandler(12) \o Unmask(12)

mouse_install ==
  ps2_flush_output_buffer
  \o ps2_send_controller_command(168)                       \* 0xA8
  \o ps2_configure_port(1, 5)
  \o WriteMouseExpectAck(246)           \* 0xF6
  \o WriteMouseExpectAck(244)           \* 0xF4
  \o RegisterHandler(12) \o Unmask(2) \o Unmask(12)

InstallAckUnread ==                          \* mutant: the answer to 0xF4 is not read
  ps2_flush_output_buffer \o ps2_enable_translation \o ps2_configure_port(0, 4)
  \o IfSent("data", 244, <<>>)
  \o RegisterHandler(1) \o Unmask(1)

keyboard_install ==
  ps2_flush_output_buffer
  \o ps2_enable_translation
  \o ps2_configure_port(0, 4)
  \o WriteDataExpectAck(244)                \* 0xF4
  \o RegisterHandler(1) \o Unmask(1)

Program == mouse_install \o keyboard_install
Installed == pc = Len(Program) + 1

-----------------------------------------------------------------------------
Init ==
  /\ obf \in [full : BOOLEAN, data : {Key}, aux : {FALSE}]     \* a key typed to the BIOS
  /\ config = 97                       \* 0x61: keyboard interrupts and translation on,
  /\ expects = "kbd"                   \* mouse port off
  /\ answer = <<>> /\ fresh = FALSE
  /\ kbdQueue = <<>> /\ auxQueue = <<>> /\ reporting = FALSE
  /\ irr = {} /\ open = {0, 1} /\ handlers = {}
  /\ pc = 1 /\ value = 0
  /\ mouse_cycle = 0 /\ mouse_byte = <<0, 0, 0>> /\ packet = Movement
  /\ reported = 0
  /\ plugged \in Plugged /\ from \in InputFrom /\ keys = 0 /\ moves = 0
  /\ timeouts = 0 /\ prompt = TRUE /\ configured = FALSE

-----------------------------------------------------------------------------
(* The controller and its devices. *)

Line(aux) == IF aux THEN 12 ELSE 1
Enabled(c, aux) == Bit(c, IF aux THEN 1 ELSE 0)

Fill(byte, aux) ==                      \* a byte reaches the output buffer
  /\ obf' = [full |-> TRUE, data |-> byte, aux |-> aux]
  /\ irr' = IF Enabled(config, aux) THEN irr \cup {Line(aux)} ELSE irr
  /\ fresh' = TRUE

TransferAnswer ==
  /\ ~obf.full /\ answer # <<>>
  /\ Fill(Head(answer), FALSE)
  /\ answer' = Tail(answer)
  /\ UNCHANGED <<config, expects, devices, open, handlers, program, received, input, slowness>>

TransferKbd ==
  /\ ~obf.full /\ answer = <<>> /\ kbdQueue # <<>> /\ ~Bit(config, 4)
  /\ Fill(Head(kbdQueue), FALSE)
  /\ kbdQueue' = Tail(kbdQueue)
  /\ UNCHANGED <<config, expects, answer, auxQueue, reporting, open, handlers, program, received, input, slowness>>

TransferAux ==
  /\ ~obf.full /\ answer = <<>> /\ auxQueue # <<>> /\ ~Bit(config, 5)
  /\ Fill(Head(auxQueue), TRUE)
  /\ auxQueue' = Tail(auxQueue)
  /\ UNCHANGED <<config, expects, answer, kbdQueue, reporting, open, handlers, program, received, input, slowness>>

PressKey ==
  /\ pc >= from /\ keys < MaxKeys /\ keys + moves < MaxInputs
  /\ kbdQueue' = Append(kbdQueue, Key)
  /\ keys' = keys + 1
  /\ UNCHANGED <<controller, auxQueue, reporting, lines, program, received, plugged, from, moves, slowness>>

MoveMouse ==
  /\ pc >= from /\ moves < MaxMoves /\ keys + moves < MaxInputs
  /\ reporting
  /\ auxQueue' = auxQueue \o Movement
  /\ moves' = moves + 1
  /\ UNCHANGED <<controller, kbdQueue, reporting, lines, program, received, plugged, from, keys, slowness>>

-----------------------------------------------------------------------------
(* The installs.  An interrupt that can be taken is taken before the next  *)
(* instruction, except that a port read may still see a byte that comes in *)
(* while it executes: the interrupt then follows it.                       *)

Deliverable == {irq \in irr \cap open : irq = 12 => 2 \in open}

Step(name) == /\ Deliverable = {} \/ fresh
              /\ fresh' = FALSE
              /\ pc \in DOMAIN Program
              /\ Program[pc][1] = name
arg  == Program[pc][2]
Goto(n) == pc' = n

ReadPort == /\ obf' = [obf EXCEPT !.full = FALSE]            \* in al, 0x60
            /\ irr' = irr \ {Line(obf.aux)}

FlushPoll == /\ Step("flush_poll")
             /\ Goto(IF obf.full THEN pc + 1 ELSE pc + 2)
             /\ UNCHANGED <<obf, config, expects, answer, devices, lines, value, received, input, slowness>>

FlushRead == /\ Step("flush_read")
             /\ ReadPort
             /\ Goto(pc - 1)
             /\ UNCHANGED <<config, expects, answer, devices, open, handlers, value, received, input, slowness>>

(* The controller answers 0x20 with its command byte; 0xA8 opens port 2.   *)
Command ==
  /\ Step("command")
  /\ CASE arg = 32  -> answer' = Append(answer, config) /\ UNCHANGED <<config, expects>>
       [] arg = 96  -> expects' = "config" /\ UNCHANGED <<answer, config>>
       [] arg = 212 -> expects' = "aux"    /\ UNCHANGED <<answer, config>>
       [] OTHER     -> config' = ClearBit(config, 5) /\ UNCHANGED <<answer, expects>>
  /\ Goto(pc + 1)
  /\ UNCHANGED <<obf, devices, lines, value, received, input, slowness>>

(* Where a byte written to port 0x60 goes.  A device answers every command *)
(* with ACK, dropping what it had to send; where there is none nothing     *)
(* comes.                                                                  *)
ToConfig(b) == /\ config' = b
               /\ irr' = IF obf.full /\ Enabled(b, obf.aux) /\ ~Enabled(config, obf.aux)
                         THEN irr \cup {Line(obf.aux)} ELSE irr
               /\ UNCHANGED devices
ToMouse(b)  == /\ auxQueue' = IF plugged THEN <<ACK>> ELSE <<>>
               /\ reporting' = (plugged /\ b = 244)
               /\ UNCHANGED <<kbdQueue, config, irr>>
ToKeyboard  == /\ kbdQueue' = <<ACK>>
               /\ UNCHANGED <<auxQueue, reporting, config, irr>>

WriteData(b) ==
  /\ CASE expects = "config" -> ToConfig(b)
       [] expects = "aux"    -> ToMouse(b)
       [] OTHER              -> ToKeyboard
  /\ expects' = "kbd"
  /\ Goto(pc + 1)
  /\ UNCHANGED <<obf, answer, open, handlers, value, received, input, timeouts, prompt>>

Data == Step("data") /\ WriteData(arg) /\ UNCHANGED configured

DataValue == Step("data_value") /\ WriteData(value) /\ configured' = TRUE    \* after 0x60

NotReady ==                             \* the input buffer stays full: nothing is written
  /\ \/ Step("command") \/ Step("data") \/ Step("data_value")
  /\ timeouts < MaxTimeouts
  /\ timeouts' = timeouts + 1
  /\ prompt' = (prompt /\ arg \notin {32, 96})
  /\ configured' = (configured /\ arg # 96)
  /\ value' = IF arg = 32 THEN 0 ELSE value
  /\ Goto(pc + Program[pc][3])
  /\ UNCHANGED <<obf, config, expects, answer, devices, lines, received, input>>

Poll ==                                 \* the status read that finds the buffer full
  /\ Step("poll")
  /\ obf.full
  /\ Goto(pc + 1)
  /\ UNCHANGED <<obf, config, expects, answer, devices, lines, value, received, input, slowness>>

OnItsWay == \/ answer # <<>>
            \/ kbdQueue # <<>> /\ ~Bit(config, 4)
            \/ auxQueue # <<>> /\ ~Bit(config, 5)

PollTimeout ==                          \* the driver gives up, whatever is still to come
  /\ Step("poll")
  /\ ~obf.full
  /\ OnItsWay => timeouts < MaxTimeouts
  /\ timeouts' = IF OnItsWay THEN timeouts + 1 ELSE timeouts
  /\ prompt' = (prompt /\ ~OnItsWay)
  /\ value' = 0
  /\ Goto(pc + 2)
  /\ UNCHANGED <<obf, config, expects, answer, devices, lines, received, input, configured>>

Read == /\ Step("read")
        /\ ReadPort
        /\ value' = obf.data
        /\ Goto(pc + 1)
        /\ UNCHANGED <<config, expects, answer, devices, open, handlers, received, input, slowness>>

Compute ==
  /\ \/ Step("set_bit")   /\ value' = SetBit(value, arg)
     \/ Step("clear_bit") /\ value' = ClearBit(value, arg)
  /\ Goto(pc + 1)
  /\ UNCHANGED <<obf, config, expects, answer, devices, lines, received, input, slowness>>

i686_IRQ_RegisterHandler ==
  /\ Step("handler")
  /\ handlers' = handlers \cup {arg}
  /\ Goto(pc + 1)
  /\ UNCHANGED <<obf, config, expects, answer, devices, irr, open, value, received, input, slowness>>

i8259_Unmask ==
  /\ Step("unmask")
  /\ open' = open \cup {arg}
  /\ Goto(pc + 1)
  /\ UNCHANGED <<obf, config, expects, answer, devices, irr, handlers, value, received, input, slowness>>

Install == \/ FlushPoll \/ FlushRead \/ Command \/ Data \/ DataValue \/ NotReady \/ Poll \/ PollTimeout
           \/ Read \/ Compute \/ i686_IRQ_RegisterHandler \/ i8259_Unmask

-----------------------------------------------------------------------------
(* The interrupts.  A line without a handler is only printed and ended:    *)
(* the byte stays in the output buffer.                                    *)

Unhandled(irq) ==
  /\ irq \in Deliverable \ handlers
  /\ irr' = irr \ {irq}
  /\ UNCHANGED <<controller, devices, open, handlers, program, received, input, slowness>>

keyboard_handler ==
  /\ 1 \in Deliverable \cap handlers
  /\ obf' = [obf EXCEPT !.full = FALSE]
  /\ irr' = irr \ {1, Line(obf.aux)}
  /\ reported' = reported + 1
  /\ UNCHANGED <<config, expects, answer, fresh, devices, open, handlers, program,
                 mouse_cycle, mouse_byte, packet, input, slowness>>

MouseResetsToOne ==                     \* mutant: mouse_cycle is reset to 1
  /\ 12 \in Deliverable \cap handlers /\ 1 \notin Deliverable
  /\ obf' = [obf EXCEPT !.full = FALSE]
  /\ irr' = irr \ {12, Line(obf.aux)}
  /\ mouse_byte' = [mouse_byte EXCEPT ![mouse_cycle + 1] = obf.data]
  /\ mouse_cycle' = IF mouse_cycle = 2 THEN 1 ELSE mouse_cycle + 1
  /\ packet' = IF mouse_cycle = 2 THEN mouse_byte' ELSE packet
  /\ UNCHANGED <<config, expects, answer, fresh, devices, open, handlers, program, reported, input, slowness>>

mouse_handler ==
  /\ 12 \in Deliverable \cap handlers /\ 1 \notin Deliverable
  /\ obf' = [obf EXCEPT !.full = FALSE]
  /\ irr' = irr \ {12, Line(obf.aux)}
  /\ mouse_byte' = [mouse_byte EXCEPT ![mouse_cycle + 1] = obf.data]
  /\ mouse_cycle' = (mouse_cycle + 1) % 3
  /\ packet' = IF mouse_cycle = 2 THEN mouse_byte' ELSE packet
  /\ UNCHANGED <<config, expects, answer, fresh, devices, open, handlers, program, reported, input, slowness>>

TakeInterrupt == \/ \E irq \in {1, 12} : Unhandled(irq)
                 \/ keyboard_handler \/ mouse_handler

Running ==                              \* the GUI loop, which touches none of this
  /\ Installed
  /\ UNCHANGED vars

Next == \/ Install \/ TakeInterrupt
        \/ TransferAnswer \/ TransferKbd \/ TransferAux \/ PressKey \/ MoveMouse
        \/ Running

Spec == Init /\ [][Next]_vars

(* The CPU runs, and a device sends what it holds as soon as the buffer is *)
(* free; the user has no fairness.                                         *)
FairSpec == Spec /\ WF_vars(Install) /\ WF_vars(TakeInterrupt)
                 /\ WF_vars(TransferAnswer) /\ WF_vars(TransferKbd) /\ SF_vars(TransferAux)

-----------------------------------------------------------------------------
(* Properties. *)

(* keyboard.c:74: whatever comes in between, and whichever waits end in    *)
(* vain, when the drivers are installed and the last command byte went     *)
(* out, the controller sends IRQ 1 for the keyboard's port.                *)
KeyboardPortReady == Installed /\ configured => Bit(config, 0) /\ ~Bit(config, 4)

(* Nothing is typed or moved before the desktop, and the controller takes  *)
(* the accesses of its command byte and answers while it is waited for.    *)
Quiet == from > Len(Program) /\ prompt

(* Then each read-modify-write of the command byte keeps what the others   *)
(* have set, also when commands to the devices are not taken: both ports   *)
(* are open, both interrupt, and scan codes are translated.                *)
ControllerReady ==
  Installed /\ Quiet => /\ Bit(config, 0) /\ ~Bit(config, 4)
                       /\ Bit(config, 1) /\ ~Bit(config, 5)
                       /\ Bit(config, 6)

(* Then every three bytes mouse_handler makes a movement of are one        *)
(* movement of the mouse, flags first: no answer and no scan code enters a *)
(* packet.                                                                 *)
MovementsAligned == Quiet => packet = Movement

(* And every key pressed reaches keyboard_handler, no byte is left in the  *)
(* output buffer and no device waits for ever.                             *)
KeyPressesReported == \A n \in 1..MaxKeys : Quiet /\ keys >= n ~> reported >= n \/ ~Quiet
InputDrains == Quiet /\ (obf.full \/ kbdQueue # <<>> \/ auxQueue # <<>>) ~>
               (~obf.full /\ kbdQueue = <<>> /\ auxQueue = <<>>) \/ ~Quiet

(* keyboard.c:83: once the keyboard is installed, what it has to send is   *)
(* taken from it.                                                          *)
KeyboardIsHeard == (Installed /\ kbdQueue # <<>>) ~> kbdQueue = <<>>
=============================================================================
