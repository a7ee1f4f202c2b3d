----------------------------- MODULE EnableA20 -----------------------------
(***************************************************************************)
(* Stage 2's entry, entry.asm: interrupts off, what the boot sector passed *)
(* on is saved, the 8042 keyboard controller is asked to open the address  *)
(* line A20 by changing one bit of its output port, and the processor goes *)
(* to protected mode, where start is called with what was saved.  The      *)
(* controller takes a byte at a time and has one output buffer, for        *)
(* answers and scan codes alike.                                           *)
(***************************************************************************)
EXTENDS Naturals

CONSTANTS ScanCodes                \* what the user may type meanwhile, as bytes

VARIABLES passed, saved,           \* the registers the boot sector set, and where entry keeps them
          al,
          input, output,           \* the controller's two buffers
          keyboard,                \* whether it takes scan codes in
          command,                 \* what its next data byte is for, or an answer it owes
          port,                    \* its output port
          typed,                   \* whether a key has been typed
          at

cpu        == <<passed, saved, al>>
controller == <<input, output, keyboard, command, port, typed>>
vars       == <<cpu, controller, at>>

Empty == [bit0 |-> FALSE, a20 |-> FALSE, rest |-> "empty"]
Own(a20) == [bit0 |-> TRUE, a20 |-> a20, rest |-> "lines"]     \* bit 0 clear resets the machine
None  == [is |-> "none", byte |-> Empty]
Code(c) == [is |-> c, byte |-> Empty]
Data(b) == [is |-> "data", byte |-> b]
Opened(b) == [bit0 |-> b.bit0, a20 |-> TRUE, rest |-> b.rest]

Init == /\ al = Empty                \* and saved is what it was
        /\ input = None /\ output = Empty /\ keyboard = TRUE /\ command = "none"
        /\ \E open \in BOOLEAN : port = Own(open)              \* some BIOSes open it
        /\ typed = FALSE
        /\ at = "entry"

-----------------------------------------------------------------------------
(* The processor. *)

entry ==                           \* cli, and SI and DI are kept
  /\ at = "entry"
  /\ saved' = passed
  /\ at' = "disable"
  /\ UNCHANGED <<passed, al, controller>>

(* A20WaitInput, then OUT. *)
Out(here, byte, next) ==
  /\ at = here
  /\ input = None
  /\ input' = byte
  /\ at' = next
  /\ UNCHANGED <<cpu, output, keyboard, command, port, typed>>

DisableKeyboard  == Out("disable", Code("0xAD"), "ask")
AskForOutputPort == Out("ask", Code("0xD0"), "answer")
AskToWrite       == Out("write", Code("0xD1"), "value")
WriteOutputPort  == Out("value", Data(Opened(al)), "enable")
EnableKeyboard   == Out("enable", Code("0xAE"), "last")

InTooEarly ==                      \* mutant: A20WaitOutput is left out
  /\ at = "answer"
  /\ al' = output /\ output' = Empty
  /\ at' = "write"
  /\ UNCHANGED <<passed, saved, input, keyboard, command, port, typed>>

In ==                              \* A20WaitOutput, then IN
  /\ at = "answer"
  /\ output # Empty
  /\ al' = output /\ output' = Empty
  /\ at' = "write"
  /\ UNCHANGED <<passed, saved, input, keyboard, command, port, typed>>

ProtectedMode ==                   \* the last A20WaitInput; GDT, CR0, .bss cleared, start
  /\ at = "last"
  /\ input = None
  /\ at' = "start"
  /\ UNCHANGED <<cpu, controller>>

-----------------------------------------------------------------------------
(* The controller and the keyboard.  An answer meets a scan code that is   *)
(* still there: controllers write over it or hold the answer back.         *)

Take ==
  /\ input # None
  /\ input' = None
  /\ CASE input.is = "0xAD" -> keyboard' = FALSE /\ UNCHANGED <<output, command, port, at>>
       [] input.is = "0xAE" -> keyboard' = TRUE /\ UNCHANGED <<output, command, port, at>>
       [] input.is = "0xD0" -> \/ output' = port /\ UNCHANGED <<keyboard, command, port, at>>
                               \/ output # Empty /\ command' = "answer" /\ UNCHANGED <<keyboard, output, port, at>>
       [] input.is = "0xD1" -> command' = "write" /\ UNCHANGED <<output, keyboard, port, at>>
       [] input.is = "data" -> /\ port' = input.byte
                               /\ at' = IF input.byte.bit0 THEN at ELSE "reset"
                               /\ command' = IF command = "write" THEN "none" ELSE command
                               /\ UNCHANGED <<output, keyboard>>
  /\ UNCHANGED <<cpu, typed>>

Answer ==
  /\ command = "answer" /\ output = Empty
  /\ output' = port
  /\ command' = "none"
  /\ UNCHANGED <<cpu, input, keyboard, port, typed, at>>

TypeKey ==                         \* bound: one key, before start
  /\ keyboard /\ output = Empty /\ ~typed
  /\ output' \in ScanCodes
  /\ typed' = TRUE
  /\ UNCHANGED <<cpu, input, keyboard, command, port, at>>

Steps == \/ entry \/ DisableKeyboard \/ AskForOutputPort \/ In \/ AskToWrite \/ WriteOutputPort
         \/ EnableKeyboard \/ ProtectedMode \/ Take \/ Answer

Running == at # "start" /\ at # "reset"

Next == Running /\ (Steps \/ TypeKey)

Spec == Init /\ [][Next]_vars /\ WF_vars(Running /\ Steps)

-----------------------------------------------------------------------------
(* When stage 2's C code runs, A20 is open, and nothing else of the        *)
(* controller's output port has changed unless a key was typed while the   *)
(* port was being read (entry.asm:85); only then can the machine have been *)
(* reset by the byte written back.                                         *)
OnlyA20Changes ==
  /\ at = "start" => port.a20 /\ (typed \/ port = Own(TRUE))
  /\ at = "reset" => typed
=============================================================================
