---------------------------- MODULE KeyboardRing ----------------------------
(***************************************************************************)
(* The key ring of kernel/arch/i686/keyboard.c after keyboard_install: the *)
(* IRQ1 handler appends, the application in the foreground takes.  The     *)
(* kernel has one CPU and the IRQ gates clear IF, so keyboard_handler runs *)
(* as one step, but between any two machine accesses of the main loop: the *)
(* main loop is cut at every access of a location the handler writes.      *)
(***************************************************************************)
EXTENDS Integers, Sequences

CONSTANTS KEY_BUFFER_SIZE,
          KEY_LSHIFT,
          Keys,                      \* make codes of the other keys
          scancode_to_ascii,         \* 0 for a key outside the table
          scancode_to_ascii_shift

ASSUME RingAssumption ==
  /\ KEY_BUFFER_SIZE \in Nat /\ KEY_BUFFER_SIZE >= 2
  /\ Keys \subseteq 1..127
  /\ KEY_LSHIFT \in 1..127 /\ KEY_LSHIFT \notin Keys
  /\ scancode_to_ascii \in [Keys -> Nat]
  /\ scancode_to_ascii_shift \in [Keys -> Nat]

VARIABLES key_buffer, key_buffer_read, key_buffer_write, shift_pressed,
          app,        \* the application in the foreground: does it read keys?
          pc,         \* where the main loop is
          event,      \* keyboard_get_key's local
          returned    \* what keyboard_get_key last returned

ring     == <<key_buffer, key_buffer_write, shift_pressed>>
main     == <<app, pc, event, returned, key_buffer_read>>
vars     == <<ring, main>>

Slots    == 0 .. KEY_BUFFER_SIZE - 1
Next1(i) == (i + 1) % KEY_BUFFER_SIZE
Byte     == 0..255
Scancodes == {KEY_LSHIFT, KEY_LSHIFT + 128} \cup Keys \cup {k + 128 : k \in Keys}

KeyEvent == [pressed : BOOLEAN, ascii : Nat, scancode : Byte]
NoEvent  == [pressed |-> FALSE, ascii |-> 0, scancode |-> 0]

Init ==
  /\ key_buffer = [s \in Slots |-> NoEvent]
  /\ key_buffer_read = 0
  /\ key_buffer_write = 0
  /\ shift_pressed = FALSE
  /\ app = "other"
  /\ pc = "frame"
  /\ event = NoEvent
  /\ returned = NoEvent

-----------------------------------------------------------------------------
(* The interrupt handler. *)

Ascii(scancode) ==
  IF shift_pressed THEN scancode_to_ascii_shift[scancode] ELSE scancode_to_ascii[scancode]

Release(scancode) ==
  /\ scancode >= 128
  /\ shift_pressed' = (shift_pressed /\ scancode - 128 # KEY_LSHIFT)
  /\ UNCHANGED <<key_buffer, key_buffer_write, main>>

PressShift(scancode) ==
  /\ scancode = KEY_LSHIFT
  /\ shift_pressed' = TRUE
  /\ UNCHANGED <<key_buffer, key_buffer_write, main>>

AddWithoutWrap(scancode) ==          \* mutant: the write index never wraps
  /\ scancode \in Keys
  /\ key_buffer' = [key_buffer EXCEPT ![key_buffer_write] =
       [pressed |-> TRUE, ascii |-> Ascii(scancode), scancode |-> scancode]]
  /\ key_buffer_write < KEY_BUFFER_SIZE
  /\ key_buffer_write' = key_buffer_write + 1
  /\ UNCHANGED <<shift_pressed, main>>

AddNoFullCheck(scancode) ==          \* mutant: the ring's full test is gone
  /\ scancode \in Keys
  /\ key_buffer' = [key_buffer EXCEPT ![key_buffer_write] =
       [pressed |-> TRUE, ascii |-> Ascii(scancode), scancode |-> scancode]]
  /\ key_buffer_write' = Next1(key_buffer_write)
  /\ UNCHANGED <<shift_pressed, main>>

AddToKeyBuffer(scancode) ==
  /\ scancode \in Keys
  /\ Next1(key_buffer_write) # key_buffer_read
  /\ key_buffer' = [key_buffer EXCEPT ![key_buffer_write] =
       [pressed |-> TRUE, ascii |-> Ascii(scancode), scancode |-> scancode]]
  /\ key_buffer_write' = Next1(key_buffer_write)
  /\ UNCHANGED <<shift_pressed, main>>

DropWhenFull(scancode) ==
  /\ scancode \in Keys
  /\ Next1(key_buffer_write) = key_buffer_read
  /\ UNCHANGED vars

keyboard_handler(scancode) ==
  \/ Release(scancode)
  \/ PressShift(scancode)
  \/ AddToKeyBuffer(scancode)
  \/ DropWhenFull(scancode)

-----------------------------------------------------------------------------
(* The main loop: notepad and snake poll once per update, the other        *)
(* applications never do.                                                  *)

keyboard_has_key == key_buffer_read # key_buffer_write

gui_switch_app(a) ==
  /\ pc = "frame"
  /\ app' = a
  /\ UNCHANGED <<ring, pc, event, returned, key_buffer_read>>

PollKey ==                      \* if (keyboard_has_key()) ... keyboard_get_key()
  /\ pc = "frame"
  /\ app = "reads_keys"
  /\ pc' = IF keyboard_has_key THEN "get_key" ELSE "frame"
  /\ UNCHANGED <<ring, app, event, returned, key_buffer_read>>

EnterStale ==                   \* mutant: the first field is left from the last key
  /\ pc = "get_key"
  /\ pc' = "ascii"
  /\ UNCHANGED <<ring, app, event, returned, key_buffer_read>>

EnterGetKey ==                  \* keyboard_get_key's own test of the ring
  /\ pc = "get_key"
  /\ IF keyboard_has_key
     THEN pc' = "pressed" /\ UNCHANGED returned
     ELSE pc' = "frame"   /\ returned' = NoEvent
  /\ event' = NoEvent
  /\ UNCHANGED <<ring, app, key_buffer_read>>

Fields == <<"pressed", "ascii", "scancode">>

CopyField(i) ==                 \* event = key_buffer[key_buffer_read], a field at a time
  /\ pc = Fields[i]
  /\ event' = [event EXCEPT ![Fields[i]] = key_buffer[key_buffer_read][Fields[i]]]
  /\ pc' = IF i = Len(Fields) THEN "advance" ELSE Fields[i + 1]
  /\ UNCHANGED <<ring, app, returned, key_buffer_read>>

AdvanceWithoutWrap ==           \* mutant: the modulus is that of another ring size
  /\ pc = "advance"
  /\ key_buffer_read' = (key_buffer_read + 1) % (KEY_BUFFER_SIZE - 1)
  /\ returned' = event
  /\ pc' = "frame"
  /\ UNCHANGED <<ring, app, event>>

Advance ==
  /\ pc = "advance"
  /\ key_buffer_read' = Next1(key_buffer_read)
  /\ returned' = event
  /\ pc' = "frame"
  /\ UNCHANGED <<ring, app, event>>

keyboard_get_key == \/ EnterGetKey
                    \/ \E i \in 1..Len(Fields) : CopyField(i)
                    \/ Advance

Next == \/ \E scancode \in Scancodes : keyboard_handler(scancode)
        \/ \E a \in {"reads_keys", "other"} : gui_switch_app(a)
        \/ PollKey
        \/ keyboard_get_key

Spec == Init /\ [][Next]_vars

(* The main loop never blocks and an interrupt returns, so the update of   *)
(* the foreground application keeps coming back.  Keys and clicks are the  *)
(* user's and have no fairness.                                            *)
FairSpec == Spec /\ WF_vars(PollKey) /\ WF_vars(keyboard_get_key)

-----------------------------------------------------------------------------
(* Properties. *)

PCs == {"frame", "get_key", "pressed", "ascii", "scancode", "advance"}

TypeOK ==
  /\ key_buffer \in [Slots -> KeyEvent]
  /\ key_buffer_read \in Slots
  /\ key_buffer_write \in Slots
  /\ shift_pressed \in BOOLEAN
  /\ app \in {"reads_keys", "other"}
  /\ pc \in PCs
  /\ event \in KeyEvent
  /\ returned \in KeyEvent

(* The keys between the two indices.                                       *)
Count == IF key_buffer_write >= key_buffer_read
         THEN key_buffer_write - key_buffer_read
         ELSE key_buffer_write - key_buffer_read + KEY_BUFFER_SIZE
Queue == [i \in 1..Count |-> key_buffer[(key_buffer_read + i - 1) % KEY_BUFFER_SIZE]]
Waiting(s) == \E i \in 1..Count : s = (key_buffer_read + i - 1) % KEY_BUFFER_SIZE

(* Between the test of the ring and the advance of the read index no       *)
(* interrupt can empty the ring or change the slot being copied: what is   *)
(* returned is one whole event, never a mix of two.                        *)
Copied(i) == event[Fields[i]] = key_buffer[key_buffer_read][Fields[i]]
EventIntact ==
  /\ pc # "frame" => keyboard_has_key
  /\ pc \in {"ascii", "scancode", "advance"} => Copied(1)
  /\ pc \in {"scancode", "advance"} => Copied(2)
  /\ pc = "advance" => Copied(3)

(* The ring is a bounded queue of KEY_BUFFER_SIZE - 1 keys: order kept,    *)
(* characters fixed at the press, losses only when it is full.             *)
KQ == INSTANCE KeyQueue WITH
        Capacity <- KEY_BUFFER_SIZE - 1,
        Plain    <- scancode_to_ascii,
        Shifted  <- scancode_to_ascii_shift,
        queue    <- Queue,
        shift    <- shift_pressed
ImplementsKeyQueue == KQ!Spec

(* A key in the ring is taken in the end, however fast new keys come, for  *)
(* as long as an application that reads keys stays in the foreground.      *)
EveryKeyTaken ==
  \A s \in Slots : Waiting(s) ~> (~Waiting(s) \/ app # "reads_keys")
=============================================================================
