------------------------- MODULE KeyboardRingProofs -------------------------
(* Theorems about KeyboardRing, for every size of the ring, every set of   *)
(* keys and every pair of tables that satisfy RingAssumption.              *)
EXTENDS KeyboardRing, TLAPS

(* The index after the last slot is the first one.                         *)
LEMMA NextSlot ==
  ASSUME NEW s \in Slots
  PROVE  /\ Next1(s) = IF s + 1 = KEY_BUFFER_SIZE THEN 0 ELSE s + 1
         /\ Next1(s) \in Slots
BY RingAssumption DEF Next1, Slots

(* Going round the ring once at most.                                      *)
Wrapped(a) == IF a < KEY_BUFFER_SIZE THEN a ELSE a - KEY_BUFFER_SIZE

LEMMA ModIsSub == \A a \in 0 .. 2 * KEY_BUFFER_SIZE - 1 : a % KEY_BUFFER_SIZE = Wrapped(a)
BY RingAssumption DEF Wrapped

LEMMA NoEventType == NoEvent \in KeyEvent
BY DEF NoEvent, KeyEvent, Byte

LEMMA InitType == Init => TypeOK
<1> SUFFICES ASSUME Init PROVE TypeOK
  OBVIOUS
<1>1. key_buffer \in [Slots -> KeyEvent] /\ event \in KeyEvent /\ returned \in KeyEvent
  BY NoEventType DEF Init
<1>2. key_buffer_read \in Slots /\ key_buffer_write \in Slots
  BY RingAssumption DEF Init, Slots
<1>3. shift_pressed \in BOOLEAN /\ app \in {"reads_keys", "other"} /\ pc \in PCs
  BY DEF Init, PCs
<1> QED
  BY <1>1, <1>2, <1>3 DEF TypeOK

LEMMA NextType == TypeOK /\ [Next]_vars => TypeOK'
<1> SUFFICES ASSUME TypeOK, [Next]_vars PROVE TypeOK'
  OBVIOUS
<1> USE RingAssumption DEF TypeOK
<1>1. ASSUME NEW scancode \in Scancodes, keyboard_handler(scancode) PROVE TypeOK'
  <2>1. CASE Release(scancode)
    BY <2>1 DEF Release, main
  <2>2. CASE PressShift(scancode)
    BY <2>2 DEF PressShift, main
  <2>3. CASE AddToKeyBuffer(scancode)
    <3>1. [pressed |-> TRUE, ascii |-> Ascii(scancode), scancode |-> scancode] \in KeyEvent
      BY <2>3 DEF AddToKeyBuffer, KeyEvent, Ascii, Byte
    <3>2. key_buffer_write' \in Slots
      BY <2>3, NextSlot DEF AddToKeyBuffer
    <3> QED
      BY <2>3, <3>1, <3>2 DEF AddToKeyBuffer, main
  <2>4. CASE DropWhenFull(scancode)
    BY <2>4 DEF DropWhenFull, vars, ring, main
  <2> QED
    BY <1>1, <2>1, <2>2, <2>3, <2>4 DEF keyboard_handler
<1>2. ASSUME NEW a \in {"reads_keys", "other"}, gui_switch_app(a) PROVE TypeOK'
  BY <1>2 DEF gui_switch_app, ring
<1>3. CASE PollKey
  BY <1>3 DEF PollKey, PCs, ring
<1>4. CASE EnterGetKey
  BY <1>4, NoEventType DEF EnterGetKey, PCs, ring
<1>5. ASSUME NEW i \in 1..Len(Fields), CopyField(i) PROVE TypeOK'
  <2>1. i \in 1..3 /\ Len(Fields) = 3
    BY DEF Fields
  <2>2. event' \in KeyEvent
    BY <1>5, <2>1 DEF CopyField, Fields, KeyEvent
  <2>3. pc' \in PCs
    BY <1>5, <2>1 DEF CopyField, Fields, PCs
  <2> QED
    BY <1>5, <2>2, <2>3 DEF CopyField, ring
<1>6. CASE Advance
  BY <1>6, NextSlot DEF Advance, PCs, ring
<1>7. CASE UNCHANGED vars
  BY <1>7 DEF vars, ring, main
<1> QED
  BY <1>1, <1>2, <1>3, <1>4, <1>5, <1>6, <1>7 DEF Next, keyboard_get_key

(* The indices, the events and the program counter of the ring keep their  *)
(* ranges for every ring size.                                             *)
THEOREM TypeCorrect == Spec => []TypeOK
BY InitType, NextType, PTL DEF Spec

-----------------------------------------------------------------------------
LEMMA NextIntact == TypeOK /\ EventIntact /\ [Next]_vars => EventIntact'
<1> SUFFICES ASSUME TypeOK, EventIntact, [Next]_vars PROVE EventIntact'
  OBVIOUS
<1> USE RingAssumption DEF TypeOK, EventIntact, Copied, Fields, keyboard_has_key
<1>1. ASSUME NEW scancode \in Scancodes, keyboard_handler(scancode) PROVE EventIntact'
  <2>1. CASE Release(scancode)
    BY <2>1 DEF Release, main
  <2>2. CASE PressShift(scancode)
    BY <2>2 DEF PressShift, main
  <2>3. CASE AddToKeyBuffer(scancode)
    <3>1. pc # "frame" => key_buffer'[key_buffer_read] = key_buffer[key_buffer_read]
      BY <2>3 DEF AddToKeyBuffer
    <3> QED
      BY <2>3, <3>1 DEF AddToKeyBuffer, main
  <2>4. CASE DropWhenFull(scancode)
    BY <2>4 DEF DropWhenFull, vars, ring, main
  <2> QED
    BY <1>1, <2>1, <2>2, <2>3, <2>4 DEF keyboard_handler
<1>2. ASSUME NEW a \in {"reads_keys", "other"}, gui_switch_app(a) PROVE EventIntact'
  BY <1>2 DEF gui_switch_app, ring
<1>3. CASE PollKey
  BY <1>3 DEF PollKey, ring
<1>4. CASE EnterGetKey
  BY <1>4 DEF EnterGetKey, ring
<1>5. ASSUME NEW i \in 1..Len(Fields), CopyField(i) PROVE EventIntact'
  <2>1. event \in KeyEvent
    OBVIOUS
  <2>2. i \in {1, 2, 3}
    OBVIOUS
  <2>3. CASE i = 1
    BY <1>5, <2>1, <2>3 DEF CopyField, ring, KeyEvent
  <2>4. CASE i = 2
    BY <1>5, <2>1, <2>4 DEF CopyField, ring, KeyEvent
  <2>5. CASE i = 3
    BY <1>5, <2>1, <2>5 DEF CopyField, ring, KeyEvent
  <2> QED
    BY <2>2, <2>3, <2>4, <2>5
<1>6. CASE Advance
  BY <1>6 DEF Advance, ring
<1>7. CASE UNCHANGED vars
  BY <1>7 DEF vars, ring, main
<1> QED
  BY <1>1, <1>2, <1>3, <1>4, <1>5, <1>6, <1>7 DEF Next, keyboard_get_key

(* The event keyboard_get_key returns is the one whole event in the oldest *)
(* slot, whatever keyboard_handler stores while it is being copied.        *)
THEOREM EventNeverTorn == Spec => []EventIntact
<1>1. Init => EventIntact
  BY DEF Init, EventIntact, keyboard_has_key
<1> QED
  BY <1>1, NextIntact, TypeCorrect, PTL DEF Spec

-----------------------------------------------------------------------------
(* The refinement.  Slot(i) is where the i-th oldest key lies.             *)

Slot(i) == (key_buffer_read + i - 1) % KEY_BUFFER_SIZE

LEMMA CountRange ==
  TypeOK => Count \in 0 .. KEY_BUFFER_SIZE - 1
BY RingAssumption DEF TypeOK, Count, Slots

LEMMA SlotValue ==
  ASSUME TypeOK, NEW i \in 1 .. KEY_BUFFER_SIZE
  PROVE  /\ Slot(i) \in Slots
         /\ Slot(i) = Wrapped(key_buffer_read + i - 1)
<1> DEFINE a == key_buffer_read + i - 1
<1>1. a \in 0 .. 2 * KEY_BUFFER_SIZE - 1
  BY RingAssumption DEF TypeOK, Slots
<1>2. Slot(i) = a % KEY_BUFFER_SIZE
  BY DEF Slot
<1>3. a % KEY_BUFFER_SIZE = Wrapped(a)
  BY <1>1, ModIsSub
<1>4. Slot(i) = Wrapped(a)
  BY <1>2, <1>3
<1>5. Wrapped(a) \in Slots
  BY <1>1, RingAssumption DEF Wrapped, Slots
<1> QED
  BY <1>4, <1>5

LEMMA QueueType == TypeOK => Queue \in Seq(KeyEvent) /\ Len(Queue) = Count
<1> SUFFICES ASSUME TypeOK PROVE Queue \in Seq(KeyEvent) /\ Len(Queue) = Count
  OBVIOUS
<1>1. Count \in Nat /\ Count < KEY_BUFFER_SIZE
  BY CountRange, RingAssumption
<1>2. \A i \in 1..Count : key_buffer[Slot(i)] \in KeyEvent
  BY <1>1, SlotValue, RingAssumption DEF TypeOK
<1>3. Queue = [i \in 1..Count |-> key_buffer[Slot(i)]]
  BY DEF Queue, Slot
<1>4. Queue \in [1..Count -> KeyEvent]
  BY <1>2, <1>3
<1> QED
  BY <1>1, <1>4

(* The ring's full test is the queue's.                                    *)
LEMMA FullIsCapacity ==
  TypeOK => (Next1(key_buffer_write) = key_buffer_read <=> Count = KEY_BUFFER_SIZE - 1)
BY NextSlot, RingAssumption DEF TypeOK, Count, Slots

(* Storing an event in the slot at the write index appends it.             *)
LEMMA StoreAppends ==
  ASSUME TypeOK, NEW e \in KeyEvent,
         Next1(key_buffer_write) # key_buffer_read,
         key_buffer' = [key_buffer EXCEPT ![key_buffer_write] = e],
         key_buffer_write' = Next1(key_buffer_write),
         key_buffer_read' = key_buffer_read
  PROVE  Queue' = Append(Queue, e)
<1> DEFINE c == Count
<1>0. key_buffer_write' = IF key_buffer_write + 1 = KEY_BUFFER_SIZE THEN 0 ELSE key_buffer_write + 1
  BY NextSlot DEF TypeOK
<1>1. c \in Nat /\ c < KEY_BUFFER_SIZE - 1 /\ Count' = c + 1
  BY <1>0, RingAssumption DEF TypeOK, Count, Slots
<1>2. Slot(c + 1) = key_buffer_write
  BY <1>1, SlotValue, RingAssumption DEF TypeOK, Count, Slots, Wrapped
<1>3. \A i \in 1..c : Slot(i) \in Slots /\ Slot(i) # key_buffer_write
  BY <1>1, SlotValue, RingAssumption DEF TypeOK, Count, Slots, Wrapped
<1>4. \A i : Slot(i)' = Slot(i)
  BY DEF Slot
<1>5. Queue = [i \in 1..c |-> key_buffer[Slot(i)]]
  BY DEF Queue, Slot
<1>6. Queue' = [i \in 1..(c + 1) |-> key_buffer'[Slot(i)]]
  BY <1>1, <1>4 DEF Queue, Slot
<1>7. key_buffer'[Slot(c + 1)] = e
  BY <1>2 DEF TypeOK
<1>8. \A i \in 1..c : key_buffer'[Slot(i)] = key_buffer[Slot(i)]
  BY <1>3 DEF TypeOK
<1>9. Queue \in Seq(KeyEvent) /\ Len(Queue) = c
  BY QueueType
<1> HIDE DEF c
<1> QED
  BY <1>1, <1>5, <1>6, <1>7, <1>8, <1>9

(* Advancing the read index removes the oldest event.                      *)
LEMMA AdvanceTakes ==
  ASSUME TypeOK, keyboard_has_key,
         key_buffer_read' = Next1(key_buffer_read),
         UNCHANGED <<key_buffer, key_buffer_write>>
  PROVE  /\ Queue # <<>>
         /\ Head(Queue) = key_buffer[key_buffer_read]
         /\ Queue' = Tail(Queue)
<1> DEFINE c == Count
<1>0. key_buffer_read' = IF key_buffer_read + 1 = KEY_BUFFER_SIZE THEN 0 ELSE key_buffer_read + 1
  BY NextSlot DEF TypeOK
<1>1. c \in Nat /\ c > 0 /\ c < KEY_BUFFER_SIZE /\ Count' = c - 1
  BY <1>0, RingAssumption DEF TypeOK, Count, Slots, keyboard_has_key
<1>2. \A i \in 1..(c - 1) : Slot(i)' = Slot(i + 1)
  <2>1. key_buffer_read' \in Slots
    BY NextSlot DEF TypeOK
  <2>2. ASSUME NEW i \in 1..(c - 1) PROVE Slot(i)' = Slot(i + 1)
    <3> DEFINE a == key_buffer_read' + i - 1
               b == key_buffer_read + i
    <3>1. a \in 0 .. 2 * KEY_BUFFER_SIZE - 1 /\ b \in 0 .. 2 * KEY_BUFFER_SIZE - 1
      BY <1>1, <2>1, RingAssumption DEF Slots, TypeOK
    <3>2. Slot(i)' = a % KEY_BUFFER_SIZE
      BY DEF Slot
    <3>3. Slot(i + 1) = b % KEY_BUFFER_SIZE
      BY DEF Slot, TypeOK, Slots
    <3>4. a = b \/ a = b - KEY_BUFFER_SIZE
      BY <1>0, RingAssumption DEF TypeOK, Slots
    <3>5. a % KEY_BUFFER_SIZE = Wrapped(a) /\ b % KEY_BUFFER_SIZE = Wrapped(b)
      BY <3>1, ModIsSub
    <3> HIDE DEF a, b
    <3>6. Wrapped(a) = Wrapped(b)
      BY <3>1, <3>4, RingAssumption DEF Wrapped
    <3> QED
      BY <3>2, <3>3, <3>5, <3>6
  <2> QED
    BY <2>2
<1>3. Slot(1) = key_buffer_read
  BY SlotValue, RingAssumption DEF TypeOK, Slots, Wrapped
<1>4. Queue = [i \in 1..c |-> key_buffer[Slot(i)]]
  BY DEF Queue, Slot
<1>5. Queue' = [i \in 1..(c - 1) |-> key_buffer[Slot(i + 1)]]
  BY <1>1, <1>2 DEF Queue, Slot
<1>6. Queue \in Seq(KeyEvent) /\ Len(Queue) = c
  BY QueueType
<1> HIDE DEF c
<1>7. Queue # <<>> /\ Head(Queue) = key_buffer[key_buffer_read]
  BY <1>1, <1>3, <1>4, <1>6
<1>8. Queue' = Tail(Queue)
  BY <1>1, <1>4, <1>5, <1>6
<1> QED
  BY <1>7, <1>8

LEMMA QueueSame ==
  UNCHANGED <<key_buffer, key_buffer_read, key_buffer_write>> => UNCHANGED Queue
BY DEF Queue, Count

LEMMA InitRefines == Init => KQ!Init
<1> SUFFICES ASSUME Init PROVE KQ!Init
  OBVIOUS
<1>1. TypeOK /\ Count = 0
  BY InitType DEF Init, Count
<1>2. Queue = <<>>
  BY <1>1, QueueType
<1> QED
  BY <1>2 DEF Init, KQ!Init, NoEvent, KQ!NoEvent

LEMMA StepRefines == TypeOK /\ EventIntact /\ [Next]_vars => [KQ!Next]_(KQ!vars)
<1> SUFFICES ASSUME TypeOK, EventIntact, [Next]_vars PROVE [KQ!Next]_(KQ!vars)
  OBVIOUS
<1> USE DEF KQ!vars
<1>1. ASSUME NEW scancode \in Scancodes, keyboard_handler(scancode) PROVE KQ!Next
  <2>1. CASE Release(scancode)
    <3>1. KQ!Shift(shift_pressed')
      BY <2>1, QueueSame DEF Release, main, KQ!Shift
    <3>2. shift_pressed' \in BOOLEAN
      BY <2>1 DEF Release
    <3> QED
      BY <3>1, <3>2 DEF KQ!Next
  <2>2. CASE PressShift(scancode)
    <3>1. KQ!Shift(TRUE)
      BY <2>2, QueueSame DEF PressShift, main, KQ!Shift
    <3> QED
      BY <3>1 DEF KQ!Next
  <2>3. CASE AddToKeyBuffer(scancode)
    <3> DEFINE e == [pressed |-> TRUE, ascii |-> Ascii(scancode), scancode |-> scancode]
    <3>1. e \in KeyEvent /\ scancode \in Keys
      BY <2>3, RingAssumption DEF AddToKeyBuffer, KeyEvent, Ascii, Byte, TypeOK
    <3>2. e = KQ!Typed(scancode, shift_pressed)
      BY DEF KQ!Typed, Ascii
    <3>3. Queue' = Append(Queue, e)
      BY <2>3, <3>1, StoreAppends DEF AddToKeyBuffer, main
    <3>4. Len(Queue) < KEY_BUFFER_SIZE - 1
      <4>1. Count \in 0 .. KEY_BUFFER_SIZE - 1 /\ Count # KEY_BUFFER_SIZE - 1
        BY <2>3, CountRange, FullIsCapacity DEF AddToKeyBuffer
      <4> QED
        BY <4>1, QueueType, RingAssumption
    <3>5. KQ!Press(scancode)
      BY <2>3, <3>2, <3>3, <3>4 DEF AddToKeyBuffer, main, KQ!Press
    <3> QED
      BY <3>1, <3>5 DEF KQ!Next
  <2>4. CASE DropWhenFull(scancode)
    <3>1. Len(Queue) = KEY_BUFFER_SIZE - 1
      BY <2>4, QueueType, FullIsCapacity DEF DropWhenFull
    <3>2. KQ!Lose(scancode)
      BY <2>4, <3>1, QueueSame DEF DropWhenFull, vars, ring, main, KQ!Lose
    <3> QED
      BY <2>4, <3>2 DEF DropWhenFull, KQ!Next
  <2> QED
    BY <1>1, <2>1, <2>2, <2>3, <2>4 DEF keyboard_handler
<1>2. ASSUME NEW a \in {"reads_keys", "other"}, gui_switch_app(a) PROVE UNCHANGED KQ!vars
  BY <1>2, QueueSame DEF gui_switch_app, ring
<1>3. CASE PollKey
  BY <1>3, QueueSame DEF PollKey, ring
<1>4. CASE EnterGetKey
  BY <1>4, QueueSame DEF EnterGetKey, ring, EventIntact
<1>5. ASSUME NEW i \in 1..Len(Fields), CopyField(i) PROVE UNCHANGED KQ!vars
  BY <1>5, QueueSame DEF CopyField, ring
<1>6. CASE Advance
  <2>1. event = key_buffer[key_buffer_read]
    <3>1. event \in KeyEvent /\ key_buffer[key_buffer_read] \in KeyEvent
      BY DEF TypeOK
    <3>2. /\ event.pressed = key_buffer[key_buffer_read].pressed
          /\ event.ascii = key_buffer[key_buffer_read].ascii
          /\ event.scancode = key_buffer[key_buffer_read].scancode
      BY <1>6 DEF Advance, EventIntact, Copied, Fields
    <3> QED
      BY <3>1, <3>2 DEF KeyEvent
  <2>2. KQ!Take
    BY <1>6, <2>1, AdvanceTakes DEF Advance, EventIntact, ring, KQ!Take
  <2> QED
    BY <2>2 DEF KQ!Next
<1>7. CASE UNCHANGED vars
  BY <1>7, QueueSame DEF vars, ring, main
<1> QED
  BY <1>1, <1>2, <1>3, <1>4, <1>5, <1>6, <1>7 DEF Next, keyboard_get_key

(* The ring implements the queue: no key is lost while fewer than          *)
(* KEY_BUFFER_SIZE - 1 wait, none is duplicated, reordered or given the    *)
(* character of another shift state.                                       *)
THEOREM RingImplementsQueue == Spec => ImplementsKeyQueue
BY InitRefines, StepRefines, TypeCorrect, EventNeverTorn, PTL DEF Spec, ImplementsKeyQueue, KQ!Spec
=============================================================================
