------------------------------ MODULE KeyQueue ------------------------------
(***************************************************************************)
(* What the keyboard driver promises the applications: the keys typed come *)
(* out in the order they went in, each with the character the shift state  *)
(* gave it when it was pressed; a key is lost only when Capacity keys are  *)
(* already waiting.  keyboard.c implements this with a ring shared by an   *)
(* interrupt handler and the main loop (module KeyboardRing).              *)
(***************************************************************************)
EXTENDS Integers, Sequences

CONSTANTS Capacity,   \* the keys that may wait
          Keys,       \* make codes of the keys other than left shift
          Plain,      \* [Keys -> character], 0 for a key with no character
          Shifted     \* the same with shift down

VARIABLES queue,      \* the keys waiting, oldest first
          shift,      \* left shift is down
          returned    \* the event last handed to an application

vars == <<queue, shift, returned>>

Typed(key, down) ==
  [pressed |-> TRUE, ascii |-> IF down THEN Shifted[key] ELSE Plain[key], scancode |-> key]

NoEvent == [pressed |-> FALSE, ascii |-> 0, scancode |-> 0]

Init == /\ queue = <<>>
        /\ shift = FALSE
        /\ returned = NoEvent

Shift(down) == /\ shift' = down
               /\ UNCHANGED <<queue, returned>>

Press(key) == /\ Len(queue) < Capacity
              /\ queue' = Append(queue, Typed(key, shift))
              /\ UNCHANGED <<shift, returned>>

Lose(key) == /\ Len(queue) = Capacity
             /\ UNCHANGED vars

Take == /\ queue # <<>>
        /\ returned' = Head(queue)
        /\ queue' = Tail(queue)
        /\ UNCHANGED shift

Next == \/ \E down \in BOOLEAN : Shift(down)
        \/ \E key \in Keys : Press(key) \/ Lose(key)
        \/ Take

Spec == Init /\ [][Next]_vars
=============================================================================
