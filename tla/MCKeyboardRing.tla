--------------------------- MODULE MCKeyboardRing ---------------------------
(* A ring of four slots; key A (0x1E) has a character in both tables, the  *)
(* up arrow (0x48) has none.                                               *)
EXTENDS KeyboardRing, TLC

KeyA == 30
KeyUp == 72
MCKeys  == {KeyA, KeyUp}
MCPlain == KeyA :> 97 @@ KeyUp :> 0
MCShift == KeyA :> 65 @@ KeyUp :> 0
=============================================================================
