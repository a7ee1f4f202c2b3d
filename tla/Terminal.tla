------------------------------ MODULE Terminal ------------------------------
(***************************************************************************)
(* What the text screen promises: characters are typed on an endless sheet *)
(* of paper, line after line, of which the last Height lines are in view.  *)
(* The boot loader and the kernel implement it with Height lines of memory *)
(* and a scroll (modules TextScreen and Console).                          *)
(***************************************************************************)
EXTENDS Integers, Sequences

CONSTANTS Width, Height,
          Nul,             \* what an empty place holds
          Characters       \* those that leave a mark

VARIABLES paper,           \* the lines so far
          row, col,        \* where the next character goes, line 1 the first
          blink            \* where the cursor is seen

vars == <<paper, row, col, blink>>

Blank == [x \in 0..Width - 1 |-> Nul]
Here  == [paper |-> paper, row |-> row, col |-> col]

NewLine(s) == [s EXCEPT !.row = @ + 1, !.col = 0,
                        !.paper = IF s.row = Len(@) THEN Append(@, Blank) ELSE @]

Put(s, c) == LET marked == [s EXCEPT !.paper[s.row][s.col] = c]
             IN IF s.col = Width - 1 THEN NewLine(marked) ELSE [marked EXCEPT !.col = @ + 1]

Spaces(s, n) == LET put[i \in 0..n] == IF i = 0 THEN s ELSE Put(put[i - 1], " ") IN put[n]

Reach(s) == /\ paper' = s.paper
            /\ row' = s.row
            /\ col' = s.col
            /\ blink' = <<s.row, s.col>>

Init == /\ Len(paper) = Height
        /\ row = 1 /\ col = 0
        /\ blink \in (1..Height) \X (0..Width - 1)

Clear   == Reach([paper |-> [y \in 1..Height |-> Blank], row |-> 1, col |-> 0])
Mark(c) == Reach(Put(Here, c))
Feed    == Reach(NewLine(Here))
Return  == Reach([Here EXCEPT !.col = 0])
Tab     == \E n \in 1..4 : Reach(Spaces(Here, n))

(* A program that knows nothing of the one before it starts at the top of  *)
(* what is in view, over the text that is there.                           *)
Restart == /\ row' = Len(paper) - Height + 1
           /\ col' = 0
           /\ UNCHANGED <<paper, blink>>

Next == \/ Clear \/ Feed \/ Return \/ Tab \/ Restart
        \/ \E c \in Characters : Mark(c)

Spec == Init /\ [][Next]_vars
=============================================================================
