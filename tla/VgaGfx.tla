------------------------------- MODULE VgaGfx -------------------------------
(***************************************************************************)
(* Drawing in the frame buffer, vga_gfx.c, with the strings of gui.c and   *)
(* the glyphs of font.c.  Pixels do not influence each other, so a few of  *)
(* them are looked at.  A drawing is the sequence of what it puts, each    *)
(* the pixels it touches and their colour; painting it leaves in a pixel   *)
(* the last colour put there.  What falls off the screen touches nothing.  *)
(***************************************************************************)
EXTENDS Integers, Sequences, FiniteSetsExt

CONSTANTS Pixels,        \* the pixels looked at
          Inked          \* of them, those that a glyph over them sets; it passes by the others

Screen == (0..319) \X (0..199)

ASSUME VgaAssumption == Pixels \subseteq Screen /\ Inked \subseteq Pixels

BLACK      == 0
GREEN      == 2
RED        == 4
LIGHT_GRAY == 7
DARK_GRAY  == 8
YELLOW     == 14
WHITE      == 15

Within(x, y, width, height) ==
  {p \in Pixels : p[1] \in x..x + width - 1 /\ p[2] \in y..y + height - 1}

(* A rectangle, and a line of text: one glyph of 8 by 8 after the other.   *)
Rectangle(x, y, width, height, color) == [at |-> Within(x, y, width, height), color |-> color]
Glyphs(x, y, length, color)           == [at |-> Within(x, y, 8 * length, 8) \cap Inked, color |-> color]

Some(put) == IF put.at = {} THEN <<>> ELSE <<put>>

fill_rect(x, y, width, height, color) == Some(Rectangle(x, y, width, height, color))
draw_string(x, y, length, color)      == Some(Glyphs(x, y, length, color))
put_pixel(x, y, color)                == fill_rect(x, y, 1, 1, color)

(* Neither upright nor level: nothing.  Backwards: nothing either.         *)
draw_line(x0, y0, x1, y1, color) ==
  IF x0 = x1 \/ y0 = y1 THEN fill_rect(x0, y0, x1 - x0 + 1, y1 - y0 + 1, color) ELSE <<>>

Paint(buffer, drawing) ==
  [p \in DOMAIN buffer |->
     LET puts == {k \in DOMAIN drawing : p \in drawing[k].at}
     IN  IF puts = {} THEN buffer[p] ELSE drawing[Max(puts)].color]
=============================================================================
