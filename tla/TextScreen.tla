----------------------------- MODULE TextScreen -----------------------------
(***************************************************************************)
(* The text screen as stage 2's stdio.c keeps it, of which the kernel's    *)
(* vga_text.c is a copy: the characters in video memory, g_ScreenX and     *)
(* g_ScreenY, and the cursor's two bytes in the display controller.  The   *)
(* colour, which is everywhere the same, is left out.  gone is a history:  *)
(* the lines scrolled off the top.  Video memory is taken to keep what is  *)
(* stored in it, as it does in a text mode.                                *)
(***************************************************************************)
EXTENDS Integers, Sequences

CONSTANTS SCREEN_WIDTH, SCREEN_HEIGHT,
          ByteValues,      \* 256: the values of one byte of the cursor
          Nul              \* '\0', an empty place

ASSUME ScreenAssumption == /\ {SCREEN_WIDTH, SCREEN_HEIGHT} \subseteq Nat \ {0}
                           /\ ByteValues \in Nat \ {0}
                           /\ SCREEN_WIDTH * SCREEN_HEIGHT <= ByteValues * ByteValues

Xs    == 0..SCREEN_WIDTH - 1
Ys    == 0..SCREEN_HEIGHT - 1
Blank == [x \in Xs |-> Nul]

setcursor(s) == LET pos == s.y * SCREEN_WIDTH + s.x
                IN [s EXCEPT !.cursor = [low  |-> pos % ByteValues,
                                         high |-> (pos \div ByteValues) % ByteValues]]

clrscr(s) == setcursor([s EXCEPT !.rows = [y \in Ys |-> Blank], !.x = 0, !.y = 0, !.gone = <<>>])

scrollbackKeepsLast(s) ==                \* mutant: the last line is not emptied
  [s EXCEPT !.rows = [y \in Ys |-> IF y + 1 \in Ys THEN s.rows[y + 1] ELSE s.rows[y]],
            !.y = @ - 1,
            !.gone = Append(@, s.rows[0])]

(* The lines move up by one and the last is emptied.                       *)
scrollback(s) == [s EXCEPT !.rows = [y \in Ys |-> IF y + 1 \in Ys THEN s.rows[y + 1] ELSE Blank],
                           !.y = @ - 1,
                           !.gone = Append(@, s.rows[0])]

(* The end of putc, whatever the character was.                            *)
settleLate(s) ==                         \* mutant: g_ScreenX > SCREEN_WIDTH
  LET wrapped == IF s.x > SCREEN_WIDTH THEN [s EXCEPT !.y = @ + 1, !.x = 0] ELSE s
  IN setcursor(IF wrapped.y >= SCREEN_HEIGHT THEN scrollback(wrapped) ELSE wrapped)

settle(s) ==
  LET wrapped == IF s.x >= SCREEN_WIDTH THEN [s EXCEPT !.y = @ + 1, !.x = 0] ELSE s
  IN setcursor(IF wrapped.y >= SCREEN_HEIGHT THEN scrollback(wrapped) ELSE wrapped)

putchr(s, c) == settle([s EXCEPT !.rows[s.y][s.x] = c, !.x = @ + 1])

(* The loop of a tab compares i with 4 - g_ScreenX % 4 while the spaces    *)
(* move g_ScreenX.                                                         *)
tabSpace(s, i) == IF i < 4 - (s.x % 4) THEN putchr(s, " ") ELSE s
tab(s) == tabSpace(tabSpace(tabSpace(tabSpace(s, 0), 1), 2), 3)

putc(s, c) == CASE c = "\n" -> settle([s EXCEPT !.x = 0, !.y = @ + 1])
                [] c = "\t" -> settle(tab(s))
                [] c = "\r" -> settle([s EXCEPT !.x = 0])
                [] OTHER    -> putchr(s, c)
=============================================================================
