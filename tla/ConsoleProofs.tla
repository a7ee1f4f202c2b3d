---------------------------- MODULE ConsoleProofs ----------------------------
(***************************************************************************)
(* For a screen of any size, whatever is printed and whenever the handlers *)
(* interrupt: every character is stored inside the screen's memory.  Of    *)
(* texts that are well spelled, whatever their formats: vfprintf says what *)
(* each means (FormatsAreRead), every call writes it whole although it is  *)
(* interrupted, and the screen implements Terminal.                        *)
(***************************************************************************)
EXTENDS Console, WellFoundedInduction, FiniteSetTheorems, TLAPS

Fields == {"rows", "x", "y", "cursor", "gone"}
Screen(s) == s = [k \in Fields |-> s[k]]
Inside(s) == Screen(s) /\ s.x \in Xs /\ s.y \in Ys

(* setcursor and scrollback leave the place of the next character alone,   *)
(* but for the line that scrollback moves up.                              *)
LEMMA SetCursorKeeps ==
  ASSUME NEW s, Screen(s)
  PROVE  Screen(setcursor(s)) /\ setcursor(s).x = s.x /\ setcursor(s).y = s.y
  BY DEF Screen, Fields, setcursor

LEMMA ScrollbackKeeps ==
  ASSUME NEW s, Screen(s)
  PROVE  Screen(scrollback(s)) /\ scrollback(s).x = s.x /\ scrollback(s).y = s.y - 1
  BY DEF Screen, Fields, scrollback

(* The end of putc brings back inside what is one step outside, on the     *)
(* right or below but not both.                                            *)
LEMMA SettleInside ==
  ASSUME NEW s, Screen(s),
         \/ s.x \in 0..SCREEN_WIDTH /\ s.y \in Ys
         \/ s.x \in Xs /\ s.y \in 0..SCREEN_HEIGHT
  PROVE  Inside(settle(s))
<1> DEFINE w == IF s.x >= SCREEN_WIDTH THEN [s EXCEPT !.y = @ + 1, !.x = 0] ELSE s
           v == IF w.y >= SCREEN_HEIGHT THEN scrollback(w) ELSE w
<1>1. Screen(w) /\ w.x \in Xs /\ w.y \in 0..SCREEN_HEIGHT
  <2>1. CASE s.x >= SCREEN_WIDTH
    <3>1. w = [s EXCEPT !.y = @ + 1, !.x = 0] /\ s.y \in Ys
      BY <2>1, ScreenAssumption DEF Xs, Ys
    <3>2. Screen(w) /\ w.x = 0 /\ w.y = s.y + 1
      BY <3>1 DEF Screen, Fields
    <3> HIDE DEF w
    <3> QED BY <3>1, <3>2, ScreenAssumption DEF Xs, Ys
  <2>2. CASE ~(s.x >= SCREEN_WIDTH)
    <3>1. w = s
      BY <2>2
    <3>2. s.x \in Xs /\ s.y \in 0..SCREEN_HEIGHT
      BY <2>2, ScreenAssumption DEF Xs, Ys
    <3> HIDE DEF w
    <3> QED BY <3>1, <3>2
  <2> QED BY <2>1, <2>2
<1> HIDE DEF w
<1>2. Inside(v)
  <2>1. CASE w.y >= SCREEN_HEIGHT
    <3>1. v = scrollback(w) /\ w.y = SCREEN_HEIGHT
      BY <2>1, <1>1, ScreenAssumption
    <3>2. Screen(v) /\ v.x = w.x /\ v.y = SCREEN_HEIGHT - 1
      BY <3>1, <1>1, ScrollbackKeeps
    <3> HIDE DEF v
    <3> QED BY <3>2, <1>1, ScreenAssumption DEF Inside, Ys
  <2>2. CASE ~(w.y >= SCREEN_HEIGHT)
    <3>1. v = w /\ w.y \in Ys
      BY <2>2, <1>1, ScreenAssumption DEF Ys
    <3> HIDE DEF v
    <3> QED BY <3>1, <1>1 DEF Inside
  <2> QED BY <2>1, <2>2
<1> HIDE DEF v
<1>3. settle(s) = setcursor(v)
  BY DEF settle, v, w
<1> QED BY <1>2, <1>3, SetCursorKeeps DEF Inside

LEMMA PutchrInside ==
  ASSUME NEW s, Inside(s), NEW c
  PROVE  Inside(putchr(s, c))
<1> DEFINE m == [s EXCEPT !.rows[s.y][s.x] = c, !.x = @ + 1]
<1>1. Screen(m) /\ m.x = s.x + 1 /\ m.y = s.y
  BY DEF Inside, Screen, Fields
<1>2. m.x \in 0..SCREEN_WIDTH /\ m.y \in Ys
  BY <1>1, ScreenAssumption DEF Inside, Xs
<1> HIDE DEF m
<1>3. Inside(settle(m))
  BY <1>1, <1>2, SettleInside
<1> QED BY <1>3 DEF putchr, m

LEMMA TabInside ==
  ASSUME NEW s, Inside(s)
  PROVE  Inside(tab(s))
<1>1. \A t, i : Inside(t) => Inside(tabSpace(t, i))
  BY PutchrInside DEF tabSpace
<1> QED BY <1>1 DEF tab

(* putc keeps the next place inside, for every character.                  *)
LEMMA PutcInside ==
  ASSUME NEW s, Inside(s), NEW c
  PROVE  Inside(putc(s, c))
<1>1. CASE c = "\n"
  <2> DEFINE m == [s EXCEPT !.x = 0, !.y = @ + 1]
  <2>1. Screen(m) /\ m.x = 0 /\ m.y = s.y + 1
    BY DEF Inside, Screen, Fields
  <2>2. m.x \in Xs /\ m.y \in 0..SCREEN_HEIGHT
    BY <2>1, ScreenAssumption DEF Inside, Xs, Ys
  <2> HIDE DEF m
  <2>3. Inside(settle(m))
    BY <2>1, <2>2, SettleInside
  <2>4. putc(s, c) = settle(m)
    BY <1>1 DEF putc, m
  <2> QED BY <2>3, <2>4
<1>2. CASE c = "\t"
  <2>1. Inside(tab(s))
    BY TabInside
  <2>2. Inside(settle(tab(s)))
    BY <2>1, SettleInside, ScreenAssumption DEF Inside, Xs
  <2>3. putc(s, c) = settle(tab(s))
    BY <1>2 DEF putc
  <2> QED BY <2>2, <2>3
<1>3. CASE c = "\r"
  <2> DEFINE m == [s EXCEPT !.x = 0]
  <2>1. Screen(m) /\ m.x = 0 /\ m.y = s.y
    BY DEF Inside, Screen, Fields
  <2>2. m.x \in 0..SCREEN_WIDTH /\ m.y \in Ys
    BY <2>1, ScreenAssumption DEF Inside
  <2> HIDE DEF m
  <2>3. Inside(settle(m))
    BY <2>1, <2>2, SettleInside
  <2>4. putc(s, c) = settle(m)
    BY <1>3 DEF putc, m
  <2> QED BY <2>3, <2>4
<1>4. CASE c \notin {"\n", "\t", "\r"}
  BY <1>4, PutchrInside DEF putc
<1> QED BY <1>1, <1>2, <1>3, <1>4

-----------------------------------------------------------------------------
(* The inductive invariant. *)
Placed == Inside(screen)

LEMMA InitInside == Init => Placed
<1> SUFFICES ASSUME Init PROVE Inside(screen)
  BY DEF Placed
<1>1. PICK x \in Xs, y \in Ys : screen = [Leftover(x, y) EXCEPT !.x = 0, !.y = 0]
  BY DEF Init
<1>2. Screen(Leftover(x, y))
  BY DEF Leftover, setcursor, Screen, Fields
<1>3. Screen(screen) /\ screen.x = 0 /\ screen.y = 0
  BY <1>1, <1>2 DEF Screen, Fields
<1> QED BY <1>3, ScreenAssumption DEF Inside, Xs, Ys

LEMMA NextInside == Placed /\ [Next]_vars => Placed'
<1> SUFFICES ASSUME Inside(screen), [Next]_vars PROVE Inside(screen')
  BY DEF Placed
<1>1. ASSUME NEW ctx \in Contexts, fputc(ctx) PROVE Inside(screen')
  BY <1>1, PutcInside DEF fputc, VFS_Write, VGA_putc
<1>2. CASE ClearScreen
  <2> DEFINE m == [screen EXCEPT !.rows = [y \in Ys |-> Blank], !.x = 0, !.y = 0, !.gone = <<>>]
  <2>1. Screen(m) /\ m.x = 0 /\ m.y = 0
    BY DEF Inside, Screen, Fields
  <2> HIDE DEF m
  <2>2. Inside(setcursor(m))
    BY <2>1, SetCursorKeeps, ScreenAssumption DEF Inside, Xs, Ys
  <2> QED BY <1>2, <2>2 DEF ClearScreen, clrscr, m
<1>3. CASE EnterKernel
  <2>1. screen' = [screen EXCEPT !.x = 0, !.y = 0]
    BY <1>3 DEF EnterKernel
  <2>2. Screen(screen') /\ screen'.x = 0 /\ screen'.y = 0
    BY <2>1 DEF Inside, Screen, Fields
  <2> QED BY <2>2, ScreenAssumption DEF Inside, Xs, Ys
<1>4. ASSUME \/ \E ctx \in Contexts : Begin(ctx) \/ Format(ctx) \/ Return(ctx)
             \/ EnableInterrupts \/ Interrupt \/ UNCHANGED vars
      PROVE  Inside(screen')
  BY <1>4 DEF Begin, Format, Return, EnableInterrupts, Interrupt, vars
<1> QED BY <1>1, <1>2, <1>3, <1>4 DEF Next

(* g_ScreenX and g_ScreenY never leave the screen, whichever programs,     *)
(* handlers and characters there are: putc writes to no other memory.      *)
THEOREM ScreenStaysInside == Spec => []InsideScreen
<1>1. Placed => InsideScreen
  BY DEF Placed, Inside, InsideScreen
<1> QED BY <1>1, InitInside, NextInside, PTL DEF Spec

-----------------------------------------------------------------------------
(* What a place of the screen may hold.                                    *)
Marks == Characters \cup {Nul, "?", " "}
Lines == [Xs -> Marks]

(* The sheet that a screen shows, and where the cursor is seen on it.      *)
Paper(s)    == s.gone \o [n \in 1..SCREEN_HEIGHT |-> s.rows[n - 1]]
Row(s)      == Len(s.gone) + s.y + 1
View(s)     == [paper |-> Paper(s), row |-> Row(s), col |-> s.x]
Position(s) == s.cursor.high * ByteValues + s.cursor.low
Blink(s)    == <<Len(s.gone) + Position(s) \div SCREEN_WIDTH + 1, Position(s) % SCREEN_WIDTH>>

Filled(s) == Screen(s) /\ s.rows \in [Ys -> Lines] /\ s.gone \in Seq(Lines)

(* The cursor is seen where the next character goes.                       *)
Seen(s)  == Blink(s) = <<Row(s), s.x>>

-----------------------------------------------------------------------------
LEMMA BlankLine == Sheet!Blank = Blank /\ Blank \in Lines
BY DEF Sheet!Blank, Blank, Lines, Xs, Marks

LEMMA Dimensions == SCREEN_WIDTH \in Nat \ {0} /\ SCREEN_HEIGHT \in Nat \ {0} /\ ByteValues \in Nat \ {0}
BY ScreenAssumption

LEMMA PaperIs ==
  ASSUME NEW s, Filled(s)
  PROVE  /\ Paper(s) \in Seq(Lines)
         /\ Len(s.gone) \in Nat
         /\ Len(Paper(s)) = Len(s.gone) + SCREEN_HEIGHT
         /\ \A i \in 1..Len(s.gone) : Paper(s)[i] = s.gone[i]
         /\ \A y \in Ys : Paper(s)[Len(s.gone) + y + 1] = s.rows[y]
<1> DEFINE t == [n \in 1..SCREEN_HEIGHT |-> s.rows[n - 1]]
           g == s.gone
<1>1. g \in Seq(Lines)
  BY DEF Filled
<1>2. t \in Seq(Lines) /\ Len(t) = SCREEN_HEIGHT /\ \A n \in 1..SCREEN_HEIGHT : t[n] = s.rows[n - 1]
  <2>1. ASSUME NEW n \in 1..SCREEN_HEIGHT PROVE s.rows[n - 1] \in Lines
    <3>1. n - 1 \in Ys
      BY Dimensions DEF Ys
    <3> QED
      BY <3>1 DEF Filled
  <2> QED
    BY <2>1, Dimensions
<1>3. Paper(s) = g \o t
  BY DEF Paper
<1> HIDE DEF g, t
<1>4. /\ g \o t \in Seq(Lines) /\ Len(g \o t) = Len(g) + Len(t)
      /\ \A i \in 1..Len(g) : (g \o t)[i] = g[i]
      /\ \A n \in 1..Len(t) : (g \o t)[Len(g) + n] = t[n]
  <2>1. t \in Seq(Lines)
    BY <1>2
  <2> QED
    BY <1>1, <2>1
<1>5. Len(g) \in Nat
  BY <1>1
<1>6. ASSUME NEW y \in Ys PROVE (g \o t)[Len(g) + y + 1] = s.rows[y]
  <2>1. y + 1 \in 1..SCREEN_HEIGHT /\ (y + 1) - 1 = y /\ Len(g) + (y + 1) = Len(g) + y + 1
    BY <1>5, Dimensions DEF Ys
  <2>2. (g \o t)[Len(g) + (y + 1)] = t[y + 1] /\ t[y + 1] = s.rows[(y + 1) - 1]
    BY <1>2, <1>4, <2>1
  <2> QED
    BY <2>1, <2>2
<1> QED
  BY <1>2, <1>3, <1>4, <1>5, <1>6 DEF g

(* A sequence of lines is what its places hold.                            *)
LEMMA SameLines ==
  ASSUME NEW p \in Seq(Lines), NEW q \in Seq(Lines), Len(p) = Len(q),
         \A i \in 1..Len(p) : p[i] = q[i]
  PROVE  p = q
OBVIOUS

(* Each place of the sheet is a line gone or a line of the screen.         *)
LEMMA PaperPlaces ==
  ASSUME NEW k \in Nat, NEW i \in 1..k + SCREEN_HEIGHT
  PROVE  i \in 1..k \/ \E y \in Ys : i = k + y + 1
<1>1. CASE i <= k
  BY <1>1
<1>2. CASE ~(i <= k)
  <2>1. i - k - 1 \in Ys /\ i = k + (i - k - 1) + 1
    BY <1>2, Dimensions DEF Ys
  <2> QED
    BY <2>1
<1> QED
  BY <1>1, <1>2

-----------------------------------------------------------------------------
(* The abstract operations on a record of paper, row and column. *)

At(p, r, c) == [paper |-> p, row |-> r, col |-> c]

LEMMA NewLineIs ==
  ASSUME NEW p, NEW r, NEW c
  PROVE  Sheet!NewLine(At(p, r, c)) = At(IF r = Len(p) THEN Append(p, Blank) ELSE p, r + 1, 0)
<1> DEFINE d == IF r = Len(p) THEN Append(p, Blank) ELSE p
<1>1. ASSUME NEW a, NEW b, NEW e
      PROVE  [At(p, r, c) EXCEPT !.row = a, !.col = b, !.paper = e] = At(e, a, b)
  <2>1. [At(p, r, c) EXCEPT !.row = a] = At(p, a, c)
    BY DEF At
  <2>2. [At(p, a, c) EXCEPT !.col = b] = At(p, a, b)
    BY DEF At
  <2>3. [At(p, a, b) EXCEPT !.paper = e] = At(e, a, b)
    BY DEF At
  <2>4. [At(p, r, c) EXCEPT !.row = a, !.col = b, !.paper = e]
          = [[[At(p, r, c) EXCEPT !.row = a] EXCEPT !.col = b] EXCEPT !.paper = e]
    OBVIOUS
  <2> QED
    BY <2>1, <2>2, <2>3, <2>4, Zenon
<1>2. At(p, r, c).paper = p /\ At(p, r, c).row = r
  BY DEF At
<1>3. Sheet!NewLine(At(p, r, c))
        = [At(p, r, c) EXCEPT !.row = @ + 1, !.col = 0,
                              !.paper = IF At(p, r, c).row = Len(@) THEN Append(@, Sheet!Blank) ELSE @]
  BY DEF Sheet!NewLine
<1>4. Sheet!NewLine(At(p, r, c)) = [At(p, r, c) EXCEPT !.row = r + 1, !.col = 0, !.paper = d]
  BY <1>2, <1>3, BlankLine
<1> QED
  BY <1>1, <1>4

Marked(p, r, c, ch) == [p EXCEPT ![r][c] = ch]

LEMMA PutIs ==
  ASSUME NEW p, NEW r, NEW c, NEW ch
  PROVE  Sheet!Put(At(p, r, c), ch) = IF c = SCREEN_WIDTH - 1 THEN Sheet!NewLine(At(Marked(p, r, c, ch), r, c))
                                      ELSE At(Marked(p, r, c, ch), r, c + 1)
<1> DEFINE q == Marked(p, r, c, ch)
<1>1. [At(p, r, c) EXCEPT !.paper[r][c] = ch] = At(q, r, c)
  BY DEF At, Marked
<1> HIDE DEF q
<1>2. [At(q, r, c) EXCEPT !.col = @ + 1] = At(q, r, c + 1)
  BY DEF At
<1>3. At(p, r, c).row = r /\ At(p, r, c).col = c
  BY DEF At
<1>4. Sheet!Put(At(p, r, c), ch)
        = LET marked == [At(p, r, c) EXCEPT !.paper[r][c] = ch]
          IN  IF c = SCREEN_WIDTH - 1 THEN Sheet!NewLine(marked) ELSE [marked EXCEPT !.col = @ + 1]
  BY <1>3 DEF Sheet!Put
<1> QED
  BY <1>1, <1>2, <1>4 DEF q

-----------------------------------------------------------------------------
(* Quotients. *)

LEMMA DivMod ==
  ASSUME NEW a \in Nat, NEW b \in Nat \ {0}
  PROVE  /\ a \div b \in Nat /\ a % b \in 0..b - 1
         /\ a = b * (a \div b) + (a % b)
  BY Z3

LEMMA DivModUnique ==
  ASSUME NEW b \in Nat \ {0}, NEW q \in Nat, NEW r \in 0..b - 1
  PROVE  (b * q + r) \div b = q /\ (b * q + r) % b = r
<1> DEFINE a == b * q + r
           x == a \div b
           y == a % b
<1>1. a \in Nat
  BY Z3
<1>2. x \in Nat /\ y \in 0..b - 1 /\ a = b * x + y
  BY <1>1, DivMod
<1>3. b * q + r = b * x + y
  BY <1>2
<1> HIDE DEF x, y
<1>4. ~(q < x)
  <2>1. SUFFICES ASSUME q < x PROVE FALSE
    OBVIOUS
  <2>2. b * x >= b * (q + 1)
    BY <1>2, <2>1, Z3
  <2>3. b * (q + 1) = b * q + b
    BY Z3
  <2> QED
    BY <1>2, <1>3, <2>2, <2>3, Z3
<1>5. ~(x < q)
  <2>1. SUFFICES ASSUME x < q PROVE FALSE
    OBVIOUS
  <2>2. b * q >= b * (x + 1)
    BY <1>2, <2>1, Z3
  <2>3. b * (x + 1) = b * x + b
    BY <1>2, Z3
  <2> QED
    BY <1>2, <1>3, <2>2, <2>3, Z3
<1>6. x = q
  BY <1>2, <1>4, <1>5
<1>7. y = r
  BY <1>2, <1>3, <1>6, Z3
<1> QED
  BY <1>6, <1>7 DEF x, y

LEMMA QuotientBound ==
  ASSUME NEW a \in Nat, NEW b \in Nat \ {0}, NEW n \in Nat, a < n * b
  PROVE  a \div b < n
<1> DEFINE q == a \div b
<1>1. q \in Nat /\ a >= b * q
  BY DivMod, Z3
<1> HIDE DEF q
<1>2. SUFFICES ASSUME q >= n PROVE FALSE
  BY <1>1, Z3 DEF q
<1>3. b * q >= b * n
  BY <1>1, <1>2, Z3
<1> QED
  BY <1>1, <1>3, Z3

-----------------------------------------------------------------------------
(* The cursor. *)

(* setcursor shows the place of the next character: it fits its two bytes. *)
LEMMA SetCursorSeen ==
  ASSUME NEW s, Inside(s), Len(s.gone) \in Nat
  PROVE  /\ setcursor(s).rows = s.rows /\ setcursor(s).gone = s.gone
         /\ Seen(setcursor(s))
<1> DEFINE t   == setcursor(s)
           W   == SCREEN_WIDTH
           H   == SCREEN_HEIGHT
           B   == ByteValues
           pos == s.y * W + s.x
<1>1. t.rows = s.rows /\ t.gone = s.gone /\ t.x = s.x /\ t.y = s.y
  BY DEF setcursor, Inside, Screen, Fields
<1>2. t.cursor.low = pos % B /\ t.cursor.high = (pos \div B) % B
  BY DEF setcursor, Inside, Screen, Fields
<1>3. /\ W \in Nat \ {0} /\ H \in Nat \ {0} /\ B \in Nat \ {0} /\ W * H <= B * B
      /\ s.x \in 0..W - 1 /\ s.y \in 0..H - 1
  BY ScreenAssumption DEF Inside, Xs, Ys
<1>4. Position(t) = t.cursor.high * B + t.cursor.low
  BY DEF Position
<1>5. Row(t) = Len(s.gone) + s.y + 1
  BY <1>1 DEF Row
<1>6. Blink(t) = <<Len(s.gone) + Position(t) \div W + 1, Position(t) % W>>
  BY <1>1 DEF Blink
<1> HIDE DEF t, W, H, B
<1>7. pos \in Nat /\ pos < B * B
  <2>1. s.y * W \in Nat
    BY <1>3, Z3
  <2>2. s.y * W + W = (s.y + 1) * W
    BY <1>3, Z3
  <2>3. (s.y + 1) * W <= W * H
    BY <1>3, Z3
  <2>4. W * H \in Nat /\ B * B \in Nat /\ (s.y + 1) * W \in Nat
    BY <1>3, Z3
  <2>5. ASSUME NEW a \in Nat, NEW b \in Nat, NEW c \in Nat, NEW d \in Nat, a + W = b, b <= c, c <= d
        PROVE  a + s.x \in Nat /\ a + s.x < d
    BY <1>3, <2>5
  <2> QED
    BY <1>3, <2>1, <2>2, <2>3, <2>4, <2>5, Zenon
<1>8. pos \div W = s.y /\ pos % W = s.x
  <2>1. pos = W * s.y + s.x
    BY <1>3, Z3
  <2> HIDE DEF pos
  <2>2. s.y \in Nat
    BY <1>3
  <2>3. (W * s.y + s.x) \div W = s.y /\ (W * s.y + s.x) % W = s.x
    BY <1>3, <2>2, DivModUnique, Zenon
  <2> QED
    BY <2>1, <2>3, Zenon
<1> HIDE DEF pos
<1>9. Position(t) = pos
  <2> DEFINE h == pos \div B
  <2>1. h \in Nat /\ pos % B \in Nat /\ pos = B * h + (pos % B)
    <3>1. pos \in Nat /\ B \in Nat \ {0}
      BY <1>3, <1>7
    <3>2. /\ pos \div B \in Nat /\ pos % B \in 0..B - 1
          /\ pos = B * (pos \div B) + (pos % B)
      BY <3>1, DivMod, Zenon
    <3> QED
      BY <3>1, <3>2
  <2>2. h < B
    BY <1>3, <1>7, QuotientBound
  <2> HIDE DEF h
  <2>3. h % B = h
    <3>1. (B * 0 + h) % B = h
      <4>1. h \in 0..B - 1 /\ 0 \in Nat
        BY <1>3, <2>1, <2>2
      <4> QED
        BY <1>3, <4>1, DivModUnique, Zenon
    <3>2. B * 0 + h = h
      BY <1>3, <2>1
    <3> QED
      BY <3>1, <3>2
  <2>4. t.cursor.high = h
    BY <1>2, <2>3 DEF h
  <2>5. h * B + (pos % B) = B * h + (pos % B)
    BY <1>3, <2>1, Z3
  <2> QED
    BY <1>2, <1>4, <2>1, <2>4, <2>5
<1>10. Seen(t)
  BY <1>1, <1>5, <1>6, <1>8, <1>9 DEF Seen
<1> QED
  BY <1>1, <1>10 DEF t

-----------------------------------------------------------------------------
(* What putc does to the sheet. *)

(* A scroll takes a line off the screen and puts an empty one below.       *)
LEMMA ScrollPaper ==
  ASSUME NEW w, Filled(w)
  PROVE  /\ Filled(scrollback(w))
         /\ Len(scrollback(w).gone) = Len(w.gone) + 1
         /\ Paper(scrollback(w)) = Append(Paper(w), Blank)
<1> DEFINE t == scrollback(w)
           L == Len(w.gone)
<1>1. /\ Screen(t) /\ t.gone = Append(w.gone, w.rows[0])
      /\ t.rows = [y \in Ys |-> IF y + 1 \in Ys THEN w.rows[y + 1] ELSE Blank]
  BY DEF scrollback, Filled, Screen, Fields
<1>2. 0 \in Ys /\ w.rows[0] \in Lines /\ w.gone \in Seq(Lines) /\ L \in Nat
  BY Dimensions DEF Filled, Ys
<1>3. /\ t.gone \in Seq(Lines) /\ Len(t.gone) = L + 1
      /\ \A i \in 1..L : t.gone[i] = w.gone[i]
      /\ t.gone[L + 1] = w.rows[0]
  BY <1>1, <1>2
<1>4. t.rows \in [Ys -> Lines]
  BY <1>1, BlankLine DEF Filled
<1>5. Filled(t)
  BY <1>1, <1>3, <1>4 DEF Filled
<1>6. /\ \A y \in Ys : y + 1 \in Ys => t.rows[y] = w.rows[y + 1]
      /\ \A y \in Ys : y + 1 \notin Ys => t.rows[y] = Blank /\ y = SCREEN_HEIGHT - 1
  BY <1>1, Dimensions DEF Ys
<1> HIDE DEF t, L
<1>7. /\ Paper(t) \in Seq(Lines) /\ Len(Paper(t)) = L + 1 + SCREEN_HEIGHT
      /\ \A i \in 1..L + 1 : Paper(t)[i] = t.gone[i]
      /\ \A y \in Ys : Paper(t)[L + 1 + y + 1] = t.rows[y]
  BY <1>3, <1>5, PaperIs
<1>8. /\ Paper(w) \in Seq(Lines) /\ Len(Paper(w)) = L + SCREEN_HEIGHT
      /\ \A i \in 1..L : Paper(w)[i] = w.gone[i]
      /\ \A y \in Ys : Paper(w)[L + y + 1] = w.rows[y]
  BY PaperIs DEF L
<1> DEFINE p == Paper(w)
           q == Append(p, Blank)
<1>9. p \in Seq(Lines)
  BY <1>8
<1> HIDE DEF p
<1>10. /\ q \in Seq(Lines) /\ Len(q) = Len(p) + 1 /\ q[Len(p) + 1] = Blank
       /\ \A i \in 1..Len(p) : q[i] = p[i]
  BY <1>9, BlankLine
<1> HIDE DEF q
<1>11. Len(p) = L + SCREEN_HEIGHT
  BY <1>8 DEF p
<1>12. Len(q) = L + 1 + SCREEN_HEIGHT
  BY <1>2, <1>10, <1>11, Dimensions
<1>13. ASSUME NEW i \in 1..L + 1 + SCREEN_HEIGHT PROVE Paper(t)[i] = q[i]
  <2>1. CASE i \in 1..L
    <3>1. i \in 1..L + 1 /\ i \in 1..Len(p)
      BY <1>2, <1>11, <2>1, Dimensions
    <3> QED
      BY <1>3, <1>7, <1>8, <1>10, <2>1, <3>1 DEF p
  <2>2. CASE i = L + 1
    <3>1. i \in 1..L + 1 /\ i \in 1..Len(p) /\ L + 0 + 1 = i
      BY <1>2, <1>11, <2>2, Dimensions
    <3>2. p[i] = w.rows[0]
      BY <1>2, <1>8, <3>1 DEF p
    <3> QED
      BY <1>3, <1>7, <1>10, <2>2, <3>1, <3>2
  <2>3. CASE \E y \in Ys : i = L + 1 + y + 1
    <3>1. PICK y \in Ys : i = L + 1 + y + 1
      BY <2>3
    <3>2. Paper(t)[i] = t.rows[y]
      BY <1>7, <3>1
    <3>3. CASE y + 1 \in Ys
      <4>1. i \in 1..Len(p) /\ L + (y + 1) + 1 = i
        BY <1>2, <1>11, <3>1, <3>3, Dimensions DEF Ys
      <4>2. p[i] = w.rows[y + 1]
        BY <1>8, <3>3, <4>1 DEF p
      <4> QED
        BY <1>6, <1>10, <3>2, <3>3, <4>1, <4>2
    <3>4. CASE y + 1 \notin Ys
      <4>1. i = Len(p) + 1
        BY <1>2, <1>6, <1>11, <3>1, <3>4, Dimensions
      <4> QED
        BY <1>6, <1>10, <3>2, <3>4, <4>1
    <3> QED
      BY <3>3, <3>4
  <2>4. i \in 1..L + 1 \/ \E y \in Ys : i = L + 1 + y + 1
    BY <1>2, PaperPlaces
  <2> QED
    BY <1>2, <2>1, <2>2, <2>3, <2>4
<1>14. Paper(t) = q
  BY <1>7, <1>10, <1>12, <1>13, SameLines
<1> QED
  BY <1>3, <1>5, <1>14 DEF t, L, p, q

(* A character is stored where the sheet has its next place.               *)
LEMMA MarkPaper ==
  ASSUME NEW s, Filled(s), Inside(s), NEW c \in Marks
  PROVE  LET m == [s EXCEPT !.rows[s.y][s.x] = c, !.x = @ + 1]
         IN  /\ Filled(m) /\ m.x = s.x + 1 /\ m.y = s.y /\ m.gone = s.gone
             /\ Paper(m) = [Paper(s) EXCEPT ![Row(s)][s.x] = c]
<1> DEFINE m == [s EXCEPT !.rows[s.y][s.x] = c, !.x = @ + 1]
           L == Len(s.gone)
           p == Paper(s)
           q == [p EXCEPT ![Row(s)][s.x] = c]
<1>1. /\ Screen(m) /\ m.rows = [s.rows EXCEPT ![s.y][s.x] = c] /\ m.gone = s.gone
      /\ m.x = s.x + 1 /\ m.y = s.y
  BY DEF Filled, Screen, Fields
<1>2. s.y \in Ys /\ s.x \in Xs /\ s.rows \in [Ys -> Lines] /\ s.rows[s.y] \in Lines
  BY DEF Filled, Inside
<1>3. [s.rows[s.y] EXCEPT ![s.x] = c] \in Lines
  BY <1>2 DEF Lines
<1>4. /\ m.rows \in [Ys -> Lines]
      /\ m.rows[s.y] = [s.rows[s.y] EXCEPT ![s.x] = c]
      /\ \A y \in Ys : y # s.y => m.rows[y] = s.rows[y]
  BY <1>1, <1>2, <1>3
<1>5. Filled(m)
  BY <1>1, <1>4 DEF Filled
<1> HIDE DEF m, L
<1>6. /\ Paper(m) \in Seq(Lines) /\ Len(Paper(m)) = L + SCREEN_HEIGHT
      /\ \A i \in 1..L : Paper(m)[i] = s.gone[i]
      /\ \A y \in Ys : Paper(m)[L + y + 1] = m.rows[y]
  <2>1. /\ Paper(m) \in Seq(Lines) /\ Len(Paper(m)) = Len(m.gone) + SCREEN_HEIGHT
        /\ \A i \in 1..Len(m.gone) : Paper(m)[i] = m.gone[i]
        /\ \A y \in Ys : Paper(m)[Len(m.gone) + y + 1] = m.rows[y]
    BY <1>5, PaperIs
  <2>2. m.gone = s.gone
    BY <1>1
  <2> QED
    BY <2>1, <2>2 DEF L
<1>7. /\ p \in Seq(Lines) /\ Len(p) = L + SCREEN_HEIGHT /\ L \in Nat
      /\ \A i \in 1..L : p[i] = s.gone[i]
      /\ \A y \in Ys : p[L + y + 1] = s.rows[y]
  BY PaperIs DEF L
<1> HIDE DEF p
<1>8. Row(s) = L + s.y + 1 /\ Row(s) \in 1..L + SCREEN_HEIGHT
  BY <1>2, <1>7, Dimensions DEF Row, L, Ys
<1>9. p[Row(s)] = s.rows[s.y]
  BY <1>2, <1>7, <1>8
<1>10. q \in Seq(Lines) /\ Len(q) = Len(p)
  <2>1. [p[Row(s)] EXCEPT ![s.x] = c] \in Lines /\ Row(s) \in 1..Len(p)
    BY <1>3, <1>7, <1>8, <1>9
  <2>2. p \in Seq(Lines)
    BY <1>7
  <2> QED
    BY <2>1, <2>2
<1>11. q[Row(s)] = [s.rows[s.y] EXCEPT ![s.x] = c] /\ \A i \in 1..Len(p) : i # Row(s) => q[i] = p[i]
  <2>1. p \in [1..Len(p) -> Lines] /\ Row(s) \in 1..Len(p)
    BY <1>7, <1>8
  <2> QED
    BY <1>9, <2>1
<1> HIDE DEF q
<1>12. ASSUME NEW i \in 1..L + SCREEN_HEIGHT PROVE Paper(m)[i] = q[i]
  <2>1. CASE i \in 1..L
    <3>1. i # Row(s) /\ i \in 1..Len(p)
      BY <1>2, <1>7, <1>8, <2>1, Dimensions DEF Ys
    <3> QED
      BY <1>6, <1>7, <1>11, <2>1, <3>1
  <2>2. CASE \E y \in Ys : i = L + y + 1
    <3>1. PICK y \in Ys : i = L + y + 1
      BY <2>2
    <3>2. Paper(m)[i] = m.rows[y] /\ p[i] = s.rows[y]
      BY <1>6, <1>7, <3>1
    <3>3. CASE y = s.y
      BY <1>4, <1>8, <1>11, <3>1, <3>2, <3>3
    <3>4. CASE y # s.y
      <4>1. i # Row(s) /\ i \in 1..Len(p)
        BY <1>2, <1>7, <1>8, <3>1, <3>4, Dimensions DEF Ys
      <4> QED
        BY <1>4, <1>11, <3>2, <3>4, <4>1
    <3> QED
      BY <3>3, <3>4
  <2> QED
    BY <1>7, <2>1, <2>2, PaperPlaces
<1>13. Paper(m) = q
  BY <1>6, <1>7, <1>10, <1>12, SameLines
<1> QED
  BY <1>1, <1>5, <1>13 DEF m, p, q

(* The end of putc: the next line comes into view when it was below it.    *)
Lowered(w) == setcursor(IF w.y >= SCREEN_HEIGHT THEN scrollback(w) ELSE w)

LEMMA LoweredIs ==
  ASSUME NEW w, Filled(w), w.x \in Xs, w.y \in 0..SCREEN_HEIGHT
  PROVE  LET t == Lowered(w)
         IN  /\ Filled(t) /\ Inside(t) /\ Seen(t)
             /\ View(t) = At(IF w.y = SCREEN_HEIGHT THEN Append(Paper(w), Blank) ELSE Paper(w), Row(w), w.x)
<1> DEFINE v == IF w.y >= SCREEN_HEIGHT THEN scrollback(w) ELSE w
           t == setcursor(v)
<1>1. /\ Filled(v) /\ Inside(v) /\ v.x = w.x /\ Row(v) = Row(w)
      /\ Paper(v) = IF w.y = SCREEN_HEIGHT THEN Append(Paper(w), Blank) ELSE Paper(w)
  <2>1. Len(w.gone) \in Nat
    BY DEF Filled
  <2>2. CASE w.y = SCREEN_HEIGHT
    <3>1. v = scrollback(w)
      BY <2>2, Dimensions
    <3>2. v.x = w.x /\ v.y = w.y - 1
      BY <3>1, ScrollbackKeeps DEF Filled
    <3>3. Filled(v) /\ Len(v.gone) = Len(w.gone) + 1 /\ Paper(v) = Append(Paper(w), Blank)
      BY <3>1, ScrollPaper
    <3> HIDE DEF v
    <3>4. Row(v) = Row(w)
      BY <2>1, <2>2, <3>2, <3>3, Dimensions DEF Row
    <3>5. Inside(v)
      BY <2>2, <3>2, <3>3, Dimensions DEF Inside, Filled, Ys
    <3> QED
      BY <2>2, <3>2, <3>3, <3>4, <3>5
  <2>3. CASE w.y # SCREEN_HEIGHT
    <3>1. v = w /\ w.y \in Ys
      BY <2>3, Dimensions DEF Ys
    <3> HIDE DEF v
    <3> QED
      BY <2>3, <3>1 DEF Inside, Filled
  <2> QED
    BY <2>2, <2>3
<1> HIDE DEF v
<1>2. Len(v.gone) \in Nat
  BY <1>1 DEF Filled
<1>3. Screen(t) /\ t.x = v.x /\ t.y = v.y
  BY <1>1, SetCursorKeeps DEF Inside
<1>4. t.rows = v.rows /\ t.gone = v.gone /\ Seen(t)
  BY <1>1, <1>2, SetCursorSeen
<1> HIDE DEF t
<1>5. Filled(t) /\ Inside(t)
  BY <1>1, <1>3, <1>4 DEF Filled, Inside
<1>6. Paper(t) = Paper(v) /\ Row(t) = Row(v)
  BY <1>3, <1>4 DEF Paper, Row
<1>7. View(t) = At(Paper(v), Row(v), v.x)
  BY <1>3, <1>6 DEF View, At
<1> QED
  BY <1>1, <1>4, <1>5, <1>7 DEF t, v, Lowered

(* settle goes to the next line when the line is full.                     *)
LEMMA SettleIs ==
  ASSUME NEW s
  PROVE  settle(s) = Lowered(IF s.x >= SCREEN_WIDTH THEN [s EXCEPT !.y = @ + 1, !.x = 0] ELSE s)
BY DEF settle, Lowered

LEMMA FeedIs ==
  ASSUME NEW w, NEW s, Filled(w), Filled(s), s.y \in Ys,
         w.gone = s.gone, w.x = 0, w.y = s.y + 1, NEW p, Paper(w) = p
  PROVE  LET t == Lowered(w)
         IN  /\ Filled(t) /\ Inside(t) /\ Seen(t)
             /\ \A c : View(t) = Sheet!NewLine(At(p, Row(s), c))
<1> DEFINE t == Lowered(w)
           L == Len(s.gone)
<1>1. L \in Nat
  BY DEF Filled
<1>2. w.x \in Xs /\ w.y \in 0..SCREEN_HEIGHT
  BY Dimensions DEF Xs, Ys
<1>3. /\ Filled(t) /\ Inside(t) /\ Seen(t)
      /\ View(t) = At(IF w.y = SCREEN_HEIGHT THEN Append(p, Blank) ELSE p, Row(w), 0)
  BY <1>2, LoweredIs
<1>4. Len(p) = L + SCREEN_HEIGHT
  BY PaperIs
<1> HIDE DEF t, L
<1>5. Row(w) = Row(s) + 1 /\ Row(s) = L + s.y + 1
  BY <1>1, Dimensions DEF Row, L, Ys
<1>6. Row(s) = Len(p) <=> w.y = SCREEN_HEIGHT
  BY <1>1, <1>4, <1>5, Dimensions DEF Ys
<1>7. ASSUME NEW c PROVE Sheet!NewLine(At(p, Row(s), c))
                          = At(IF w.y = SCREEN_HEIGHT THEN Append(p, Blank) ELSE p, Row(w), 0)
  BY <1>5, <1>6, NewLineIs
<1> QED
  BY <1>3, <1>7 DEF t

(* Each character does to the screen what it does to the sheet.            *)
LEMMA PutchrIs ==
  ASSUME NEW s, Filled(s), Inside(s), NEW c \in Marks
  PROVE  /\ Filled(putchr(s, c)) /\ Inside(putchr(s, c)) /\ Seen(putchr(s, c))
         /\ View(putchr(s, c)) = Sheet!Put(View(s), c)
<1> DEFINE m == [s EXCEPT !.rows[s.y][s.x] = c, !.x = @ + 1]
           w == [m EXCEPT !.y = @ + 1, !.x = 0]
           q == [Paper(s) EXCEPT ![Row(s)][s.x] = c]
           t == putchr(s, c)
<1>1. Filled(m) /\ m.x = s.x + 1 /\ m.y = s.y /\ m.gone = s.gone /\ Paper(m) = q
  BY MarkPaper
<1>2. t = settle(m)
  BY DEF putchr
<1> HIDE DEF m, t
<1>3. t = Lowered(IF m.x >= SCREEN_WIDTH THEN w ELSE m)
  BY <1>2, SettleIs
<1>4. View(s) = At(Paper(s), Row(s), s.x)
  BY DEF View, At
<1>5. Sheet!Put(View(s), c) = IF s.x = SCREEN_WIDTH - 1 THEN Sheet!NewLine(At(q, Row(s), s.x))
                              ELSE At(q, Row(s), s.x + 1)
  <2>1. Sheet!Put(At(Paper(s), Row(s), s.x), c)
          = IF s.x = SCREEN_WIDTH - 1 THEN Sheet!NewLine(At(q, Row(s), s.x)) ELSE At(q, Row(s), s.x + 1)
    <3>1. q = Marked(Paper(s), Row(s), s.x, c)
      BY DEF Marked
    <3> HIDE DEF q
    <3>2. Sheet!Put(At(Paper(s), Row(s), s.x), c)
            = IF s.x = SCREEN_WIDTH - 1 THEN Sheet!NewLine(At(Marked(Paper(s), Row(s), s.x, c), Row(s), s.x))
              ELSE At(Marked(Paper(s), Row(s), s.x, c), Row(s), s.x + 1)
      BY PutIs, Zenon
    <3> QED
      BY <3>1, <3>2, Zenon
  <2> QED
    BY <1>4, <2>1, Zenon
<1>6. Screen(w) /\ w.x = 0 /\ w.y = m.y + 1 /\ w.rows = m.rows /\ w.gone = m.gone
  BY <1>1 DEF Filled, Screen, Fields
<1> HIDE DEF w, q
<1>7. Filled(w) /\ Paper(w) = q
  BY <1>1, <1>6 DEF Filled, Paper
<1>8. s.x \in Xs /\ s.y \in Ys
  BY DEF Inside
<1>9. CASE s.x = SCREEN_WIDTH - 1
  <2>1. t = Lowered(w)
    BY <1>1, <1>3, <1>9, Dimensions
  <2>2. w.gone = s.gone /\ w.y = s.y + 1
    BY <1>1, <1>6
  <2>3. Filled(t) /\ Inside(t) /\ Seen(t) /\ View(t) = Sheet!NewLine(At(q, Row(s), s.x))
    BY <1>6, <1>7, <1>8, <2>1, <2>2, FeedIs
  <2> QED
    BY <1>5, <1>9, <2>3 DEF t
<1>10. CASE s.x # SCREEN_WIDTH - 1
  <2>1. t = Lowered(m) /\ m.x \in Xs /\ m.y \in 0..SCREEN_HEIGHT /\ m.y # SCREEN_HEIGHT
    BY <1>1, <1>3, <1>8, <1>10, Dimensions DEF Xs, Ys
  <2>2. Filled(t) /\ Inside(t) /\ Seen(t) /\ View(t) = At(q, Row(m), m.x)
    BY <1>1, <2>1, LoweredIs
  <2>3. Row(m) = Row(s)
    BY <1>1 DEF Row
  <2> QED
    BY <1>1, <1>5, <1>10, <2>2, <2>3 DEF t
<1> QED
  BY <1>9, <1>10

-----------------------------------------------------------------------------
(* A tab is one to four spaces. *)

LEMMA SpacesStep ==
  ASSUME NEW v, NEW n \in 0..3
  PROVE  Sheet!Spaces(v, 0) = v /\ Sheet!Spaces(v, n + 1) = Sheet!Put(Sheet!Spaces(v, n), " ")
<1> DEFINE P(u) == Sheet!Put(u, " ")
           a1 == P(v)
           a2 == P(a1)
           a3 == P(a2)
           a4 == P(a3)
           S(k, put) == [i \in 0..k |-> IF i = 0 THEN v ELSE P(put[i - 1])]
           after(i) == CASE i = 0 -> v [] i = 1 -> a1 [] i = 2 -> a2 [] i = 3 -> a3 [] OTHER -> a4
<1>1. ASSUME NEW k \in 0..4 PROVE Sheet!Spaces(v, k) = (CHOOSE put : put = S(k, put))[k]
  BY DEF Sheet!Spaces
<1> HIDE DEF P
<1>2. ASSUME NEW k \in 0..4, NEW put, put = S(k, put) PROVE put[k] = after(k)
  <2>1. \A i \in 0..k : put[i] = IF i = 0 THEN v ELSE P(put[i - 1])
    BY <1>2
  <2>2. put[0] = v
    BY <2>1
  <2>3. k >= 1 => put[1] = a1
    BY <2>1, <2>2
  <2>4. k >= 2 => put[2] = a2
    BY <2>1, <2>3
  <2>5. k >= 3 => put[3] = a3
    BY <2>1, <2>4
  <2>6. k >= 4 => put[4] = a4
    BY <2>1, <2>5
  <2> QED
    BY <2>2, <2>3, <2>4, <2>5, <2>6
<1>3. ASSUME NEW k \in 0..4 PROVE \E put : put = S(k, put)
  <2> DEFINE f == [i \in 0..k |-> after(i)]
  <2>1. ASSUME NEW i \in 0..k PROVE f[i] = IF i = 0 THEN v ELSE P(f[i - 1])
    <3>1. CASE i = 0
      BY <3>1
    <3>2. CASE i # 0
      <4>1. f[i] = after(i) /\ f[i - 1] = after(i - 1) /\ i \in {1, 2, 3, 4}
        BY <3>2
      <4> QED
        BY <3>2, <4>1
    <3> QED
      BY <3>1, <3>2
  <2>2. f = S(k, f)
    BY <2>1
  <2> QED
    BY <2>2
<1> HIDE DEF S, after
<1>4. ASSUME NEW k \in 0..4 PROVE Sheet!Spaces(v, k) = after(k)
  BY <1>1, <1>2, <1>3
<1>5. after(0) = v /\ after(1) = a1 /\ after(2) = a2 /\ after(3) = a3 /\ after(4) = a4
  BY DEF after
<1>6. /\ after(1) = P(after(0)) /\ after(2) = P(after(1))
      /\ after(3) = P(after(2)) /\ after(4) = P(after(3))
  BY <1>5
<1>7. after(n + 1) = P(after(n))
  <2>1. n = 0 \/ n = 1 \/ n = 2 \/ n = 3
    OBVIOUS
  <2>2. 0 + 1 = 1 /\ 1 + 1 = 2 /\ 2 + 1 = 3 /\ 3 + 1 = 4
    OBVIOUS
  <2> QED
    BY <1>6, <2>1, <2>2
<1>8. n \in 0..4 /\ n + 1 \in 0..4 /\ 0 \in 0..4
  OBVIOUS
<1>9. /\ Sheet!Spaces(v, n) = after(n) /\ Sheet!Spaces(v, n + 1) = after(n + 1)
      /\ Sheet!Spaces(v, 0) = after(0)
  BY <1>4, <1>8, Zenon
<1> QED
  BY <1>5, <1>7, <1>9 DEF P

Good(s) == Filled(s) /\ Inside(s)

LEMMA SpaceIs ==
  ASSUME NEW s, Good(s)
  PROVE  Good(putchr(s, " ")) /\ Seen(putchr(s, " ")) /\ View(putchr(s, " ")) = Sheet!Put(View(s), " ")
<1>1. " " \in Marks
  BY DEF Marks
<1> QED
  BY <1>1, PutchrIs DEF Good

Spaced(s, k, t) == Good(t) /\ Seen(t) /\ \E n \in 1..k : View(t) = Sheet!Spaces(View(s), n)

LEMMA FirstSpace ==
  ASSUME NEW s, Good(s)
  PROVE  Spaced(s, 1, tabSpace(s, 0))
<1>1. 0 < 4 - (s.x % 4)
  BY Dimensions DEF Good, Inside, Xs
<1>2. tabSpace(s, 0) = putchr(s, " ")
  BY <1>1 DEF tabSpace
<1>3. Sheet!Spaces(View(s), 0) = View(s) /\ Sheet!Spaces(View(s), 0 + 1) = Sheet!Put(Sheet!Spaces(View(s), 0), " ")
  <2>1. 0 \in 0..3
    OBVIOUS
  <2> QED
    BY <2>1, SpacesStep, Zenon
<1>4. View(putchr(s, " ")) = Sheet!Spaces(View(s), 1)
  <2>1. 0 + 1 = 1
    OBVIOUS
  <2>2. View(putchr(s, " ")) = Sheet!Put(View(s), " ")
    BY SpaceIs
  <2> QED
    BY <1>3, <2>1, <2>2, Zenon
<1>5. 1 \in 1..1
  OBVIOUS
<1> QED
  BY <1>2, <1>4, <1>5, SpaceIs, Zenon DEF Spaced

LEMMA NextSpace ==
  ASSUME NEW s, NEW i \in 1..3, NEW t, Spaced(s, i, t)
  PROVE  Spaced(s, i + 1, tabSpace(t, i))
<1>1. PICK n \in 1..i : View(t) = Sheet!Spaces(View(s), n)
  BY DEF Spaced
<1>2. n \in 0..3 /\ n \in 1..i + 1 /\ n + 1 \in 1..i + 1
  OBVIOUS
<1>3. CASE tabSpace(t, i) = t
  BY <1>1, <1>2, <1>3 DEF Spaced
<1>4. CASE tabSpace(t, i) = putchr(t, " ")
  <2>1. Sheet!Spaces(View(s), n + 1) = Sheet!Put(Sheet!Spaces(View(s), n), " ")
    BY <1>2, SpacesStep, Zenon
  <2>2. Good(putchr(t, " ")) /\ Seen(putchr(t, " ")) /\ View(putchr(t, " ")) = Sheet!Spaces(View(s), n + 1)
    BY <1>1, <2>1, SpaceIs, Zenon DEF Spaced
  <2> QED
    BY <1>2, <1>4, <2>2 DEF Spaced
<1> QED
  BY <1>3, <1>4 DEF tabSpace

LEMMA TabIs ==
  ASSUME NEW s, Good(s)
  PROVE  Spaced(s, 4, tab(s))
<1> DEFINE t1 == tabSpace(s, 0)
           t2 == tabSpace(t1, 1)
           t3 == tabSpace(t2, 2)
           t4 == tabSpace(t3, 3)
<1>1. tab(s) = t4
  BY DEF tab
<1>2. Spaced(s, 1, t1)
  BY FirstSpace
<1> HIDE DEF t1
<1>3. Spaced(s, 1 + 1, t2)
  BY <1>2, NextSpace
<1> HIDE DEF t2
<1>4. Spaced(s, 2 + 1, t3)
  BY <1>3, NextSpace
<1> HIDE DEF t3
<1>5. Spaced(s, 3 + 1, t4)
  BY <1>4, NextSpace
<1> QED
  BY <1>1, <1>5

Controls == {"\n", "\t", "\r"}

(* What a character is on the sheet.                                       *)
Typed(c, u, v) ==
  \/ c = "\n" /\ v = Sheet!NewLine(u)
  \/ c = "\r" /\ v = [u EXCEPT !.col = 0]
  \/ c = "\t" /\ \E n \in 1..4 : v = Sheet!Spaces(u, n)
  \/ c \notin Controls /\ v = Sheet!Put(u, c)

LEMMA PutcIs ==
  ASSUME NEW s, Good(s), NEW c \in Characters \cup Controls
  PROVE  Good(putc(s, c)) /\ Seen(putc(s, c)) /\ Typed(c, View(s), View(putc(s, c)))
<1>1. View(s) = At(Paper(s), Row(s), s.x)
  BY DEF View, At
<1>2. Filled(s) /\ Inside(s) /\ s.x \in Xs /\ s.y \in Ys /\ Screen(s)
  BY DEF Good, Inside
<1>3. ASSUME NEW m, Filled(m), m.x \in Xs, m.y \in Ys
      PROVE  Good(settle(m)) /\ Seen(settle(m)) /\ View(settle(m)) = View(m)
  <2>1. settle(m) = Lowered(m)
    <3>1. ~(m.x >= SCREEN_WIDTH)
      BY <1>3, Dimensions DEF Xs
    <3> QED
      BY <3>1, SettleIs
  <2>2. m.y \in 0..SCREEN_HEIGHT /\ m.y # SCREEN_HEIGHT
    BY <1>3, Dimensions DEF Ys
  <2>3. Filled(Lowered(m)) /\ Inside(Lowered(m)) /\ Seen(Lowered(m))
        /\ View(Lowered(m)) = At(Paper(m), Row(m), m.x)
    BY <1>3, <2>2, LoweredIs
  <2> QED
    BY <2>1, <2>3 DEF Good, View, At
<1>4. CASE c = "\n"
  <2> DEFINE m == [s EXCEPT !.x = 0, !.y = @ + 1]
             t == putc(s, c)
  <2>1. Screen(m) /\ m.x = 0 /\ m.y = s.y + 1 /\ m.rows = s.rows /\ m.gone = s.gone
    BY <1>2 DEF Screen, Fields
  <2>2. t = settle(m)
    BY <1>4 DEF putc
  <2> HIDE DEF m, t
  <2>3. Filled(m) /\ Paper(m) = Paper(s)
    BY <1>2, <2>1 DEF Filled, Paper
  <2>4. t = Lowered(m)
    <3>1. ~(m.x >= SCREEN_WIDTH)
      BY <2>1, Dimensions
    <3> QED
      BY <2>2, <3>1, SettleIs
  <2>5. Filled(t) /\ Inside(t) /\ Seen(t) /\ View(t) = Sheet!NewLine(At(Paper(s), Row(s), s.x))
    BY <1>2, <2>1, <2>3, <2>4, FeedIs
  <2> QED
    BY <1>1, <1>4, <2>5 DEF Good, Typed, t
<1>5. CASE c = "\r"
  <2> DEFINE m == [s EXCEPT !.x = 0]
             t == putc(s, c)
  <2>1. Screen(m) /\ m.x = 0 /\ m.y = s.y /\ m.rows = s.rows /\ m.gone = s.gone
    BY <1>2 DEF Screen, Fields
  <2>2. t = settle(m)
    BY <1>5 DEF putc
  <2> HIDE DEF m, t
  <2>3. Filled(m) /\ View(m) = At(Paper(s), Row(s), 0) /\ m.x \in Xs
    BY <1>2, <2>1, Dimensions DEF Filled, View, Paper, Row, At, Xs
  <2>4. Good(t) /\ Seen(t) /\ View(t) = At(Paper(s), Row(s), 0)
    BY <1>2, <1>3, <2>1, <2>2, <2>3
  <2>5. [View(s) EXCEPT !.col = 0] = At(Paper(s), Row(s), 0)
    BY <1>1 DEF At
  <2> QED
    BY <1>5, <2>4, <2>5 DEF Typed, t
<1>6. CASE c = "\t"
  <2> DEFINE m == tab(s)
             t == putc(s, c)
  <2>1. t = settle(m)
    BY <1>6 DEF putc
  <2>2. Spaced(s, 4, m)
    BY TabIs
  <2> HIDE DEF m, t
  <2>3. PICK n \in 1..4 : View(m) = Sheet!Spaces(View(s), n)
    BY <2>2 DEF Spaced
  <2>4. Filled(m) /\ m.x \in Xs /\ m.y \in Ys
    BY <2>2 DEF Spaced, Good, Inside
  <2>5. Good(t) /\ Seen(t) /\ View(t) = View(m)
    BY <1>3, <2>1, <2>4
  <2> QED
    BY <1>6, <2>3, <2>5 DEF Typed, t
<1>7. CASE c \notin Controls
  <2>1. c \in Marks
    BY <1>7 DEF Marks
  <2>2. putc(s, c) = putchr(s, c)
    BY <1>7 DEF putc, Controls
  <2> QED
    BY <1>2, <1>7, <2>1, <2>2, PutchrIs DEF Good, Typed
<1> QED
  BY <1>4, <1>5, <1>6, <1>7 DEF Controls

-----------------------------------------------------------------------------
(* A set of numbers that holds 0, and with each number the next, is Nat.   *)
LEMMA SetInduction ==
  ASSUME NEW S, 0 \in S, \A n \in Nat : n \in S => n + 1 \in S
  PROVE  Nat \subseteq S
<1> DEFINE T == {n \in Nat : n \notin S}
<1>1. SUFFICES ASSUME T # {} PROVE FALSE
  OBVIOUS
<1>2. PICK x \in T : \A y \in T : ~(<<y, x>> \in OpToRel(<, Nat))
  <2>1. T \subseteq Nat /\ IsWellFoundedOn(OpToRel(<, Nat), Nat)
    BY NatLessThanWellFounded
  <2> HIDE DEF T
  <2> QED
    BY <1>1, <2>1, WFMin
<1>3. x \in Nat /\ x \notin S /\ x # 0
  OBVIOUS
<1>4. x - 1 \in T
  BY <1>3
<1>5. <<x - 1, x>> \in OpToRel(<, Nat)
  BY <1>3 DEF OpToRel
<1> QED
  BY <1>2, <1>4, <1>5

-----------------------------------------------------------------------------
(* Sequences. *)

LEMMA ConcatAssociates ==
  ASSUME NEW S, NEW a \in Seq(S), NEW b \in Seq(S), NEW c \in Seq(S)
  PROVE  (a \o b) \o c = a \o (b \o c) /\ a \o b \in Seq(S) /\ a \o <<>> = a /\ <<>> \o a = a
OBVIOUS

LEMMA AppendIsConcat ==
  ASSUME NEW S, NEW a \in Seq(S), NEW x \in S
  PROVE  Append(a, x) = a \o <<x>> /\ Append(a, x) \in Seq(S)
OBVIOUS

LEMMA HeadAndTail ==
  ASSUME NEW S, NEW a \in Seq(S), a # <<>>
  PROVE  Head(a) \in S /\ Tail(a) \in Seq(S) /\ a = <<Head(a)>> \o Tail(a) /\ Len(Tail(a)) = Len(a) - 1
         /\ Len(a) \in Nat \ {0}
OBVIOUS

(* f is what FlattenSeq has joined of s after each of its members.         *)
Joins(S, s, f) ==
  /\ f \in [1..Len(s) -> Seq(S)]
  /\ f = [i \in 1..Len(s) |-> IF i = 1 THEN s[i] ELSE f[i - 1] \o s[i]]

LEMMA JoinsUnique ==
  ASSUME NEW S, NEW s \in Seq(Seq(S)), NEW t \in Seq(Seq(S)), NEW f, NEW g,
         Joins(S, s, f), Joins(S, t, g), Len(s) <= Len(t), \A i \in 1..Len(s) : s[i] = t[i]
  PROVE  \A i \in 1..Len(s) : f[i] = g[i]
<1> DEFINE T == {n \in Nat : n + 1 \in 1..Len(s) => f[n + 1] = g[n + 1]}
<1>1. 0 \in T
  <2>1. ASSUME 1 \in 1..Len(s) PROVE f[1] = s[1] /\ g[1] = t[1] /\ s[1] = t[1]
    BY <2>1 DEF Joins
  <2> QED
    BY <2>1
<1>2. ASSUME NEW n \in Nat, n \in T PROVE n + 1 \in T
  <2>1. ASSUME n + 2 \in 1..Len(s) PROVE f[n + 2] = g[n + 2]
    <3>1. n + 1 \in 1..Len(s) /\ n + 2 \in 1..Len(t) /\ n + 2 # 1 /\ (n + 2) - 1 = n + 1
      BY <2>1
    <3>2. f[n + 1] = g[n + 1]
      BY <1>2, <3>1
    <3>3. f[n + 2] = f[(n + 2) - 1] \o s[n + 2]
      BY <2>1, <3>1 DEF Joins
    <3>4. g[n + 2] = g[(n + 2) - 1] \o t[n + 2]
      BY <3>1 DEF Joins
    <3>5. s[n + 2] = t[n + 2]
      BY <2>1
    <3> QED
      BY <3>1, <3>2, <3>3, <3>4, <3>5
  <2>2. (n + 1) + 1 = n + 2 /\ n + 1 \in Nat
    OBVIOUS
  <2> QED
    BY <2>1, <2>2
<1>3. Nat \subseteq T
  <2> HIDE DEF T
  <2> QED
    BY <1>1, <1>2, SetInduction
<1> SUFFICES ASSUME NEW i \in 1..Len(s) PROVE f[i] = g[i]
  OBVIOUS
<1>4. i - 1 \in Nat /\ (i - 1) + 1 = i
  OBVIOUS
<1>5. i - 1 \in T
  <2> HIDE DEF T
  <2> QED
    BY <1>3, <1>4
<1> QED
  BY <1>4, <1>5

LEMMA JoinsNext ==
  ASSUME NEW S, NEW s \in Seq(Seq(S)), NEW x \in Seq(S), NEW f, Joins(S, s, f)
  PROVE  LET t == Append(s, x)
             g == [i \in 1..Len(s) + 1 |-> IF i <= Len(s) THEN f[i]
                                           ELSE IF Len(s) = 0 THEN x ELSE f[Len(s)] \o x]
         IN  Joins(S, t, g)
<1> DEFINE t == Append(s, x)
           last == IF Len(s) = 0 THEN x ELSE f[Len(s)] \o x
           n == Len(s)
           g == [i \in 1..n + 1 |-> IF i <= n THEN f[i] ELSE last]
<1>1. n \in Nat /\ Len(t) = n + 1 /\ t[n + 1] = x /\ \A i \in 1..n : t[i] = s[i]
  OBVIOUS
<1>2. /\ f \in [1..n -> Seq(S)]
      /\ \A i \in 1..n : f[i] = IF i = 1 THEN s[i] ELSE f[i - 1] \o s[i]
  BY DEF Joins
<1>3. last \in Seq(S)
  <2>1. CASE n = 0
    BY <2>1
  <2>2. CASE n # 0
    <3>1. f[n] \in Seq(S)
      <4>1. n \in 1..n
        BY <1>1, <2>2
      <4> QED
        BY <1>2, <4>1
    <3> QED
      BY <2>2, <3>1
  <2> QED
    BY <2>1, <2>2
<1>4. last = IF n = 0 THEN x ELSE f[n] \o x
  OBVIOUS
<1> HIDE DEF n, t, last
<1>5. g \in [1..n + 1 -> Seq(S)]
  BY <1>1, <1>2, <1>3
<1>6. ASSUME NEW i \in 1..n + 1 PROVE g[i] = IF i = 1 THEN t[i] ELSE g[i - 1] \o t[i]
  <2>1. CASE i <= n
    <3>1. i \in 1..n /\ g[i] = f[i] /\ t[i] = s[i]
      BY <1>1, <2>1
    <3>2. i # 1 => g[i - 1] = f[i - 1]
      BY <1>1, <2>1
    <3>3. f[i] = IF i = 1 THEN s[i] ELSE f[i - 1] \o s[i]
      BY <1>2, <3>1
    <3> HIDE DEF g
    <3> QED
      BY <3>1, <3>2, <3>3
  <2>2. CASE i = n + 1
    <3>1. g[i] = last /\ t[i] = x
      BY <1>1, <2>2
    <3>2. n # 0 => g[i - 1] = f[n] /\ i # 1
      BY <1>1, <2>2
    <3>3. n = 0 => i = 1
      BY <2>2
    <3> HIDE DEF g
    <3> QED
      BY <1>4, <2>2, <3>1, <3>2, <3>3, <1>1
  <2> QED
    BY <1>1, <2>1, <2>2
<1>7. g = [i \in 1..n + 1 |-> IF i = 1 THEN t[i] ELSE g[i - 1] \o t[i]]
  <2>1. g = [i \in 1..n + 1 |-> g[i]]
    OBVIOUS
  <2> HIDE DEF g
  <2> QED
    BY <1>6, <2>1
<1>8. Joins(S, t, g)
  <2> HIDE DEF g
  <2> QED
    BY <1>1, <1>5, <1>7 DEF Joins
<1> QED
  BY <1>8 DEF g, n, t, last

LEMMA JoinsExist ==
  ASSUME NEW S
  PROVE  \A s \in Seq(Seq(S)) : \E f : Joins(S, s, f)
<1> DEFINE T == {n \in Nat : \A s \in Seq(Seq(S)) : Len(s) = n => \E f : Joins(S, s, f)}
<1>1. 0 \in T
  <2>1. ASSUME NEW s \in Seq(Seq(S)), Len(s) = 0 PROVE \E f : Joins(S, s, f)
    <3> DEFINE f == [i \in 1..0 |-> s[i]]
    <3>1. f = [i \in 1..Len(s) |-> IF i = 1 THEN s[i] ELSE f[i - 1] \o s[i]] /\ f \in [1..Len(s) -> Seq(S)]
      BY <2>1
    <3> QED
      BY <3>1 DEF Joins
  <2> QED
    BY <2>1
<1>2. ASSUME NEW n \in Nat, n \in T PROVE n + 1 \in T
  <2>1. ASSUME NEW t \in Seq(Seq(S)), Len(t) = n + 1 PROVE \E g : Joins(S, t, g)
    <3> DEFINE s == SubSeq(t, 1, n)
               x == t[n + 1]
    <3>1. s \in Seq(Seq(S)) /\ x \in Seq(S) /\ Len(s) = n
      BY <2>1
    <3>2. t = Append(s, x)
      BY <2>1
    <3> HIDE DEF s, x
    <3>3. PICK f : Joins(S, s, f)
      BY <1>2, <3>1
    <3> QED
      BY <3>1, <3>2, <3>3, JoinsNext
  <2> QED
    BY <2>1
<1>3. Nat \subseteq T
  <2> HIDE DEF T
  <2> QED
    BY <1>1, <1>2, SetInduction
<1> SUFFICES ASSUME NEW s \in Seq(Seq(S)) PROVE \E f : Joins(S, s, f)
  OBVIOUS
<1>4. Len(s) \in T
  BY <1>3
<1> QED
  BY <1>4

LEMMA FlattenIs ==
  ASSUME NEW S, NEW s \in Seq(Seq(S)), NEW f, Joins(S, s, f), Len(s) # 0
  PROVE  FlattenSeq(s) = f[Len(s)]
<1> DEFINE J(g) == g = [i \in 1..Len(s) |-> IF i = 1 THEN s[i] ELSE g[i - 1] \o s[i]]
           h == CHOOSE g : J(g)
<1>1. FlattenSeq(s) = h[Len(s)]
  BY DEF FlattenSeq
<1>2. J(f)
  BY DEF Joins
<1>3. J(h)
  <2> HIDE DEF J
  <2> QED
    BY <1>2
<1> HIDE DEF h
<1>4. \A i \in 1..Len(s) : h[i] = f[i]
  <2> DEFINE T == {n \in Nat : n + 1 \in 1..Len(s) => h[n + 1] = f[n + 1]}
  <2>1. 0 \in T
    BY <1>2, <1>3
  <2>2. ASSUME NEW n \in Nat, n \in T PROVE n + 1 \in T
    <3>1. ASSUME n + 2 \in 1..Len(s) PROVE h[n + 2] = f[n + 2]
      <4>1. n + 1 \in 1..Len(s) /\ n + 2 # 1 /\ (n + 2) - 1 = n + 1
        BY <3>1
      <4>2. h[n + 1] = f[n + 1]
        BY <2>2, <4>1
      <4>3. f[n + 2] = f[(n + 2) - 1] \o s[n + 2]
        BY <1>2, <3>1, <4>1
      <4>4. h[n + 2] = h[(n + 2) - 1] \o s[n + 2]
        BY <1>3, <3>1, <4>1
      <4> QED
        BY <4>1, <4>2, <4>3, <4>4
    <3>2. (n + 1) + 1 = n + 2 /\ n + 1 \in Nat
      OBVIOUS
    <3> QED
      BY <3>1, <3>2
  <2>3. Nat \subseteq T
    <3> HIDE DEF T
    <3> QED
      BY <2>1, <2>2, SetInduction
  <2> SUFFICES ASSUME NEW i \in 1..Len(s) PROVE h[i] = f[i]
    OBVIOUS
  <2>4. i - 1 \in Nat /\ (i - 1) + 1 = i
    OBVIOUS
  <2>5. i - 1 \in T
    <3> HIDE DEF T
    <3> QED
      BY <2>3, <2>4
  <2> QED
    BY <2>4, <2>5
<1>5. Len(s) \in 1..Len(s)
  OBVIOUS
<1> QED
  BY <1>1, <1>4, <1>5

(* FlattenSeq of one more sequence puts it behind the others.              *)
LEMMA FlattenAppend ==
  ASSUME NEW S, NEW s \in Seq(Seq(S)), NEW x \in Seq(S)
  PROVE  FlattenSeq(s) \in Seq(S) /\ FlattenSeq(Append(s, x)) = FlattenSeq(s) \o x
<1> DEFINE n == Len(s)
           t == Append(s, x)
<1>1. PICK f : Joins(S, s, f)
  BY JoinsExist
<1> DEFINE last == IF n = 0 THEN x ELSE f[n] \o x
           g == [i \in 1..n + 1 |-> IF i <= n THEN f[i] ELSE last]
<1>2. Joins(S, t, g)
  BY <1>1, JoinsNext
<1>3. n \in Nat /\ t \in Seq(Seq(S)) /\ Len(t) = n + 1
  OBVIOUS
<1>4. g[n + 1] = last
  BY <1>3
<1> HIDE DEF t, g
<1>5. FlattenSeq(t) = g[n + 1]
  BY <1>2, <1>3, FlattenIs
<1>6. CASE n = 0
  <2>1. s = <<>> /\ FlattenSeq(s) = s
    BY <1>6 DEF FlattenSeq
  <2>2. last = x
    BY <1>6
  <2>3. <<>> \o x = x /\ <<>> \in Seq(S)
    OBVIOUS
  <2>4. FlattenSeq(s) \o x = x /\ FlattenSeq(s) \in Seq(S)
    BY <2>1, <2>3, Zenon
  <2> HIDE DEF last
  <2> QED
    BY <1>4, <1>5, <2>2, <2>4 DEF t
<1>7. CASE n # 0
  <2>1. FlattenSeq(s) = f[n]
    BY <1>1, <1>7, FlattenIs
  <2>2. f[n] \in Seq(S)
    <3>1. n \in 1..n
      BY <1>3, <1>7
    <3> QED
      BY <1>1, <3>1 DEF Joins
  <2>3. last = f[n] \o x
    BY <1>7
  <2> HIDE DEF last
  <2> QED
    BY <1>4, <1>5, <2>1, <2>2, <2>3 DEF t
<1> QED
  BY <1>6, <1>7

-----------------------------------------------------------------------------
(* What texts are made of. *)
Letters == STRING

(* A call by itself: after each character of its format, its frame and     *)
(* what it has said so far.                                                *)
Turn(t) == LET f == vfprintf([t.frame EXCEPT !.pending = <<>>])
           IN [frame |-> f, said |-> t.said \o f.pending]

Turns(call) ==
  LET turn[n \in 0..Len(Frame(call).fmt)] ==
        IF n = 0 THEN [frame |-> Frame(call), said |-> Frame(call).pending] ELSE Turn(turn[n - 1])
  IN turn

(* Each call by itself says what its format means, and on the screen only  *)
(* characters the sheet knows.  WellSpelled implies it: FormatsAreRead.    *)
EachCallAlone ==
  /\ Scripts \cup HandlerTexts \subseteq Seq(Steps)
  /\ \A call \in Calls :
       /\ call.file \in {"stdout", "debug"}
       /\ Frame(call).fmt \in Seq(Letters)
       /\ Turns(call)[Len(Frame(call).fmt)].said = Message(call.parts, call.args)
       /\ \A n \in 0..Len(Frame(call).fmt) :
            LET next == Turns(call)[n].frame.pending
            IN /\ next \in Seq(Letters)
               /\ call.file = "stdout" => next \in Seq(Characters \cup {"\n", "\t", "\r"})

-----------------------------------------------------------------------------
(* What a call says, on its file. *)

Files  == {"stdout", "debug"}
Places == Files \X Letters
On(file, text) == [n \in DOMAIN text |-> <<file, text[n]>>]

LEMMA OnIs ==
  ASSUME NEW file \in Files, NEW a \in Seq(Letters), NEW b \in Seq(Letters)
  PROVE  /\ On(file, a) \in Seq(Places)
         /\ On(file, <<>>) = <<>>
         /\ On(file, a \o b) = On(file, a) \o On(file, b)
<1> DEFINE S == Letters
           P == Places
<1>1. \A c \in S : <<file, c>> \in P
  BY DEF Places
<1> HIDE DEF S, P
<1>2. a \in Seq(S) /\ b \in Seq(S)
  BY DEF S
<1>3. \A t \in Seq(S) : On(file, t) \in Seq(P) /\ Len(On(file, t)) = Len(t)
                        /\ \A n \in 1..Len(t) : On(file, t)[n] = <<file, t[n]>>
  BY <1>1 DEF On
<1>4. On(file, <<>>) = <<>>
  BY DEF On
<1>5. a \o b \in Seq(S) /\ Len(a \o b) = Len(a) + Len(b)
      /\ (\A n \in 1..Len(a) : (a \o b)[n] = a[n])
      /\ (\A n \in 1..Len(b) : (a \o b)[Len(a) + n] = b[n])
      /\ Len(a) \in Nat /\ Len(b) \in Nat
  BY <1>2
<1> DEFINE x == On(file, a)
           y == On(file, b)
           z == On(file, a \o b)
           ab == a \o b
<1>6. /\ x \in Seq(P) /\ y \in Seq(P) /\ z \in Seq(P)
      /\ Len(x) = Len(a) /\ Len(y) = Len(b) /\ Len(z) = Len(a) + Len(b)
  BY <1>2, <1>3, <1>5
<1>7. /\ \A n \in 1..Len(a) : z[n] = x[n]
      /\ \A n \in 1..Len(b) : z[Len(a) + n] = y[n]
  <2>1. \A n \in 1..Len(a) + Len(b) : z[n] = <<file, ab[n]>>
    BY <1>3, <1>5
  <2>2. \A n \in 1..Len(a) : x[n] = <<file, a[n]>>
    BY <1>2, <1>3
  <2>3. \A n \in 1..Len(b) : y[n] = <<file, b[n]>>
    BY <1>2, <1>3
  <2>4. \A n \in 1..Len(a) : n \in 1..Len(a) + Len(b) /\ ab[n] = a[n]
    BY <1>5
  <2>5. \A n \in 1..Len(b) : Len(a) + n \in 1..Len(a) + Len(b) /\ ab[Len(a) + n] = b[n]
    BY <1>5
  <2> HIDE DEF x, y, z, ab
  <2>6. ASSUME NEW n \in 1..Len(a) PROVE z[n] = x[n]
    BY <2>1, <2>2, <2>4, Zenon
  <2>7. ASSUME NEW n \in 1..Len(b) PROVE z[Len(a) + n] = y[n]
    BY <2>1, <2>3, <2>5, Zenon
  <2> QED
    BY <2>6, <2>7
<1> HIDE DEF x, y, z
<1>8. z = x \o y
  <2> DEFINE xy == x \o y
  <2>1. xy \in Seq(P) /\ Len(xy) = Len(a) + Len(b)
        /\ (\A n \in 1..Len(a) : xy[n] = x[n])
        /\ (\A n \in 1..Len(b) : xy[Len(a) + n] = y[n])
    <3>1. x \in Seq(P) /\ y \in Seq(P)
      BY <1>6
    <3>2. x \o y \in Seq(P) /\ Len(x \o y) = Len(x) + Len(y)
          /\ (\A n \in 1..Len(x) : (x \o y)[n] = x[n])
          /\ (\A n \in 1..Len(y) : (x \o y)[Len(x) + n] = y[n])
      BY <3>1
    <3>3. Len(x) = Len(a) /\ Len(y) = Len(b)
      BY <1>6
    <3> HIDE DEF x, y
    <3> QED
      BY <3>2, <3>3
  <2> HIDE DEF xy
  <2>2. ASSUME NEW i \in 1..Len(a) + Len(b) PROVE z[i] = xy[i]
    <3>1. CASE i <= Len(a)
      BY <1>5, <1>7, <2>1, <3>1
    <3>2. CASE ~(i <= Len(a))
      <4>1. i - Len(a) \in 1..Len(b) /\ Len(a) + (i - Len(a)) = i
        BY <1>5, <3>2
      <4> QED
        BY <1>7, <2>1, <4>1
    <3> QED
      BY <3>1, <3>2
  <2>3. z = xy
    BY <1>6, <2>1, <2>2
  <2> QED
    BY <2>3 DEF xy
<1> QED
  BY <1>4, <1>6, <1>8 DEF x, y, z, P

LEMMA OnHead ==
  ASSUME NEW file \in Files, NEW a \in Seq(Letters), a # <<>>
  PROVE  /\ On(file, a) = <<<<file, Head(a)>>>> \o On(file, Tail(a))
         /\ <<file, Head(a)>> \in Places
<1> DEFINE S == Letters
<1>1. a \in Seq(S)
  BY DEF S
<1> HIDE DEF S
<1>2. Head(a) \in S /\ Tail(a) \in Seq(S) /\ a = <<Head(a)>> \o Tail(a) /\ <<Head(a)>> \in Seq(S)
  BY <1>1, HeadAndTail
<1>3. On(file, <<Head(a)>> \o Tail(a)) = On(file, <<Head(a)>>) \o On(file, Tail(a))
  BY <1>2, OnIs DEF S
<1>4. On(file, <<Head(a)>>) = <<<<file, Head(a)>>>>
  BY DEF On
<1>5. <<file, Head(a)>> \in Places
  BY <1>2 DEF S, Places
<1> QED
  BY <1>2, <1>3, <1>4, <1>5, Zenon

(* What the calls mean, one more behind the others.                        *)
LEMMA SpokenAppend ==
  ASSUME NEW C, NEW calls \in Seq(C), NEW call \in C,
         \A c \in C : c.file \in Files /\ Message(c.parts, c.args) \in Seq(Letters)
  PROVE  /\ Spoken(calls) \in Seq(Places)
         /\ Spoken(Append(calls, call)) = Spoken(calls) \o On(call.file, Message(call.parts, call.args))
<1> DEFINE M(c) == On(c.file, Message(c.parts, c.args))
           more == Append(calls, call)
           s == [k \in DOMAIN calls |-> M(calls[k])]
           t == [k \in DOMAIN more |-> M(more[k])]
           P == Places
<1>1. Spoken(calls) = FlattenSeq(s) /\ Spoken(more) = FlattenSeq(t)
  BY DEF Spoken, On
<1>2. \A c \in C : M(c) \in Seq(P)
  BY OnIs
<1> HIDE DEF M, P
<1>3. s \in Seq(Seq(P)) /\ M(call) \in Seq(P)
  <2>1. DOMAIN calls = 1..Len(calls) /\ Len(calls) \in Nat /\ \A k \in 1..Len(calls) : calls[k] \in C
    OBVIOUS
  <2>2. \A k \in 1..Len(calls) : M(calls[k]) \in Seq(P)
    BY <1>2, <2>1
  <2> DEFINE Q == Seq(P)
  <2>3. \A k \in 1..Len(calls) : M(calls[k]) \in Q
    BY <2>2
  <2> HIDE DEF Q
  <2>4. s \in Seq(Q)
    BY <2>1, <2>3
  <2> QED
    BY <1>2, <2>4 DEF Q
<1>4. t = Append(s, M(call))
  OBVIOUS
<1> HIDE DEF s, t, more
<1>5. FlattenSeq(s) \in Seq(P) /\ FlattenSeq(t) = FlattenSeq(s) \o M(call)
  BY <1>3, <1>4, FlattenAppend
<1> QED
  BY <1>1, <1>5 DEF M, P, more

-----------------------------------------------------------------------------
(* A call by itself. *)

Opening(call) == [frame |-> Frame(call), said |-> Frame(call).pending]
Size(call)    == Len(Frame(call).fmt)
Follows(call, f, n) == IF n = 0 THEN Opening(call) ELSE Turn(f[n - 1])

(* The recursion that defines Turns has a solution on every prefix.        *)
LEMMA TurnsExist ==
  ASSUME NEW call
  PROVE  \A m \in Nat : \E f : f = [n \in 0..m |-> Follows(call, f, n)]
<1> DEFINE Solved(m, f) == f = [n \in 0..m |-> Follows(call, f, n)]
           S == {m \in Nat : \E f : Solved(m, f)}
<1>1. 0 \in S
  <2> DEFINE f == [n \in 0..0 |-> Opening(call)]
  <2>1. f = [n \in 0..0 |-> Follows(call, f, n)]
    BY DEF Follows
  <2> QED
    BY <2>1
<1>2. ASSUME NEW m \in Nat, m \in S PROVE m + 1 \in S
  <2>1. PICK f : Solved(m, f)
    BY <1>2
  <2> DEFINE c == Turn(f[m])
             g == [n \in 0..(m + 1) |-> IF n <= m THEN f[n] ELSE c]
  <2>2. \A n \in 0..m : f[n] = Follows(call, f, n)
    BY <2>1
  <2> HIDE DEF c
  <2>3. ASSUME NEW n \in 0..(m + 1) PROVE g[n] = Follows(call, g, n)
    <3>1. CASE n = 0
      <4>1. g[n] = f[n] /\ f[n] = Follows(call, f, n)
        BY <2>2, <3>1
      <4> QED
        BY <3>1, <4>1 DEF Follows
    <3>2. CASE n \in 1..m
      <4>1. g[n] = f[n] /\ g[n - 1] = f[n - 1] /\ n # 0 /\ n \in 0..m
        BY <3>2
      <4>2. f[n] = Follows(call, f, n)
        BY <2>2, <4>1
      <4> HIDE DEF g
      <4> QED
        BY <4>1, <4>2 DEF Follows
    <3>3. CASE n = m + 1
      <4>1. g[n] = c /\ g[n - 1] = f[m] /\ n # 0
        BY <3>3
      <4> HIDE DEF g
      <4> QED
        BY <4>1 DEF Follows, c
    <3> QED
      BY <3>1, <3>2, <3>3
  <2>4. g = [n \in 0..(m + 1) |-> g[n]]
    OBVIOUS
  <2> HIDE DEF g
  <2>5. Solved(m + 1, g)
    BY <2>3, <2>4
  <2> HIDE DEF Solved
  <2> QED
    BY <2>5
<1>3. Nat \subseteq S
  <2> HIDE DEF S
  <2> QED
    BY <1>1, <1>2, SetInduction
<1> QED
  BY <1>3

LEMMA TurnsRecursion ==
  ASSUME NEW call, Size(call) \in Nat
  PROVE  /\ Turns(call)[0] = Opening(call)
         /\ \A n \in 0..Size(call) - 1 : Turns(call)[n + 1] = Turn(Turns(call)[n])
<1> DEFINE N == Size(call)
           Solved(f) == f = [n \in 0..N |-> Follows(call, f, n)]
           T == Turns(call)
<1>1. T = CHOOSE f : Solved(f)
  BY DEF Turns, Follows, Opening, Size
<1>2. \E f : Solved(f)
  BY TurnsExist
<1>3. Solved(T)
  <2> HIDE DEF Solved, T
  <2> QED
    BY <1>1, <1>2
<1> HIDE DEF T
<1>4. \A n \in 0..N : T[n] = Follows(call, T, n)
  <2> HIDE DEF N
  <2> QED
    BY <1>3
<1>5. T[0] = Opening(call)
  BY <1>4 DEF Follows
<1>6. ASSUME NEW n \in 0..N - 1 PROVE T[n + 1] = Turn(T[n])
  <2>1. n + 1 \in 0..N /\ n + 1 # 0 /\ (n + 1) - 1 = n
    OBVIOUS
  <2>2. T[n + 1] = Follows(call, T, n + 1)
    BY <1>4, <2>1
  <2> QED
    BY <2>1, <2>2 DEF Follows
<1> QED
  BY <1>5, <1>6 DEF T

FrameFields == {"fmt", "args", "state", "length", "file", "pending"}
IsFrame(f)  == f = [k \in FrameFields |-> f[k]]
Waiting(f, text) == [f EXCEPT !.pending = text]

LEMMA WaitingIs ==
  ASSUME NEW f, IsFrame(f), NEW text
  PROVE  /\ IsFrame(Waiting(f, text)) /\ Waiting(f, text).pending = text
         /\ Waiting(f, text).fmt = f.fmt /\ Waiting(f, text).file = f.file
         /\ Waiting(f, f.pending) = f
         /\ \A b : Waiting(Waiting(f, text), b) = Waiting(f, b)
BY DEF IsFrame, FrameFields, Waiting

(* vfprintf reads one character, whatever it is and in whatever state.     *)
LEMMA VfprintfIs ==
  ASSUME NEW f, IsFrame(f)
  PROVE  IsFrame(vfprintf(f)) /\ vfprintf(f).fmt = Tail(f.fmt) /\ vfprintf(f).file = f.file
<1> DEFINE c == Head(f.fmt)
           g == [f EXCEPT !.fmt = Tail(@)]
           Read(h) == IsFrame(h) /\ h.fmt = Tail(f.fmt) /\ h.file = f.file
<1>1. Read(g)
  BY DEF IsFrame, FrameFields
<1> HIDE DEF g
<1>2. \A v : Read([g EXCEPT !.state = v])
  BY <1>1 DEF IsFrame, FrameFields
<1>3. \A v : Read([g EXCEPT !.pending = v])
  BY <1>1 DEF IsFrame, FrameFields
<1>4. \A v, w : Read([g EXCEPT !.length = v, !.state = w])
  BY <1>1 DEF IsFrame, FrameFields
<1>5. Read(Specifier(g, c))
  <2>1. Read(Fresh(g))
    BY <1>1 DEF IsFrame, FrameFields, Fresh
  <2>2. \A v, w : Read([Fresh(g) EXCEPT !.pending = v, !.args = w])
    BY <2>1 DEF IsFrame, FrameFields
  <2> HIDE DEF Read
  <2> QED
    BY <2>2 DEF Specifier
<1>6. Read(vfprintf(f))
  <2> HIDE DEF Read
  <2> DEFINE A1 == f.state = "NORMAL" /\ c = "%"
             A2 == f.state = "NORMAL" /\ c # "%"
             A3 == f.state \in DOMAIN LengthMoves /\ c \in DOMAIN LengthMoves[f.state]
             L  == LengthMoves[f.state][c]
  <2>1. vfprintf(f) = CASE A1 -> [g EXCEPT !.state = "LENGTH"]
                        [] A2 -> [g EXCEPT !.pending = <<c>>]
                        [] A3 -> [g EXCEPT !.length = L.length, !.state = L.state]
                        [] OTHER -> Specifier(g, c)
    BY DEF vfprintf, g
  <2>2. Read([g EXCEPT !.state = "LENGTH"])
    BY <1>2, Zenon
  <2>3. Read([g EXCEPT !.pending = <<c>>])
    BY <1>3, Zenon
  <2>4. Read([g EXCEPT !.length = L.length, !.state = L.state])
    BY <1>4, Zenon
  <2>5. ~(A1 /\ A2) /\ ~(A1 /\ A3) /\ ~(A2 /\ A3)
    BY DEF LengthMoves
  <2> HIDE DEF A1, A2, A3
  <2> QED
    BY <1>5, <2>1, <2>2, <2>3, <2>4, <2>5
<1> QED
  BY <1>6

LEMMA FrameIs ==
  ASSUME NEW call
  PROVE  IsFrame(Frame(call)) /\ Frame(call).file = call.file
<1>1. CASE call.step = "puts"
  BY <1>1 DEF Frame, Idle, IsFrame, FrameFields
<1>2. CASE call.step # "puts"
  BY <1>2 DEF Frame, Idle, IsFrame, FrameFields
<1> QED
  BY <1>1, <1>2

-----------------------------------------------------------------------------
LEMMA CallIs ==
  ASSUME EachCallAlone, NEW call \in Calls
  PROVE  /\ call.file \in Files
         /\ Frame(call).fmt \in Seq(Letters) /\ Size(call) \in Nat
         /\ Turns(call)[Size(call)].said = Message(call.parts, call.args)
         /\ \A n \in 0..Size(call) :
              /\ Turns(call)[n].frame.pending \in Seq(Letters)
              /\ call.file = "stdout" => Turns(call)[n].frame.pending \in Seq(Characters \cup Controls)
BY DEF EachCallAlone, Files, Size, Controls

LEMMA TurnIs ==
  ASSUME NEW t, IsFrame(t.frame)
  PROVE  LET f == vfprintf(Waiting(t.frame, <<>>))
         IN  /\ Turn(t).frame = f /\ Turn(t).said = t.said \o f.pending
             /\ IsFrame(f) /\ f.fmt = Tail(t.frame.fmt) /\ f.file = t.frame.file
<1> DEFINE g == Waiting(t.frame, <<>>)
           f == vfprintf(g)
<1>1. IsFrame(g) /\ g.fmt = t.frame.fmt /\ g.file = t.frame.file
  BY WaitingIs
<1> HIDE DEF g
<1>2. IsFrame(f) /\ f.fmt = Tail(g.fmt) /\ f.file = g.file
  BY <1>1, VfprintfIs
<1>3. Turn(t).frame = f /\ Turn(t).said = t.said \o f.pending
  BY DEF Turn, Waiting, g
<1> HIDE DEF f
<1> QED
  BY <1>1, <1>2, <1>3 DEF f, g

(* After n characters of its format a call has the others to read.         *)
LEMMA TurnsAre ==
  ASSUME EachCallAlone, NEW call \in Calls
  PROVE  \A n \in 0..Size(call) :
           /\ IsFrame(Turns(call)[n].frame) /\ Turns(call)[n].frame.file = call.file
           /\ Turns(call)[n].frame.fmt \in Seq(Letters)
           /\ Len(Turns(call)[n].frame.fmt) = Size(call) - n
           /\ Turns(call)[n].said \in Seq(Letters)
<1> DEFINE N == Size(call)
           T == Turns(call)
           Fine(n) == /\ IsFrame(T[n].frame) /\ T[n].frame.file = call.file
                      /\ T[n].frame.fmt \in Seq(Letters) /\ Len(T[n].frame.fmt) = N - n
                      /\ T[n].said \in Seq(Letters)
           S == {n \in Nat : n \in 0..N => Fine(n)}
<1>1. N \in Nat /\ \A n \in 0..N : T[n].frame.pending \in Seq(Letters)
  BY CallIs
<1>2. T[0] = Opening(call) /\ \A n \in 0..N - 1 : T[n + 1] = Turn(T[n])
  BY <1>1, TurnsRecursion
<1>3. 0 \in S
  <2>1. T[0].frame = Frame(call) /\ T[0].said = T[0].frame.pending
    BY <1>2 DEF Opening
  <2>2. IsFrame(Frame(call)) /\ Frame(call).file = call.file
    BY FrameIs
  <2>3. Frame(call).fmt \in Seq(Letters) /\ Len(Frame(call).fmt) = N
    BY CallIs DEF Size
  <2> HIDE DEF T, N
  <2>4. Fine(0)
    BY <1>1, <2>1, <2>2, <2>3
  <2> QED
    BY <2>4
<1>4. ASSUME NEW n \in Nat, n \in S PROVE n + 1 \in S
  <2> SUFFICES ASSUME n + 1 \in 0..N PROVE Fine(n + 1)
    OBVIOUS
  <2>1. n \in 0..N - 1 /\ n \in 0..N
    BY <1>1
  <2>2. Fine(n)
    BY <1>4, <2>1
  <2>3. T[n + 1] = Turn(T[n])
    BY <1>2, <2>1
  <2> HIDE DEF T, N
  <2>4. /\ T[n + 1].said = T[n].said \o T[n + 1].frame.pending
        /\ IsFrame(T[n + 1].frame) /\ T[n + 1].frame.fmt = Tail(T[n].frame.fmt)
        /\ T[n + 1].frame.file = T[n].frame.file
    BY <2>2, <2>3, TurnIs
  <2>5. T[n + 1].frame.pending \in Seq(Letters)
    BY <1>1
  <2>6. T[n + 1].said \in Seq(Letters)
    BY <2>2, <2>4, <2>5, ConcatAssociates
  <2>7. Tail(T[n].frame.fmt) \in Seq(Letters) /\ Len(Tail(T[n].frame.fmt)) = N - (n + 1)
    <3> DEFINE a == T[n].frame.fmt
    <3>1. a \in Seq(Letters) /\ Len(a) = N - n
      BY <2>2
    <3> HIDE DEF a
    <3>2. a # <<>>
      BY <1>1, <2>1, <3>1
    <3>3. Tail(a) \in Seq(Letters) /\ Len(Tail(a)) = Len(a) - 1
      BY <3>1, <3>2, HeadAndTail
    <3> QED
      BY <1>1, <3>1, <3>3 DEF a
  <2> QED
    BY <2>2, <2>4, <2>6, <2>7
<1>5. Nat \subseteq S
  <2> HIDE DEF S
  <2> QED
    BY <1>3, <1>4, SetInduction
<1>6. \A n \in 0..N : n \in Nat
  BY <1>1
<1>7. \A n \in 0..N : Fine(n)
  BY <1>5, <1>6
<1> QED
  BY <1>7

-----------------------------------------------------------------------------
(* A context that prints has made calls and then call, whose format it has *)
(* read n characters of; text is made and not yet written.                 *)
Busy(f, m, w, calls, call, n, text) ==
  /\ m = Append(calls, call)
  /\ f = Waiting(Turns(call)[n].frame, text)
  /\ w \o On(call.file, text) = Spoken(calls) \o On(call.file, Turns(call)[n].said)

Texts(call) == {text \in Seq(Letters) : call.file = "stdout" => text \in Seq(Characters \cup Controls)}

Tells(f, m, w) ==
  /\ m \in Seq(Calls) /\ w \in Seq(Places)
  /\ \/ f = Idle /\ w = Spoken(m)
     \/ \E calls \in Seq(Calls), call \in Calls :
          \E n \in 0..Size(call), text \in Texts(call) : Busy(f, m, w, calls, call, n, text)

LEMMA SpokenIs ==
  ASSUME EachCallAlone, NEW calls \in Seq(Calls), NEW call \in Calls
  PROVE  /\ Spoken(calls) \in Seq(Places)
         /\ Spoken(Append(calls, call)) = Spoken(calls) \o On(call.file, Turns(call)[Size(call)].said)
<1>1. \A c \in Calls : c.file \in Files /\ Message(c.parts, c.args) \in Seq(Letters)
  <2> SUFFICES ASSUME NEW c \in Calls PROVE c.file \in Files /\ Message(c.parts, c.args) \in Seq(Letters)
    OBVIOUS
  <2>1. Size(c) \in 0..Size(c)
    BY CallIs
  <2> QED
    BY <2>1, CallIs, TurnsAre
<1>2. Turns(call)[Size(call)].said = Message(call.parts, call.args)
  BY CallIs
<1> QED
  BY <1>1, <1>2, SpokenAppend

LEMMA BeginTells ==
  ASSUME EachCallAlone, NEW m, NEW w, Tells(Idle, m, w), w = Spoken(m), NEW call \in Calls
  PROVE  Tells(Frame(call), Append(m, call), w)
<1>1. m \in Seq(Calls) /\ w \in Seq(Places) /\ Append(m, call) \in Seq(Calls)
  BY AppendIsConcat DEF Tells
<1>2. Turns(call)[0].frame = Frame(call) /\ Turns(call)[0].said = Frame(call).pending
  <2>1. Size(call) \in Nat
    BY CallIs
  <2>2. Turns(call)[0] = Opening(call)
    BY <2>1, TurnsRecursion
  <2> QED
    BY <2>2 DEF Opening
<1>3. 0 \in 0..Size(call)
  BY CallIs
<1>4. Frame(call).pending \in Texts(call)
  BY <1>2, <1>3, CallIs DEF Texts
<1>5. Frame(call) = Waiting(Frame(call), Frame(call).pending)
  BY FrameIs, WaitingIs
<1>6. Busy(Frame(call), Append(m, call), w, m, call, 0, Frame(call).pending)
  BY <1>2, <1>5 DEF Busy
<1> QED
  BY <1>1, <1>3, <1>4, <1>6 DEF Tells

LEMMA BusyFrame ==
  ASSUME EachCallAlone, NEW f, NEW m, NEW w, NEW calls \in Seq(Calls), NEW call \in Calls,
         NEW n \in 0..Size(call), NEW text \in Texts(call), Busy(f, m, w, calls, call, n, text)
  PROVE  /\ f.pending = text /\ f.file = call.file /\ f # Idle
         /\ f.fmt = Turns(call)[n].frame.fmt
         /\ Len(f.fmt) = Size(call) - n
         /\ f.fmt = <<>> <=> n = Size(call)
<1> DEFINE g == Turns(call)[n].frame
<1>1. IsFrame(g) /\ g.file = call.file /\ g.fmt \in Seq(Letters) /\ Len(g.fmt) = Size(call) - n
  BY TurnsAre
<1>2. f = Waiting(g, text)
  BY DEF Busy
<1> HIDE DEF g
<1>3. f.pending = text /\ f.file = call.file /\ f.fmt = g.fmt
  BY <1>1, <1>2, WaitingIs
<1>4. f # Idle
  BY <1>3, CallIs DEF Files, Idle
<1>5. Size(call) \in Nat
  BY CallIs
<1>6. g.fmt = <<>> <=> n = Size(call)
  BY <1>1, <1>5
<1> QED
  BY <1>1, <1>3, <1>4, <1>6 DEF g

LEMMA FormatTells ==
  ASSUME EachCallAlone, NEW f, NEW m, NEW w, Tells(f, m, w), f.pending = <<>>, f.fmt # <<>>
  PROVE  Tells(vfprintf(f), m, w)
<1>1. f # Idle
  BY DEF Idle
<1>2. PICK calls \in Seq(Calls), call \in Calls :
        \E n \in 0..Size(call), text \in Texts(call) : Busy(f, m, w, calls, call, n, text)
  BY <1>1 DEF Tells
<1>3. PICK n \in 0..Size(call), text \in Texts(call) : Busy(f, m, w, calls, call, n, text)
  BY <1>2
<1> DEFINE T == Turns(call)
<1>4. text = <<>> /\ n \in 0..Size(call) - 1 /\ n + 1 \in 0..Size(call)
  BY <1>3, BusyFrame, CallIs
<1>5. T[n + 1] = Turn(T[n])
  BY <1>4, CallIs, TurnsRecursion
<1>6. IsFrame(T[n].frame) /\ T[n].said \in Seq(Letters) /\ T[n + 1].frame.pending \in Texts(call) /\ IsFrame(T[n + 1].frame)
  BY <1>4, TurnsAre, CallIs DEF Texts
<1>7. f = Waiting(T[n].frame, <<>>)
  BY <1>3, <1>4 DEF Busy
<1> DEFINE g == vfprintf(f)
<1>8. T[n + 1].frame = g /\ T[n + 1].said = T[n].said \o g.pending
  BY <1>5, <1>6, <1>7, TurnIs
<1>9. g = Waiting(g, g.pending)
  BY <1>6, <1>8, WaitingIs
<1>10. g.pending \in Texts(call)
  BY <1>6, <1>8
<1> HIDE DEF g, T
<1>11. w \o On(call.file, g.pending) = Spoken(calls) \o On(call.file, T[n + 1].said)
  <2> DEFINE a == On(call.file, T[n].said)
             b == On(call.file, g.pending)
             s == Spoken(calls)
             P == Places
  <2>1. g.pending \in Seq(Letters) /\ call.file \in Files
    BY <1>10, CallIs DEF Texts
  <2>2. a \in Seq(P) /\ b \in Seq(P) /\ On(call.file, T[n + 1].said) = a \o b
    BY <1>6, <1>8, <2>1, OnIs
  <2>3. s \in Seq(P) /\ w \in Seq(P)
    BY SpokenIs DEF Tells
  <2>4. w \o On(call.file, <<>>) = s \o a /\ On(call.file, <<>>) = <<>>
    BY <1>3, <1>4, <2>1, OnIs DEF Busy, T
  <2> HIDE DEF a, b, s, P
  <2>5. w \o <<>> = w /\ (s \o a) \o b = s \o (a \o b)
    BY <2>2, <2>3, ConcatAssociates
  <2> QED
    BY <2>2, <2>4, <2>5, Zenon DEF a, b, s
<1>12. Busy(g, m, w, calls, call, n + 1, g.pending)
  BY <1>3, <1>8, <1>9, <1>11 DEF Busy, T
<1> QED
  BY <1>4, <1>10, <1>12 DEF Tells, g

LEMMA FputcTells ==
  ASSUME EachCallAlone, NEW f, NEW m, NEW w, Tells(f, m, w), f.pending # <<>>
  PROVE  /\ Tells([f EXCEPT !.pending = Tail(@)], m, Append(w, <<f.file, Head(f.pending)>>))
         /\ f.file = "stdout" => Head(f.pending) \in Characters \cup Controls
<1>1. f # Idle
  BY DEF Idle
<1>2. PICK calls \in Seq(Calls), call \in Calls :
        \E n \in 0..Size(call), text \in Texts(call) : Busy(f, m, w, calls, call, n, text)
  BY <1>1 DEF Tells
<1>3. PICK n \in 0..Size(call), text \in Texts(call) : Busy(f, m, w, calls, call, n, text)
  BY <1>2
<1>4. f.pending = text /\ f.file = call.file
  BY <1>3, BusyFrame
<1>5. text \in Seq(Letters) /\ text # <<>> /\ call.file \in Files
  BY <1>4, CallIs DEF Texts
<1>6. call.file = "stdout" => Head(text) \in Characters \cup Controls /\ Tail(text) \in Seq(Characters \cup Controls)
  <2> SUFFICES ASSUME call.file = "stdout"
               PROVE  Head(text) \in Characters \cup Controls /\ Tail(text) \in Seq(Characters \cup Controls)
    OBVIOUS
  <2>1. text \in Seq(Characters \cup Controls)
    BY DEF Texts
  <2> QED
    BY <1>5, <2>1, HeadAndTail
<1>7. Tail(text) \in Texts(call)
  BY <1>5, <1>6, HeadAndTail DEF Texts
<1> DEFINE g == [f EXCEPT !.pending = Tail(@)]
           c == <<call.file, Head(text)>>
           v == Append(w, c)
           h == Turns(call)[n].frame
<1>8. g = Waiting(h, Tail(text))
  <2>1. IsFrame(h)
    BY TurnsAre
  <2>2. f = Waiting(h, text)
    BY <1>3 DEF Busy
  <2> HIDE DEF h
  <2>3. Waiting(Waiting(h, text), Tail(text)) = Waiting(h, Tail(text))
    BY <2>1, WaitingIs
  <2>4. g = Waiting(f, Tail(text))
    BY <1>4 DEF Waiting
  <2> QED
    BY <2>2, <2>3, <2>4, Zenon
<1>9. v \in Seq(Places) /\ v \o On(call.file, Tail(text)) = w \o On(call.file, text)
  <2> DEFINE P == Places
             b == On(call.file, Tail(text))
  <2>1. On(call.file, text) = <<c>> \o b /\ c \in P
    BY <1>5, OnHead
  <2>2. w \in Seq(P) /\ b \in Seq(P)
    BY <1>5, <1>7, OnIs DEF Tells, Texts
  <2> HIDE DEF P, b, c
  <2>3. v = w \o <<c>> /\ v \in Seq(P)
    BY <2>1, <2>2, AppendIsConcat
  <2>4. <<c>> \in Seq(P)
    BY <2>1
  <2>5. (w \o <<c>>) \o b = w \o (<<c>> \o b)
    BY <2>2, <2>4, ConcatAssociates
  <2> HIDE DEF v
  <2> QED
    BY <2>1, <2>3, <2>5 DEF P, b
<1> HIDE DEF g, v
<1>10. Busy(g, m, v, calls, call, n, Tail(text))
  BY <1>3, <1>8, <1>9 DEF Busy
<1>11. m \in Seq(Calls)
  BY DEF Tells
<1>12. Tells(g, m, v)
  BY <1>7, <1>9, <1>10, <1>11 DEF Tells
<1>13. v = Append(w, <<f.file, Head(f.pending)>>)
  BY <1>4 DEF v, c
<1> QED
  BY <1>4, <1>6, <1>12, <1>13 DEF g

LEMMA ReturnTells ==
  ASSUME EachCallAlone, NEW f, NEW m, NEW w, Tells(f, m, w), f # Idle, f.fmt = <<>>, f.pending = <<>>
  PROVE  Tells(Idle, m, w) /\ w = Spoken(m)
<1>1. PICK calls \in Seq(Calls), call \in Calls :
        \E n \in 0..Size(call), text \in Texts(call) : Busy(f, m, w, calls, call, n, text)
  BY DEF Tells
<1>2. PICK n \in 0..Size(call), text \in Texts(call) : Busy(f, m, w, calls, call, n, text)
  BY <1>1
<1>3. text = <<>> /\ n = Size(call)
  BY <1>2, BusyFrame
<1>4. call.file \in Files /\ On(call.file, <<>>) = <<>>
  BY CallIs DEF On
<1>5. w \o <<>> = Spoken(calls) \o On(call.file, Turns(call)[Size(call)].said) /\ m = Append(calls, call)
  BY <1>2, <1>3, <1>4 DEF Busy
<1>6. w \in Seq(Places) /\ m \in Seq(Calls)
  BY DEF Tells
<1>7. w \o <<>> = w
  BY <1>6, ConcatAssociates
<1>8. w = Spoken(m)
  BY <1>5, <1>7, SpokenIs
<1> QED
  BY <1>6, <1>8 DEF Tells

-----------------------------------------------------------------------------
(* The inductive invariant of the contexts. *)

PerContext(f) == f = [ctx \in Contexts |-> f[ctx]]

Telling ==
  /\ script \in Seq(Steps) /\ handler \in Seq(Steps)
  /\ PerContext(frames) /\ PerContext(made) /\ PerContext(written)
  /\ \A ctx \in Contexts : Tells(frames[ctx], made[ctx], written[ctx])

LEMMA SpokenNothing == Spoken(<<>>) = <<>>
<1>1. [k \in DOMAIN <<>> |-> On(<<>>[k].file, Message(<<>>[k].parts, <<>>[k].args))] = <<>>
  OBVIOUS
<1>2. FlattenSeq(<<>>) = <<>>
  BY DEF FlattenSeq
<1> QED
  BY <1>1, <1>2 DEF Spoken, On

LEMMA InitTelling == EachCallAlone /\ Init => Telling
<1> SUFFICES ASSUME EachCallAlone, Init PROVE Telling
  OBVIOUS
<1>1. script \in Seq(Steps) /\ handler \in Seq(Steps)
  BY DEF Init, EachCallAlone
<1>2. PerContext(frames) /\ PerContext(made) /\ PerContext(written)
  BY DEF Init, PerContext
<1>3. ASSUME NEW ctx \in Contexts PROVE Tells(frames[ctx], made[ctx], written[ctx])
  <2>1. frames[ctx] = Idle /\ made[ctx] = <<>> /\ written[ctx] = <<>>
    BY DEF Init
  <2>2. <<>> \in Seq(Calls) /\ <<>> \in Seq(Places)
    OBVIOUS
  <2> QED
    BY <2>1, <2>2, SpokenNothing DEF Tells
<1> QED
  BY <1>1, <1>2, <1>3 DEF Telling

LEMMA DropKeeps ==
  ASSUME Telling, NEW ctx \in Contexts, Drop(ctx), Todo(ctx) # <<>>
  PROVE  script' \in Seq(Steps) /\ handler' \in Seq(Steps) /\ Head(Todo(ctx)) \in Steps
<1>1. Todo(ctx) \in Seq(Steps)
  BY DEF Telling, Todo
<1>2. Head(Todo(ctx)) \in Steps /\ Tail(Todo(ctx)) \in Seq(Steps)
  BY <1>1, HeadAndTail
<1> QED
  BY <1>2 DEF Drop, Todo, Telling

LEMMA NextTelling == EachCallAlone /\ Telling /\ [Next]_vars => Telling'
<1> SUFFICES ASSUME EachCallAlone, Telling, [Next]_vars PROVE Telling'
  OBVIOUS
<1> USE DEF Telling
<1>1. ASSUME NEW ctx \in Contexts, Begin(ctx) PROVE Telling'
  <2> DEFINE call == Head(Todo(ctx))
  <2>1. /\ frames[ctx] = Idle /\ call.step \in {"printf", "puts"}
        /\ frames' = [frames EXCEPT ![ctx] = Frame(call)]
        /\ made' = [made EXCEPT ![ctx] = Append(made[ctx], call)]
        /\ written' = written
        /\ Todo(ctx) # <<>> /\ Drop(ctx)
    BY <1>1 DEF Begin
  <2>2. script' \in Seq(Steps) /\ handler' \in Seq(Steps) /\ call \in Calls
    BY <2>1, DropKeeps DEF Calls
  <2> HIDE DEF call
  <2>3. PerContext(frames') /\ frames'[ctx] = Frame(call) /\ \A c \in Contexts : c # ctx => frames'[c] = frames[c]
    BY <2>1 DEF PerContext
  <2>4. PerContext(made') /\ made'[ctx] = Append(made[ctx], call) /\ \A c \in Contexts : c # ctx => made'[c] = made[c]
    BY <2>1 DEF PerContext
  <2>5. Tells(Idle, made[ctx], written[ctx]) /\ written[ctx] = Spoken(made[ctx])
    <3>1. Tells(Idle, made[ctx], written[ctx])
      BY <2>1
    <3> QED
      BY <3>1, BusyFrame DEF Tells
  <2>6. Tells(Frame(call), Append(made[ctx], call), written[ctx])
    BY <2>2, <2>5, BeginTells
  <2>7. PerContext(written')
    BY <2>1
  <2>8. ASSUME NEW c \in Contexts PROVE Tells(frames'[c], made'[c], written'[c])
    BY <2>1, <2>3, <2>4, <2>6
  <2> QED
    BY <2>2, <2>3, <2>4, <2>7, <2>8 DEF PerContext
<1>2. ASSUME NEW ctx \in Contexts, Format(ctx) PROVE Telling'
  <2>1. /\ frames[ctx].pending = <<>> /\ frames[ctx].fmt # <<>>
        /\ frames' = [frames EXCEPT ![ctx] = vfprintf(frames[ctx])]
        /\ UNCHANGED <<script, handler, made, written>>
    BY <1>2 DEF Format
  <2>2. PerContext(frames') /\ frames'[ctx] = vfprintf(frames[ctx]) /\ \A c \in Contexts : c # ctx => frames'[c] = frames[c]
    BY <2>1 DEF PerContext
  <2>3. Tells(vfprintf(frames[ctx]), made[ctx], written[ctx])
    BY <2>1, FormatTells
  <2>4. ASSUME NEW c \in Contexts PROVE Tells(frames'[c], made'[c], written'[c])
    BY <2>1, <2>2, <2>3
  <2> QED
    BY <2>1, <2>2, <2>4 DEF PerContext
<1>3. ASSUME NEW ctx \in Contexts, fputc(ctx) PROVE Telling'
  <2> DEFINE f == frames[ctx]
             g == [f EXCEPT !.pending = Tail(@)]
             v == Append(written[ctx], <<f.file, Head(f.pending)>>)
  <2>1. /\ f.pending # <<>>
        /\ frames' = [frames EXCEPT ![ctx] = g]
        /\ written' = [written EXCEPT ![ctx] = v]
        /\ UNCHANGED <<script, handler, made>>
    BY <1>3 DEF fputc
  <2>2. Tells(g, made[ctx], v)
    BY <2>1, FputcTells
  <2> HIDE DEF g, v
  <2>3. PerContext(frames') /\ frames'[ctx] = g /\ \A c \in Contexts : c # ctx => frames'[c] = frames[c]
    BY <2>1 DEF PerContext
  <2>4. PerContext(written') /\ written'[ctx] = v /\ \A c \in Contexts : c # ctx => written'[c] = written[c]
    BY <2>1 DEF PerContext
  <2>5. ASSUME NEW c \in Contexts PROVE Tells(frames'[c], made'[c], written'[c])
    BY <2>1, <2>2, <2>3, <2>4
  <2> QED
    BY <2>1, <2>3, <2>4, <2>5 DEF PerContext
<1>4. ASSUME NEW ctx \in Contexts, Return(ctx) PROVE Telling'
  <2>1. /\ frames[ctx] # Idle /\ frames[ctx].fmt = <<>> /\ frames[ctx].pending = <<>>
        /\ frames' = [frames EXCEPT ![ctx] = Idle]
        /\ UNCHANGED <<script, handler, made, written>>
    BY <1>4 DEF Return
  <2>2. PerContext(frames') /\ frames'[ctx] = Idle /\ \A c \in Contexts : c # ctx => frames'[c] = frames[c]
    BY <2>1 DEF PerContext
  <2>3. Tells(Idle, made[ctx], written[ctx])
    BY <2>1, ReturnTells
  <2>4. ASSUME NEW c \in Contexts PROVE Tells(frames'[c], made'[c], written'[c])
    BY <2>1, <2>2, <2>3
  <2> QED
    BY <2>1, <2>2, <2>4 DEF PerContext
<1>5. ASSUME NEW step, MainDoes(step) PROVE Telling'
  <2>1. script' = Tail(script) /\ script # <<>> /\ UNCHANGED <<frames, handler, made, written>>
    BY <1>5 DEF MainDoes
  <2>2. script' \in Seq(Steps)
    BY <2>1, HeadAndTail
  <2> QED
    BY <2>1, <2>2 DEF PerContext
<1>6. CASE Interrupt
  <2>1. handler' \in HandlerTexts /\ UNCHANGED <<frames, script, made, written>>
    BY <1>6 DEF Interrupt
  <2>2. handler' \in Seq(Steps)
    BY <2>1 DEF EachCallAlone
  <2> QED
    BY <2>1, <2>2 DEF PerContext
<1>7. CASE UNCHANGED vars
  BY <1>7 DEF vars, PerContext
<1> QED
  BY <1>1, <1>2, <1>3, <1>4, <1>5, <1>6, <1>7 DEF Next, ClearScreen, EnterKernel, EnableInterrupts

-----------------------------------------------------------------------------
(* How a format is read. *)

(* The call has read n characters: the others are still to come.           *)
LEMMA TurnsRead ==
  ASSUME NEW call, Frame(call).fmt \in Seq(Letters)
  PROVE  /\ Size(call) \in Nat
         /\ \A n \in 0..Size(call) :
              /\ IsFrame(Turns(call)[n].frame) /\ Turns(call)[n].frame.file = call.file
              /\ Turns(call)[n].frame.fmt \in Seq(Letters)
              /\ Len(Turns(call)[n].frame.fmt) = Size(call) - n
              /\ \A i \in 1..Size(call) - n : Turns(call)[n].frame.fmt[i] = Frame(call).fmt[n + i]
<1> DEFINE N == Size(call)
           F == Frame(call).fmt
           T == Turns(call)
           Rest(n, a) == /\ a \in Seq(Letters) /\ Len(a) = N - n
                         /\ \A i \in 1..N - n : a[i] = F[n + i]
           Fine(n) == IsFrame(T[n].frame) /\ T[n].frame.file = call.file /\ Rest(n, T[n].frame.fmt)
           S == {n \in Nat : n \in 0..N => Fine(n)}
<1>1. N \in Nat /\ F \in Seq(Letters) /\ Len(F) = N
  BY DEF Size
<1>2. T[0] = Opening(call) /\ \A n \in 0..N - 1 : T[n + 1] = Turn(T[n])
  BY <1>1, TurnsRecursion
<1> HIDE DEF N, F, T
<1>3. 0 \in S
  <2>1. T[0].frame = Frame(call)
    BY <1>2 DEF Opening
  <2>2. IsFrame(Frame(call)) /\ Frame(call).file = call.file
    BY FrameIs
  <2>3. Rest(0, F)
    BY <1>1
  <2> HIDE DEF Rest
  <2>4. Fine(0)
    BY <2>1, <2>2, <2>3 DEF F
  <2> QED
    BY <2>4
<1>4. ASSUME NEW n \in Nat, n \in S PROVE n + 1 \in S
  <2> SUFFICES ASSUME n + 1 \in 0..N PROVE Fine(n + 1)
    OBVIOUS
  <2>1. n \in 0..N - 1 /\ n \in 0..N
    BY <1>1
  <2>2. Fine(n)
    BY <1>4, <2>1
  <2>3. T[n + 1] = Turn(T[n])
    BY <1>2, <2>1
  <2>4. /\ IsFrame(T[n + 1].frame) /\ T[n + 1].frame.fmt = Tail(T[n].frame.fmt)
        /\ T[n + 1].frame.file = T[n].frame.file
    BY <2>2, <2>3, TurnIs
  <2>5. ASSUME NEW a, Rest(n, a) PROVE Rest(n + 1, Tail(a))
    <3>1. a \in Seq(Letters) /\ Len(a) = N - n
      BY <2>5
    <3>2. a # <<>>
      BY <1>1, <2>1, <3>1
    <3>3. Tail(a) \in Seq(Letters) /\ Len(Tail(a)) = Len(a) - 1
      BY <3>1, <3>2, HeadAndTail
    <3>4. \A i \in 1..Len(a) - 1 : Tail(a)[i] = a[i + 1]
      BY <3>1, <3>2
    <3>5. ASSUME NEW i \in 1..N - (n + 1) PROVE Tail(a)[i] = F[(n + 1) + i]
      <4>1. i \in 1..Len(a) - 1 /\ i + 1 \in 1..N - n /\ n + (i + 1) = (n + 1) + i
        BY <1>1, <3>1
      <4>2. a[i + 1] = F[n + (i + 1)]
        BY <2>5, <4>1
      <4> QED
        BY <3>4, <4>1, <4>2
    <3>6. Len(Tail(a)) = N - (n + 1)
      BY <1>1, <3>1, <3>3
    <3> QED
      BY <3>3, <3>5, <3>6
  <2> HIDE DEF Rest
  <2> QED
    BY <2>2, <2>4, <2>5
<1>5. Nat \subseteq S
  <2> HIDE DEF S
  <2> QED
    BY <1>3, <1>4, SetInduction
<1>6. \A n \in 0..N : n \in Nat
  BY <1>1
<1>7. \A n \in 0..N : Fine(n)
  BY <1>5, <1>6
<1> QED
  BY <1>1, <1>7 DEF N, F, T

LEMMA NextRead ==
  ASSUME NEW call, Frame(call).fmt \in Seq(Letters), NEW n \in Nat, n + 1 <= Size(call)
  PROVE  /\ IsFrame(Turns(call)[n].frame)
         /\ Head(Turns(call)[n].frame.fmt) = Frame(call).fmt[n + 1]
         /\ Turns(call)[n + 1] = Turn(Turns(call)[n])
<1> DEFINE N == Size(call)
           F == Frame(call).fmt
           T == Turns(call)
           a == T[n].frame.fmt
<1>1. N \in Nat
  BY TurnsRead
<1>2. n \in 0..N /\ n \in 0..N - 1 /\ 1 \in 1..N - n
  BY <1>1
<1>3. IsFrame(T[n].frame) /\ a \in Seq(Letters) /\ Len(a) = N - n /\ a[1] = F[n + 1]
  BY <1>2, TurnsRead
<1>4. T[n + 1] = Turn(T[n])
  BY <1>1, <1>2, TurnsRecursion
<1> HIDE DEF a, T, F, N
<1>5. Head(a) = a[1]
  <2>1. a \in Seq(Letters) /\ a # <<>>
    BY <1>1, <1>2, <1>3
  <2> QED
    BY <2>1
<1> QED
  BY <1>3, <1>4, <1>5 DEF a, T, F, N

(* What vfprintf has for local variables, and what it has said.            *)
Reads(t, state, length, args, said) ==
  /\ t.frame.state = state /\ t.frame.length = length /\ t.frame.args = args
  /\ t.said = said

Given(letter, args) == IF Takes(letter) THEN Head(args) ELSE NoArgument
Left(letter, args)  == IF Takes(letter) THEN Tail(args) ELSE args

Stays(f, state, length, args, text) ==
  f.state = state /\ f.length = length /\ f.args = args /\ f.pending = text

(* One character: of a text, the '%', of a length, the letter.             *)
LEMMA TurnStep ==
  ASSUME NEW t, IsFrame(t.frame), NEW state, NEW length, NEW args, NEW said \in Seq(Letters),
         Reads(t, state, length, args, said)
  PROVE  LET c == Head(t.frame.fmt)
             x == Converted(c, length, Given(c, args))
         IN  /\ state = "NORMAL" /\ c # "%" =>
                  Reads(Turn(t), "NORMAL", length, args, said \o <<c>>) /\ Turn(t).frame.pending = <<c>>
             /\ state = "NORMAL" /\ c = "%" =>
                  Reads(Turn(t), "LENGTH", length, args, said) /\ Turn(t).frame.pending = <<>>
             /\ state \in DOMAIN LengthMoves /\ c \in DOMAIN LengthMoves[state] =>
                  /\ Reads(Turn(t), LengthMoves[state][c].state, LengthMoves[state][c].length, args, said)
                  /\ Turn(t).frame.pending = <<>>
             /\ state \in {"LENGTH", "LENGTH_SHORT", "LENGTH_LONG", "SPEC"} /\ c \notin {"h", "l"} =>
                  /\ Reads(Turn(t), "NORMAL", "DEFAULT", Left(c, args), said \o x)
                  /\ Turn(t).frame.pending = x
<1> DEFINE c == Head(t.frame.fmt)
           x == Converted(c, length, Given(c, args))
           f == Waiting(t.frame, <<>>)
           g == [f EXCEPT !.fmt = Tail(@)]
           h == vfprintf(f)
<1>1. /\ IsFrame(f) /\ f.fmt = t.frame.fmt /\ f.state = state /\ f.length = length /\ f.args = args
      /\ f.pending = <<>>
  BY DEF Reads, Waiting, IsFrame, FrameFields
<1>2. Turn(t).frame = h /\ Turn(t).said = said \o h.pending
  BY TurnIs DEF Reads
<1> HIDE DEF f
<1>3. IsFrame(g) /\ Stays(g, state, length, args, <<>>)
  BY <1>1 DEF IsFrame, FrameFields, Stays
<1>4. said \o <<>> = said
  BY ConcatAssociates
<1>5. ASSUME state = "NORMAL", c # "%" PROVE h.pending = <<c>> /\ Stays(h, "NORMAL", length, args, <<c>>)
  <2>1. h = [g EXCEPT !.pending = <<c>>]
    <3>1. f.state = "NORMAL" /\ Head(f.fmt) = c /\ c # "%"
      BY <1>1, <1>5
    <3>2. f.state \notin DOMAIN LengthMoves
      BY <3>1 DEF LengthMoves
    <3> HIDE DEF c
    <3> QED
      BY <3>1, <3>2 DEF vfprintf
  <2> HIDE DEF g, h
  <2> QED
    BY <1>3, <1>5, <2>1 DEF IsFrame, FrameFields, Stays
<1>6. ASSUME state = "NORMAL", c = "%" PROVE h.pending = <<>> /\ Stays(h, "LENGTH", length, args, <<>>)
  <2>1. h = [g EXCEPT !.state = "LENGTH"]
    <3>1. f.state = "NORMAL" /\ Head(f.fmt) = "%"
      BY <1>1, <1>6
    <3>2. f.state \notin DOMAIN LengthMoves
      BY <3>1 DEF LengthMoves
    <3> QED
      BY <3>1, <3>2 DEF vfprintf
  <2> HIDE DEF g, h
  <2> QED
    BY <1>3, <1>6, <2>1 DEF IsFrame, FrameFields, Stays
<1>7. ASSUME state \in DOMAIN LengthMoves, c \in DOMAIN LengthMoves[state]
      PROVE  Stays(h, LengthMoves[state][c].state, LengthMoves[state][c].length, args, <<>>)
  <2> DEFINE v == LengthMoves[state][c].length
             w == LengthMoves[state][c].state
  <2>1. state # "NORMAL"
    BY <1>7 DEF LengthMoves
  <2>2. h = [g EXCEPT !.length = v, !.state = w]
    BY <1>1, <1>7, <2>1 DEF vfprintf
  <2> HIDE DEF g, h, v, w
  <2>3. Stays(h, w, v, args, <<>>)
    BY <1>3, <2>2 DEF IsFrame, FrameFields, Stays
  <2> QED
    BY <2>3 DEF v, w
<1>8. ASSUME state \in {"LENGTH", "LENGTH_SHORT", "LENGTH_LONG", "SPEC"}, c \notin {"h", "l"}
      PROVE  Stays(h, "NORMAL", "DEFAULT", Left(c, args), x)
  <2>1. state # "NORMAL" /\ ~(state \in DOMAIN LengthMoves /\ c \in DOMAIN LengthMoves[state])
    BY <1>8 DEF LengthMoves
  <2>2. h = Specifier(g, c)
    BY <1>1, <2>1 DEF vfprintf
  <2> DEFINE k == Fresh(g)
  <2>3. IsFrame(k) /\ k.args = args /\ k.state = "NORMAL" /\ k.length = "DEFAULT" /\ g.args = args /\ g.length = length
    BY <1>3 DEF Fresh, IsFrame, FrameFields, Stays
  <2> HIDE DEF g, h, k
  <2>4. h = [k EXCEPT !.pending = x, !.args = Left(c, args)]
    BY <2>2, <2>3 DEF Specifier, Given, Left, k
  <2> HIDE DEF x
  <2> QED
    BY <2>3, <2>4 DEF IsFrame, FrameFields, Stays
<1> HIDE DEF h, c, x
<1> QED
  BY <1>2, <1>4, <1>5, <1>6, <1>7, <1>8 DEF Reads, Stays, c, x

-----------------------------------------------------------------------------
(* The format of call has text after its first n characters.               *)
Spells(call, n, text) ==
  n + Len(text) <= Size(call) /\ \A j \in 1..Len(text) : Frame(call).fmt[n + j] = text[j]

LEMMA TextRead ==
  ASSUME NEW call, Frame(call).fmt \in Seq(Letters), NEW n \in Nat, NEW L, L \subseteq Letters,
         NEW text \in Seq(L), Spells(call, n, text), \A j \in 1..Len(text) : text[j] # "%",
         NEW args, NEW said \in Seq(Letters), Reads(Turns(call)[n], "NORMAL", "DEFAULT", args, said)
  PROVE  /\ Reads(Turns(call)[n + Len(text)], "NORMAL", "DEFAULT", args, said \o text)
         /\ \A j \in 1..Len(text) : Turns(call)[n + j].frame.pending \in Seq(L)
<1> DEFINE T == Turns(call)
           F == Frame(call).fmt
           Up(j) == said \o SubSeq(text, 1, j)
           Fine(j) == /\ Reads(T[n + j], "NORMAL", "DEFAULT", args, Up(j))
                      /\ j # 0 => T[n + j].frame.pending \in Seq(L)
           S == {j \in Nat : j \in 0..Len(text) => Fine(j)}
<1>1. \A j \in 0..Len(text) : Up(j) \in Seq(Letters)
  <2> SUFFICES ASSUME NEW j \in 0..Len(text) PROVE Up(j) \in Seq(Letters)
    OBVIOUS
  <2>1. text \in Seq(Letters)
    OBVIOUS
  <2>2. SubSeq(text, 1, j) \in Seq(Letters)
    BY <2>1
  <2> QED
    BY <2>2, ConcatAssociates
<1>2. Up(0) = said
  <2>1. SubSeq(text, 1, 0) = <<>>
    OBVIOUS
  <2>2. said \o <<>> = said
    BY ConcatAssociates
  <2> QED
    BY <2>1, <2>2
<1>3. ASSUME NEW j \in Nat, j + 1 \in 0..Len(text) PROVE Up(j + 1) = Up(j) \o <<text[j + 1]>>
  <2> DEFINE a == SubSeq(text, 1, j)
             b == <<text[j + 1]>>
  <2>1. text \in Seq(Letters)
    OBVIOUS
  <2>2. SubSeq(text, 1, j + 1) = a \o b /\ a \in Seq(Letters) /\ b \in Seq(Letters)
    BY <1>3, <2>1
  <2> HIDE DEF a, b
  <2>3. said \o (a \o b) = (said \o a) \o b
    BY <2>2, ConcatAssociates
  <2> QED
    BY <2>2, <2>3 DEF a, b
<1>4. Up(Len(text)) = said \o text
  <2>1. SubSeq(text, 1, Len(text)) = text
    OBVIOUS
  <2> QED
    BY <2>1
<1> HIDE DEF Up
<1>5. n + 0 = n /\ 0 \in Nat
  OBVIOUS
<1>6. 0 \in S
  BY <1>2, <1>5
<1>7. ASSUME NEW j \in Nat, j \in S PROVE j + 1 \in S
  <2> SUFFICES ASSUME j + 1 \in 0..Len(text) PROVE Fine(j + 1)
    OBVIOUS
  <2>1. j \in 0..Len(text) /\ j + 1 \in 1..Len(text) /\ n + j \in Nat /\ n + (j + 1) = (n + j) + 1
    OBVIOUS
  <2>2. Reads(T[n + j], "NORMAL", "DEFAULT", args, Up(j)) /\ Up(j) \in Seq(Letters)
    BY <1>1, <1>7, <2>1
  <2>3. (n + j) + 1 <= Size(call) /\ F[(n + j) + 1] = text[j + 1] /\ text[j + 1] # "%" /\ text[j + 1] \in L
    <3>1. n + Len(text) <= Size(call) /\ F[n + (j + 1)] = text[j + 1]
      BY <2>1 DEF Spells
    <3>2. Size(call) \in Nat
      BY TurnsRead
    <3> QED
      BY <2>1, <3>1, <3>2
  <2>4. /\ IsFrame(T[n + j].frame) /\ Head(T[n + j].frame.fmt) = text[j + 1]
        /\ T[(n + j) + 1] = Turn(T[n + j])
    BY <2>1, <2>3, NextRead
  <2> HIDE DEF T, F
  <2>5. Reads(T[(n + j) + 1], "NORMAL", "DEFAULT", args, Up(j) \o <<text[j + 1]>>)
        /\ T[(n + j) + 1].frame.pending = <<text[j + 1]>>
    BY <2>2, <2>3, <2>4, TurnStep
  <2>6. <<text[j + 1]>> \in Seq(L)
    BY <2>3
  <2>7. Up(j + 1) = Up(j) \o <<text[j + 1]>>
    BY <1>3
  <2> QED
    BY <2>1, <2>5, <2>6, <2>7
<1>8. Nat \subseteq S
  <2> HIDE DEF S
  <2> QED
    BY <1>6, <1>7, SetInduction
<1>9. \A j \in 0..Len(text) : j \in Nat
  OBVIOUS
<1>10. \A j \in 0..Len(text) : Fine(j)
  BY <1>8, <1>9
<1>11. Len(text) \in 0..Len(text) /\ \A j \in 1..Len(text) : j \in 0..Len(text) /\ j # 0
  OBVIOUS
<1> HIDE DEF T
<1> QED
  BY <1>4, <1>10, <1>11 DEF T

(* The next character of the format is c.                                  *)
LEMMA CharacterRead ==
  ASSUME NEW call, Frame(call).fmt \in Seq(Letters), NEW n \in Nat, NEW text \in Seq(Letters), Spells(call, n, text),
         NEW j \in Nat, j + 1 <= Len(text)
  PROVE  /\ IsFrame(Turns(call)[n + j].frame) /\ Head(Turns(call)[n + j].frame.fmt) = text[j + 1]
         /\ Turns(call)[n + (j + 1)] = Turn(Turns(call)[n + j])
<1>1. j + 1 \in 1..Len(text) /\ n + j \in Nat /\ n + (j + 1) = (n + j) + 1
  OBVIOUS
<1>2. n + Len(text) <= Size(call) /\ Frame(call).fmt[n + (j + 1)] = text[j + 1]
  BY <1>1 DEF Spells
<1>3. Size(call) \in Nat
  BY TurnsRead
<1>4. (n + j) + 1 <= Size(call)
  BY <1>1, <1>2, <1>3
<1> QED
  BY <1>1, <1>2, <1>4, NextRead

Specs == {"LENGTH", "LENGTH_SHORT", "LENGTH_LONG", "SPEC"}

(* After '%' and the letters of a length, the state and the length read.   *)
Measured(length) ==
  CASE length = <<>>         -> "LENGTH"
    [] length = <<"h">>      -> "LENGTH_SHORT"
    [] length = <<"l">>      -> "LENGTH_LONG"
    [] OTHER                 -> "SPEC"

LEMMA TurnAtPercent ==
  ASSUME NEW t, IsFrame(t.frame), NEW length, NEW args, NEW said \in Seq(Letters),
         Reads(t, "NORMAL", length, args, said), Head(t.frame.fmt) = "%"
  PROVE  Reads(Turn(t), "LENGTH", length, args, said) /\ Turn(t).frame.pending = <<>>
BY TurnStep

LEMMA TurnAtLetter ==
  ASSUME NEW t, IsFrame(t.frame), NEW state \in Specs, NEW length, NEW args, NEW said \in Seq(Letters),
         Reads(t, state, length, args, said), NEW c, c \notin {"h", "l"}, Head(t.frame.fmt) = c
  PROVE  LET x == Converted(c, length, Given(c, args))
         IN  Reads(Turn(t), "NORMAL", "DEFAULT", Left(c, args), said \o x) /\ Turn(t).frame.pending = x
BY TurnStep DEF Specs

LEMMA PercentRead ==
  ASSUME NEW call, Frame(call).fmt \in Seq(Letters), NEW n \in Nat,
         NEW text \in Seq(Letters), Spells(call, n, text), Len(text) >= 1, text[1] = "%",
         NEW args, NEW said \in Seq(Letters), Reads(Turns(call)[n], "NORMAL", "DEFAULT", args, said)
  PROVE  /\ Reads(Turns(call)[n + 1], "LENGTH", "DEFAULT", args, said)
         /\ Turns(call)[n + 1].frame.pending = <<>>
<1>1. 0 \in Nat /\ 0 + 1 <= Len(text) /\ n + 0 = n /\ 0 + 1 = 1
  OBVIOUS
<1>2. /\ IsFrame(Turns(call)[n + 0].frame) /\ Head(Turns(call)[n + 0].frame.fmt) = text[0 + 1]
      /\ Turns(call)[n + (0 + 1)] = Turn(Turns(call)[n + 0])
  BY <1>1, CharacterRead
<1>3. /\ IsFrame(Turns(call)[n].frame) /\ Head(Turns(call)[n].frame.fmt) = "%"
      /\ Turns(call)[n + 1] = Turn(Turns(call)[n])
  BY <1>1, <1>2
<1> QED
  BY <1>3, TurnAtPercent

LEMMA LetterOfLengthRead ==
  ASSUME NEW call, Frame(call).fmt \in Seq(Letters), NEW n \in Nat,
         NEW text \in Seq(Letters), Spells(call, n, text), NEW j \in Nat, j + 1 <= Len(text),
         NEW state \in DOMAIN LengthMoves, NEW c \in DOMAIN LengthMoves[state], text[j + 1] = c,
         NEW name, NEW args, NEW said \in Seq(Letters), Reads(Turns(call)[n + j], state, name, args, said)
  PROVE  /\ Reads(Turns(call)[n + (j + 1)], LengthMoves[state][c].state, LengthMoves[state][c].length, args, said)
         /\ Turns(call)[n + (j + 1)].frame.pending = <<>>
<1>1. /\ IsFrame(Turns(call)[n + j].frame) /\ Head(Turns(call)[n + j].frame.fmt) = c
      /\ Turns(call)[n + (j + 1)] = Turn(Turns(call)[n + j])
  BY CharacterRead
<1> DEFINE t == Turns(call)[n + j]
<1> HIDE DEF t
<1>2. Reads(Turn(t), LengthMoves[state][c].state, LengthMoves[state][c].length, args, said) /\ Turn(t).frame.pending = <<>>
  BY <1>1, TurnStep DEF t
<1> QED
  BY <1>1, <1>2 DEF t

(* The letter that ends a directive.                                       *)
EndsAt(text, k, letter) == text[k] = letter /\ letter \notin {"h", "l"}

(* What a turn makes of it.                                                *)
Makes(t, letter, length, args, said) ==
  LET x == Converted(letter, length, Given(letter, args))
  IN  Reads(t, "NORMAL", "DEFAULT", Left(letter, args), said \o x) /\ t.frame.pending = x

LEMMA LetterRead ==
  ASSUME NEW call, Frame(call).fmt \in Seq(Letters), NEW n \in Nat,
         NEW text \in Seq(Letters), Spells(call, n, text), NEW j \in Nat, j + 1 <= Len(text),
         NEW state \in Specs, NEW c, EndsAt(text, j + 1, c),
         NEW name, NEW args, NEW said \in Seq(Letters), Reads(Turns(call)[n + j], state, name, args, said)
  PROVE  Makes(Turns(call)[n + (j + 1)], c, name, args, said)
<1>0. text[j + 1] = c /\ c \notin {"h", "l"}
  BY DEF EndsAt
<1>1. /\ IsFrame(Turns(call)[n + j].frame) /\ Head(Turns(call)[n + j].frame.fmt) = c
      /\ Turns(call)[n + (j + 1)] = Turn(Turns(call)[n + j])
  BY <1>0, CharacterRead
<1> DEFINE t == Turns(call)[n + j]
           x == Converted(c, name, Given(c, args))
<1> HIDE DEF t
<1>2. Reads(Turn(t), "NORMAL", "DEFAULT", Left(c, args), said \o x) /\ Turn(t).frame.pending = x
  BY <1>0, <1>1, TurnAtLetter DEF t
<1> QED
  BY <1>1, <1>2 DEF t, Makes

(* A directive, character by character.                                    *)
LEMMA DirectiveIs ==
  ASSUME NEW S, NEW p \in S, NEW length \in Seq(S), NEW letter \in S
  PROVE  LET a == <<p>> \o length \o <<letter>>
         IN  /\ a \in Seq(S) /\ Len(a) = Len(length) + 2 /\ a[1] = p
             /\ \A j \in 1..Len(length) : a[j + 1] = length[j]
             /\ a[Len(length) + 2] = letter
OBVIOUS

LEMMA LengthRead ==
  ASSUME NEW call, Frame(call).fmt \in Seq(Letters), NEW n \in Nat,
         NEW length \in DOMAIN LengthName,
         NEW text \in Seq(Letters), Spells(call, n, text), Len(text) = Len(length) + 2,
         text[1] = "%", \A j \in 1..Len(length) : text[j + 1] = length[j],
         NEW args, NEW said \in Seq(Letters), Reads(Turns(call)[n], "NORMAL", "DEFAULT", args, said)
  PROVE  /\ Reads(Turns(call)[n + (Len(length) + 1)], Measured(length), LengthName[length], args, said)
         /\ \A j \in 1..Len(length) + 1 : Turns(call)[n + j].frame.pending = <<>>
<1> DEFINE T == Turns(call)
           Goal(k) == /\ Reads(T[n + (k + 1)], Measured(length), LengthName[length], args, said)
                      /\ \A j \in 1..k + 1 : T[n + j].frame.pending = <<>>
<1>1. length \in {<<>>, <<"h">>, <<"h", "h">>, <<"l">>, <<"l", "l">>} /\ Len(length) \in Nat
  BY DEF LengthName
<1>2. Reads(T[n + 1], "LENGTH", "DEFAULT", args, said) /\ T[n + 1].frame.pending = <<>>
  <2>1. Len(text) >= 1
    BY <1>1
  <2> QED
    BY <2>1, PercentRead
<1>3. 0 + 1 = 1 /\ 1 + 1 = 2 /\ 2 + 1 = 3 /\ 1 \in Nat /\ 2 \in Nat
  OBVIOUS
<1>4. CASE length = <<>>
  <2>1. Measured(length) = "LENGTH" /\ LengthName[length] = "DEFAULT"
    BY <1>4 DEF Measured, LengthName
  <2>2. \A j \in 1..0 + 1 : j = 1
    OBVIOUS
  <2> HIDE DEF T
  <2>3. Goal(0)
    BY <1>2, <1>3, <2>1, <2>2
  <2>4. Len(length) = 0
    BY <1>4
  <2> QED
    BY <2>3, <2>4 DEF T
<1>5. ASSUME NEW c \in {"h", "l"}, length = <<c>>
      PROVE  Goal(Len(length))
  <2>1. Len(length) = 1 /\ length[1] = c
    BY <1>5
  <2>2. 1 + 1 <= Len(text) /\ text[1 + 1] = c
    BY <2>1
  <2> DEFINE w == LengthMoves["LENGTH"][c]
  <2>3. "LENGTH" \in DOMAIN LengthMoves /\ c \in DOMAIN LengthMoves["LENGTH"]
        /\ w.state = Measured(length) /\ w.length = LengthName[length]
    <3>1. CASE c = "h"
      BY <1>5, <3>1 DEF LengthMoves, Measured, LengthName
    <3>2. CASE c = "l"
      BY <1>5, <3>2 DEF LengthMoves, Measured, LengthName
    <3> QED
      BY <3>1, <3>2
  <2>4. Reads(T[n + (1 + 1)], w.state, w.length, args, said) /\ T[n + (1 + 1)].frame.pending = <<>>
    BY <1>2, <1>3, <2>2, <2>3, LetterOfLengthRead, Zenon
  <2>5. \A j \in 1..1 + 1 : j = 1 \/ j = 1 + 1
    OBVIOUS
  <2> HIDE DEF w, T
  <2> QED
    BY <1>2, <2>1, <2>3, <2>4, <2>5
<1>6. ASSUME NEW c \in {"h", "l"}, length = <<c, c>>
      PROVE  Goal(Len(length))
  <2>1. Len(length) = 2 /\ length[1] = c /\ length[2] = c
    BY <1>6
  <2>2. 1 + 1 <= Len(text) /\ text[1 + 1] = c /\ 2 + 1 <= Len(text) /\ text[2 + 1] = c
    BY <2>1
  <2> DEFINE v == LengthMoves["LENGTH"][c]
             w == LengthMoves[v.state][c]
  <2>3. "LENGTH" \in DOMAIN LengthMoves /\ c \in DOMAIN LengthMoves["LENGTH"]
        /\ v.state \in DOMAIN LengthMoves /\ c \in DOMAIN LengthMoves[v.state]
        /\ w.state = Measured(length) /\ w.length = LengthName[length]
    <3>1. CASE c = "h"
      BY <1>6, <3>1 DEF LengthMoves, Measured, LengthName
    <3>2. CASE c = "l"
      BY <1>6, <3>2 DEF LengthMoves, Measured, LengthName
    <3> QED
      BY <3>1, <3>2
  <2>4. Reads(T[n + (1 + 1)], v.state, v.length, args, said) /\ T[n + (1 + 1)].frame.pending = <<>>
    BY <1>2, <1>3, <2>2, <2>3, LetterOfLengthRead, Zenon
  <2>5. Reads(T[n + 2], v.state, v.length, args, said)
    BY <1>3, <2>4
  <2> HIDE DEF v
  <2>6. Reads(T[n + (2 + 1)], w.state, w.length, args, said) /\ T[n + (2 + 1)].frame.pending = <<>>
    <3> DEFINE u == v.state
               k == v.length
    <3>1. u \in DOMAIN LengthMoves /\ c \in DOMAIN LengthMoves[u] /\ Reads(T[n + 2], u, k, args, said)
      BY <2>3, <2>5
    <3> HIDE DEF u, k
    <3>2. /\ Reads(T[n + (2 + 1)], LengthMoves[u][c].state, LengthMoves[u][c].length, args, said)
          /\ T[n + (2 + 1)].frame.pending = <<>>
      <4>1. 2 \in Nat
        OBVIOUS
      <4>2. 2 + 1 <= Len(text)
        BY <2>2
      <4>3. text[2 + 1] = c
        BY <2>2
      <4>4. u \in DOMAIN LengthMoves
        BY <3>1
      <4>5. c \in DOMAIN LengthMoves[u]
        BY <3>1
      <4>6. Reads(T[n + 2], u, k, args, said)
        BY <3>1
      <4> QED
        BY <4>1, <4>2, <4>3, <4>4, <4>5, <4>6, LetterOfLengthRead, Zenon
    <3> QED
      BY <3>2 DEF u
  <2>7. \A j \in 1..2 + 1 : j = 1 \/ j = 1 + 1 \/ j = 2 + 1
    OBVIOUS
  <2> HIDE DEF w, T
  <2> QED
    BY <1>2, <2>1, <2>3, <2>4, <2>6, <2>7
<1> QED
  BY <1>1, <1>4, <1>5, <1>6

-----------------------------------------------------------------------------
(* A directive, spelled.                                                   *)
Directs(text, length, letter) ==
  /\ Len(text) = Len(length) + 2 /\ text[1] = "%" /\ text[Len(length) + 2] = letter
  /\ \A j \in 1..Len(length) : text[j + 1] = length[j]

LEMMA DirectiveSpelled ==
  ASSUME NEW length \in DOMAIN LengthName, NEW letter
  PROVE  Directs(<<"%">> \o length \o <<letter>>, length, letter)
<1> DEFINE S == {"%", "h", "l", letter}
<1>1. "%" \in S /\ "h" \in S /\ "l" \in S /\ letter \in S
  OBVIOUS
<1>2. length \in {<<>>, <<"h">>, <<"h", "h">>, <<"l">>, <<"l", "l">>}
  BY DEF LengthName
<1> HIDE DEF S
<1>3. length \in Seq(S)
  <2>1. <<>> \in Seq(S) /\ <<"h">> \in Seq(S) /\ <<"l">> \in Seq(S)
    BY <1>1
  <2>2. <<"h", "h">> \in Seq(S) /\ <<"l", "l">> \in Seq(S)
    BY <1>1
  <2> QED
    BY <1>2, <2>1, <2>2
<1> QED
  BY <1>1, <1>3, DirectiveIs DEF Directs

(* A directive makes what its letter converts, and nothing before it.      *)
LEMMA DirectiveRead ==
  ASSUME NEW call, Frame(call).fmt \in Seq(Letters), NEW n \in Nat,
         NEW length \in DOMAIN LengthName, NEW letter, letter \notin {"h", "l"},
         NEW text \in Seq(Letters), Spells(call, n, text), Directs(text, length, letter),
         NEW args, NEW said \in Seq(Letters), Reads(Turns(call)[n], "NORMAL", "DEFAULT", args, said)
  PROVE  LET x == Converted(letter, LengthName[length], Given(letter, args))
         IN  /\ Reads(Turns(call)[n + Len(text)], "NORMAL", "DEFAULT", Left(letter, args), said \o x)
             /\ \A j \in 1..Len(text) : Turns(call)[n + j].frame.pending \in {<<>>, x}
<1> DEFINE x == Converted(letter, LengthName[length], Given(letter, args))
           T == Turns(call)
           k == Len(length)
<1>1. /\ Len(text) = k + 2 /\ text[1] = "%" /\ text[k + 2] = letter
      /\ \A j \in 1..k : text[j + 1] = length[j]
  BY DEF Directs
<1>2. k \in Nat
  BY DEF LengthName
<1>3. Reads(T[n + (k + 1)], Measured(length), LengthName[length], args, said)
  BY <1>1, LengthRead
<1>4. \A j \in 1..k + 1 : T[n + j].frame.pending = <<>>
  BY <1>1, LengthRead
<1>5. Measured(length) \in Specs
  BY DEF Measured, Specs
<1> HIDE DEF k
<1>6. k + 1 \in Nat /\ (k + 1) + 1 <= Len(text) /\ text[(k + 1) + 1] = letter /\ (k + 1) + 1 = k + 2
  BY <1>1, <1>2
<1>7. /\ Reads(T[n + ((k + 1) + 1)], "NORMAL", "DEFAULT", Left(letter, args), said \o x)
      /\ T[n + ((k + 1) + 1)].frame.pending = x
  <2> DEFINE state == Measured(length)
             name == LengthName[length]
             y == Converted(letter, name, Given(letter, args))
             i == k + 1
  <2>1. state \in Specs /\ Reads(T[n + i], state, name, args, said)
    BY <1>3, <1>5
  <2>2. i \in Nat /\ i + 1 <= Len(text) /\ text[i + 1] = letter
    BY <1>6
  <2> HIDE DEF state, name, i
  <2>3. Makes(T[n + (i + 1)], letter, name, args, said)
    <3>1. i \in Nat
      BY <2>2
    <3>2. i + 1 <= Len(text)
      BY <2>2
    <3>3. EndsAt(text, i + 1, letter)
      BY <2>2 DEF EndsAt
    <3>4. state \in Specs
      BY <2>1
    <3>5. Reads(T[n + i], state, name, args, said)
      BY <2>1
    <3> QED
      BY <3>1, <3>2, <3>3, <3>4, <3>5, LetterRead, Zenon
  <2> QED
    BY <2>3 DEF i, name, Makes
<1>8. Reads(T[n + Len(text)], "NORMAL", "DEFAULT", Left(letter, args), said \o x)
  BY <1>1, <1>6, <1>7
<1>9. ASSUME NEW j \in 1..Len(text) PROVE T[n + j].frame.pending \in {<<>>, x}
  <2>1. j \in 1..k + 1 \/ j = (k + 1) + 1
    BY <1>1, <1>2
  <2> HIDE DEF x, T
  <2> QED
    BY <1>4, <1>7, <2>1
<1> QED
  BY <1>8, <1>9

-----------------------------------------------------------------------------
(* FlattenSeq, one member after another. *)

Fold(s, k) == FlattenSeq(SubSeq(s, 1, k))

LEMMA FoldIs ==
  ASSUME NEW S, NEW s \in Seq(Seq(S))
  PROVE  /\ Fold(s, 0) = <<>> /\ Fold(s, Len(s)) = FlattenSeq(s)
         /\ \A k \in 0..Len(s) : Fold(s, k) \in Seq(S)
         /\ \A k \in 0..Len(s) - 1 : Fold(s, k + 1) = Fold(s, k) \o s[k + 1]
<1>1. Fold(s, 0) = <<>>
  <2>1. SubSeq(s, 1, 0) = <<>>
    OBVIOUS
  <2>2. FlattenSeq(<<>>) = <<>>
    BY DEF FlattenSeq
  <2> QED
    BY <2>1, <2>2 DEF Fold
<1>2. Fold(s, Len(s)) = FlattenSeq(s)
  <2>1. SubSeq(s, 1, Len(s)) = s
    OBVIOUS
  <2> QED
    BY <2>1 DEF Fold
<1>3. ASSUME NEW k \in 0..Len(s) PROVE Fold(s, k) \in Seq(S)
  <2> DEFINE a == SubSeq(s, 1, k)
  <2>1. a \in Seq(Seq(S)) /\ <<>> \in Seq(S)
    OBVIOUS
  <2> HIDE DEF a
  <2>2. FlattenSeq(a) \in Seq(S)
    BY <2>1, FlattenAppend
  <2> QED
    BY <2>2 DEF Fold, a
<1>4. ASSUME NEW k \in 0..Len(s) - 1 PROVE Fold(s, k + 1) = Fold(s, k) \o s[k + 1]
  <2> DEFINE a == SubSeq(s, 1, k)
             b == SubSeq(s, 1, k + 1)
             x == s[k + 1]
  <2>1. a \in Seq(Seq(S)) /\ x \in Seq(S)
    OBVIOUS
  <2>2. b = Append(a, x)
    OBVIOUS
  <2> HIDE DEF a, b, x
  <2>3. FlattenSeq(b) = FlattenSeq(a) \o x
    BY <2>1, <2>2, FlattenAppend
  <2> QED
    BY <2>3 DEF Fold, a, b, x
<1> QED
  BY <1>1, <1>2, <1>3, <1>4

Opens(a, b) == Len(a) <= Len(b) /\ \A i \in 1..Len(a) : b[i] = a[i]

LEMMA OpensIs ==
  ASSUME NEW S, NEW a \in Seq(S), NEW b \in Seq(S), NEW c \in Seq(S)
  PROVE  Opens(a, a) /\ (Opens(a, b) => Opens(a, b \o c))
<1>1. b \o c \in Seq(S) /\ Len(b \o c) = Len(b) + Len(c) /\ \A i \in 1..Len(b) : (b \o c)[i] = b[i]
  OBVIOUS
<1>2. Len(a) \in Nat /\ Len(b) \in Nat /\ Len(c) \in Nat
  OBVIOUS
<1> DEFINE d == b \o c
<1> HIDE DEF d
<1>3. Opens(a, b) => Opens(a, d)
  BY <1>1, <1>2 DEF Opens, d
<1> QED
  BY <1>2, <1>3 DEF Opens, d

LEMMA FoldOpens ==
  ASSUME NEW S, NEW s \in Seq(Seq(S))
  PROVE  \A k \in 0..Len(s) : Opens(Fold(s, k), FlattenSeq(s))
<1> DEFINE N == Len(s)
           f(k) == Fold(s, k)
           M == {m \in Nat : m \in 0..N => \A k \in 0..m : Opens(f(k), f(m))}
<1>1. /\ N \in Nat /\ \A k \in 0..N : f(k) \in Seq(S)
      /\ \A k \in 0..N - 1 : f(k + 1) = f(k) \o s[k + 1] /\ s[k + 1] \in Seq(S)
      /\ f(N) = FlattenSeq(s)
  BY FoldIs
<1> HIDE DEF N, f
<1>2. 0 \in M
  <2>1. f(0) \in Seq(S) /\ \A k \in 0..0 : k = 0
    BY <1>1
  <2>2. Opens(f(0), f(0))
    BY <2>1, OpensIs
  <2> QED
    BY <2>1, <2>2
<1>3. ASSUME NEW m \in Nat, m \in M PROVE m + 1 \in M
  <2> SUFFICES ASSUME m + 1 \in 0..N, NEW k \in 0..m + 1 PROVE Opens(f(k), f(m + 1))
    OBVIOUS
  <2>1. m \in 0..N /\ m \in 0..N - 1 /\ k \in 0..N
    BY <1>1
  <2>2. f(m + 1) = f(m) \o s[m + 1] /\ s[m + 1] \in Seq(S) /\ f(m) \in Seq(S) /\ f(k) \in Seq(S)
    BY <1>1, <2>1
  <2>3. CASE k = m + 1
    BY <2>2, <2>3, OpensIs
  <2>4. CASE k # m + 1
    <3>1. k \in 0..m
      BY <2>4
    <3>2. Opens(f(k), f(m))
      BY <1>3, <2>1, <3>1
    <3> DEFINE x == s[m + 1]
    <3> HIDE DEF x
    <3>3. Opens(f(k), f(m) \o x)
      BY <2>2, <3>2, OpensIs DEF x
    <3> QED
      BY <2>2, <3>3 DEF x
  <2> QED
    BY <2>3, <2>4
<1>4. Nat \subseteq M
  <2> HIDE DEF M
  <2> QED
    BY <1>2, <1>3, SetInduction
<1>5. N \in M /\ N \in 0..N
  BY <1>1, <1>4
<1>6. \A k \in 0..N : Opens(f(k), f(N))
  BY <1>5
<1> QED
  BY <1>1, <1>6 DEF f, N

(* Each member has its place in the whole.                                 *)
LEMMA FoldPlace ==
  ASSUME NEW S, NEW s \in Seq(Seq(S)), NEW k \in 0..Len(s) - 1
  PROVE  LET n == Len(Fold(s, k))
             x == s[k + 1]
             w == FlattenSeq(s)
         IN  /\ n \in Nat /\ Len(Fold(s, k + 1)) = n + Len(x) /\ n + Len(x) <= Len(w)
             /\ \A j \in 1..Len(x) : w[n + j] = x[j]
<1> DEFINE a == Fold(s, k)
           b == Fold(s, k + 1)
           x == s[k + 1]
           w == FlattenSeq(s)
<1>1. k \in 0..Len(s) /\ k + 1 \in 0..Len(s) /\ x \in Seq(S)
  OBVIOUS
<1>2. a \in Seq(S) /\ b = a \o x
  BY <1>1, FoldIs
<1>3. Opens(b, w)
  BY <1>1, FoldOpens
<1> HIDE DEF a, b, x, w
<1>4. Len(a \o x) = Len(a) + Len(x) /\ (\A j \in 1..Len(x) : (a \o x)[Len(a) + j] = x[j])
      /\ Len(a) \in Nat /\ Len(x) \in Nat
  BY <1>1, <1>2
<1>5. ASSUME NEW j \in 1..Len(x) PROVE w[Len(a) + j] = x[j]
  <2>1. Len(a) + j \in 1..Len(b) /\ b[Len(a) + j] = x[j]
    BY <1>2, <1>4
  <2> QED
    BY <1>3, <2>1 DEF Opens
<1> QED
  BY <1>2, <1>3, <1>4, <1>5 DEF Opens, a, b, x, w

-----------------------------------------------------------------------------
(* One part of a format says what it means.                                *)
Plain(part)      == part.letter = "" /\ "%" \notin ToSet(part.text)
Ends(letter)     == letter \notin {"", "h", "l"}

LEMMA TextPartRead ==
  ASSUME NEW call, Frame(call).fmt \in Seq(Letters), NEW n \in Nat, NEW L, L \subseteq Letters,
         NEW part, NEW arg, Plain(part),
         Meaning(part, arg) \in Seq(L), Spells(call, n, Spelling(part)),
         NEW args, NEW said \in Seq(Letters), Reads(Turns(call)[n], "NORMAL", "DEFAULT", args, said)
  PROVE  /\ Reads(Turns(call)[n + Len(Spelling(part))], "NORMAL", "DEFAULT", Left(part.letter, args),
                  said \o Meaning(part, arg))
         /\ \A j \in 1..Len(Spelling(part)) : Turns(call)[n + j].frame.pending \in Seq(L)
<1> DEFINE text == part.text
<1>1. Spelling(part) = text /\ Meaning(part, arg) = text /\ Left(part.letter, args) = args
  BY DEF Plain, Spelling, Meaning, Left, Takes, Numbers, Radix
<1>2. text \in Seq(L)
  BY <1>1
<1>3. \A j \in 1..Len(text) : text[j] # "%"
  <2>1. "%" \notin ToSet(text)
    BY DEF Plain
  <2> HIDE DEF text
  <2>2. DOMAIN text = 1..Len(text)
    BY <1>2
  <2> QED
    BY <2>1, <2>2, Zenon DEF ToSet
<1>4. Spells(call, n, text)
  BY <1>1
<1> HIDE DEF text
<1>5. /\ Reads(Turns(call)[n + Len(text)], "NORMAL", "DEFAULT", args, said \o text)
      /\ \A j \in 1..Len(text) : Turns(call)[n + j].frame.pending \in Seq(L)
  BY <1>2, <1>3, <1>4, TextRead
<1> QED
  BY <1>1, <1>5

LEMMA DirectivePartRead ==
  ASSUME NEW call, Frame(call).fmt \in Seq(Letters), NEW n \in Nat, NEW L,
         NEW part, NEW arg, Ends(part.letter), part.length \in DOMAIN LengthName,
         Converted(part.letter, LengthName[part.length], arg) = Meaning(part, arg),
         Meaning(part, arg) \in Seq(L), Spelling(part) \in Seq(Letters), Spells(call, n, Spelling(part)),
         NEW args, Given(part.letter, args) = arg,
         NEW said \in Seq(Letters), Reads(Turns(call)[n], "NORMAL", "DEFAULT", args, said)
  PROVE  /\ Reads(Turns(call)[n + Len(Spelling(part))], "NORMAL", "DEFAULT", Left(part.letter, args),
                  said \o Meaning(part, arg))
         /\ \A j \in 1..Len(Spelling(part)) : Turns(call)[n + j].frame.pending \in Seq(L)
<1> DEFINE text   == Spelling(part)
           length == part.length
           letter == part.letter
           x      == Meaning(part, arg)
<1>1. text = <<"%">> \o length \o <<letter>>
  BY DEF Spelling, Ends
<1> HIDE DEF text, length, letter, x
<1>2. length \in DOMAIN LengthName /\ letter \notin {"h", "l"}
  BY DEF length, letter, Ends
<1>3. Directs(text, length, letter)
  BY <1>1, <1>2, DirectiveSpelled
<1>4. text \in Seq(Letters) /\ Spells(call, n, text)
  BY DEF text
<1>5. Converted(letter, LengthName[length], Given(letter, args)) = x
  BY DEF letter, length, x
<1>6. /\ Reads(Turns(call)[n + Len(text)], "NORMAL", "DEFAULT", Left(letter, args),
               said \o Converted(letter, LengthName[length], Given(letter, args)))
      /\ \A j \in 1..Len(text) :
           Turns(call)[n + j].frame.pending \in {<<>>, Converted(letter, LengthName[length], Given(letter, args))}
  BY <1>2, <1>3, <1>4, DirectiveRead
<1>7. <<>> \in Seq(L) /\ x \in Seq(L)
  <2>1. x \in Seq(L)
    BY Zenon DEF x
  <2>2. \A U : <<>> \in Seq(U)
    OBVIOUS
  <2> QED
    BY <2>1, <2>2, Zenon
<1> QED
  BY <1>5, <1>6, <1>7 DEF text, letter, x

(* What is no number is converted as it is.                                *)
LEMMA ConvertedIs ==
  ASSUME NEW part, NEW arg, NEW length, Ends(part.letter), part.letter \notin Numbers
  PROVE  Converted(part.letter, length, arg) = Meaning(part, arg)
BY DEF Converted, Meaning, Ends, Numbers, Radix, Signed

LEMMA PartRead ==
  ASSUME NEW call, Frame(call).fmt \in Seq(Letters), NEW n \in Nat, NEW L, L \subseteq Letters,
         NEW part, NEW arg, Sound(part, arg),
         Meaning(part, arg) \in Seq(L), Spelling(part) \in Seq(Letters), Spells(call, n, Spelling(part)),
         NEW args, Given(part.letter, args) = arg,
         NEW said \in Seq(Letters), Reads(Turns(call)[n], "NORMAL", "DEFAULT", args, said)
  PROVE  /\ Reads(Turns(call)[n + Len(Spelling(part))], "NORMAL", "DEFAULT", Left(part.letter, args),
                  said \o Meaning(part, arg))
         /\ \A j \in 1..Len(Spelling(part)) : Turns(call)[n + j].frame.pending \in Seq(L)
<1>1. Plain(part) \/ (Ends(part.letter) /\ part.length \in DOMAIN LengthName)
  BY DEF Sound, Plain, Ends
<1>2. ASSUME Ends(part.letter), part.length \in DOMAIN LengthName
      PROVE  Converted(part.letter, LengthName[part.length], arg) = Meaning(part, arg)
  <2>1. part.letter \in Numbers => Converted(part.letter, LengthName[part.length], arg) = Meaning(part, arg)
    BY <1>2 DEF Sound, Ends
  <2> QED
    BY <1>2, <2>1, ConvertedIs
<1> QED
  BY <1>1, <1>2, TextPartRead, DirectivePartRead

-----------------------------------------------------------------------------
(* The arguments, one after another. *)

Taken(parts, k) == Cardinality(Taking(parts, k))
From(args, t)   == SubSeq(args, t + 1, Len(args))

LEMMA TakenIs ==
  ASSUME NEW parts, NEW k \in Nat
  PROVE  /\ IsFiniteSet(Taking(parts, k)) /\ Taken(parts, k) \in Nat
         /\ Taken(parts, 0) = 0
         /\ Taken(parts, k + 1) = IF Takes(parts[k + 1].letter) THEN Taken(parts, k) + 1 ELSE Taken(parts, k)
         /\ \A m \in Nat : k <= m => Taken(parts, k) <= Taken(parts, m)
<1>1. \A m \in Nat : IsFiniteSet(Taking(parts, m)) /\ Taken(parts, m) \in Nat
  <2> SUFFICES ASSUME NEW m \in Nat PROVE IsFiniteSet(Taking(parts, m)) /\ Taken(parts, m) \in Nat
    OBVIOUS
  <2>1. IsFiniteSet(1..m)
    BY FS_Interval
  <2>2. Taking(parts, m) \subseteq 1..m
    BY DEF Taking
  <2>3. IsFiniteSet(Taking(parts, m))
    BY <2>1, <2>2, FS_Subset
  <2> QED
    BY <2>3, FS_CardinalityType DEF Taken
<1>2. Taken(parts, 0) = 0
  <2>1. Taking(parts, 0) = {}
    BY DEF Taking
  <2> QED
    BY <2>1, FS_EmptySet DEF Taken
<1>3. Taken(parts, k + 1) = IF Takes(parts[k + 1].letter) THEN Taken(parts, k) + 1 ELSE Taken(parts, k)
  <2>1. CASE Takes(parts[k + 1].letter)
    <3>1. Taking(parts, k + 1) = Taking(parts, k) \cup {k + 1} /\ k + 1 \notin Taking(parts, k)
      BY <2>1 DEF Taking
    <3> QED
      BY <1>1, <2>1, <3>1, FS_AddElement DEF Taken
  <2>2. CASE ~Takes(parts[k + 1].letter)
    <3>1. Taking(parts, k + 1) = Taking(parts, k)
      BY <2>2 DEF Taking
    <3> QED
      BY <2>2, <3>1 DEF Taken
  <2> QED
    BY <2>1, <2>2
<1>4. ASSUME NEW m \in Nat, k <= m PROVE Taken(parts, k) <= Taken(parts, m)
  <2>1. Taking(parts, k) \subseteq Taking(parts, m)
    BY <1>4 DEF Taking
  <2> QED
    BY <1>1, <2>1, FS_Subset DEF Taken
<1> QED
  BY <1>1, <1>2, <1>3, <1>4

LEMMA FromIs ==
  ASSUME NEW A, NEW args \in Seq(A)
  PROVE  /\ From(args, 0) = args
         /\ \A t \in Nat : t < Len(args) =>
              Head(From(args, t)) = args[t + 1] /\ Tail(From(args, t)) = From(args, t + 1)
<1>1. From(args, 0) = args
  BY DEF From
<1>2. ASSUME NEW t \in Nat, t < Len(args)
      PROVE  Head(From(args, t)) = args[t + 1] /\ Tail(From(args, t)) = From(args, t + 1)
  <2> DEFINE a == SubSeq(args, t + 1, Len(args))
             b == SubSeq(args, (t + 1) + 1, Len(args))
  <2>1. a \in Seq(A) /\ Len(a) = Len(args) - t /\ \A i \in 1..Len(a) : a[i] = args[t + i]
    BY <1>2
  <2>2. b \in Seq(A) /\ Len(b) = Len(args) - t - 1 /\ \A i \in 1..Len(b) : b[i] = args[t + 1 + i]
    BY <1>2
  <2> HIDE DEF a, b
  <2>3. a # <<>> /\ Head(a) = a[1]
    BY <1>2, <2>1
  <2>4. Tail(a) \in Seq(A) /\ Len(Tail(a)) = Len(a) - 1 /\ \A i \in 1..Len(a) - 1 : Tail(a)[i] = a[i + 1]
    BY <2>1, <2>3
  <2> DEFINE c == Tail(a)
  <2> HIDE DEF c
  <2>5. c \in Seq(A) /\ Len(c) = Len(b) /\ \A i \in 1..Len(c) : c[i] = b[i]
    BY <2>1, <2>2, <2>4 DEF c
  <2>6. c = b
    BY <2>2, <2>5
  <2>7. Head(a) = args[t + 1]
    BY <1>2, <2>1, <2>3
  <2> QED
    BY <2>6, <2>7 DEF From, a, b, c
<1> QED
  BY <1>1, <1>2

-----------------------------------------------------------------------------
(* A call of printf that is well spelled: what its parts are in letters,   *)
(* and what they mean.                                                     *)
Spelled(call) == [k \in DOMAIN call.parts |-> Spelling(call.parts[k])]
Meant(call)   == [k \in DOMAIN call.parts |-> Meaning(call.parts[k], Argument(call.parts, call.args, k))]

PartFine(call, k, L) ==
  LET part == call.parts[k]
      arg  == Argument(call.parts, call.args, k)
  IN Meaning(part, arg) \in Seq(L) /\ Spelling(part) \in Seq(Letters) /\ Sound(part, arg)

PrintfFine(call, L) ==
  /\ call.step = "printf"
  /\ call.parts \in Seq(ToSet(call.parts)) /\ call.args \in Seq(ToSet(call.args))
  /\ Taken(call.parts, Len(call.parts)) <= Len(call.args)
  /\ \A k \in DOMAIN call.parts : PartFine(call, k, L)

LEMMA PrintfIs ==
  ASSUME NEW L, L \subseteq Letters, NEW call, PrintfFine(call, L)
  PROVE  /\ Len(call.parts) \in Nat /\ DOMAIN call.parts = 1..Len(call.parts)
         /\ Spelled(call) \in Seq(Seq(Letters)) /\ Len(Spelled(call)) = Len(call.parts)
         /\ Meant(call) \in Seq(Seq(L)) /\ Len(Meant(call)) = Len(call.parts)
         /\ \A k \in 1..Len(call.parts) :
              /\ Spelled(call)[k] = Spelling(call.parts[k])
              /\ Meant(call)[k] = Meaning(call.parts[k], Argument(call.parts, call.args, k))
         /\ Frame(call).fmt = FlattenSeq(Spelled(call)) /\ Frame(call).fmt \in Seq(Letters)
         /\ Reads(Opening(call), "NORMAL", "DEFAULT", call.args, <<>>) /\ Frame(call).pending = <<>>
         /\ Message(call.parts, call.args) = FlattenSeq(Meant(call))
<1> DEFINE parts == call.parts
           K == Len(parts)
<1>1. K \in Nat /\ DOMAIN parts = 1..K
  BY DEF PrintfFine
<1>2. \A k \in 1..K : Spelling(parts[k]) \in Seq(Letters)
                      /\ Meaning(parts[k], Argument(parts, call.args, k)) \in Seq(L)
  BY <1>1 DEF PrintfFine, PartFine
<1>3. Frame(call).fmt = FlattenSeq(Spelled(call))
  BY DEF PrintfFine, Frame, Idle, Spelled
<1>4. Reads(Opening(call), "NORMAL", "DEFAULT", call.args, <<>>) /\ Frame(call).pending = <<>>
  BY DEF PrintfFine, Frame, Idle, Opening, Reads
<1> HIDE DEF parts, K
<1>5. Spelled(call) = [k \in 1..K |-> Spelling(parts[k])]
  BY <1>1 DEF Spelled, parts
<1>6. Meant(call) = [k \in 1..K |-> Meaning(parts[k], Argument(parts, call.args, k))]
  BY <1>1 DEF Meant, parts
<1>7. Spelled(call) \in Seq(Seq(Letters)) /\ Len(Spelled(call)) = K
      /\ \A k \in 1..K : Spelled(call)[k] = Spelling(parts[k])
  <2> DEFINE f(k) == Spelling(parts[k])
             U == Seq(Letters)
  <2>1. \A k \in 1..K : f(k) \in U
    BY <1>2
  <2> HIDE DEF f, U
  <2>2. [k \in 1..K |-> f(k)] \in Seq(U) /\ Len([k \in 1..K |-> f(k)]) = K
    BY <1>1, <2>1
  <2> QED
    BY <1>5, <2>2 DEF f, U
<1>8. Meant(call) \in Seq(Seq(L)) /\ Len(Meant(call)) = K
      /\ \A k \in 1..K : Meant(call)[k] = Meaning(parts[k], Argument(parts, call.args, k))
  <2> DEFINE f(k) == Meaning(parts[k], Argument(parts, call.args, k))
             U == Seq(L)
  <2>1. \A k \in 1..K : f(k) \in U
    BY <1>2
  <2> HIDE DEF f, U
  <2>2. [k \in 1..K |-> f(k)] \in Seq(U) /\ Len([k \in 1..K |-> f(k)]) = K
    BY <1>1, <2>1
  <2> QED
    BY <1>6, <2>2 DEF f, U
<1>9. Frame(call).fmt \in Seq(Letters)
  BY <1>3, <1>7, FoldIs
<1>10. Message(call.parts, call.args) = FlattenSeq(Meant(call))
  BY DEF Message, Meant
<1> QED
  BY <1>1, <1>3, <1>4, <1>7, <1>8, <1>9, <1>10 DEF parts, K

(* The argument of the next part is the first of those left.               *)
LEMMA ArgumentGiven ==
  ASSUME NEW A, NEW args \in Seq(A), NEW parts, Len(parts) \in Nat, Taken(parts, Len(parts)) <= Len(args),
         NEW k \in 0..Len(parts) - 1
  PROVE  LET letter == parts[k + 1].letter
             left   == From(args, Taken(parts, k))
         IN Given(letter, left) = Argument(parts, args, k + 1) /\ Left(letter, left) = From(args, Taken(parts, k + 1))
<1> DEFINE t == Taken(parts, k)
           u == Taken(parts, k + 1)
<1>1. k \in Nat /\ k + 1 \in Nat /\ k + 1 <= Len(parts)
  OBVIOUS
<1>2. t \in Nat /\ u \in Nat /\ u = IF Takes(parts[k + 1].letter) THEN t + 1 ELSE t
  BY <1>1, TakenIs
<1>3. u <= Len(args)
  <2>1. u <= Taken(parts, Len(parts)) /\ Taken(parts, Len(parts)) \in Nat
    BY <1>1, TakenIs
  <2> QED
    BY <1>2, <2>1
<1>4. Argument(parts, args, k + 1) = IF Takes(parts[k + 1].letter) THEN args[u] ELSE NoArgument
  BY DEF Argument, Taken
<1> HIDE DEF t, u
<1>5. CASE Takes(parts[k + 1].letter)
  <2>1. t < Len(args) /\ u = t + 1
    BY <1>2, <1>3, <1>5
  <2>2. Head(From(args, t)) = args[u] /\ Tail(From(args, t)) = From(args, u)
    BY <1>2, <2>1, FromIs
  <2> QED
    BY <1>4, <1>5, <2>2 DEF Given, Left, t, u
<1>6. CASE ~Takes(parts[k + 1].letter)
  BY <1>2, <1>4, <1>6 DEF Given, Left, t, u
<1> QED
  BY <1>5, <1>6

(* After each part, what was said is what the parts so far mean.           *)
Reached(call, k, L) ==
  LET n == Len(Fold(Spelled(call), k))
  IN /\ Reads(Turns(call)[n], "NORMAL", "DEFAULT", From(call.args, Taken(call.parts, k)), Fold(Meant(call), k))
     /\ \A m \in 0..n : Turns(call)[m].frame.pending \in Seq(L)

LEMMA NextReached ==
  ASSUME NEW L, L \subseteq Letters, NEW call, PrintfFine(call, L), NEW k \in 0..Len(call.parts) - 1,
         Reached(call, k, L)
  PROVE  Reached(call, k + 1, L)
<1> DEFINE parts == call.parts
           args  == call.args
           w     == Spelled(call)
           m     == Meant(call)
           part  == parts[k + 1]
           arg   == Argument(parts, args, k + 1)
           left  == From(args, Taken(parts, k))
           n     == Len(Fold(w, k))
           text  == Spelling(part)
           said  == Fold(m, k)
<1>1. k + 1 \in 1..Len(parts) /\ k \in 0..Len(w) - 1 /\ k \in 0..Len(m) - 1 /\ k \in 0..Len(m)
  <2>1. Len(parts) \in Nat /\ Len(w) = Len(parts) /\ Len(m) = Len(parts)
    BY PrintfIs
  <2> HIDE DEF parts, w, m
  <2>2. k \in 0..Len(parts) - 1
    BY DEF parts
  <2> QED
    BY <2>1, <2>2
<1>2. text \in Seq(Letters) /\ Meaning(part, arg) \in Seq(L) /\ Sound(part, arg)
  BY <1>1, PrintfIs DEF PrintfFine, PartFine
<1>3. w[k + 1] = text /\ m[k + 1] = Meaning(part, arg)
  BY <1>1, PrintfIs
<1>4. w \in Seq(Seq(Letters)) /\ m \in Seq(Seq(L)) /\ Frame(call).fmt = FlattenSeq(w) /\ Frame(call).fmt \in Seq(Letters)
  BY PrintfIs
<1>5. n \in Nat /\ Len(Fold(w, k + 1)) = n + Len(text) /\ Spells(call, n, text)
  <2>1. /\ n \in Nat /\ Len(Fold(w, k + 1)) = n + Len(w[k + 1]) /\ n + Len(w[k + 1]) <= Len(FlattenSeq(w))
        /\ \A j \in 1..Len(w[k + 1]) : FlattenSeq(w)[n + j] = w[k + 1][j]
    BY <1>1, <1>4, FoldPlace
  <2> HIDE DEF w, text, n
  <2> QED
    BY <1>3, <1>4, <2>1 DEF Spells, Size
<1>6. Given(part.letter, left) = arg /\ Left(part.letter, left) = From(args, Taken(parts, k + 1))
  <2>1. args \in Seq(ToSet(args)) /\ Len(parts) \in Nat /\ Taken(parts, Len(parts)) <= Len(args)
    BY PrintfIs DEF PrintfFine
  <2> QED
    BY <2>1, ArgumentGiven
<1>7. said \in Seq(Letters) /\ Fold(m, k + 1) = said \o Meaning(part, arg)
  <2>1. said \in Seq(L) /\ Fold(m, k + 1) = said \o m[k + 1]
    BY <1>1, <1>4, FoldIs
  <2>2. Seq(L) \subseteq Seq(Letters)
    OBVIOUS
  <2> QED
    BY <1>3, <2>1, <2>2
<1>8. Reads(Turns(call)[n], "NORMAL", "DEFAULT", left, said) /\ \A i \in 0..n : Turns(call)[i].frame.pending \in Seq(L)
  BY DEF Reached
<1> HIDE DEF parts, args, w, m, part, arg, left, n, text, said
<1>9. /\ Reads(Turns(call)[n + Len(text)], "NORMAL", "DEFAULT", Left(part.letter, left), said \o Meaning(part, arg))
      /\ \A j \in 1..Len(text) : Turns(call)[n + j].frame.pending \in Seq(L)
  BY <1>2, <1>4, <1>5, <1>6, <1>7, <1>8, PartRead DEF text
<1>10. ASSUME NEW i \in 0..n + Len(text) PROVE Turns(call)[i].frame.pending \in Seq(L)
  <2>1. CASE i <= n
    BY <1>5, <1>8, <2>1
  <2>2. CASE ~(i <= n)
    <3>1. i - n \in 1..Len(text) /\ n + (i - n) = i
      BY <1>2, <1>5, <2>2
    <3> QED
      BY <1>9, <3>1
  <2> QED
    BY <2>1, <2>2
<1>11. Reads(Turns(call)[n + Len(text)], "NORMAL", "DEFAULT", From(args, Taken(parts, k + 1)), Fold(m, k + 1))
  BY <1>6, <1>7, <1>9
<1> QED
  BY <1>5, <1>10, <1>11 DEF Reached, parts, args, w, m

LEMMA PrintfRead ==
  ASSUME NEW L, L \subseteq Letters, NEW call, PrintfFine(call, L)
  PROVE  /\ Frame(call).fmt \in Seq(Letters)
         /\ Turns(call)[Size(call)].said = Message(call.parts, call.args)
         /\ \A n \in 0..Size(call) : Turns(call)[n].frame.pending \in Seq(L)
<1> DEFINE K == Len(call.parts)
           S == {k \in Nat : k \in 0..K => Reached(call, k, L)}
<1>1. K \in Nat
  BY PrintfIs
<1>2. Reached(call, 0, L)
  <2>1. Fold(Spelled(call), 0) = <<>> /\ Fold(Meant(call), 0) = <<>>
    BY PrintfIs, FoldIs
  <2>2. Taken(call.parts, 0) = 0 /\ From(call.args, 0) = call.args
    BY TakenIs, FromIs DEF PrintfFine
  <2>3. Turns(call)[0] = Opening(call)
    BY PrintfIs, TurnsRead, TurnsRecursion
  <2>4. Reads(Opening(call), "NORMAL", "DEFAULT", call.args, <<>>) /\ Opening(call).frame.pending = <<>>
    BY PrintfIs DEF Opening
  <2>5. Len(<<>>) = 0 /\ (\A m \in 0..0 : m = 0) /\ <<>> \in Seq(L)
    OBVIOUS
  <2> QED
    BY <2>1, <2>2, <2>3, <2>4, <2>5 DEF Reached
<1>3. ASSUME NEW k \in Nat, k \in S PROVE k + 1 \in S
  <2> SUFFICES ASSUME k + 1 \in 0..K PROVE Reached(call, k + 1, L)
    OBVIOUS
  <2>1. k \in 0..K - 1 /\ k \in 0..K
    BY <1>1
  <2> QED
    BY <1>3, <2>1, NextReached
<1>4. Nat \subseteq S
  <2>1. 0 \in S
    BY <1>2
  <2> HIDE DEF S
  <2> QED
    BY <1>3, <2>1, SetInduction
<1>5. Reached(call, K, L)
  BY <1>1, <1>4
<1>6. Fold(Spelled(call), K) = Frame(call).fmt /\ Fold(Meant(call), K) = Message(call.parts, call.args)
  BY PrintfIs, FoldIs
<1> HIDE DEF K
<1>7. Frame(call).fmt \in Seq(Letters)
  BY PrintfIs
<1> QED
  BY <1>5, <1>6, <1>7 DEF Reached, Reads, Size

LEMMA TextMeans ==
  ASSUME NEW t, NEW arg
  PROVE  Meaning(Text(t), arg) = t
<1> DEFINE part == Text(t)
<1>1. part.letter = "" /\ part.text = t
  BY DEF Text
<1> HIDE DEF part
<1>2. Meaning(part, arg) = part.text
  BY <1>1 DEF Meaning, Numbers, Radix
<1> QED
  BY <1>1, <1>2 DEF part

(* A call of puts has nothing to read.                                     *)
LEMMA PutsRead ==
  ASSUME NEW L, L \subseteq Letters, NEW call, call.step = "puts", call.parts = <<Text(call.parts[1].text)>>,
         Meaning(call.parts[1], Argument(call.parts, call.args, 1)) \in Seq(L)
  PROVE  /\ Frame(call).fmt \in Seq(Letters)
         /\ Turns(call)[Size(call)].said = Message(call.parts, call.args)
         /\ \A n \in 0..Size(call) : Turns(call)[n].frame.pending \in Seq(L)
<1> DEFINE text == call.parts[1].text
<1>1. Frame(call).fmt = <<>> /\ Frame(call).pending = text
  BY DEF Frame, Idle
<1>2. Meaning(call.parts[1], Argument(call.parts, call.args, 1)) = text
  <2>1. call.parts[1] = Text(text)
    OBVIOUS
  <2> HIDE DEF text
  <2> QED
    BY <2>1, TextMeans
<1>3. Message(call.parts, call.args) = text
  <2>1. DOMAIN call.parts = 1..1
    OBVIOUS
  <2> DEFINE m == [k \in DOMAIN call.parts |-> Meaning(call.parts[k], Argument(call.parts, call.args, k))]
  <2>2. m = <<text>>
    BY <1>2, <2>1
  <2>3. text \in Seq(Letters)
    BY <1>2
  <2> HIDE DEF text, m
  <2>4. FlattenSeq(<<text>>) = text
    <3>1. Append(<<>>, text) = <<text>> /\ <<>> \in Seq(Seq(Letters)) /\ <<>> \in Seq(Letters)
      BY <2>3
    <3>2. FlattenSeq(Append(<<>>, text)) = FlattenSeq(<<>>) \o text
      BY <2>3, <3>1, FlattenAppend
    <3>3. FlattenSeq(<<>>) = <<>>
      BY DEF FlattenSeq
    <3>4. <<>> \o text = text
      BY <2>3, ConcatAssociates
    <3> QED
      BY <3>1, <3>2, <3>3, <3>4
  <2> QED
    BY <2>2, <2>4 DEF Message, m
<1>4. Size(call) = 0 /\ <<>> \in Seq(Letters)
  BY <1>1 DEF Size
<1>5. Turns(call)[0] = Opening(call)
  BY <1>4, TurnsRecursion
<1>6. Opening(call).said = text /\ Opening(call).frame.pending = text
  BY <1>1 DEF Opening
<1>7. text \in Seq(L) /\ \A n \in 0..0 : n = 0
  BY <1>2
<1> HIDE DEF text
<1> QED
  BY <1>1, <1>3, <1>4, <1>5, <1>6, <1>7

-----------------------------------------------------------------------------
LEMMA LegibleIs ==
  ASSUME Legible("stdout") \subseteq Letters, NEW file
  PROVE  Legible(file) \subseteq Letters /\ (file = "stdout" => Legible(file) = Characters \cup {"\n", "\t", "\r"})
BY Zenon DEF Legible, Letters

(* printf reads every well-spelled format rightly: whatever the lengths    *)
(* and letters of its directives, between whatever texts, each call alone  *)
(* says what its format means.                                             *)
THEOREM FormatsAreRead == WellSpelled => EachCallAlone
<1> SUFFICES ASSUME WellSpelled PROVE EachCallAlone
  OBVIOUS
<1>1. Scripts \cup HandlerTexts \subseteq Seq(Steps) /\ Legible("stdout") \subseteq Letters
  BY DEF WellSpelled, Letters
<1>2. ASSUME NEW call \in Calls
      PROVE  /\ call.file \in {"stdout", "debug"}
             /\ Frame(call).fmt \in Seq(Letters)
             /\ Turns(call)[Len(Frame(call).fmt)].said = Message(call.parts, call.args)
             /\ \A n \in 0..Len(Frame(call).fmt) :
                  LET next == Turns(call)[n].frame.pending
                  IN /\ next \in Seq(Letters)
                     /\ call.file = "stdout" => next \in Seq(Characters \cup {"\n", "\t", "\r"})
  <2> DEFINE L == Legible(call.file)
             Right == /\ Frame(call).fmt \in Seq(Letters)
                      /\ Turns(call)[Size(call)].said = Message(call.parts, call.args)
                      /\ \A n \in 0..Size(call) : Turns(call)[n].frame.pending \in Seq(L)
  <2>1. L \subseteq Letters /\ (call.file = "stdout" => L = Characters \cup {"\n", "\t", "\r"})
    BY <1>1, LegibleIs
  <2>2. call.file \in {"stdout", "debug"} /\ call.step \in {"printf", "puts"}
    BY DEF WellSpelled, Calls
  <2>3. ASSUME call.step = "printf" PROVE Right
    <3>1. PrintfFine(call, L)
      BY <2>3 DEF WellSpelled, PrintfFine, PartFine, Taken, Letters
    <3> HIDE DEF L
    <3> QED
      BY <2>1, <3>1, PrintfRead
  <2>4. ASSUME call.step = "puts" PROVE Right
    <3>1. call.parts = <<Text(call.parts[1].text)>>
      BY <2>4 DEF WellSpelled
    <3>2. 1 \in DOMAIN call.parts
      BY <3>1
    <3>3. Meaning(call.parts[1], Argument(call.parts, call.args, 1)) \in Seq(L)
      BY <3>2 DEF WellSpelled
    <3> HIDE DEF L
    <3> QED
      BY <2>1, <2>4, <3>1, <3>3, PutsRead
  <2>5. Right
    BY <2>2, <2>3, <2>4
  <2> HIDE DEF L
  <2>6. Seq(L) \subseteq Seq(Letters)
    BY <2>1
  <2> QED
    BY <2>1, <2>2, <2>5, <2>6 DEF Size
<1> QED
  BY <1>1, <1>2 DEF EachCallAlone

-----------------------------------------------------------------------------
(* A context between two calls has written what its calls mean, whatever   *)
(* the other one printed meanwhile: vfprintf is entered again at any       *)
(* character and keeps nothing outside its frame.                          *)
THEOREM EachTextIsWhole == WellSpelled => (Spec => []EachTextWhole)
<1> SUFFICES ASSUME EachCallAlone PROVE Spec => []EachTextWhole
  BY FormatsAreRead
<1>1. Telling => EachTextWhole
  <2> SUFFICES ASSUME Telling, NEW ctx \in Contexts, frames[ctx] = Idle
               PROVE  written[ctx] = Spoken(made[ctx])
    BY DEF EachTextWhole
  <2>1. Tells(frames[ctx], made[ctx], written[ctx])
    BY DEF Telling
  <2> QED
    BY <2>1, BusyFrame DEF Tells
<1>2. Init => Telling
  BY InitTelling
<1>3. Telling /\ [Next]_vars => Telling'
  BY NextTelling
<1> QED
  BY <1>1, <1>2, <1>3, PTL DEF Spec

-----------------------------------------------------------------------------
(* Console implements Terminal. *)

LEMMA LeftoverIs ==
  ASSUME NEW x \in Xs, NEW y \in Ys
  PROVE  /\ Good(Leftover(x, y)) /\ Seen(Leftover(x, y)) /\ Leftover(x, y).gone = <<>>
         /\ Leftover(x, y).x = x /\ Leftover(x, y).y = y
<1> DEFINE s == [rows |-> [r \in Ys |-> [c \in Xs |-> "?"]], x |-> x, y |-> y,
                 cursor |-> [low |-> 0, high |-> 0], gone |-> <<>>]
           t == setcursor(s)
<1>1. Screen(s) /\ s.x = x /\ s.y = y /\ s.gone = <<>> /\ s.rows = [r \in Ys |-> [c \in Xs |-> "?"]]
  BY DEF Screen, Fields
<1>2. [r \in Ys |-> [c \in Xs |-> "?"]] \in [Ys -> Lines] /\ <<>> \in Seq(Lines)
  BY DEF Lines, Marks
<1>3. Leftover(x, y) = t
  BY DEF Leftover
<1> HIDE DEF s
<1>4. Screen(t) /\ t.x = x /\ t.y = y
  BY <1>1, SetCursorKeeps
<1>5. Inside(s) /\ Len(s.gone) \in Nat
  BY <1>1 DEF Inside
<1>6. t.rows = s.rows /\ t.gone = s.gone /\ Seen(t)
  BY <1>5, SetCursorSeen
<1> HIDE DEF t
<1>7. Good(t)
  BY <1>1, <1>2, <1>4, <1>6 DEF Good, Filled, Inside
<1> QED
  BY <1>1, <1>3, <1>4, <1>6, <1>7

(* A program that starts with g_ScreenX and g_ScreenY at 0.                *)
LEMMA FromTheTop ==
  ASSUME NEW s, Good(s)
  PROVE  LET t == [s EXCEPT !.x = 0, !.y = 0]
         IN  /\ Good(t) /\ t.x = 0 /\ Row(t) = Len(s.gone) + 1
             /\ t.gone = s.gone /\ Paper(t) = Paper(s) /\ Blink(t) = Blink(s)
<1> DEFINE t == [s EXCEPT !.x = 0, !.y = 0]
<1>1. /\ Screen(t) /\ t.x = 0 /\ t.y = 0
      /\ t.rows = s.rows /\ t.gone = s.gone /\ t.cursor = s.cursor
  BY DEF Good, Filled, Screen, Fields
<1>2. 0 \in Xs /\ 0 \in Ys
  BY Dimensions DEF Xs, Ys
<1> HIDE DEF t
<1>3. Good(t)
  BY <1>1, <1>2 DEF Good, Filled, Inside
<1>4. Paper(t) = Paper(s) /\ Blink(t) = Blink(s)
  BY <1>1 DEF Paper, Blink, Position
<1>5. Len(s.gone) \in Nat
  BY DEF Good, Filled
<1>6. Row(t) = Len(s.gone) + 1
  BY <1>1, <1>5 DEF Row
<1> QED
  BY <1>1, <1>3, <1>4, <1>6 DEF t

LEMMA ClrscrIs ==
  ASSUME NEW s, Good(s)
  PROVE  LET t == clrscr(s)
         IN  /\ Good(t) /\ Seen(t)
             /\ View(t) = At([y \in 1..SCREEN_HEIGHT |-> Sheet!Blank], 1, 0)
<1> DEFINE m == [s EXCEPT !.rows = [y \in Ys |-> Blank], !.x = 0, !.y = 0, !.gone = <<>>]
           t == setcursor(m)
<1>1. Screen(m) /\ m.rows = [y \in Ys |-> Blank] /\ m.x = 0 /\ m.y = 0 /\ m.gone = <<>>
  BY DEF Good, Filled, Screen, Fields
<1>2. clrscr(s) = t
  BY DEF clrscr
<1> HIDE DEF m
<1>3. 0 \in Xs /\ 0 \in Ys
  BY Dimensions DEF Xs, Ys
<1>4. Inside(m) /\ Len(m.gone) \in Nat
  BY <1>1, <1>3 DEF Inside
<1>5. Screen(t) /\ t.x = 0 /\ t.y = 0 /\ t.rows = m.rows /\ t.gone = m.gone /\ Seen(t)
  BY <1>1, <1>4, SetCursorKeeps, SetCursorSeen
<1> HIDE DEF t
<1>6. m.rows \in [Ys -> Lines] /\ m.gone \in Seq(Lines)
  BY <1>1, BlankLine
<1>7. Good(t)
  BY <1>3, <1>5, <1>6 DEF Good, Filled, Inside
<1>8. Paper(t) = [y \in 1..SCREEN_HEIGHT |-> Sheet!Blank]
  <2> DEFINE p == [n \in 1..SCREEN_HEIGHT |-> t.rows[n - 1]]
             q == [y \in 1..SCREEN_HEIGHT |-> Sheet!Blank]
  <2>1. \A n \in 1..SCREEN_HEIGHT : t.rows[n - 1] = Blank
    BY <1>1, <1>5, Dimensions DEF Ys
  <2>2. p = q
    BY <2>1, BlankLine
  <2>3. q \in Seq(Lines)
    BY BlankLine, Dimensions
  <2>4. Paper(t) = <<>> \o p
    BY <1>1, <1>5 DEF Paper
  <2> HIDE DEF p, q
  <2>5. <<>> \o q = q
    BY <2>3, ConcatAssociates
  <2> QED
    BY <2>2, <2>4, <2>5, Zenon DEF q
<1>9. Row(t) = 1
  <2>1. Len(t.gone) = 0
    BY <1>1, <1>5
  <2> QED
    BY <1>5, <2>1 DEF Row
<1>10. View(t) = At([y \in 1..SCREEN_HEIGHT |-> Sheet!Blank], 1, 0)
  BY <1>5, <1>8, <1>9 DEF View, At
<1> QED
  BY <1>2, <1>5, <1>7, <1>10

LEMMA InitSheet == Init => Good(screen) /\ Sheet!Init
<1> SUFFICES ASSUME Init PROVE Good(screen) /\ Sheet!Init
  OBVIOUS
<1>1. PICK x \in Xs, y \in Ys : screen = [Leftover(x, y) EXCEPT !.x = 0, !.y = 0]
  BY DEF Init
<1> DEFINE s == Leftover(x, y)
<1>2. Good(s) /\ Seen(s) /\ s.gone = <<>> /\ s.x = x /\ s.y = y
  BY LeftoverIs
<1> HIDE DEF s
<1>3. /\ Good(screen) /\ screen.x = 0 /\ Row(screen) = Len(s.gone) + 1 /\ screen.gone = s.gone
      /\ Blink(screen) = Blink(s)
  BY <1>1, <1>2, FromTheTop DEF s
<1>4. Len(s.gone) = 0
  BY <1>2
<1>5. Row(screen) = 1 /\ Blink(screen) = <<y + 1, x>>
  BY <1>2, <1>3, <1>4 DEF Seen, Row, Ys
<1>6. Len(Paper(screen)) = SCREEN_HEIGHT
  BY <1>3, <1>4, PaperIs, Dimensions DEF Good
<1>7. <<y + 1, x>> \in (1..SCREEN_HEIGHT) \X (0..SCREEN_WIDTH - 1)
  BY Dimensions DEF Xs, Ys
<1> QED
  BY <1>3, <1>5, <1>6, <1>7 DEF Sheet!Init, Paper, Row, Blink, Position, CursorAt

LEMMA HereIs == Sheet!Here = View(screen)
BY DEF Sheet!Here, View, Paper, Row

(* The screen shows the sheet v, and the cursor v's next place.            *)
Shows(s, v) == Paper(s) = v.paper /\ Row(s) = v.row /\ s.x = v.col /\ Blink(s) = <<v.row, v.col>>

LEMMA ShowsIs ==
  ASSUME NEW s, Seen(s)
  PROVE  Shows(s, View(s))
<1>1. View(s).paper = Paper(s) /\ View(s).row = Row(s) /\ View(s).col = s.x
  BY DEF View
<1> QED
  BY <1>1 DEF Seen, Shows

(* Each step of the programs is one of the sheet, or shows nothing on it.  *)
LEMMA NextSheet ==
  EachCallAlone /\ Telling /\ Good(screen) /\ [Next]_vars => Good(screen') /\ [Sheet!Next]_(Sheet!vars)
<1> SUFFICES ASSUME EachCallAlone, Telling, Good(screen), [Next]_vars
             PROVE  Good(screen') /\ [Sheet!Next]_(Sheet!vars)
  OBVIOUS
<1>1. CASE UNCHANGED screen
  <2>1. UNCHANGED Sheet!vars
    BY <1>1 DEF Sheet!vars, CursorAt
  <2> QED
    BY <1>1, <2>1
<1>2. ASSUME NEW ctx \in Contexts, fputc(ctx), ~UNCHANGED screen
      PROVE  Good(screen') /\ Sheet!Next
  <2> DEFINE f == frames[ctx]
             c == Head(f.pending)
  <2>1. f.file = "stdout" /\ screen' = putc(screen, c) /\ f.pending # <<>>
    BY <1>2 DEF fputc, VFS_Write, VGA_putc
  <2>2. Tells(f, made[ctx], written[ctx])
    BY DEF Telling
  <2> HIDE DEF f
  <2>3. c \in Characters \cup Controls
    BY <2>1, <2>2, FputcTells
  <2> HIDE DEF c
  <2>4. Good(screen') /\ Seen(screen') /\ Typed(c, View(screen), View(screen'))
    BY <2>1, <2>3, PutcIs
  <2>5. Shows(screen', View(screen'))
    BY <2>4, ShowsIs
  <2>6. CASE c = "\n" /\ View(screen') = Sheet!NewLine(View(screen))
    <3>1. Shows(screen', Sheet!NewLine(Sheet!Here))
      BY <2>5, <2>6, HereIs
    <3>2. Sheet!Feed
      BY <3>1 DEF Shows, Sheet!Feed, Sheet!Reach, Paper, Row, Blink, Position, CursorAt
    <3> QED
      BY <2>4, <3>2 DEF Sheet!Next
  <2>7. CASE c = "\r" /\ View(screen') = [View(screen) EXCEPT !.col = 0]
    <3>1. Shows(screen', [Sheet!Here EXCEPT !.col = 0])
      BY <2>5, <2>7, HereIs
    <3>2. Sheet!Return
      BY <3>1 DEF Shows, Sheet!Return, Sheet!Reach, Paper, Row, Blink, Position, CursorAt
    <3> QED
      BY <2>4, <3>2 DEF Sheet!Next
  <2>8. CASE c = "\t" /\ \E n \in 1..4 : View(screen') = Sheet!Spaces(View(screen), n)
    <3>1. PICK n \in 1..4 : View(screen') = Sheet!Spaces(View(screen), n)
      BY <2>8
    <3>2. Shows(screen', Sheet!Spaces(Sheet!Here, n))
      BY <2>5, <3>1, HereIs
    <3>3. Sheet!Tab
      BY <3>2 DEF Shows, Sheet!Tab, Sheet!Reach, Paper, Row, Blink, Position, CursorAt
    <3> QED
      BY <2>4, <3>3 DEF Sheet!Next
  <2>9. CASE c \notin Controls /\ View(screen') = Sheet!Put(View(screen), c)
    <3>1. c \in Characters
      BY <2>3, <2>9
    <3>2. Shows(screen', Sheet!Put(Sheet!Here, c))
      BY <2>5, <2>9, HereIs
    <3>3. Sheet!Mark(c)
      BY <3>2 DEF Shows, Sheet!Mark, Sheet!Reach, Paper, Row, Blink, Position, CursorAt
    <3> QED
      BY <2>4, <3>1, <3>3 DEF Sheet!Next
  <2> QED
    BY <2>4, <2>6, <2>7, <2>8, <2>9 DEF Typed
<1>3. CASE ClearScreen
  <2>1. screen' = clrscr(screen)
    BY <1>3 DEF ClearScreen
  <2>2. Good(screen') /\ Seen(screen') /\ View(screen') = At([y \in 1..SCREEN_HEIGHT |-> Sheet!Blank], 1, 0)
    BY <2>1, ClrscrIs
  <2>3. Shows(screen', At([y \in 1..SCREEN_HEIGHT |-> Sheet!Blank], 1, 0))
    BY <2>2, ShowsIs
  <2>4. Sheet!Clear
    BY <2>3 DEF Shows, At, Sheet!Clear, Sheet!Reach, Paper, Row, Blink, Position, CursorAt
  <2> QED
    BY <2>2, <2>4 DEF Sheet!Next
<1>4. CASE EnterKernel
  <2>1. screen' = [screen EXCEPT !.x = 0, !.y = 0]
    BY <1>4 DEF EnterKernel
  <2>2. /\ Good(screen') /\ screen'.x = 0 /\ Row(screen') = Len(screen.gone) + 1
        /\ Paper(screen') = Paper(screen) /\ Blink(screen') = Blink(screen)
    BY <2>1, FromTheTop
  <2>3. Len(Paper(screen)) = Len(screen.gone) + SCREEN_HEIGHT /\ Len(screen.gone) \in Nat
    BY PaperIs DEF Good
  <2>4. Row(screen') = Len(Paper(screen)) - SCREEN_HEIGHT + 1
    BY <2>2, <2>3, Dimensions
  <2>5. Sheet!Restart
    BY <2>2, <2>4 DEF Sheet!Restart, Paper, Row, Blink, Position, CursorAt
  <2> QED
    BY <2>2, <2>5 DEF Sheet!Next
<1>5. \/ UNCHANGED screen \/ ClearScreen \/ EnterKernel
      \/ \E ctx \in Contexts : fputc(ctx) /\ ~UNCHANGED screen
  BY DEF Next, vars, Begin, Format, Return, EnableInterrupts, Interrupt
<1> QED
  BY <1>1, <1>2, <1>3, <1>4, <1>5

(* What the boot loader and the kernel put on the screen, through one      *)
(* another and through the handlers, is always the last lines of one       *)
(* endless sheet on which each character was typed in its turn.            *)
THEOREM ScreenImplementsTerminal == WellSpelled => (Spec => ImplementsTerminal)
<1> SUFFICES ASSUME EachCallAlone PROVE Spec => ImplementsTerminal
  BY FormatsAreRead
<1> DEFINE Inv == Telling /\ Good(screen)
<1>1. Init => Inv /\ Sheet!Init
  BY InitTelling, InitSheet
<1>2. Inv /\ [Next]_vars => Inv' /\ [Sheet!Next]_(Sheet!vars)
  <2> SUFFICES ASSUME Inv, [Next]_vars PROVE Inv' /\ [Sheet!Next]_(Sheet!vars)
    OBVIOUS
  <2>1. Telling' /\ Good(screen') /\ [Sheet!Next]_(Sheet!vars)
    BY NextTelling, NextSheet
  <2>2. Inv'
    BY <2>1
  <2> QED
    BY <2>1, <2>2
<1> HIDE DEF Inv
<1> QED
  BY <1>1, <1>2, PTL DEF Spec, ImplementsTerminal, Sheet!Spec
=============================================================================
