-------------------------------- MODULE Gui --------------------------------
(***************************************************************************)
(* The mouse's packets, put together by the handler of IRQ 12, and the     *)
(* main loop's gui_update, gui.c, which samples what they leave behind,    *)
(* turns presses into clicks and runs the application in front.  The keys  *)
(* waiting are the queue KeyQueue promises; drawing is left out.           *)
(***************************************************************************)
EXTENDS Integers, Sequences

CONSTANTS Packets,          \* what the mouse can send: <<buttons, dx, dy>>
          Sessions,         \* what a user does: for each packet of the session the
                            \* choice of it, and the bound maxKeys on the keys typed
          Keys,             \* the keys typed: "char", "back" or "none" (no ascii)
          NOTEPAD_MAX_TEXT

ASSUME GuiAssumption ==
  /\ Packets \subseteq Seq(-128..127) /\ \A p \in Packets : Len(p) = 3
  /\ \A s \in Sessions : s.packets \in Seq(SUBSET Packets) /\ s.maxKeys \in Nat
  /\ Keys \subseteq {"char", "back", "none"}
  /\ NOTEPAD_MAX_TEXT \in Nat \ {0}

VARIABLES session,                        \* the session this is
          packet,                         \* the bytes the mouse has yet to send
          sent,                           \* packets so far
          mouse_byte,                     \* the bytes of this packet had: mouse_cycle of them
          mouse_x, mouse_y, mouse_left_button,
          keys, typed,                    \* keys waiting, and typed so far
          gui,                            \* [current_app, x, y, clicked, was_clicked]
          cal_month, cal_year,
          notepad_text, notepad_cursor,
          pc,                             \* where gui_update is
          press,                          \* history: the last press, "none", "new" or "taken"
          ghost,                          \* history: a press was acted on twice
          shift                           \* history: months forward since the calendar was opened

mouse  == <<mouse_byte, mouse_x, mouse_y, mouse_left_button>>
device == <<session, packet, sent>>
apps   == <<cal_month, cal_year, notepad_text, notepad_cursor, shift>>
ring   == <<keys, typed>>
vars   == <<device, mouse, ring, gui, apps, pc, press, ghost>>

Rect(x, y, width, height) == [x |-> x, y |-> y, width |-> width, height |-> height]

gui_is_point_in_rect(x, y, r) == x \in r.x..r.x + r.width - 1 /\ y \in r.y..r.y + r.height - 1

Icon == [CLOCK    |-> Rect(10, 30, 70, 30), CALENDAR |-> Rect(90, 30, 70, 30),
         NOTEPAD  |-> Rect(170, 30, 70, 30), SNAKE   |-> Rect(250, 30, 70, 30),
         SETTINGS |-> Rect(10, 70, 70, 30), SYSMON   |-> Rect(90, 70, 70, 30)]
close_btn == Rect(280, 32, 8, 8)
prev_btn  == Rect(40, 150, 40, 15)
next_btn  == Rect(240, 150, 40, 15)

Apps == DOMAIN Icon
NUL == "nul"

Init ==
  /\ session \in Sessions
  /\ packet = <<>> /\ sent = 0 /\ mouse_byte = <<>>
  /\ mouse_x = 0 /\ mouse_y = 0 /\ mouse_left_button = FALSE
  /\ keys = <<>> /\ typed = 0
  /\ gui = [current_app |-> "DESKTOP", x |-> 160, y |-> 100, clicked |-> FALSE, was_clicked |-> FALSE]
  /\ cal_month = 1 /\ cal_year = 2025 /\ shift = 0
  /\ notepad_text = [k \in 0..NOTEPAD_MAX_TEXT - 1 |-> NUL] /\ notepad_cursor = 0
  /\ pc = "read_x" /\ press = "none" /\ ghost = FALSE

-----------------------------------------------------------------------------
(* The device and the interrupts; they come between any two steps.         *)

SendPacket == /\ packet = <<>> /\ sent < Len(session.packets)
              /\ packet' \in session.packets[sent + 1]
              /\ sent' = sent + 1
              /\ UNCHANGED <<session, mouse, ring, gui, apps, pc, press, ghost>>

ClampLow(n, last) == IF n < 0 THEN 0 ELSE n          \* mutant: one side only

Clamp(n, last) == IF n < 0 THEN 0 ELSE IF n > last THEN last ELSE n

FirstBytes == /\ packet # <<>> /\ Len(mouse_byte) < 2
              /\ mouse_byte' = Append(mouse_byte, Head(packet))
              /\ packet' = Tail(packet)
              /\ UNCHANGED <<session, sent, mouse_x, mouse_y, mouse_left_button, ring, gui, apps, pc, press, ghost>>

ThirdByte ==
  /\ packet # <<>> /\ Len(mouse_byte) = 2
  /\ mouse_x' = Clamp(mouse_x + mouse_byte[2], 319)
  /\ mouse_y' = Clamp(mouse_y - Head(packet), 199)
  /\ mouse_left_button' = (mouse_byte[1] % 2 = 1)
  /\ press' = IF mouse_left_button' /\ ~mouse_left_button THEN "new" ELSE press
  /\ mouse_byte' = <<>>
  /\ packet' = Tail(packet)
  /\ UNCHANGED <<session, sent, ring, gui, apps, pc, ghost>>

Type == /\ typed < session.maxKeys
        /\ \E k \in Keys : keys' = Append(keys, k)
        /\ typed' = typed + 1
        /\ UNCHANGED <<device, mouse, gui, apps, pc, press, ghost>>

-----------------------------------------------------------------------------
(* gui_update: three samples, then the application.                        *)

SampleX == /\ pc = "read_x"
           /\ gui' = [gui EXCEPT !.was_clicked = gui.clicked, !.x = mouse_x]
           /\ pc' = "read_y"
           /\ UNCHANGED <<device, mouse, ring, apps, press, ghost>>

SampleY == /\ pc = "read_y"
           /\ gui' = [gui EXCEPT !.y = mouse_y]
           /\ pc' = "read_button"
           /\ UNCHANGED <<device, mouse, ring, apps, press, ghost>>

SampleAllLate ==                        \* mutant: mouse_was_clicked is set last
  /\ pc = "read_button"
  /\ gui' = [gui EXCEPT !.clicked = mouse_left_button, !.was_clicked = mouse_left_button]
  /\ pc' = "update"
  /\ UNCHANGED <<device, mouse, ring, apps, press, ghost>>

SampleButton == /\ pc = "read_button"
                /\ gui' = [gui EXCEPT !.clicked = mouse_left_button]
                /\ pc' = "update"
                /\ UNCHANGED <<device, mouse, ring, apps, press, ghost>>

ClickedWhileHeld(r) == gui_is_point_in_rect(gui.x, gui.y, r) /\ gui.clicked   \* mutant: no edge

gui_button_clicked(r) ==
  gui_is_point_in_rect(gui.x, gui.y, r) /\ gui.clicked /\ ~gui.was_clicked

Acted(did) == /\ press' = IF did THEN "taken" ELSE press
              /\ ghost' = (ghost \/ (did /\ press # "new"))

(* gui_switch_app with the application's init.                             *)
gui_switch_app(app) ==
  /\ gui' = [gui EXCEPT !.current_app = app]
  /\ IF app = "CALENDAR" THEN cal_month' = 1 /\ cal_year' = 2025 /\ shift' = 0
                         ELSE UNCHANGED <<cal_month, cal_year, shift>>
  /\ IF app = "NOTEPAD"
     THEN notepad_text' = [notepad_text EXCEPT ![0] = NUL] /\ notepad_cursor' = 0
     ELSE UNCHANGED <<notepad_text, notepad_cursor>>

DesktopUpdate ==
  /\ pc = "update" /\ gui.current_app = "DESKTOP"
  /\ \/ \E app \in Apps : /\ gui_button_clicked(Icon[app])
                          /\ gui_switch_app(app) /\ Acted(TRUE)
     \/ /\ \A app \in Apps : ~gui_button_clicked(Icon[app])
        /\ Acted(FALSE) /\ UNCHANGED <<gui, apps>>
  /\ pc' = "draw"
  /\ UNCHANGED <<device, mouse, ring>>

CloseIfClicked ==
  gui' = IF gui_button_clicked(close_btn) THEN [gui EXCEPT !.current_app = "DESKTOP"] ELSE gui

PlainUpdate ==                          \* the clock, the settings and the monitor
  /\ pc = "update" /\ gui.current_app \in {"CLOCK", "SETTINGS", "SYSMON"}
  /\ CloseIfClicked /\ Acted(gui_button_clicked(close_btn))
  /\ pc' = "draw"
  /\ UNCHANGED <<device, mouse, ring, apps>>

PreviousMonthLate ==                    \* mutant: January is followed by month 0
  /\ cal_month' = IF cal_month - 1 < 0 THEN 12 ELSE cal_month - 1
  /\ cal_year'  = IF cal_month - 1 < 0 THEN cal_year - 1 ELSE cal_year
  /\ shift' = shift - 1

PreviousMonth == /\ cal_month' = IF cal_month - 1 < 1 THEN 12 ELSE cal_month - 1
                 /\ cal_year'  = IF cal_month - 1 < 1 THEN cal_year - 1 ELSE cal_year
                 /\ shift' = shift - 1

NextMonth == /\ cal_month' = IF cal_month + 1 > 12 THEN 1 ELSE cal_month + 1
             /\ cal_year'  = IF cal_month + 1 > 12 THEN cal_year + 1 ELSE cal_year
             /\ shift' = shift + 1

CalendarUpdate ==
  /\ pc = "update" /\ gui.current_app = "CALENDAR"
  /\ CloseIfClicked
  /\ Acted(\E r \in {close_btn, prev_btn, next_btn} : gui_button_clicked(r))
  /\ \/ gui_button_clicked(prev_btn) /\ PreviousMonth
     \/ gui_button_clicked(next_btn) /\ NextMonth
     \/ /\ ~gui_button_clicked(prev_btn) /\ ~gui_button_clicked(next_btn)
        /\ UNCHANGED <<cal_month, cal_year, shift>>
  /\ pc' = "draw"
  /\ UNCHANGED <<device, mouse, ring, notepad_text, notepad_cursor>>

ErasesNothing ==                        \* mutant: the erased place keeps its character
  /\ notepad_cursor' = notepad_cursor - 1
  /\ UNCHANGED notepad_text

Erase == /\ notepad_cursor' = notepad_cursor - 1
         /\ notepad_text' = [notepad_text EXCEPT ![notepad_cursor - 1] = NUL]

Insert(key) ==
  /\ notepad_cursor' = notepad_cursor + 1
  /\ notepad_text' = [notepad_text EXCEPT ![notepad_cursor] = key, ![notepad_cursor + 1] = NUL]

Edit(key) ==
  IF key # "none" /\ notepad_cursor < NOTEPAD_MAX_TEXT - 1
  THEN CASE key = "back" /\ notepad_cursor > 0 -> Erase
         [] key = "char" -> Insert(key)
         [] OTHER -> UNCHANGED <<notepad_text, notepad_cursor>>
  ELSE UNCHANGED <<notepad_text, notepad_cursor>>

TakeWhileRoom ==                        \* mutant: a full notepad leaves the keys alone
  IF keys # <<>> /\ notepad_cursor < NOTEPAD_MAX_TEXT - 1
  THEN Edit(Head(keys)) /\ keys' = Tail(keys)
  ELSE UNCHANGED <<keys, notepad_text, notepad_cursor>>

TakeKey ==
  IF keys # <<>>
  THEN Edit(Head(keys)) /\ keys' = Tail(keys)
  ELSE UNCHANGED <<keys, notepad_text, notepad_cursor>>

NotepadUpdate ==                        \* also in the frame that closes it
  /\ pc = "update" /\ gui.current_app = "NOTEPAD"
  /\ CloseIfClicked /\ Acted(gui_button_clicked(close_btn))
  /\ TakeKey
  /\ pc' = "draw"
  /\ UNCHANGED <<device, mouse, typed, cal_month, cal_year, shift>>

SnakeUpdate ==                          \* the game itself is in Snake
  /\ pc = "update" /\ gui.current_app = "SNAKE"
  /\ CloseIfClicked /\ Acted(gui_button_clicked(close_btn))
  /\ keys' = IF keys # <<>> THEN Tail(keys) ELSE keys
  /\ pc' = "draw"
  /\ UNCHANGED <<device, mouse, typed, apps>>

Draw == /\ pc = "draw"
        /\ pc' = "read_x"
        /\ UNCHANGED <<device, mouse, ring, gui, apps, press, ghost>>

gui_update == \/ SampleX \/ SampleY \/ SampleButton
              \/ DesktopUpdate \/ PlainUpdate \/ CalendarUpdate \/ NotepadUpdate \/ SnakeUpdate
              \/ Draw
Interrupt  == FirstBytes \/ ThirdByte \/ Type

Next == SendPacket \/ Interrupt \/ gui_update

(* The main loop never stops, and an interrupt raised is handled.  The     *)
(* mouse and the typist need do nothing.                                   *)
Fairness == WF_vars(gui_update) /\ WF_vars(FirstBytes) /\ WF_vars(ThirdByte)
Spec     == Init /\ [][Next]_vars
FairSpec == Spec /\ Fairness

-----------------------------------------------------------------------------
TypeOK ==
  /\ mouse_x \in 0..319 /\ mouse_y \in 0..199 /\ mouse_left_button \in BOOLEAN
  /\ Len(mouse_byte) <= 2 /\ Len(packet) <= 3
  /\ gui.current_app \in Apps \cup {"DESKTOP"} /\ gui.x \in 0..319 /\ gui.y \in 0..199
  /\ notepad_text \in [0..NOTEPAD_MAX_TEXT - 1 -> Keys \cup {NUL}]
  /\ notepad_cursor \in 0..NOTEPAD_MAX_TEXT - 1
  /\ \A k \in DOMAIN keys : keys[k] \in Keys

(* Two actors share the button's state without a lock, yet one press is    *)
(* acted on once at most: an icon that lies under the close button of the  *)
(* application it opens does not close it again while the button is held.  *)
OnePressOneClick == ~ghost

(* The calendar shows the month that the clicks since it was opened lead   *)
(* to, over the ends of years.                                             *)
CalendarCounts == /\ cal_month \in 1..12
                  /\ cal_year * 12 + cal_month = 2025 * 12 + 1 + shift

(* The notepad's text is a string of notepad_cursor characters, whatever   *)
(* was typed and erased and left behind by the text before it.             *)
TextEndsAtCursor == /\ notepad_text[notepad_cursor] = NUL
                    /\ \A k \in 0..notepad_cursor - 1 : notepad_text[k] # NUL

(* A press that a released frame precedes, held still over an icon, opens  *)
(* that application.                                                       *)
PressOpens ==
  \A app \in Apps :
    LET Over == mouse_left_button /\ gui_is_point_in_rect(mouse_x, mouse_y, Icon[app])
    IN  Over /\ pc = "read_x" /\ ~gui.clicked /\ gui.current_app = "DESKTOP"
        ~> gui.current_app = app \/ ~Over

(* While the notepad is in front the keys waiting run out, also when it is *)
(* full: they do not stay for whichever application comes next.            *)
KeysTaken == gui.current_app = "NOTEPAD" ~> keys = <<>> \/ gui.current_app # "NOTEPAD"
=============================================================================
