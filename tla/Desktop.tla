------------------------------ MODULE Desktop -------------------------------
(***************************************************************************)
(* gui_update with its drawing: the cursor of the frame before is taken    *)
(* away, the mouse sampled and the application run, as in Gui; then the    *)
(* application in front draws itself, what lies under the cursor's new     *)
(* place is saved, and the cursor drawn over it.                           *)
(***************************************************************************)
EXTENDS Gui, VgaGfx

CONSTANTS Moments,       \* [ticks, game]: the counter and the snake game when a frame is drawn
          Regions        \* the sizes, in KB, of the memory's regions

ASSUME DesktopAssumption ==
  /\ \A m \in Moments : m.ticks \in Nat /\ m.game.over \in BOOLEAN /\ Len(m.game.body) \in 3..100
  /\ Regions \in Seq(Nat)

VARIABLES vga,                          \* the frame buffer: the pixels looked at
          cursor_buffer,                \* what was saved, at the pixels of old_mouse's area
          old_mouse,
          shown                         \* history: what the last frame draws on an unpainted screen

picture == <<vga, cursor_buffer, old_mouse, shown>>
desktop == <<vars, picture>>

WIN_BG == LIGHT_GRAY
CURSOR_WIDTH  == 3
CURSOR_HEIGHT == 3

(* The length of a number's text; its first characters go if it is longer. *)
int_to_str(num, bufsize) ==
  LET n      == IF num < 0 THEN -num ELSE num
      digits == CHOOSE d \in 1..10 : n < 10^d /\ (d = 1 \/ n >= 10^(d - 1))
  IN  Min({IF num < 0 THEN digits + 1 ELSE digits, bufsize - 1})

(* A frame in light colour above and to the left, dark below and right.    *)
Border(x0, y0, x1, y1) ==
     draw_line(x0, y0, x1, y0, WHITE) \o draw_line(x0, y0, x0, y1, WHITE)
  \o draw_line(x0, y1, x1, y1, BLACK) \o draw_line(x1, y0, x1, y1, BLACK)

gui_draw_window(x, y, width, height, title) ==
  LET close_x == x + width - 12
      close_y == y + 2
      Mark(dx, dy) == put_pixel(close_x + dx, close_y + dy, BLACK)
  IN  Border(x, y, x + width - 1, y + height - 1)
      \o fill_rect(x + 1, y + 1, width - 2, height - 2, LIGHT_GRAY)
      \o fill_rect(x + 1, y + 1, width - 2, 12, DARK_GRAY)
      \o draw_string(x + 4, y + 3, title, WHITE)
      \o fill_rect(close_x, close_y, 8, 8, LIGHT_GRAY)
      \o Border(close_x, close_y, close_x + 7, close_y + 7)
      \o Mark(2, 2) \o Mark(5, 2) \o Mark(3, 4) \o Mark(4, 4) \o Mark(2, 5) \o Mark(5, 5)

gui_draw_button(rect, label, hover) ==
  fill_rect(rect.x, rect.y, rect.width, rect.height, IF hover THEN WHITE ELSE LIGHT_GRAY)
  \o Border(rect.x, rect.y, rect.x + rect.width - 1, rect.y + rect.height - 1)
  \o draw_string(rect.x + (rect.width - label * 8) \div 2, rect.y + (rect.height - 8) \div 2, label, BLACK)

Background == fill_rect(0, 0, 320, 180, WIN_BG)
Taskbar    == fill_rect(0, 180, 320, 20, DARK_GRAY) \o draw_line(0, 180, 320, 180, WHITE)
              \o draw_string(5, 185, 5, WHITE)

-----------------------------------------------------------------------------
(* What each application draws between the two.  A title, a label or a     *)
(* message is its length.                                                  *)
Label == [CLOCK |-> 5, CALENDAR |-> 8, NOTEPAD |-> 7, SNAKE |-> 5, SETTINGS |-> 8, SYSMON |-> 7]
Title == draw_string((320 - 28 * 8) \div 2, 8, 28, BLACK)
AppButton == [app \in Apps |-> [hover \in BOOLEAN |-> gui_draw_button(Icon[app], Label[app], hover)]]

app_desktop_draw ==
  LET Shown(app) == AppButton[app][gui_is_point_in_rect(gui.x, gui.y, Icon[app])]
  IN  Title \o Shown("CLOCK") \o Shown("CALENDAR") \o Shown("NOTEPAD")
            \o Shown("SNAKE") \o Shown("SETTINGS") \o Shown("SYSMON")

ClockWindow == gui_draw_window(40, 30, 240, 120, 5)

app_clock_draw == [m \in Moments |->     \* minutes and seconds always have two digits
  ClockWindow \o draw_string(120, 80, int_to_str((m.ticks \div 64800) % 24, 8) + 6, BLACK)]

Days == [d \in 1..31 |->
           Glyphs(45 + ((d - 1) % 7) * 30, 80 + ((d - 1) \div 7) * 12, int_to_str(d, 4), YELLOW)]
CalendarWindow == gui_draw_window(30, 20, 260, 140, 8)
PrevButton == [hover \in BOOLEAN |-> gui_draw_button(prev_btn, 4, hover)]
NextButton == [hover \in BOOLEAN |-> gui_draw_button(next_btn, 4, hover)]

app_calendar_draw ==
  CalendarWindow
  \o draw_string(100, 60, 7 + int_to_str(cal_month, 8) + 1 + int_to_str(cal_year, 8), BLACK)
  \o Days
  \o PrevButton[gui_is_point_in_rect(gui.x, gui.y, prev_btn)]
  \o NextButton[gui_is_point_in_rect(gui.x, gui.y, next_btn)]

TextArea == gui_draw_window(20, 20, 280, 140, 7)
            \o fill_rect(25, 35, 270, 100, WHITE) \o Border(25, 35, 295, 135)

(* The text is one line; its cursor goes to the next after 33 characters.  *)
(* Line feeds, each of which begins a line of the text, are not typed.     *)
app_notepad_draw ==
  LET cursor_x == 28 + (notepad_cursor % 33) * 8
      cursor_y == 38 + (notepad_cursor \div 33) * 9
  IN  TextArea \o draw_string(28, 38, notepad_cursor, BLACK)
      \o draw_line(cursor_x, cursor_y, cursor_x, cursor_y + 7, BLACK)

GameArea == gui_draw_window(10, 10, 300, 160, 10) \o fill_rect(15, 25, 280, 140, BLACK)
Cell(c, color) == Rectangle(15 + c[1] * 10, 25 + c[2] * 10, 9, 9, color)

app_snake_draw == [m \in Moments |->
  LET body == m.game.body
  IN  GameArea
      \o (IF m.game.over THEN draw_string(110, 80, 10, RED)
          ELSE [k \in 1..Len(body) |-> Cell(body[k], IF k = 1 THEN YELLOW ELSE GREEN)]
               \o <<Cell(m.game.food, RED)>>)
      \o draw_string(220, 170, 7 + int_to_str(Len(body) - 3, 8), BLACK)]

app_settings_draw ==
  gui_draw_window(30, 30, 260, 120, 8)
  \o draw_string(50, 60, 21, BLACK) \o draw_string(50, 75, 11, BLACK)
  \o draw_string(50, 90, 20, BLACK) \o draw_string(50, 105, 17, BLACK)

MonitorWindow == gui_draw_window(20, 20, 280, 140, 14)
Region(i) == Glyphs(35, 68 + 12 * i, 10 + int_to_str(Regions[i], 16) + 3, BLACK)

app_sysmon_draw == [m \in Moments |->
  MonitorWindow \o draw_string(30, 50, 8 + int_to_str(m.ticks \div 18, 16) + 1, BLACK)
  \o draw_string(30, 65, 15, YELLOW)
  \o [i \in 1..Min({Len(Regions), 3}) |-> Region(i)]]

AppDrawing(moment) ==
  CASE gui.current_app = "DESKTOP"  -> app_desktop_draw
    [] gui.current_app = "CLOCK"    -> app_clock_draw[moment]
    [] gui.current_app = "CALENDAR" -> app_calendar_draw
    [] gui.current_app = "NOTEPAD"  -> app_notepad_draw
    [] gui.current_app = "SNAKE"    -> app_snake_draw[moment]
    [] gui.current_app = "SETTINGS" -> app_settings_draw
    [] gui.current_app = "SYSMON"   -> app_sysmon_draw[moment]

(* Near the right and the lower edge there is no cursor.                   *)
draw_cursor(x, y, color) ==
  IF x < 318 /\ y < 198
  THEN fill_rect(x, y, 2, 2, color) \o put_pixel(x + 2, y, BLACK) \o put_pixel(x, y + 2, BLACK)
  ELSE <<>>

-----------------------------------------------------------------------------
Unpainted == [p \in Pixels |-> -1]
CursorArea(x, y) == Pixels \cap ((x..x + CURSOR_WIDTH - 1) \X (y..y + CURSOR_HEIGHT - 1))

UnderMouse(buffer, x, y) ==             \* mutant: where the mouse is by now
  [p \in CursorArea(x, y) \cap CursorArea(mouse_x, mouse_y) |-> buffer[p]]

Under(buffer, x, y) == [p \in CursorArea(x, y) |-> buffer[p]]

InitDesktop ==
  /\ Init
  /\ vga = [p \in Pixels |-> WIN_BG]
  /\ old_mouse = <<160, 100>> /\ cursor_buffer = [p \in CursorArea(160, 100) |-> BLACK]
  /\ shown = Unpainted

Outside == (SendPacket \/ Interrupt) /\ UNCHANGED picture

(* The display's retrace comes again and again: the wait for it is not a   *)
(* step.                                                                   *)
RestoreAndSampleX ==
  /\ SampleX
  /\ vga' = [p \in Pixels |-> IF p \in DOMAIN cursor_buffer THEN cursor_buffer[p] ELSE vga[p]]
  /\ UNCHANGED <<cursor_buffer, old_mouse, shown>>

Sample == (SampleY \/ SampleButton) /\ UNCHANGED picture

(* gui_switch_app to the desktop clears the screen at once.                *)
Update ==
  /\ DesktopUpdate \/ PlainUpdate \/ CalendarUpdate \/ NotepadUpdate \/ SnakeUpdate
  /\ vga' = IF gui.current_app # "DESKTOP" /\ gui'.current_app = "DESKTOP"
            THEN Paint(vga, fill_rect(0, 0, 320, 200, WIN_BG)) ELSE vga
  /\ UNCHANGED <<cursor_buffer, old_mouse, shown>>

DrawFrame ==
  /\ Draw
  /\ \E drawing \in {Background \o AppDrawing(m) \o Taskbar : m \in Moments} :
     \E drawn \in {Paint(vga, drawing)} :
       /\ cursor_buffer' = Under(drawn, gui.x, gui.y)
       /\ vga' = Paint(drawn, draw_cursor(gui.x, gui.y, BLACK))
       /\ shown' = Paint(Unpainted, drawing)
  /\ old_mouse' = <<gui.x, gui.y>>

Frame == RestoreAndSampleX \/ Sample \/ Update \/ DrawFrame

NextDesktop == Outside \/ Frame

(* Every step of a frame is one of gui_update and can always be taken with *)
(* it, so the fairness is Gui's.                                           *)
FairDesktop == InitDesktop /\ [][NextDesktop]_desktop /\ Fairness

-----------------------------------------------------------------------------
(* While nothing is drawn the screen shows the last frame and nothing      *)
(* else: no pixel of another application, and the cursor only between two  *)
(* frames, at the place where that frame found the mouse, however far it   *)
(* has moved since.                                                        *)
ScreenIsLastFrame ==
  shown # Unpainted =>
    /\ pc = "read_x" => vga = Paint(shown, draw_cursor(old_mouse[1], old_mouse[2], BLACK))
    /\ pc \in {"read_y", "read_button", "update"} => vga = shown
=============================================================================
