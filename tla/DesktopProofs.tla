--------------------------- MODULE DesktopProofs ----------------------------
(* Proofs about Gui and about Desktop, which adds the screen to it, for    *)
(* every mouse, every typist and any length of either.                     *)
EXTENDS Desktop, SequenceTheorems, TLAPS

(* The types that the proofs rest on; TypeOK follows from them.                *)
GuiState == [current_app : Apps \cup {"DESKTOP"}, x : 0..319, y : 0..199,
             clicked : BOOLEAN, was_clicked : BOOLEAN]

State ==
  /\ session \in Sessions /\ sent \in Nat
  /\ packet \in Seq(Int) /\ mouse_byte \in Seq(Int) /\ Len(mouse_byte) <= 2 /\ Len(packet) <= 3
  /\ mouse_x \in 0..319 /\ mouse_y \in 0..199 /\ mouse_left_button \in BOOLEAN
  /\ keys \in Seq(Keys)
  /\ gui \in GuiState
  /\ notepad_text \in [0..NOTEPAD_MAX_TEXT - 1 -> Keys \cup {NUL}]
  /\ notepad_cursor \in 0..NOTEPAD_MAX_TEXT - 1

LEMMA GuiFields ==
  ASSUME NEW g \in GuiState
  PROVE  /\ g.current_app \in Apps \cup {"DESKTOP"} /\ g.x \in 0..319 /\ g.y \in 0..199
         /\ g.clicked \in BOOLEAN /\ g.was_clicked \in BOOLEAN
BY Zenon DEF GuiState

(* Setting one field of the GUI's record leaves a record and the other fields. *)
LEMMA SetApp ==
  ASSUME NEW g \in GuiState, NEW app \in Apps \cup {"DESKTOP"}, NEW h,
         h = [g EXCEPT !.current_app = app]
  PROVE  h \in GuiState /\ h.clicked = g.clicked /\ h.was_clicked = g.was_clicked
<1>1. h \in GuiState
  BY DEF GuiState
<1>2. h.clicked = g.clicked /\ h.was_clicked = g.was_clicked
  BY DEF GuiState
<1> QED
  BY <1>1, <1>2

LEMMA SetX ==
  ASSUME NEW g \in GuiState, NEW n \in 0..319, NEW h,
         h = [g EXCEPT !.was_clicked = g.clicked, !.x = n]
  PROVE  h \in GuiState /\ h.clicked = g.clicked /\ h.was_clicked = g.clicked
<1>1. g.clicked \in BOOLEAN
  BY GuiFields
<1>2. [g EXCEPT !.was_clicked = g.clicked] \in GuiState
  BY <1>1 DEF GuiState
<1>3. h = [[g EXCEPT !.was_clicked = g.clicked] EXCEPT !.x = n]
  BY DEF GuiState
<1>4. h.clicked = g.clicked
  BY <1>3 DEF GuiState
<1>5. h.was_clicked = g.clicked
  BY <1>3 DEF GuiState
<1>6. h \in GuiState
  <2> DEFINE k == [g EXCEPT !.was_clicked = g.clicked]
  <2>1. k \in GuiState /\ h = [k EXCEPT !.x = n]
    BY <1>2, <1>3
  <2> HIDE DEF k
  <2> QED
    BY <2>1 DEF GuiState
<1> QED
  BY <1>4, <1>5, <1>6

LEMMA SetY ==
  ASSUME NEW g \in GuiState, NEW n \in 0..199, NEW h, h = [g EXCEPT !.y = n]
  PROVE  h \in GuiState /\ h.clicked = g.clicked /\ h.was_clicked = g.was_clicked
<1>1. h \in GuiState
  BY DEF GuiState
<1>2. h.clicked = g.clicked /\ h.was_clicked = g.was_clicked
  BY DEF GuiState
<1> QED
  BY <1>1, <1>2

LEMMA SetClicked ==
  ASSUME NEW g \in GuiState, NEW b \in BOOLEAN, NEW h, h = [g EXCEPT !.clicked = b]
  PROVE  h \in GuiState /\ h.clicked = b /\ h.was_clicked = g.was_clicked
<1>1. h \in GuiState
  BY DEF GuiState
<1>2. h.clicked = b /\ h.was_clicked = g.was_clicked
  BY DEF GuiState
<1> QED
  BY <1>1, <1>2

LEMMA StateTypes == State => TypeOK
<1> SUFFICES ASSUME State PROVE TypeOK
  OBVIOUS
<1>1. \A k \in DOMAIN keys : keys[k] \in Keys
  BY DEF State
<1>2. gui.current_app \in Apps \cup {"DESKTOP"} /\ gui.x \in 0..319 /\ gui.y \in 0..199
  BY GuiFields DEF State
<1>3. /\ mouse_x \in 0..319 /\ mouse_y \in 0..199 /\ mouse_left_button \in BOOLEAN
      /\ Len(mouse_byte) <= 2 /\ Len(packet) <= 3
      /\ notepad_text \in [0..NOTEPAD_MAX_TEXT - 1 -> Keys \cup {NUL}]
      /\ notepad_cursor \in 0..NOTEPAD_MAX_TEXT - 1
  BY DEF State
<1> QED
  BY <1>1, <1>2, <1>3, Zenon DEF TypeOK

LEMMA InitState == Init => State
<1> SUFFICES ASSUME Init PROVE State
  OBVIOUS
<1>1. gui \in GuiState
  BY DEF Init, GuiState
<1>2. packet \in Seq(Int) /\ mouse_byte \in Seq(Int) /\ keys \in Seq(Keys)
      /\ Len(mouse_byte) <= 2 /\ Len(packet) <= 3
  BY DEF Init
<1>3. mouse_x \in 0..319 /\ mouse_y \in 0..199 /\ mouse_left_button \in BOOLEAN
  <2>1. mouse_x = 0 /\ mouse_y = 0 /\ mouse_left_button = FALSE
    BY Zenon DEF Init
  <2>2. 0 \in 0..319 /\ 0 \in 0..199
    OBVIOUS
  <2> QED
    BY <2>1, <2>2, Zenon
<1>4. notepad_text \in [0..NOTEPAD_MAX_TEXT - 1 -> Keys \cup {NUL}]
      /\ notepad_cursor \in 0..NOTEPAD_MAX_TEXT - 1
  <2>1. NOTEPAD_MAX_TEXT \in Nat \ {0}
    BY GuiAssumption
  <2> QED
    BY <2>1 DEF Init
<1>5. session \in Sessions /\ sent \in Nat
  BY DEF Init
<1> QED
  BY <1>1, <1>2, <1>3, <1>4, <1>5 DEF State

(* Frames: what the parts of gui_update do to the record of the GUI.           *)
LEMMA CloseKeeps ==
  ASSUME State, CloseIfClicked
  PROVE  gui' \in GuiState /\ gui'.clicked = gui.clicked /\ gui'.was_clicked = gui.was_clicked
<1>1. gui \in GuiState /\ (gui' = gui \/ gui' = [gui EXCEPT !.current_app = "DESKTOP"])
  BY Zenon DEF State, CloseIfClicked
<1> QED
  BY <1>1, SetApp

LEMMA SwitchKeeps ==
  ASSUME State, NEW app \in Apps, gui_switch_app(app)
  PROVE  /\ gui' \in GuiState
         /\ gui'.clicked = gui.clicked /\ gui'.was_clicked = gui.was_clicked
         /\ notepad_text' \in [0..NOTEPAD_MAX_TEXT - 1 -> Keys \cup {NUL}]
         /\ notepad_cursor' \in 0..NOTEPAD_MAX_TEXT - 1
<1>1. gui \in GuiState /\ gui' = [gui EXCEPT !.current_app = app]
  BY DEF State, gui_switch_app
<1>2. \/ notepad_text' = [notepad_text EXCEPT ![0] = NUL] /\ notepad_cursor' = 0
      \/ UNCHANGED <<notepad_text, notepad_cursor>>
  BY Zenon DEF gui_switch_app
<1>3. 0 \in 0..NOTEPAD_MAX_TEXT - 1
  BY GuiAssumption
<1>4. /\ notepad_text' \in [0..NOTEPAD_MAX_TEXT - 1 -> Keys \cup {NUL}]
      /\ notepad_cursor' \in 0..NOTEPAD_MAX_TEXT - 1
  BY <1>2, <1>3 DEF State
<1> QED
  BY <1>1, <1>4, SetApp

LEMMA TakeKeyEdits ==
  ASSUME State, TakeKey
  PROVE  /\ keys' \in Seq(Keys)
         /\ \/ UNCHANGED <<notepad_text, notepad_cursor>>
            \/ \E key \in Keys : \/ Erase /\ notepad_cursor > 0
                                 \/ Insert(key) /\ notepad_cursor < NOTEPAD_MAX_TEXT - 1
<1>1. CASE keys = <<>>
  BY <1>1 DEF State, TakeKey
<1>2. CASE keys # <<>>
  <2> DEFINE key == Head(keys)
  <2>1. key \in Keys /\ keys' \in Seq(Keys) /\ Edit(key)
    <3>1. keys' = Tail(keys) /\ Edit(key)
      BY <1>2, Zenon DEF TakeKey
    <3>2. key \in Keys /\ Tail(keys) \in Seq(Keys)
      BY <1>2 DEF State
    <3> QED
      BY <3>1, <3>2
  <2> HIDE DEF key
  <2>2. \/ Erase /\ notepad_cursor > 0
        \/ Insert(key) /\ notepad_cursor < NOTEPAD_MAX_TEXT - 1
        \/ UNCHANGED <<notepad_text, notepad_cursor>>
    <3>1. CASE key # "none" /\ notepad_cursor < NOTEPAD_MAX_TEXT - 1
      BY <2>1, <3>1, Zenon DEF Edit
    <3>2. CASE ~(key # "none" /\ notepad_cursor < NOTEPAD_MAX_TEXT - 1)
      BY <2>1, <3>2 DEF Edit
    <3> QED
      BY <3>1, <3>2
  <2> QED
    BY <2>1, <2>2
<1> QED
  BY <1>1, <1>2

LEMMA TakeKeyKeeps ==
  ASSUME State, TakeKey
  PROVE  /\ keys' \in Seq(Keys)
         /\ notepad_text' \in [0..NOTEPAD_MAX_TEXT - 1 -> Keys \cup {NUL}]
         /\ notepad_cursor' \in 0..NOTEPAD_MAX_TEXT - 1
<1> USE GuiAssumption
<1>1. CASE UNCHANGED <<notepad_text, notepad_cursor>>
  BY <1>1, TakeKeyEdits DEF State
<1>2. CASE Erase /\ notepad_cursor > 0
  BY <1>2, TakeKeyEdits DEF State, Erase
<1>3. ASSUME NEW key \in Keys, Insert(key), notepad_cursor < NOTEPAD_MAX_TEXT - 1
      PROVE  /\ notepad_text' \in [0..NOTEPAD_MAX_TEXT - 1 -> Keys \cup {NUL}]
             /\ notepad_cursor' \in 0..NOTEPAD_MAX_TEXT - 1
  BY <1>3 DEF State, Insert
<1> QED
  BY <1>1, <1>2, <1>3, TakeKeyEdits

LEMMA NextState == State /\ [Next]_vars => State'
<1> SUFFICES ASSUME State, [Next]_vars PROVE State'
  OBVIOUS
<1> USE DEF mouse, device, apps, ring
<1>1. CASE SendPacket
  <2>1. packet' \in Seq(Int) /\ Len(packet') <= 3
    <3>1. packet' \in Packets
      <4>1. /\ session.packets \in Seq(SUBSET Packets) /\ sent \in Nat
            /\ sent < Len(session.packets) /\ packet' \in session.packets[sent + 1]
        BY <1>1, GuiAssumption, Zenon DEF SendPacket, State
      <4>2. sent + 1 \in 1..Len(session.packets)
        BY <4>1
      <4>3. session.packets[sent + 1] \in SUBSET Packets
        BY <4>1, <4>2, ElementOfSeq, Zenon
      <4> QED
        BY <4>1, <4>3, Zenon
    <3>2. packet' \in Seq(-128..127) /\ Len(packet') = 3
      BY <3>1, GuiAssumption, Zenon
    <3>3. -128..127 \subseteq Int
      OBVIOUS
    <3>4. packet' \in Seq(Int)
      BY <3>2, <3>3, SeqMonotonic
    <3> QED
      BY <3>2, <3>4
  <2> QED
    BY <1>1, <2>1 DEF SendPacket, State
<1>2. CASE FirstBytes
  BY <1>2 DEF FirstBytes, State
<1>3. CASE ThirdByte
  <2>1. mouse_byte[2] \in Int /\ Head(packet) \in Int /\ Tail(packet) \in Seq(Int)
        /\ Len(Tail(packet)) <= 3
    <3>1. /\ packet # <<>> /\ packet \in Seq(Int) /\ Len(packet) <= 3
          /\ mouse_byte \in Seq(Int) /\ Len(mouse_byte) = 2
      BY <1>3 DEF ThirdByte, State
    <3>2. mouse_byte[2] \in Int
      <4>1. 2 \in 1..Len(mouse_byte)
        BY <3>1
      <4> QED
        BY <3>1, <4>1, ElementOfSeq
    <3>3. Head(packet) \in Int /\ Tail(packet) \in Seq(Int) /\ Len(Tail(packet)) <= 3
      BY <3>1
    <3> QED
      BY <3>2, <3>3
  <2>2. mouse_x' \in 0..319
    <3>1. mouse_x + mouse_byte[2] \in Int
      BY <2>1 DEF State
    <3>2. Clamp(mouse_x + mouse_byte[2], 319) \in 0..319
      BY <3>1, Z3 DEF Clamp
    <3>3. mouse_x' = Clamp(mouse_x + mouse_byte[2], 319)
      BY <1>3, Zenon DEF ThirdByte
    <3> QED
      BY <3>2, <3>3
  <2>3. mouse_y' \in 0..199
    <3>1. mouse_y - Head(packet) \in Int
      BY <2>1 DEF State
    <3>2. Clamp(mouse_y - Head(packet), 199) \in 0..199
      BY <3>1, Z3 DEF Clamp
    <3>3. mouse_y' = Clamp(mouse_y - Head(packet), 199)
      BY <1>3, Zenon DEF ThirdByte
    <3> QED
      BY <3>1, <3>2, <3>3
  <2>4. mouse_left_button' \in BOOLEAN
    BY <1>3 DEF ThirdByte
  <2>5. /\ mouse_byte' = <<>> /\ packet' = Tail(packet)
        /\ UNCHANGED <<session, sent, keys, gui, notepad_text, notepad_cursor>>
    BY <1>3 DEF ThirdByte
  <2> QED
    BY <2>1, <2>2, <2>3, <2>4, <2>5 DEF State
<1>4. CASE Type
  BY <1>4 DEF Type, State
<1>5. CASE SampleX
  <2>1. gui' \in GuiState
    BY <1>5, SetX DEF SampleX, State
  <2> QED
    BY <1>5, <2>1 DEF SampleX, State
<1>6. CASE SampleY
  <2>1. gui' \in GuiState
    BY <1>6, SetY DEF SampleY, State
  <2> QED
    BY <1>6, <2>1 DEF SampleY, State
<1>7. CASE SampleButton
  <2>1. gui' \in GuiState
    BY <1>7, SetClicked DEF SampleButton, State
  <2> QED
    BY <1>7, <2>1 DEF SampleButton, State
<1>8. CASE DesktopUpdate
  <2>1. /\ gui' \in GuiState
        /\ notepad_text' \in [0..NOTEPAD_MAX_TEXT - 1 -> Keys \cup {NUL}]
        /\ notepad_cursor' \in 0..NOTEPAD_MAX_TEXT - 1
    <3>1. CASE \E app \in Apps : gui_switch_app(app)
      BY <3>1, SwitchKeeps
    <3>2. CASE UNCHANGED <<gui, notepad_text, notepad_cursor>>
      BY <3>2 DEF State
    <3> QED
      BY <1>8, <3>1, <3>2 DEF DesktopUpdate
  <2>2. UNCHANGED <<session, sent, packet, mouse_byte, mouse_x, mouse_y, mouse_left_button, keys>>
    BY <1>8 DEF DesktopUpdate
  <2> QED
    BY <2>1, <2>2 DEF State
<1>9. CASE PlainUpdate \/ CalendarUpdate
  <2>1. CloseIfClicked
    BY <1>9 DEF PlainUpdate, CalendarUpdate
  <2>2. UNCHANGED <<session, sent, packet, mouse_byte, mouse_x, mouse_y, mouse_left_button, keys,
                    notepad_text, notepad_cursor>>
    BY <1>9 DEF PlainUpdate, CalendarUpdate
  <2> QED
    BY <2>1, <2>2, CloseKeeps DEF State
<1>10. CASE NotepadUpdate
  <2>1. CloseIfClicked /\ TakeKey
    BY <1>10 DEF NotepadUpdate
  <2>2. UNCHANGED <<session, sent, packet, mouse_byte, mouse_x, mouse_y, mouse_left_button>>
    BY <1>10 DEF NotepadUpdate
  <2> QED
    BY <2>1, <2>2, CloseKeeps, TakeKeyKeeps DEF State
<1>11. CASE SnakeUpdate
  <2>1. CloseIfClicked
    BY <1>11 DEF SnakeUpdate
  <2>2. keys' \in Seq(Keys)
    BY <1>11 DEF SnakeUpdate, State
  <2>3. UNCHANGED <<session, sent, packet, mouse_byte, mouse_x, mouse_y, mouse_left_button,
                    notepad_text, notepad_cursor>>
    BY <1>11 DEF SnakeUpdate
  <2> QED
    BY <2>1, <2>2, <2>3, CloseKeeps DEF State
<1>12. CASE Draw
  BY <1>12 DEF Draw, State
<1>13. CASE UNCHANGED vars
  BY <1>13 DEF vars, State
<1> QED
  BY <1>1, <1>2, <1>3, <1>4, <1>5, <1>6, <1>7, <1>8, <1>9, <1>10, <1>11, <1>12, <1>13
     DEF Next, Interrupt, gui_update

(* Every position stays on the screen and every index in its array, whatever   *)
(* the mouse reports and however much is typed (mouse_handler, gui_update).    *)
THEOREM TypeCorrect == Spec => []TypeOK
BY InitState, NextState, StateTypes, PTL DEF Spec

-----------------------------------------------------------------------------
(* Why a press is acted on once: the edge that gui_update sees was made since  *)
(* the button was last seen up, so the press is a new one.                     *)
Edge ==
  /\ press \in {"none", "new", "taken"} /\ ghost = FALSE
  /\ ~gui.clicked /\ mouse_left_button => press = "new"
  /\ pc = "update" /\ gui.clicked /\ ~gui.was_clicked => press = "new"
  /\ pc \in {"read_y", "read_button"} => gui.was_clicked = gui.clicked

LEMMA InitEdge == Init => Edge
BY DEF Init, Edge

(* An action of an application keeps it: press is used up only at a click, and *)
(* then the GUI has seen the button down.                                      *)
LEMMA ActedKeeps ==
  ASSUME State, Edge, NEW did \in BOOLEAN, Acted(did),
         did => gui.clicked /\ ~gui.was_clicked,
         gui' \in GuiState, gui'.clicked = gui.clicked,
         pc = "update", pc' = "draw", UNCHANGED mouse_left_button
  PROVE  Edge'
<1>1. CASE did
  <2>1. gui.clicked /\ press = "new"
    BY <1>1 DEF Edge
  <2>2. press' = "taken" /\ ghost' = FALSE
    BY <1>1, <2>1 DEF Acted, Edge
  <2> QED
    BY <2>1, <2>2 DEF Edge
<1>2. CASE ~did
  <2>1. press' = press /\ ghost' = FALSE
    BY <1>2 DEF Acted, Edge
  <2> QED
    BY <2>1 DEF Edge
<1> QED
  BY <1>1, <1>2

LEMMA NextEdge == State /\ Edge /\ [Next]_vars => Edge'
<1> SUFFICES ASSUME State, Edge, [Next]_vars PROVE Edge'
  OBVIOUS
<1> USE DEF mouse, device, apps, ring
<1>1. CASE SendPacket \/ FirstBytes \/ Type \/ UNCHANGED vars
  <2>1. UNCHANGED <<press, ghost, gui, mouse_left_button, pc>>
    BY <1>1 DEF SendPacket, FirstBytes, Type, vars
  <2> QED
    BY <2>1 DEF Edge
<1>2. CASE ThirdByte
  <2>1. /\ press' = IF mouse_left_button' /\ ~mouse_left_button THEN "new" ELSE press
        /\ UNCHANGED <<ghost, gui, pc>>
    BY <1>2 DEF ThirdByte
  <2> QED
    BY <2>1 DEF Edge
<1>3. CASE SampleX
  <2>1. gui'.clicked = gui.clicked /\ gui'.was_clicked = gui.clicked
    BY <1>3, SetX DEF SampleX, State
  <2>2. pc' = "read_y" /\ UNCHANGED <<press, ghost, mouse_left_button>>
    BY <1>3 DEF SampleX
  <2> QED
    BY <2>1, <2>2 DEF Edge
<1>4. CASE SampleY
  <2>1. gui'.clicked = gui.clicked /\ gui'.was_clicked = gui.was_clicked
    BY <1>4, SetY DEF SampleY, State
  <2>2. pc = "read_y" /\ pc' = "read_button" /\ UNCHANGED <<press, ghost, mouse_left_button>>
    BY <1>4 DEF SampleY
  <2> QED
    BY <2>1, <2>2 DEF Edge
<1>5. CASE SampleButton
  <2>1. gui'.clicked = mouse_left_button /\ gui'.was_clicked = gui.was_clicked
    BY <1>5, SetClicked DEF SampleButton, State
  <2>2. pc = "read_button" /\ pc' = "update" /\ UNCHANGED <<press, ghost, mouse_left_button>>
    BY <1>5 DEF SampleButton
  <2> QED
    BY <2>1, <2>2 DEF Edge
<1>6. CASE DesktopUpdate
  <2>1. pc = "update" /\ pc' = "draw" /\ UNCHANGED mouse_left_button
    BY <1>6 DEF DesktopUpdate
  <2>2. CASE \E app \in Apps : gui_button_clicked(Icon[app]) /\ gui_switch_app(app) /\ Acted(TRUE)
    <3>1. gui.clicked /\ ~gui.was_clicked
      BY <2>2 DEF gui_button_clicked
    <3>2. gui' \in GuiState /\ gui'.clicked = gui.clicked
      BY <2>2, SwitchKeeps
    <3> QED
      BY <2>1, <2>2, <3>1, <3>2, ActedKeeps
  <2>3. CASE Acted(FALSE) /\ UNCHANGED gui
    BY <2>1, <2>3, ActedKeeps DEF State
  <2> QED
    BY <1>6, <2>2, <2>3 DEF DesktopUpdate
<1>7. CASE PlainUpdate \/ CalendarUpdate \/ NotepadUpdate \/ SnakeUpdate
  <2>1. /\ pc = "update" /\ pc' = "draw" /\ UNCHANGED mouse_left_button
        /\ CloseIfClicked
    BY <1>7 DEF PlainUpdate, CalendarUpdate, NotepadUpdate, SnakeUpdate
  <2>2. PICK did \in BOOLEAN : Acted(did) /\ (did => gui.clicked /\ ~gui.was_clicked)
    <3> DEFINE close == gui_button_clicked(close_btn)
               any   == \E r \in {close_btn, prev_btn, next_btn} : gui_button_clicked(r)
    <3>1. /\ close \in BOOLEAN /\ (close => gui.clicked /\ ~gui.was_clicked)
          /\ any \in BOOLEAN /\ (any => gui.clicked /\ ~gui.was_clicked)
      BY Zenon DEF gui_button_clicked
    <3>2. Acted(close) \/ Acted(any)
      BY <1>7, Zenon DEF PlainUpdate, CalendarUpdate, NotepadUpdate, SnakeUpdate
    <3> HIDE DEF close, any
    <3> QED
      BY <3>1, <3>2
  <2>3. gui' \in GuiState /\ gui'.clicked = gui.clicked
    BY <2>1, CloseKeeps
  <2> QED
    BY <2>1, <2>2, <2>3, ActedKeeps
<1>8. CASE Draw
  <2>1. pc = "draw" /\ pc' = "read_x" /\ UNCHANGED <<press, ghost, gui, mouse_left_button>>
    BY <1>8 DEF Draw
  <2> QED
    BY <2>1 DEF Edge
<1> QED
  BY <1>1, <1>2, <1>3, <1>4, <1>5, <1>6, <1>7, <1>8 DEF Next, Interrupt, gui_update

(* One press of the button does one thing at most, however the handler of the  *)
(* mouse cuts into gui_update (gui_button_clicked, and gui.mouse_was_clicked). *)
THEOREM OnePressActsOnce == Spec => []OnePressOneClick
<1>1. Edge => OnePressOneClick
  BY DEF Edge, OnePressOneClick
<1> QED
  BY <1>1, InitState, NextState, InitEdge, NextEdge, PTL DEF Spec

-----------------------------------------------------------------------------
(* The calendar: every action that touches it leaves the equation true.        *)
Calendar == cal_year \in Int /\ shift \in Int /\ CalendarCounts

LEMMA ShiftKeeps ==
  ASSUME Calendar, PreviousMonth \/ NextMonth
  PROVE  Calendar'
<1>1. CASE PreviousMonth
  BY <1>1, Z3 DEF Calendar, CalendarCounts, PreviousMonth
<1>2. CASE NextMonth
  BY <1>2, Z3 DEF Calendar, CalendarCounts, NextMonth
<1> QED
  BY <1>1, <1>2

LEMMA NextCalendar == Calendar /\ [Next]_vars => Calendar'
<1> SUFFICES ASSUME Calendar, [Next]_vars PROVE Calendar'
  OBVIOUS
<1>1. CASE UNCHANGED <<cal_month, cal_year, shift>>
  BY <1>1 DEF Calendar, CalendarCounts
<1>2. CASE PreviousMonth \/ NextMonth
  BY <1>2, ShiftKeeps
<1>3. CASE \E app \in Apps : gui_switch_app(app)
  <2>1. CASE cal_month' = 1 /\ cal_year' = 2025 /\ shift' = 0
    BY <2>1, Z3 DEF Calendar, CalendarCounts
  <2> QED
    BY <1>1, <1>3, <2>1 DEF gui_switch_app
<1>4. \/ UNCHANGED <<cal_month, cal_year, shift>>
      \/ PreviousMonth \/ NextMonth
      \/ \E app \in Apps : gui_switch_app(app)
  <2> USE DEF apps
  <2>1. CASE CalendarUpdate
    BY <2>1, Zenon DEF CalendarUpdate
  <2>2. CASE DesktopUpdate
    BY <2>2 DEF DesktopUpdate
  <2>3. CASE SendPacket \/ Interrupt \/ UNCHANGED vars
    BY <2>3 DEF SendPacket, Interrupt, FirstBytes, ThirdByte, Type, vars
  <2>4. CASE SampleX \/ SampleY \/ SampleButton \/ Draw
    BY <2>4 DEF SampleX, SampleY, SampleButton, Draw
  <2>5. CASE PlainUpdate \/ NotepadUpdate \/ SnakeUpdate
    BY <2>5 DEF PlainUpdate, NotepadUpdate, SnakeUpdate
  <2> QED
    BY <2>1, <2>2, <2>3, <2>4, <2>5 DEF Next, gui_update
<1> QED
  BY <1>1, <1>2, <1>3, <1>4

(* The month shown is the one that the clicks lead to, for any number of them  *)
(* (app_calendar_update).                                                      *)
THEOREM CalendarKeepsCount == Spec => []CalendarCounts
<1>1. Init => Calendar
  BY Z3 DEF Init, Calendar, CalendarCounts
<1>2. Calendar => CalendarCounts
  BY DEF Calendar
<1> QED
  BY <1>1, <1>2, NextCalendar, PTL DEF Spec

-----------------------------------------------------------------------------
(* The notepad: typing and erasing move the end of the text with the cursor.   *)
LEMMA NoKeyIsNul == \A k \in Keys : k # NUL
BY GuiAssumption DEF NUL

LEMMA EditEnds ==
  ASSUME State, TextEndsAtCursor, NEW key \in Keys,
         \/ Erase /\ notepad_cursor > 0
         \/ Insert(key) /\ notepad_cursor < NOTEPAD_MAX_TEXT - 1
  PROVE  TextEndsAtCursor'
<1> USE GuiAssumption
<1>1. CASE Erase /\ notepad_cursor > 0
  BY <1>1 DEF State, TextEndsAtCursor, Erase
<1>2. CASE Insert(key) /\ notepad_cursor < NOTEPAD_MAX_TEXT - 1
  <2>1. /\ notepad_cursor \in 0..NOTEPAD_MAX_TEXT - 1 /\ notepad_cursor + 1 \in 0..NOTEPAD_MAX_TEXT - 1
        /\ notepad_cursor' = notepad_cursor + 1
    BY <1>2 DEF State, Insert
  <2>2. notepad_text'[notepad_cursor + 1] = NUL
    BY <1>2, <2>1 DEF State, Insert
  <2>3. notepad_text'[notepad_cursor] = key
    BY <1>2, <2>1 DEF State, Insert
  <2>4. \A k \in 0..notepad_cursor - 1 : notepad_text'[k] = notepad_text[k]
    BY <1>2, <2>1 DEF State, Insert
  <2>5. \A k \in 0..notepad_cursor : notepad_text'[k] # NUL
    <3> TAKE k \in 0..notepad_cursor
    <3>1. CASE k = notepad_cursor
      BY <3>1, <2>3, NoKeyIsNul
    <3>2. CASE k \in 0..notepad_cursor - 1
      BY <3>2, <2>4 DEF TextEndsAtCursor
    <3> QED
      BY <2>1, <3>1, <3>2
  <2> QED
    BY <2>1, <2>2, <2>5 DEF TextEndsAtCursor
<1> QED
  BY <1>1, <1>2

LEMMA TakeKeyEnds ==
  ASSUME State, TextEndsAtCursor, TakeKey
  PROVE  TextEndsAtCursor'
<1>1. CASE UNCHANGED <<notepad_text, notepad_cursor>>
  BY <1>1 DEF TextEndsAtCursor
<1>2. \/ UNCHANGED <<notepad_text, notepad_cursor>>
      \/ \E key \in Keys : \/ Erase /\ notepad_cursor > 0
                           \/ Insert(key) /\ notepad_cursor < NOTEPAD_MAX_TEXT - 1
  BY TakeKeyEdits
<1> QED
  BY <1>1, <1>2, EditEnds

LEMMA NextText == State /\ TextEndsAtCursor /\ [Next]_vars => TextEndsAtCursor'
<1> SUFFICES ASSUME State, TextEndsAtCursor, [Next]_vars PROVE TextEndsAtCursor'
  OBVIOUS
<1>1. CASE UNCHANGED <<notepad_text, notepad_cursor>>
  BY <1>1 DEF TextEndsAtCursor
<1>2. CASE TakeKey
  BY <1>2, TakeKeyEnds
<1>3. CASE \E app \in Apps : gui_switch_app(app)
  <2>1. CASE notepad_text' = [notepad_text EXCEPT ![0] = NUL] /\ notepad_cursor' = 0
    BY <2>1, GuiAssumption DEF State, TextEndsAtCursor
  <2> QED
    BY <1>1, <1>3, <2>1 DEF gui_switch_app
<1>4. \/ UNCHANGED <<notepad_text, notepad_cursor>>
      \/ TakeKey
      \/ \E app \in Apps : gui_switch_app(app)
  <2> USE DEF apps
  <2>1. CASE NotepadUpdate
    BY <2>1, Zenon DEF NotepadUpdate
  <2>2. CASE DesktopUpdate
    BY <2>2 DEF DesktopUpdate
  <2>3. CASE SendPacket \/ Interrupt \/ UNCHANGED vars
    BY <2>3 DEF SendPacket, Interrupt, FirstBytes, ThirdByte, Type, vars
  <2>4. CASE SampleX \/ SampleY \/ SampleButton \/ Draw
    BY <2>4 DEF SampleX, SampleY, SampleButton, Draw
  <2>5. CASE PlainUpdate \/ CalendarUpdate \/ SnakeUpdate
    BY <2>5 DEF PlainUpdate, CalendarUpdate, SnakeUpdate
  <2> QED
    BY <2>1, <2>2, <2>3, <2>4, <2>5 DEF Next, gui_update
<1> QED
  BY <1>1, <1>2, <1>3, <1>4

(* The notepad's text ends at the cursor and nowhere before, for every size of *)
(* the buffer and every run of keys (app_notepad_update).                      *)
THEOREM TextKeepsItsEnd == Spec => []TextEndsAtCursor
<1>1. Init => TextEndsAtCursor
  BY GuiAssumption DEF Init, TextEndsAtCursor
<1> QED
  BY <1>1, InitState, NextState, NextText, PTL DEF Spec

-----------------------------------------------------------------------------
(* The screen.  Each frame paints over every pixel, so that what it leaves *)
(* does not depend on what was there; the cursor touches only the area     *)
(* that was saved before.                                                  *)

Puts(area) == [at : SUBSET area, color : Nat]

-----------------------------------------------------------------------------
(* What is drawn is a sequence of puts on the screen, whatever the numbers.  *)

LEMMA Joined ==
  ASSUME NEW S, NEW a \in Seq(S), NEW b \in Seq(S)
  PROVE  a \o b \in Seq(S)
OBVIOUS

LEMMA SomeIs ==
  ASSUME NEW area, NEW put \in Puts(area)
  PROVE  Some(put) \in Seq(Puts(area))
BY DEF Some

LEMMA RectangleIs ==
  ASSUME NEW x, NEW y, NEW width, NEW height, NEW color \in Nat
  PROVE  Rectangle(x, y, width, height, color) \in Puts(Pixels)
BY DEF Rectangle, Within, Puts

LEMMA GlyphsIs ==
  ASSUME NEW x, NEW y, NEW length, NEW color \in Nat
  PROVE  Glyphs(x, y, length, color) \in Puts(Pixels)
BY DEF Glyphs, Within, Puts

LEMMA FillIs ==
  ASSUME NEW x, NEW y, NEW width, NEW height, NEW color \in Nat
  PROVE  fill_rect(x, y, width, height, color) \in Seq(Puts(Pixels))
BY RectangleIs, SomeIs DEF fill_rect

LEMMA PixelIs ==
  ASSUME NEW x, NEW y, NEW color \in Nat
  PROVE  put_pixel(x, y, color) \in Seq(Puts(Pixels))
BY FillIs DEF put_pixel

LEMMA StringIs ==
  ASSUME NEW x, NEW y, NEW length, NEW color \in Nat
  PROVE  draw_string(x, y, length, color) \in Seq(Puts(Pixels))
BY GlyphsIs, SomeIs DEF draw_string

LEMMA LineIs ==
  ASSUME NEW x0, NEW y0, NEW x1, NEW y1, NEW color \in Nat
  PROVE  draw_line(x0, y0, x1, y1, color) \in Seq(Puts(Pixels))
<1>1. CASE x0 = x1 \/ y0 = y1
  BY <1>1, FillIs DEF draw_line
<1>2. CASE ~(x0 = x1 \/ y0 = y1)
  BY <1>2 DEF draw_line
<1> QED
  BY <1>1, <1>2

LEMMA ColorsAreNat ==
  BLACK \in Nat /\ GREEN \in Nat /\ RED \in Nat /\ LIGHT_GRAY \in Nat /\ DARK_GRAY \in Nat
  /\ YELLOW \in Nat /\ WHITE \in Nat /\ WIN_BG \in Nat
BY DEF BLACK, GREEN, RED, LIGHT_GRAY, DARK_GRAY, YELLOW, WHITE, WIN_BG

LEMMA BorderIs ==
  ASSUME NEW x0, NEW y0, NEW x1, NEW y1
  PROVE  Border(x0, y0, x1, y1) \in Seq(Puts(Pixels))
<1>1. /\ draw_line(x0, y0, x1, y0, WHITE) \in Seq(Puts(Pixels))
      /\ draw_line(x0, y0, x0, y1, WHITE) \in Seq(Puts(Pixels))
      /\ draw_line(x0, y1, x1, y1, BLACK) \in Seq(Puts(Pixels))
      /\ draw_line(x1, y0, x1, y1, BLACK) \in Seq(Puts(Pixels))
  BY ColorsAreNat, LineIs
<1> QED
  BY <1>1, Joined DEF Border

LEMMA WindowIs ==
  ASSUME NEW x, NEW y, NEW width, NEW height, NEW title
  PROVE  gui_draw_window(x, y, width, height, title) \in Seq(Puts(Pixels))
<1> DEFINE close_x == x + width - 12
           close_y == y + 2
           Mark(dx, dy) == put_pixel(close_x + dx, close_y + dy, BLACK)
           Face  == Border(x, y, x + width - 1, y + height - 1)
                    \o fill_rect(x + 1, y + 1, width - 2, height - 2, LIGHT_GRAY)
                    \o fill_rect(x + 1, y + 1, width - 2, 12, DARK_GRAY)
                    \o draw_string(x + 4, y + 3, title, WHITE)
           Close == Face \o fill_rect(close_x, close_y, 8, 8, LIGHT_GRAY)
                    \o Border(close_x, close_y, close_x + 7, close_y + 7)
<1>1. Face \in Seq(Puts(Pixels))
  BY ColorsAreNat, BorderIs, FillIs, StringIs, Joined
<1>2. Close \in Seq(Puts(Pixels))
  <2> HIDE DEF Face
  <2> QED
    BY <1>1, ColorsAreNat, BorderIs, FillIs, Joined
<1>3. \A dx, dy \in Nat : Mark(dx, dy) \in Seq(Puts(Pixels))
  BY ColorsAreNat, PixelIs
<1>4. Close \o Mark(2, 2) \o Mark(5, 2) \o Mark(3, 4) \o Mark(4, 4) \o Mark(2, 5) \o Mark(5, 5)
        \in Seq(Puts(Pixels))
  <2> HIDE DEF Close, Mark
  <2> QED
    BY <1>2, <1>3, Joined
<1> QED
  BY <1>4 DEF gui_draw_window

LEMMA ButtonIs ==
  ASSUME NEW rect, NEW label, NEW hover
  PROVE  gui_draw_button(rect, label, hover) \in Seq(Puts(Pixels))
<1>1. (IF hover THEN WHITE ELSE LIGHT_GRAY) \in Nat
  BY ColorsAreNat
<1>2. fill_rect(rect.x, rect.y, rect.width, rect.height, IF hover THEN WHITE ELSE LIGHT_GRAY)
        \in Seq(Puts(Pixels))
  BY <1>1, FillIs
<1>3. draw_string(rect.x + (rect.width - label * 8) \div 2, rect.y + (rect.height - 8) \div 2, label, BLACK)
        \in Seq(Puts(Pixels))
  BY ColorsAreNat, StringIs
<1>4. Border(rect.x, rect.y, rect.x + rect.width - 1, rect.y + rect.height - 1) \in Seq(Puts(Pixels))
  BY BorderIs
<1> QED
  BY <1>2, <1>3, <1>4, Joined DEF gui_draw_button

-----------------------------------------------------------------------------
(* So is what each application draws.                                      *)

LEMMA DesktopIs == app_desktop_draw \in Seq(Puts(Pixels))
<1> DEFINE Shown(app) == AppButton[app][gui_is_point_in_rect(gui.x, gui.y, Icon[app])]
<1>1. \A app \in Apps : Shown(app) \in Seq(Puts(Pixels))
  <2> TAKE app \in Apps
  <2>1. gui_is_point_in_rect(gui.x, gui.y, Icon[app]) \in BOOLEAN
    BY DEF gui_is_point_in_rect
  <2> QED
    BY <2>1, ButtonIs DEF AppButton
<1>2. {"CLOCK", "CALENDAR", "NOTEPAD", "SNAKE", "SETTINGS", "SYSMON"} \subseteq Apps
  BY DEF Apps, Icon
<1>3. Title \in Seq(Puts(Pixels))
  BY ColorsAreNat, StringIs DEF Title
<1> HIDE DEF Shown
<1>4. Title \o Shown("CLOCK") \o Shown("CALENDAR") \o Shown("NOTEPAD")
            \o Shown("SNAKE") \o Shown("SETTINGS") \o Shown("SYSMON") \in Seq(Puts(Pixels))
  BY <1>1, <1>2, <1>3, Joined
<1> QED
  BY <1>4 DEF app_desktop_draw, Shown

LEMMA ClockIs == ASSUME NEW m \in Moments PROVE app_clock_draw[m] \in Seq(Puts(Pixels))
BY ColorsAreNat, WindowIs, StringIs, Joined DEF app_clock_draw, ClockWindow

LEMMA CalendarIs == app_calendar_draw \in Seq(Puts(Pixels))
<1>1. CalendarWindow \in Seq(Puts(Pixels))
  BY WindowIs DEF CalendarWindow
<1>2. draw_string(100, 60, 7 + int_to_str(cal_month, 8) + 1 + int_to_str(cal_year, 8), BLACK)
        \in Seq(Puts(Pixels))
  BY ColorsAreNat, StringIs
<1>3. Days \in Seq(Puts(Pixels))
  BY ColorsAreNat, GlyphsIs DEF Days
<1>4. PrevButton[gui_is_point_in_rect(gui.x, gui.y, prev_btn)] \in Seq(Puts(Pixels))
  <2>1. gui_is_point_in_rect(gui.x, gui.y, prev_btn) \in BOOLEAN
    BY DEF gui_is_point_in_rect
  <2> QED
    BY <2>1, ButtonIs DEF PrevButton
<1>5. NextButton[gui_is_point_in_rect(gui.x, gui.y, next_btn)] \in Seq(Puts(Pixels))
  <2>1. gui_is_point_in_rect(gui.x, gui.y, next_btn) \in BOOLEAN
    BY DEF gui_is_point_in_rect
  <2> QED
    BY <2>1, ButtonIs DEF NextButton
<1> QED
  BY <1>1, <1>2, <1>3, <1>4, <1>5, Joined DEF app_calendar_draw

LEMMA NotepadIs == app_notepad_draw \in Seq(Puts(Pixels))
<1>1. TextArea \in Seq(Puts(Pixels))
  BY ColorsAreNat, WindowIs, FillIs, BorderIs, Joined DEF TextArea
<1> QED
  BY <1>1, ColorsAreNat, StringIs, LineIs, Joined DEF app_notepad_draw

LEMMA SnakeIs == ASSUME NEW m \in Moments PROVE app_snake_draw[m] \in Seq(Puts(Pixels))
<1> DEFINE body  == m.game.body
           Cells == [k \in 1..Len(body) |-> Cell(body[k], IF k = 1 THEN YELLOW ELSE GREEN)]
                    \o <<Cell(m.game.food, RED)>>
           Game  == IF m.game.over THEN draw_string(110, 80, 10, RED) ELSE Cells
           Score == draw_string(220, 170, 7 + int_to_str(Len(body) - 3, 8), BLACK)
<1>1. GameArea \in Seq(Puts(Pixels))
  BY ColorsAreNat, WindowIs, FillIs, Joined DEF GameArea
<1>2. \A c : \A color \in Nat : Cell(c, color) \in Puts(Pixels)
  BY RectangleIs DEF Cell
<1>3. Len(body) \in Nat
  BY DesktopAssumption
<1>4. Cells \in Seq(Puts(Pixels))
  BY <1>2, <1>3, ColorsAreNat, Joined
<1>5. Game \in Seq(Puts(Pixels)) /\ Score \in Seq(Puts(Pixels))
  BY <1>4, ColorsAreNat, StringIs
<1>6. app_snake_draw[m] = GameArea \o Game \o Score
  BY DEF app_snake_draw
<1> HIDE DEF Game, Score
<1> QED
  BY <1>1, <1>5, <1>6, Joined

LEMMA SettingsIs == app_settings_draw \in Seq(Puts(Pixels))
BY ColorsAreNat, WindowIs, StringIs, Joined DEF app_settings_draw

LEMMA MonitorIs == ASSUME NEW m \in Moments PROVE app_sysmon_draw[m] \in Seq(Puts(Pixels))
<1> DEFINE Lines == [i \in 1..Min({Len(Regions), 3}) |-> Region(i)]
<1>1. MonitorWindow \o draw_string(30, 50, 8 + int_to_str(m.ticks \div 18, 16) + 1, BLACK)
        \o draw_string(30, 65, 15, YELLOW) \in Seq(Puts(Pixels))
  BY ColorsAreNat, WindowIs, StringIs, Joined DEF MonitorWindow
<1>2. Len(Regions) \in Nat
  BY DesktopAssumption
<1>3. Min({Len(Regions), 3}) \in Nat
  <2>1. \E n \in {Len(Regions), 3} : \A k \in {Len(Regions), 3} : n <= k
    BY <1>2
  <2> QED
    BY <1>2, <2>1 DEF Min
<1>4. \A i : Region(i) \in Puts(Pixels)
  BY ColorsAreNat, GlyphsIs DEF Region
<1>5. Lines \in Seq(Puts(Pixels))
  <2>1. \A n \in Nat : [i \in 1..n |-> Region(i)] \in Seq(Puts(Pixels))
    BY <1>4
  <2> QED
    BY <1>3, <2>1
<1> QED
  BY <1>1, <1>5, Joined DEF app_sysmon_draw

LEMMA AppDrawingIs ==
  ASSUME State, NEW m \in Moments
  PROVE  AppDrawing(m) \in Seq(Puts(Pixels))
<1>1. gui.current_app \in {"DESKTOP", "CLOCK", "CALENDAR", "NOTEPAD", "SNAKE", "SETTINGS", "SYSMON"}
  BY DEF State, GuiState, Apps, Icon
<1>2. CASE gui.current_app = "DESKTOP"
  BY <1>2, DesktopIs DEF AppDrawing
<1>3. CASE gui.current_app = "CLOCK"
  BY <1>3, ClockIs DEF AppDrawing
<1>4. CASE gui.current_app = "CALENDAR"
  BY <1>4, CalendarIs DEF AppDrawing
<1>5. CASE gui.current_app = "NOTEPAD"
  BY <1>5, NotepadIs DEF AppDrawing
<1>6. CASE gui.current_app = "SNAKE"
  BY <1>6, SnakeIs DEF AppDrawing
<1>7. CASE gui.current_app = "SETTINGS"
  BY <1>7, SettingsIs DEF AppDrawing
<1>8. CASE gui.current_app = "SYSMON"
  BY <1>8, MonitorIs DEF AppDrawing
<1> QED
  BY <1>1, <1>2, <1>3, <1>4, <1>5, <1>6, <1>7, <1>8

-----------------------------------------------------------------------------
(* Every pixel is put at least once: above by the background, below by the *)
(* taskbar.                                                                *)

Touched(drawing, p) == \E k \in DOMAIN drawing : p \in drawing[k].at

LEMMA TouchedFirst ==
  ASSUME NEW S, NEW a \in Seq(S), NEW b \in Seq(S), NEW p, Touched(a, p)
  PROVE  Touched(a \o b, p)
<1>1. PICK k \in DOMAIN a : p \in a[k].at
  BY DEF Touched
<1>2. k \in DOMAIN (a \o b) /\ (a \o b)[k] = a[k]
  OBVIOUS
<1> QED
  BY <1>1, <1>2 DEF Touched

LEMMA TouchedLast ==
  ASSUME NEW S, NEW a \in Seq(S), NEW b \in Seq(S), NEW p, Touched(b, p)
  PROVE  Touched(a \o b, p)
<1>1. PICK k \in DOMAIN b : p \in b[k].at
  BY DEF Touched
<1>2. Len(a) + k \in DOMAIN (a \o b) /\ (a \o b)[Len(a) + k] = b[k]
  OBVIOUS
<1> QED
  BY <1>1, <1>2 DEF Touched

LEMMA FillTouches ==
  ASSUME NEW x, NEW y, NEW width, NEW height, NEW color, NEW p \in Within(x, y, width, height)
  PROVE  Touched(fill_rect(x, y, width, height, color), p)
<1>1. Rectangle(x, y, width, height, color).at = Within(x, y, width, height)
  BY DEF Rectangle
<1>2. fill_rect(x, y, width, height, color) = <<Rectangle(x, y, width, height, color)>>
  BY <1>1 DEF fill_rect, Some
<1> QED
  BY <1>1, <1>2 DEF Touched

LEMMA FrameCovers ==
  ASSUME NEW drawing \in Seq(Puts(Pixels)), NEW p \in Pixels
  PROVE  Touched(Background \o drawing \o Taskbar, p)
<1> DEFINE bar  == fill_rect(0, 180, 320, 20, DARK_GRAY)
           rest == draw_line(0, 180, 320, 180, WHITE)
           text == draw_string(5, 185, 5, WHITE)
<1>1. PICK px \in 0..319, py \in 0..199 : p = <<px, py>>
  <2>1. p \in (0..319) \X (0..199)
    BY VgaAssumption DEF Screen
  <2>2. p[1] \in 0..319 /\ p[2] \in 0..199 /\ p = <<p[1], p[2]>>
    BY <2>1
  <2> QED
    BY <2>2, Zenon
<1>0. p[1] = px /\ p[2] = py
  BY <1>1
<1>2. /\ Background \in Seq(Puts(Pixels)) /\ bar \in Seq(Puts(Pixels))
      /\ rest \in Seq(Puts(Pixels)) /\ text \in Seq(Puts(Pixels))
  BY ColorsAreNat, FillIs, LineIs, StringIs DEF Background
<1>3. Taskbar = bar \o rest \o text
  BY DEF Taskbar
<1>4. CASE py < 180
  <2>1. px \in 0..0 + 320 - 1 /\ py \in 0..0 + 180 - 1
    BY <1>4
  <2>2. Touched(Background, p)
    <3>1. p \in Within(0, 0, 320, 180)
      BY <1>0, <2>1, Zenon DEF Within
    <3> QED
      BY <3>1, FillTouches DEF Background
  <2> HIDE DEF bar, rest, text
  <2>3. drawing \o Taskbar \in Seq(Puts(Pixels)) /\ Taskbar \in Seq(Puts(Pixels))
    BY <1>2, <1>3, Joined
  <2>4. Touched(Background \o drawing, p) /\ Background \o drawing \in Seq(Puts(Pixels))
    BY <1>2, <2>2, TouchedFirst, Joined
  <2> QED
    BY <2>3, <2>4, TouchedFirst
<1>5. CASE py >= 180
  <2>1. px \in 0..0 + 320 - 1 /\ py \in 180..180 + 20 - 1
    BY <1>5
  <2>2. Touched(bar, p)
    <3>1. p \in Within(0, 180, 320, 20)
      BY <1>0, <2>1, Zenon DEF Within
    <3> QED
      BY <3>1, FillTouches
  <2> HIDE DEF bar, rest, text
  <2>3. Touched(bar \o rest, p) /\ bar \o rest \in Seq(Puts(Pixels))
    BY <1>2, <2>2, TouchedFirst, Joined
  <2>4. Touched(bar \o rest \o text, p) /\ bar \o rest \o text \in Seq(Puts(Pixels))
    BY <1>2, <2>3, TouchedFirst, Joined
  <2>5. Background \o drawing \in Seq(Puts(Pixels))
    BY <1>2, Joined
  <2> QED
    BY <1>3, <2>4, <2>5, TouchedLast
<1>6. py < 180 \/ py >= 180
  OBVIOUS
<1> QED
  BY <1>4, <1>5, <1>6

(* So a frame comes out the same on any screen.                            *)
LEMMA FrameForgets ==
  ASSUME NEW drawing \in Seq(Puts(Pixels)), NEW a, NEW b, DOMAIN a = Pixels, DOMAIN b = Pixels
  PROVE  Paint(a, Background \o drawing \o Taskbar) = Paint(b, Background \o drawing \o Taskbar)
<1> DEFINE frame   == Background \o drawing \o Taskbar
           puts(p) == {k \in DOMAIN frame : p \in frame[k].at}
           Last    == [p \in Pixels |-> frame[Max(puts(p))].color]
<1>1. \A p \in Pixels : puts(p) # {}
  BY FrameCovers DEF Touched
<1> HIDE DEF frame
<1>2. Paint(a, frame) = Last
  BY <1>1 DEF Paint
<1>3. Paint(b, frame) = Last
  BY <1>1 DEF Paint
<1> QED
  BY <1>2, <1>3 DEF frame

(* The cursor touches what was saved and nothing else.                     *)
LEMMA CursorStaysInArea ==
  ASSUME NEW x \in Int, NEW y \in Int, NEW a, DOMAIN a = Pixels, NEW p \in Pixels \ CursorArea(x, y)
  PROVE  Paint(a, draw_cursor(x, y, BLACK))[p] = a[p]
<1> DEFINE S == Puts(CursorArea(x, y))
<1>0. \A q \in Pixels : q[1] \in Int /\ q[2] \in Int /\ q = <<q[1], q[2]>>
  BY VgaAssumption DEF Screen
<1>1. /\ Within(x, y, 2, 2) \subseteq CursorArea(x, y)
      /\ Within(x + 2, y, 1, 1) \subseteq CursorArea(x, y)
      /\ Within(x, y + 2, 1, 1) \subseteq CursorArea(x, y)
  BY <1>0 DEF Within, CursorArea, CURSOR_WIDTH, CURSOR_HEIGHT
<1>2. /\ Rectangle(x, y, 2, 2, BLACK) \in S
      /\ Rectangle(x + 2, y, 1, 1, BLACK) \in S
      /\ Rectangle(x, y + 2, 1, 1, BLACK) \in S
  BY <1>1, ColorsAreNat DEF Rectangle, Puts
<1>3. /\ fill_rect(x, y, 2, 2, BLACK) \in Seq(S)
      /\ put_pixel(x + 2, y, BLACK) \in Seq(S)
      /\ put_pixel(x, y + 2, BLACK) \in Seq(S)
  BY <1>2, SomeIs DEF fill_rect, put_pixel
<1>4. draw_cursor(x, y, BLACK) \in Seq(S)
  <2> HIDE DEF S
  <2>1. CASE x < 318 /\ y < 198
    BY <1>3, <2>1, Joined DEF draw_cursor
  <2>2. CASE ~(x < 318 /\ y < 198)
    BY <2>2 DEF draw_cursor
  <2> QED
    BY <2>1, <2>2
<1>5. \A k \in DOMAIN draw_cursor(x, y, BLACK) : p \notin draw_cursor(x, y, BLACK)[k].at
  <2>1. \A d \in Seq(S) : \A k \in DOMAIN d : d[k] \in S
    OBVIOUS
  <2>2. \A put \in S : put.at \subseteq CursorArea(x, y)
    BY DEF Puts
  <2> HIDE DEF S
  <2> QED
    BY <1>4, <2>1, <2>2
<1> QED
  BY <1>5 DEF Paint

-----------------------------------------------------------------------------
(* The picture: pixels all there, the mouse's old place on the screen, and *)
(* what is saved is what the frame shows under the cursor.                 *)
Faithful ==
  /\ vga = [p \in Pixels |-> vga[p]] /\ shown = [p \in Pixels |-> shown[p]]
  /\ old_mouse \in (0..319) \X (0..199)
  /\ shown # Unpainted => cursor_buffer = Under(shown, old_mouse[1], old_mouse[2])
  /\ ScreenIsLastFrame

LEMMA InitFaithful == InitDesktop => Faithful
BY DEF InitDesktop, Faithful, ScreenIsLastFrame, Unpainted

LEMMA StepsOfGui == [NextDesktop]_desktop => [Next]_vars
BY Zenon DEF NextDesktop, desktop, Outside, Frame, RestoreAndSampleX, Sample, Update, DrawFrame,
   Next, gui_update

LEMMA RestoreIsFaithful ==
  ASSUME State, Faithful, RestoreAndSampleX
  PROVE  Faithful'
<1>1. pc = "read_x" /\ pc' = "read_y"
  BY DEF RestoreAndSampleX, SampleX
<1>2. UNCHANGED <<cursor_buffer, old_mouse, shown>>
  BY DEF RestoreAndSampleX
<1>3. vga' = [p \in Pixels |-> IF p \in DOMAIN cursor_buffer THEN cursor_buffer[p] ELSE vga[p]]
  BY DEF RestoreAndSampleX
<1> DEFINE x == old_mouse[1]
           y == old_mouse[2]
<1>4. x \in Int /\ y \in Int
  BY DEF Faithful
<1>5. ASSUME shown # Unpainted PROVE vga' = shown
  <2>1. cursor_buffer = [p \in CursorArea(x, y) |-> shown[p]]
    BY <1>5 DEF Faithful, Under
  <2>2. vga = Paint(shown, draw_cursor(x, y, BLACK))
    BY <1>1, <1>5 DEF Faithful, ScreenIsLastFrame
  <2> HIDE DEF x, y
  <2>3. ASSUME NEW p \in Pixels PROVE vga'[p] = shown[p]
    <3>1. CASE p \in CursorArea(x, y)
      BY <1>3, <2>1, <3>1
    <3>2. CASE p \notin CursorArea(x, y)
      <4>1. vga[p] = shown[p]
        BY <1>4, <2>2, <3>2, CursorStaysInArea DEF Faithful
      <4> QED
        BY <1>3, <2>1, <3>2, <4>1
    <3> QED
      BY <3>1, <3>2
  <2>4. shown = [p \in Pixels |-> shown[p]] /\ vga' = [p \in Pixels |-> vga'[p]]
    BY <1>3 DEF Faithful
  <2> QED
    BY <1>3, <2>3, <2>4
<1>6. vga' = [p \in Pixels |-> vga'[p]]
  BY <1>3
<1> QED
  BY <1>1, <1>2, <1>5, <1>6, Unpainted' = Unpainted DEF Faithful, ScreenIsLastFrame, Under, CursorArea

LEMMA DrawIsFaithful ==
  ASSUME State, Faithful, DrawFrame
  PROVE  Faithful'
<1>1. pc' = "read_x" /\ gui.x \in 0..319 /\ gui.y \in 0..199
  BY GuiFields DEF DrawFrame, Draw, State
<1>2. PICK m \in Moments :
        LET frame == Background \o AppDrawing(m) \o Taskbar
        IN  /\ cursor_buffer' = Under(Paint(vga, frame), gui.x, gui.y)
            /\ vga' = Paint(Paint(vga, frame), draw_cursor(gui.x, gui.y, BLACK))
            /\ shown' = Paint(Unpainted, frame)
  BY DEF DrawFrame
<1> DEFINE frame == Background \o AppDrawing(m) \o Taskbar
<1>3. old_mouse' = <<gui.x, gui.y>>
  BY DEF DrawFrame
<1>4. Paint(vga, frame) = Paint(Unpainted, frame)
  <2>1. DOMAIN vga = Pixels /\ DOMAIN Unpainted = Pixels
    BY DEF Faithful, Unpainted
  <2> QED
    BY <2>1, AppDrawingIs, FrameForgets
<1> HIDE DEF frame
<1>5. /\ cursor_buffer' = Under(shown', gui.x, gui.y)
      /\ vga' = Paint(shown', draw_cursor(gui.x, gui.y, BLACK))
  BY <1>2, <1>4 DEF frame
<1>6. shown' = [p \in Pixels |-> shown'[p]]
  BY <1>2 DEF Paint, Unpainted
<1>7. vga' = [p \in Pixels |-> vga'[p]]
  BY <1>5, <1>6 DEF Paint
<1>8. old_mouse' \in (0..319) \X (0..199) /\ old_mouse'[1] = gui.x /\ old_mouse'[2] = gui.y
  BY <1>1, <1>3
<1>9. ScreenIsLastFrame'
  <2>1. vga' = Paint(shown', draw_cursor(old_mouse'[1], old_mouse'[2], BLACK))
    BY <1>5, <1>8
  <2> QED
    BY <1>1, <2>1 DEF ScreenIsLastFrame
<1>10. shown' # Unpainted' => cursor_buffer' = Under(shown', old_mouse'[1], old_mouse'[2])
  BY <1>5, <1>8
<1> QED
  BY <1>6, <1>7, <1>8, <1>9, <1>10 DEF Faithful, Under, CursorArea

LEMMA NextFaithful == State /\ Faithful /\ [NextDesktop]_desktop => Faithful'
<1> SUFFICES ASSUME State, Faithful, [NextDesktop]_desktop PROVE Faithful'
  OBVIOUS
<1> USE DEF Faithful, ScreenIsLastFrame, picture
<1>1. CASE Outside
  <2>1. UNCHANGED <<pc, vga, cursor_buffer, old_mouse, shown>>
    BY <1>1 DEF Outside, SendPacket, Interrupt, FirstBytes, ThirdByte, Type
  <2> QED
    BY <2>1
<1>2. CASE RestoreAndSampleX
  BY <1>2, RestoreIsFaithful
<1>3. CASE Sample
  <2>1. UNCHANGED <<vga, cursor_buffer, old_mouse, shown>> /\ pc \in {"read_y", "read_button"}
        /\ pc' \in {"read_button", "update"}
    BY <1>3 DEF Sample, SampleY, SampleButton
  <2> QED
    BY <2>1
<1>4. CASE Update
  <2>1. UNCHANGED <<cursor_buffer, old_mouse, shown>> /\ pc' = "draw"
    BY <1>4 DEF Update, DesktopUpdate, PlainUpdate, CalendarUpdate, NotepadUpdate, SnakeUpdate
  <2>2. vga' = [p \in Pixels |-> vga'[p]]
    BY <1>4 DEF Update, Paint
  <2> QED
    BY <2>1, <2>2
<1>5. CASE DrawFrame
  BY <1>5, DrawIsFaithful
<1>6. CASE UNCHANGED desktop
  BY <1>6 DEF desktop, vars
<1> QED
  BY <1>1, <1>2, <1>3, <1>4, <1>5, <1>6 DEF NextDesktop, Frame

(* For every pixel of the screen, however far the mouse moves and whatever *)
(* is opened and closed meanwhile: between two frames there is the last    *)
(* one with its cursor, and the next begins by taking that away.           *)
THEOREM FramesLeaveNothing == FairDesktop => []ScreenIsLastFrame
<1>1. Faithful => ScreenIsLastFrame
  BY DEF Faithful
<1>2. InitDesktop => Init
  BY DEF InitDesktop
<1> QED
  BY <1>1, <1>2, InitFaithful, NextFaithful, StepsOfGui, InitState, NextState, PTL DEF FairDesktop
=============================================================================
