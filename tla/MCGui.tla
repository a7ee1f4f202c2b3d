------------------------------- MODULE MCGui -------------------------------
(* Three sessions.  Movements from the corner over every icon and the close   *)
(* button, pressed or not; over the calendar's icon, its buttons, the close   *)
(* button and its icon again; and the same for the notepad, with keys.        *)
EXTENDS Desktop

Moves == {<<0, 0>>, <<107, 0>>, <<36, -36>>, <<82, 0>>, <<120, -36>>, <<-41, -120>>, <<120, -120>>,
          <<40, 120>>, <<-100, 0>>, <<-60, 0>>, <<100, -18>>, <<-82, 0>>}
Sent  == {<<left, m[1], m[2]>> : left \in {0, 1}, m \in Moves}

To(x, y) == {<<0, x, y>>}
Press    == {<<1, 0, 0>>}
Wander   == {<<left, m[1], m[2]>> : left \in {0, 1}, m \in {<<0, 0>>, <<36, -36>>, <<107, 0>>}}

Icons    == [packets |-> <<Wander, Wander, Wander, To(0, 0) \cup Press>>, maxKeys |-> 0]
Calendar == [packets |-> <<To(120, -36), Press, To(-41, -120) \cup To(120, -120), Press, To(0, 0), Press,
                           To(40, 120) \cup To(0, 0), Press, To(-100, 0), To(-60, 0), Press>>, maxKeys |-> 0]
Notepad  == [packets |-> <<To(100, -18), To(100, -18), Press, To(82, 0), Press, To(-82, 0), Press>>,
             maxKeys |-> 3]
All      == {Icons, Calendar, Notepad}
AllKeys  == {"char", "back", "none"}

(* Looked at: the cursor's corners at its first place, at the screen's and  *)
(* on the icons; the middles of icons and buttons, of which each shows only *)
(* in some applications; a snake's last row, texts and the taskbar.         *)
Looked == {<<160, 100>>, <<36, 36>>, <<38, 36>>, <<12, 40>>, <<143, 36>>, <<60, 157>>,
           <<284, 36>>, <<170, 170>>, <<5, 185>>, <<319, 0>>}
GlyphPixels == {<<143, 36>>, <<5, 185>>}

Game(over, food) == [over |-> over, body |-> <<<<15, 14>>, <<14, 14>>, <<13, 14>>>>, food |-> food]
Frames == {[ticks |-> 0, game |-> Game(FALSE, <<0, 0>>)], [ticks |-> 648000, game |-> Game(TRUE, <<0, 0>>)]}
Memory == <<639, 130048>>
=============================================================================
