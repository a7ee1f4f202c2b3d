------------------------------ MODULE Ps2Proofs ------------------------------
(***************************************************************************)
(* The installation of the PS/2 devices, for any number of keys and        *)
(* movements, on a machine with a mouse or without.                        *)
(***************************************************************************)
EXTENDS Ps2Install, SequenceTheorems, TLAPS

-----------------------------------------------------------------------------
(* The installs' steps, one by one.  The shapes in which the driver's      *)
(* functions follow each other are joined for steps of any kind S.         *)

LEMMA Configuring ==
  ASSUME NEW S, NEW c32 \in S, NEW po \in S, NEW re \in S, NEW s \in S, NEW b \in S,
         NEW c96 \in S, NEW dv \in S
  PROVE  LET p == (<<c32>> \o (<<po>> \o <<re>>)) \o <<s>> \o <<b>> \o (<<c96>> \o (<<dv>> \o <<>>))
         IN  /\ p \in Seq(S) /\ Len(p) = 7
             /\ p[1] = c32 /\ p[2] = po /\ p[3] = re /\ p[4] = s /\ p[5] = b
             /\ p[6] = c96 /\ p[7] = dv
OBVIOUS

LEMMA Translating ==
  ASSUME NEW S, NEW fp \in S, NEW fr \in S, NEW c32 \in S, NEW po \in S, NEW re \in S,
         NEW s6 \in S, NEW c96 \in S, NEW dv \in S
  PROVE  LET p == (<<fp>> \o <<fr>>) \o ((<<c32>> \o (<<po>> \o <<re>>)) \o <<s6>> \o (<<c96>> \o (<<dv>> \o <<>>)))
         IN  /\ p \in Seq(S) /\ Len(p) = 8
             /\ p[1] = fp /\ p[2] = fr /\ p[3] = c32 /\ p[4] = po /\ p[5] = re
             /\ p[6] = s6 /\ p[7] = c96 /\ p[8] = dv
OBVIOUS

LEMMA Flushing ==
  ASSUME NEW S, NEW fp \in S, NEW fr \in S, NEW c168 \in S
  PROVE  LET p == (<<fp>> \o <<fr>>) \o (<<c168>> \o <<>>)
         IN  p \in Seq(S) /\ Len(p) = 3 /\ p[1] = fp /\ p[2] = fr /\ p[3] = c168
OBVIOUS

LEMMA Joined ==
  ASSUME NEW S, NEW a \in Seq(S), NEW b \in Seq(S)
  PROVE  /\ a \o b \in Seq(S) /\ Len(a \o b) = Len(a) + Len(b)
         /\ \A k \in 1..Len(a) : (a \o b)[k] = a[k]
         /\ \A k \in 1..Len(b) : (a \o b)[Len(a) + k] = b[k]
BY ConcatProperties

LEMMA Acknowledged ==
  ASSUME NEW S, NEW a \in Seq(S),
         NEW c \in S, NEW d \in S, NEW po \in S, NEW re \in S
  PROVE  LET p == a \o (<<c>> \o (<<d>> \o (<<po>> \o <<re>>)))
         IN  /\ p \in Seq(S) /\ Len(p) = Len(a) + 4
             /\ \A k \in 1..Len(a) : p[k] = a[k]
             /\ p[Len(a) + 1] = c /\ p[Len(a) + 2] = d /\ p[Len(a) + 3] = po /\ p[Len(a) + 4] = re
OBVIOUS

LEMMA MouseEnding ==
  ASSUME NEW S, NEW a \in Seq(S),
         NEW c \in S, NEW d \in S, NEW e \in S
  PROVE  LET p == a \o <<c>> \o <<d>> \o <<e>>
         IN  /\ p \in Seq(S) /\ Len(p) = Len(a) + 3
             /\ \A k \in 1..Len(a) : p[k] = a[k]
             /\ p[Len(a) + 1] = c /\ p[Len(a) + 2] = d /\ p[Len(a) + 3] = e
OBVIOUS

LEMMA KeyboardEnding ==
  ASSUME NEW S, NEW a \in Seq(S),
         NEW c \in S, NEW po \in S, NEW re \in S, NEW e \in S, NEW f \in S
  PROVE  LET p == a \o (<<c>> \o (<<po>> \o <<re>>)) \o <<e>> \o <<f>>
         IN  /\ p \in Seq(S) /\ Len(p) = Len(a) + 5
             /\ \A k \in 1..Len(a) : p[k] = a[k]
             /\ p[Len(a) + 1] = c /\ p[Len(a) + 2] = po /\ p[Len(a) + 3] = re /\ p[Len(a) + 4] = e /\ p[Len(a) + 5] = f
OBVIOUS

(* The 41 steps of mouse_install and keyboard_install. *)
LEMMA ProgramSteps ==
  /\ Len(Program) = 41 /\ DOMAIN Program = 1..41
  /\ Program[1] = <<"flush_poll", 0, 1>>
  /\ Program[2] = <<"flush_read", 0, 1>>
  /\ Program[3] = <<"command", 168, 1>>
  /\ Program[4] = <<"command", 32, 3>>
  /\ Program[5] = <<"poll", 0, 1>>
  /\ Program[6] = <<"read", 0, 1>>
  /\ Program[7] = <<"set_bit", 1, 1>>
  /\ Program[8] = <<"clear_bit", 5, 1>>
  /\ Program[9] = <<"command", 96, 2>>
  /\ Program[10] = <<"data_value", 96, 1>>
  /\ Program[11] = <<"command", 212, 4>>
  /\ Program[12] = <<"data", 246, 3>>
  /\ Program[13] = <<"poll", 0, 1>>
  /\ Program[14] = <<"read", 0, 1>>
  /\ Program[15] = <<"command", 212, 4>>
  /\ Program[16] = <<"data", 244, 3>>
  /\ Program[17] = <<"poll", 0, 1>>
  /\ Program[18] = <<"read", 0, 1>>
  /\ Program[19] = <<"handler", 12, 1>>
  /\ Program[20] = <<"unmask", 2, 1>>
  /\ Program[21] = <<"unmask", 12, 1>>
  /\ Program[22] = <<"flush_poll", 0, 1>>
  /\ Program[23] = <<"flush_read", 0, 1>>
  /\ Program[24] = <<"command", 32, 3>>
  /\ Program[25] = <<"poll", 0, 1>>
  /\ Program[26] = <<"read", 0, 1>>
  /\ Program[27] = <<"set_bit", 6, 1>>
  /\ Program[28] = <<"command", 96, 2>>
  /\ Program[29] = <<"data_value", 96, 1>>
  /\ Program[30] = <<"command", 32, 3>>
  /\ Program[31] = <<"poll", 0, 1>>
  /\ Program[32] = <<"read", 0, 1>>
  /\ Program[33] = <<"set_bit", 0, 1>>
  /\ Program[34] = <<"clear_bit", 4, 1>>
  /\ Program[35] = <<"command", 96, 2>>
  /\ Program[36] = <<"data_value", 96, 1>>
  /\ Program[37] = <<"data", 244, 3>>
  /\ Program[38] = <<"poll", 0, 1>>
  /\ Program[39] = <<"read", 0, 1>>
  /\ Program[40] = <<"handler", 1, 1>>
  /\ Program[41] = <<"unmask", 1, 1>>
<1> DEFINE fp == <<"flush_poll", 0, 1>>
           fr == <<"flush_read", 0, 1>>
           po == <<"poll", 0, 1>>
           re == <<"read", 0, 1>>
           c168 == <<"command", 168, 1>>
           c32 == <<"command", 32, 3>>
           c96 == <<"command", 96, 2>>
           c212 == <<"command", 212, 4>>
           dv == <<"data_value", 96, 1>>
           s1 == <<"set_bit", 1, 1>>
           b5 == <<"clear_bit", 5, 1>>
           s6 == <<"set_bit", 6, 1>>
           s0 == <<"set_bit", 0, 1>>
           b4 == <<"clear_bit", 4, 1>>
           d246 == <<"data", 246, 3>>
           d244 == <<"data", 244, 3>>
           h12 == <<"handler", 12, 1>>
           h1 == <<"handler", 1, 1>>
           u2 == <<"unmask", 2, 1>>
           u12 == <<"unmask", 12, 1>>
           u1 == <<"unmask", 1, 1>>
           S == {fp, fr, po, re, c168, c32, c96, c212, dv, s1, b5, s6, s0, b4,
                 d246, d244, h12, h1, u2, u12, u1}
           Conf(s, b) == (<<c32>> \o (<<po>> \o <<re>>)) \o <<s>> \o <<b>> \o (<<c96>> \o (<<dv>> \o <<>>))
           m1 == (<<fp>> \o <<fr>>) \o (<<c168>> \o <<>>)
           cm == Conf(s1, b5)
           m2 == m1 \o cm
           m3 == m2 \o (<<c212>> \o (<<d246>> \o (<<po>> \o <<re>>)))
           m4 == m3 \o (<<c212>> \o (<<d244>> \o (<<po>> \o <<re>>)))
           m5 == m4 \o <<h12>> \o <<u2>> \o <<u12>>
           k1 == (<<fp>> \o <<fr>>) \o ((<<c32>> \o (<<po>> \o <<re>>)) \o <<s6>> \o (<<c96>> \o (<<dv>> \o <<>>)))
           ck == Conf(s0, b4)
           k2 == k1 \o ck
           k3 == k2 \o (<<d244>> \o (<<po>> \o <<re>>)) \o <<h1>> \o <<u1>>
<1>1. /\ ps2_flush_output_buffer = <<fp>> \o <<fr>>
      /\ ps2_send_controller_command(168) = <<c168>> \o <<>>
      /\ ps2_read_data = <<po>> \o <<re>> /\ ps2_expect_ack = <<po>> \o <<re>>
      /\ ps2_get_command_byte = <<c32>> \o (<<po>> \o <<re>>)
      /\ ps2_set_command_byte = <<c96>> \o (<<dv>> \o <<>>)
      /\ WriteDataExpectAck(246) = <<d246>> \o (<<po>> \o <<re>>)
      /\ WriteDataExpectAck(244) = <<d244>> \o (<<po>> \o <<re>>)
  <2>1. ps2_read_data = <<po>> \o <<re>> /\ ps2_expect_ack = <<po>> \o <<re>>
    BY DEF ps2_read_data, ps2_expect_ack, Do
  <2>2. Len(<<po>> \o <<re>>) + 1 = 3 /\ Len(<<>>) + 1 = 1 /\ Len(<<dv>> \o <<>>) + 1 = 2
    OBVIOUS
  <2>3. IfSent("data_value", 96, <<>>) = <<dv>> \o <<>>
    BY <2>2 DEF IfSent
  <2>4. /\ ps2_flush_output_buffer = <<fp>> \o <<fr>>
        /\ ps2_send_controller_command(168) = <<c168>> \o <<>>
    BY <2>2 DEF ps2_flush_output_buffer, ps2_send_controller_command, Do, IfSent
  <2>5. /\ ps2_get_command_byte = <<c32>> \o (<<po>> \o <<re>>)
        /\ ps2_set_command_byte = <<c96>> \o (<<dv>> \o <<>>)
        /\ WriteDataExpectAck(246) = <<d246>> \o (<<po>> \o <<re>>)
        /\ WriteDataExpectAck(244) = <<d244>> \o (<<po>> \o <<re>>)
    BY <2>1, <2>2, <2>3, Zenon DEF ps2_get_command_byte, ps2_set_command_byte, WriteDataExpectAck, IfSent
  <2> QED
    BY <2>1, <2>4, <2>5
<1>2. /\ WriteMouseExpectAck(246) = <<c212>> \o (<<d246>> \o (<<po>> \o <<re>>))
      /\ WriteMouseExpectAck(244) = <<c212>> \o (<<d244>> \o (<<po>> \o <<re>>))
  <2>1. /\ Len(<<d246>> \o (<<po>> \o <<re>>)) + 1 = 4
        /\ Len(<<d244>> \o (<<po>> \o <<re>>)) + 1 = 4
    OBVIOUS
  <2> QED
    BY <1>1, <2>1, Zenon DEF WriteMouseExpectAck, IfSent
<1>33. mouse_install = m5
  BY <1>1, <1>2, Zenon DEF mouse_install, ps2_configure_port, RegisterHandler, Unmask, Do
<1>34. keyboard_install = k3
  BY <1>1, Zenon DEF keyboard_install, ps2_enable_translation, ps2_configure_port, RegisterHandler, Unmask, Do
<1> HIDE DEF fp, fr, po, re, c168, c32, c96, c212, dv, s1, b5, s6, s0, b4, d246, d244, h12, h1, u2, u12, u1
<1>3. /\ fp \in S /\ fr \in S /\ po \in S /\ re \in S /\ c168 \in S /\ c32 \in S
      /\ c96 \in S /\ c212 \in S /\ dv \in S /\ s1 \in S /\ b5 \in S /\ s6 \in S
      /\ s0 \in S /\ b4 \in S /\ d246 \in S /\ d244 \in S /\ h12 \in S /\ h1 \in S
      /\ u2 \in S /\ u12 \in S /\ u1 \in S
  OBVIOUS
<1> HIDE DEF S
<1>4. /\ cm \in Seq(S) /\ Len(cm) = 7
       /\ cm[1] = c32 /\ cm[2] = po /\ cm[3] = re /\ cm[4] = s1
       /\ cm[5] = b5 /\ cm[6] = c96 /\ cm[7] = dv
  BY <1>3, Configuring
<1>5. /\ ck \in Seq(S) /\ Len(ck) = 7
       /\ ck[1] = c32 /\ ck[2] = po /\ ck[3] = re /\ ck[4] = s0
       /\ ck[5] = b4 /\ ck[6] = c96 /\ ck[7] = dv
  BY <1>3, Configuring
<1> HIDE DEF cm, ck
<1>6. /\ m1 \in Seq(S) /\ Len(m1) = 3
      /\ m1[1] = fp /\ m1[2] = fr /\ m1[3] = c168
  BY <1>3, Flushing
<1> HIDE DEF m1
<1>7. m1 \in Seq(S)
  BY <1>6
<1>8. cm \in Seq(S)
  BY <1>4
<1>9. /\ m2 \in Seq(S) /\ Len(m2) = 10 /\ \A k \in 1..3 : m2[k] = m1[k]
      /\ \A k \in 1..7 : m2[3 + k] = cm[k]
  <2>1. /\ m2 \in Seq(S) /\ Len(m2) = Len(m1) + Len(cm)
        /\ \A k \in 1..Len(m1) : m2[k] = m1[k]
        /\ \A k \in 1..Len(cm) : m2[Len(m1) + k] = cm[k]
    BY <1>7, <1>8, Joined
  <2> HIDE DEF m2
  <2> QED
    BY <2>1, <1>6, <1>4
<1> HIDE DEF m2
<1>10. m2 \in Seq(S)
  BY <1>9
<1>11. /\ m3 \in Seq(S) /\ Len(m3) = 14 /\ \A k \in 1..10 : m3[k] = m2[k]
      /\ m3[11] = c212 /\ m3[12] = d246 /\ m3[13] = po /\ m3[14] = re
  <2>1. /\ m3 \in Seq(S) /\ Len(m3) = Len(m2) + 4
        /\ \A k \in 1..Len(m2) : m3[k] = m2[k]
        /\ m3[Len(m2) + 1] = c212 /\ m3[Len(m2) + 2] = d246 /\ m3[Len(m2) + 3] = po /\ m3[Len(m2) + 4] = re
    BY <1>3, <1>10, Acknowledged
  <2> HIDE DEF m3
  <2> QED
    BY <2>1, <1>3, <1>9
<1> HIDE DEF m3
<1>12. m3 \in Seq(S)
  BY <1>11
<1>13. /\ m4 \in Seq(S) /\ Len(m4) = 18 /\ \A k \in 1..14 : m4[k] = m3[k]
      /\ m4[15] = c212 /\ m4[16] = d244 /\ m4[17] = po /\ m4[18] = re
  <2>1. /\ m4 \in Seq(S) /\ Len(m4) = Len(m3) + 4
        /\ \A k \in 1..Len(m3) : m4[k] = m3[k]
        /\ m4[Len(m3) + 1] = c212 /\ m4[Len(m3) + 2] = d244 /\ m4[Len(m3) + 3] = po /\ m4[Len(m3) + 4] = re
    BY <1>3, <1>12, Acknowledged
  <2> HIDE DEF m4
  <2> QED
    BY <2>1, <1>3, <1>11
<1> HIDE DEF m4
<1>14. m4 \in Seq(S)
  BY <1>13
<1>15. /\ m5 \in Seq(S) /\ Len(m5) = 21 /\ \A k \in 1..18 : m5[k] = m4[k]
      /\ m5[19] = h12 /\ m5[20] = u2 /\ m5[21] = u12
  <2>1. /\ m5 \in Seq(S) /\ Len(m5) = Len(m4) + 3
        /\ \A k \in 1..Len(m4) : m5[k] = m4[k]
        /\ m5[Len(m4) + 1] = h12 /\ m5[Len(m4) + 2] = u2 /\ m5[Len(m4) + 3] = u12
    BY <1>3, <1>14, MouseEnding
  <2> HIDE DEF m5
  <2> QED
    BY <2>1, <1>3, <1>13
<1> HIDE DEF m5
<1>16. m5 \in Seq(S)
  BY <1>15
<1>17. /\ k1 \in Seq(S) /\ Len(k1) = 8
      /\ k1[1] = fp /\ k1[2] = fr /\ k1[3] = c32 /\ k1[4] = po
      /\ k1[5] = re /\ k1[6] = s6 /\ k1[7] = c96 /\ k1[8] = dv
  BY <1>3, Translating
<1> HIDE DEF k1
<1>18. k1 \in Seq(S)
  BY <1>17
<1>19. ck \in Seq(S)
  BY <1>5
<1>20. /\ k2 \in Seq(S) /\ Len(k2) = 15 /\ \A k \in 1..8 : k2[k] = k1[k]
      /\ \A k \in 1..7 : k2[8 + k] = ck[k]
  <2>1. /\ k2 \in Seq(S) /\ Len(k2) = Len(k1) + Len(ck)
        /\ \A k \in 1..Len(k1) : k2[k] = k1[k]
        /\ \A k \in 1..Len(ck) : k2[Len(k1) + k] = ck[k]
    BY <1>18, <1>19, Joined
  <2> HIDE DEF k2
  <2> QED
    BY <2>1, <1>17, <1>5
<1> HIDE DEF k2
<1>21. k2 \in Seq(S)
  BY <1>20
<1>22. /\ k3 \in Seq(S) /\ Len(k3) = 20 /\ \A k \in 1..15 : k3[k] = k2[k]
      /\ k3[16] = d244 /\ k3[17] = po /\ k3[18] = re /\ k3[19] = h1
      /\ k3[20] = u1
  <2>1. /\ k3 \in Seq(S) /\ Len(k3) = Len(k2) + 5
        /\ \A k \in 1..Len(k2) : k3[k] = k2[k]
        /\ k3[Len(k2) + 1] = d244 /\ k3[Len(k2) + 2] = po /\ k3[Len(k2) + 3] = re /\ k3[Len(k2) + 4] = h1 /\ k3[Len(k2) + 5] = u1
    BY <1>3, <1>21, KeyboardEnding
  <2> HIDE DEF k3
  <2> QED
    BY <2>1, <1>3, <1>20
<1> HIDE DEF k3
<1>23. k3 \in Seq(S)
  BY <1>22
<1>24. /\ Program \in Seq(S) /\ Len(Program) = 41 /\ \A k \in 1..21 : Program[k] = m5[k]
       /\ \A k \in 1..20 : Program[21 + k] = k3[k]
  <2> DEFINE p == m5 \o k3
  <2>1. Program = p
    BY <1>33, <1>34 DEF Program
  <2>2. /\ p \in Seq(S) /\ Len(p) = Len(m5) + Len(k3)
        /\ \A k \in 1..Len(m5) : p[k] = m5[k]
        /\ \A k \in 1..Len(k3) : p[Len(m5) + k] = k3[k]
    BY <1>16, <1>23, Joined
  <2> HIDE DEF p
  <2> QED
    BY <2>1, <2>2, <1>15, <1>22
<1>25. DOMAIN Program = 1..41
  BY <1>24
<1>26. /\ m2[4] = c32 /\ m2[5] = po /\ m2[6] = re /\ m2[7] = s1
       /\ m2[8] = b5 /\ m2[9] = c96 /\ m2[10] = dv
  BY <1>4, <1>9
<1>27. /\ k2[9] = c32 /\ k2[10] = po /\ k2[11] = re /\ k2[12] = s0
       /\ k2[13] = b4 /\ k2[14] = c96 /\ k2[15] = dv
  BY <1>5, <1>20
<1>28. /\ m5[1] = fp /\ m5[2] = fr /\ m5[3] = c168 /\ m5[4] = c32
       /\ m5[5] = po /\ m5[6] = re /\ m5[7] = s1 /\ m5[8] = b5
       /\ m5[9] = c96 /\ m5[10] = dv /\ m5[11] = c212 /\ m5[12] = d246
       /\ m5[13] = po /\ m5[14] = re /\ m5[15] = c212 /\ m5[16] = d244
       /\ m5[17] = po /\ m5[18] = re /\ m5[19] = h12 /\ m5[20] = u2
       /\ m5[21] = u12
  BY <1>6, <1>9, <1>11, <1>13, <1>15, <1>26
<1>29. /\ k3[1] = fp /\ k3[2] = fr /\ k3[3] = c32 /\ k3[4] = po
       /\ k3[5] = re /\ k3[6] = s6 /\ k3[7] = c96 /\ k3[8] = dv
       /\ k3[9] = c32 /\ k3[10] = po /\ k3[11] = re /\ k3[12] = s0
       /\ k3[13] = b4 /\ k3[14] = c96 /\ k3[15] = dv /\ k3[16] = d244
       /\ k3[17] = po /\ k3[18] = re /\ k3[19] = h1 /\ k3[20] = u1
  BY <1>17, <1>20, <1>22, <1>27
<1>30. /\ \A k \in 1..21 : Program[k] = m5[k]
       /\ \A k \in 1..20 : Program[21 + k] = k3[k]
  BY <1>24
<1>31. /\ Program[1] = fp /\ Program[2] = fr /\ Program[3] = c168 /\ Program[4] = c32
       /\ Program[5] = po /\ Program[6] = re /\ Program[7] = s1 /\ Program[8] = b5
       /\ Program[9] = c96 /\ Program[10] = dv /\ Program[11] = c212 /\ Program[12] = d246
       /\ Program[13] = po /\ Program[14] = re /\ Program[15] = c212 /\ Program[16] = d244
       /\ Program[17] = po /\ Program[18] = re /\ Program[19] = h12 /\ Program[20] = u2
       /\ Program[21] = u12
  BY <1>30, <1>28
<1>32. /\ Program[22] = fp /\ Program[23] = fr /\ Program[24] = c32 /\ Program[25] = po
       /\ Program[26] = re /\ Program[27] = s6 /\ Program[28] = c96 /\ Program[29] = dv
       /\ Program[30] = c32 /\ Program[31] = po /\ Program[32] = re /\ Program[33] = s0
       /\ Program[34] = b4 /\ Program[35] = c96 /\ Program[36] = dv /\ Program[37] = d244
       /\ Program[38] = po /\ Program[39] = re /\ Program[40] = h1 /\ Program[41] = u1
  BY <1>30, <1>29
<1> QED
  BY <1>24, <1>25, <1>31, <1>32 DEF fp, fr, po, re, c168, c32, c96, c212, dv, s1, b5, s6, s0, b4, d246, d244, h12, h1, u2, u12, u1

(* Where a step of each kind stands, and with which argument. *)
LEMMA Places ==
  ASSUME pc \in DOMAIN Program
  PROVE  /\ pc \in 1..41
         /\ Program[pc][1] = "flush_poll" => pc \in {1, 22}
         /\ Program[pc][1] = "flush_read" => pc \in {2, 23}
         /\ Program[pc][1] = "command" =>
              \/ pc = 3 /\ arg = 168
              \/ pc \in {4, 24, 30} /\ arg = 32
              \/ pc \in {9, 28, 35} /\ arg = 96
              \/ pc \in {11, 15} /\ arg = 212
         /\ Program[pc][1] = "poll" => pc \in {5, 13, 17, 25, 31, 38}
         /\ Program[pc][1] = "read" => pc \in {6, 14, 18, 26, 32, 39}
         /\ Program[pc][1] = "set_bit" =>
              \/ pc = 7 /\ arg = 1
              \/ pc = 27 /\ arg = 6
              \/ pc = 33 /\ arg = 0
         /\ Program[pc][1] = "clear_bit" =>
              \/ pc = 8 /\ arg = 5
              \/ pc = 34 /\ arg = 4
         /\ Program[pc][1] = "data_value" => pc \in {10, 29, 36} /\ arg = 96
         /\ Program[pc][1] \in {"command", "data", "data_value"} =>
              Program[pc][3] = IF pc \in {3, 10, 29, 36} THEN 1
                               ELSE IF pc \in {9, 28, 35} THEN 2
                               ELSE IF pc \in {11, 15} THEN 4 ELSE 3
         /\ Program[pc][1] = "data" =>
              \/ pc = 12 /\ arg = 246
              \/ pc \in {16, 37} /\ arg = 244
         /\ Program[pc][1] = "handler" =>
              \/ pc = 19 /\ arg = 12
              \/ pc = 40 /\ arg = 1
         /\ Program[pc][1] = "unmask" =>
              \/ pc = 20 /\ arg = 2
              \/ pc = 21 /\ arg = 12
              \/ pc = 41 /\ arg = 1
<1>1. pc \in 1..41
  BY ProgramSteps
<1> QED
  BY <1>1, ProgramSteps DEF arg

LEMMA Where ==
  /\ FlushPoll => pc \in {1, 22}
  /\ FlushRead => pc \in {2, 23}
  /\ Command =>
       \/ pc = 3 /\ arg = 168
       \/ pc \in {4, 24, 30} /\ arg = 32
       \/ pc \in {9, 28, 35} /\ arg = 96
       \/ pc \in {11, 15} /\ arg = 212
  /\ Data =>
       \/ pc = 12 /\ arg = 246
       \/ pc \in {16, 37} /\ arg = 244
  /\ DataValue => pc \in {10, 29, 36}
  /\ NotReady =>
       \/ pc = 3 /\ arg = 168 /\ pc' = pc + 1
       \/ pc \in {4, 24, 30} /\ arg = 32 /\ pc' = pc + 3
       \/ pc \in {9, 28, 35} /\ arg = 96 /\ pc' = pc + 2
       \/ pc \in {10, 29, 36} /\ arg = 96 /\ pc' = pc + 1
       \/ pc \in {11, 15} /\ arg = 212 /\ pc' = pc + 4
       \/ pc = 12 /\ arg = 246 /\ pc' = pc + 3
       \/ pc \in {16, 37} /\ arg = 244 /\ pc' = pc + 3
  /\ Poll => pc \in {5, 13, 17, 25, 31, 38}
  /\ PollTimeout => pc \in {5, 13, 17, 25, 31, 38}
  /\ Read => pc \in {6, 14, 18, 26, 32, 39}
  /\ Compute =>
       \/ pc = 7 /\ value' = SetBit(value, 1)
       \/ pc = 27 /\ value' = SetBit(value, 6)
       \/ pc = 33 /\ value' = SetBit(value, 0)
       \/ pc = 8 /\ value' = ClearBit(value, 5)
       \/ pc = 34 /\ value' = ClearBit(value, 4)
  /\ i686_IRQ_RegisterHandler =>
       \/ pc = 19 /\ arg = 12
       \/ pc = 40 /\ arg = 1
  /\ i8259_Unmask =>
       \/ pc = 20 /\ arg = 2
       \/ pc = 21 /\ arg = 12
       \/ pc = 41 /\ arg = 1
<1>1. FlushPoll => pc \in {1, 22}
  BY Places DEF FlushPoll, Step
<1>2. FlushRead => pc \in {2, 23}
  BY Places DEF FlushRead, Step
<1>3. Command =>
        \/ pc = 3 /\ arg = 168
        \/ pc \in {4, 24, 30} /\ arg = 32
        \/ pc \in {9, 28, 35} /\ arg = 96
        \/ pc \in {11, 15} /\ arg = 212
  BY Places DEF Command, Step
<1>4. Data =>
        \/ pc = 12 /\ arg = 246
        \/ pc \in {16, 37} /\ arg = 244
  BY Places DEF Data, Step
<1>5. DataValue => pc \in {10, 29, 36}
  BY Places DEF DataValue, Step
<1>6. Poll => pc \in {5, 13, 17, 25, 31, 38}
  BY Places DEF Poll, Step
<1>7. PollTimeout => pc \in {5, 13, 17, 25, 31, 38}
  BY Places DEF PollTimeout, Step
<1>8. Read => pc \in {6, 14, 18, 26, 32, 39}
  BY Places DEF Read, Step
<1>9. Compute =>
        \/ pc = 7 /\ value' = SetBit(value, 1)
        \/ pc = 27 /\ value' = SetBit(value, 6)
        \/ pc = 33 /\ value' = SetBit(value, 0)
        \/ pc = 8 /\ value' = ClearBit(value, 5)
        \/ pc = 34 /\ value' = ClearBit(value, 4)
  BY Places DEF Compute, Step
<1>10. i686_IRQ_RegisterHandler =>
        \/ pc = 19 /\ arg = 12
        \/ pc = 40 /\ arg = 1
  BY Places DEF i686_IRQ_RegisterHandler, Step
<1>11. i8259_Unmask =>
        \/ pc = 20 /\ arg = 2
        \/ pc = 21 /\ arg = 12
        \/ pc = 41 /\ arg = 1
  BY Places DEF i8259_Unmask, Step
<1>12. NotReady =>
        \/ pc = 3 /\ arg = 168 /\ pc' = pc + 1
        \/ pc \in {4, 24, 30} /\ arg = 32 /\ pc' = pc + 3
        \/ pc \in {9, 28, 35} /\ arg = 96 /\ pc' = pc + 2
        \/ pc \in {10, 29, 36} /\ arg = 96 /\ pc' = pc + 1
        \/ pc \in {11, 15} /\ arg = 212 /\ pc' = pc + 4
        \/ pc = 12 /\ arg = 246 /\ pc' = pc + 3
        \/ pc \in {16, 37} /\ arg = 244 /\ pc' = pc + 3
  <2> SUFFICES ASSUME NotReady PROVE <1>12!2
    OBVIOUS
  <2> DEFINE name == Program[pc][1]
             skip == Program[pc][3]
  <2>1. pc \in DOMAIN Program /\ name \in {"command", "data", "data_value"} /\ pc' = pc + skip
    BY DEF NotReady, Step, Goto
  <2>2. /\ name = "command" =>
             \/ pc = 3 /\ arg = 168
             \/ pc \in {4, 24, 30} /\ arg = 32
             \/ pc \in {9, 28, 35} /\ arg = 96
             \/ pc \in {11, 15} /\ arg = 212
        /\ name = "data_value" => pc \in {10, 29, 36} /\ arg = 96
        /\ name = "data" => (pc = 12 /\ arg = 246) \/ (pc \in {16, 37} /\ arg = 244)
        /\ skip = IF pc \in {3, 10, 29, 36} THEN 1
                  ELSE IF pc \in {9, 28, 35} THEN 2
                  ELSE IF pc \in {11, 15} THEN 4 ELSE 3
    <3>1. pc \in DOMAIN Program
      BY <2>1
    <3>2. /\ Program[pc][1] = "command" =>
               \/ pc = 3 /\ arg = 168
               \/ pc \in {4, 24, 30} /\ arg = 32
               \/ pc \in {9, 28, 35} /\ arg = 96
               \/ pc \in {11, 15} /\ arg = 212
          /\ Program[pc][1] = "data_value" => pc \in {10, 29, 36} /\ arg = 96
          /\ Program[pc][1] = "data" => (pc = 12 /\ arg = 246) \/ (pc \in {16, 37} /\ arg = 244)
          /\ Program[pc][1] \in {"command", "data", "data_value"} =>
               Program[pc][3] = IF pc \in {3, 10, 29, 36} THEN 1
                                ELSE IF pc \in {9, 28, 35} THEN 2
                                ELSE IF pc \in {11, 15} THEN 4 ELSE 3
      BY <3>1, Places
    <3> QED
      BY <2>1, <3>2
  <2> HIDE DEF name, skip
  <2> QED
    BY <2>1, <2>2
<1> QED
  BY <1>1, <1>2, <1>3, <1>4, <1>5, <1>6, <1>7, <1>8, <1>9, <1>10, <1>11, <1>12

(* Bits of the command byte. *)
LEMMA AnyBits ==
  ASSUME NEW b \in Nat
  PROVE  /\ \A i \in {0, 1, 6} : SetBit(b, i) \in Nat
         /\ \A i \in {4, 5} : ClearBit(b, i) \in Nat
         /\ Bit(SetBit(b, 0), 0)
         /\ ~Bit(ClearBit(b, 4), 4)
         /\ Bit(b, 0) => Bit(ClearBit(b, 4), 0)
<1>1. ASSUME NEW i \in {0, 1, 6} PROVE SetBit(b, i) \in Nat
  <2>1. SetBit(b, 0) \in Nat /\ SetBit(b, 1) \in Nat /\ SetBit(b, 6) \in Nat
    BY DEF SetBit
  <2> QED
    BY <2>1
<1>2. ASSUME NEW i \in {4, 5} PROVE ClearBit(b, i) \in Nat
  BY DEF ClearBit, Bit
<1>3. Bit(SetBit(b, 0), 0)
  BY DEF Bit, SetBit
<1>4. ~Bit(ClearBit(b, 4), 4)
  BY DEF Bit, ClearBit
<1>5. Bit(b, 0) => Bit(ClearBit(b, 4), 0)
  BY DEF Bit, ClearBit
<1> QED
  BY <1>1, <1>2, <1>3, <1>4, <1>5

LEMMA OurBits ==
  /\ ClearBit(97, 5) = 65 /\ SetBit(65, 1) = 67 /\ ClearBit(67, 5) = 67
  /\ SetBit(67, 6) = 67 /\ SetBit(67, 0) = 67 /\ ClearBit(67, 4) = 67
  /\ SetBit(97, 1) = 99 /\ ClearBit(99, 5) = 67
  /\ Bit(67, 0) /\ ~Bit(67, 4) /\ Bit(67, 1) /\ ~Bit(67, 5) /\ Bit(67, 6)
BY DEF Bit, SetBit, ClearBit

-----------------------------------------------------------------------------
(* Whatever the user does. *)

PortType ==
  /\ obf \in [full : BOOLEAN, data : Nat, aux : BOOLEAN]
  /\ config \in Nat /\ value \in Nat
  /\ answer \in Seq(Nat) /\ kbdQueue \in Seq(Nat) /\ auxQueue \in Seq(Nat)
  /\ pc \in 1..42

(* The command byte that is computed for the keyboard's port gets its bit  *)
(* 0 set and its bit 4 cleared whatever was read, also after a timeout.    *)
(* Nothing computes another one afterwards, and when both bytes of the     *)
(* last one were written the controller expects no more of them: the 0xF4  *)
(* for the keyboard is not taken for one.                                  *)
Opened(b) == Bit(b, 0) /\ ~Bit(b, 4)

KeyboardPort ==
  /\ pc = 34 => Bit(value, 0)
  /\ pc \in {35, 36} => Opened(value)
  /\ pc \in {10, 29, 36} => expects = "config"
  /\ pc >= 37 /\ configured => Opened(config) /\ expects = "kbd"

LEMMA PortInit == Init => PortType /\ KeyboardPort
<1> SUFFICES ASSUME Init PROVE PortType /\ KeyboardPort
  OBVIOUS
<1>1. obf \in [full : BOOLEAN, data : Nat, aux : BOOLEAN]
  <2>1. PICK full \in BOOLEAN : obf = [full |-> full, data |-> Key, aux |-> FALSE]
    BY DEF Init
  <2> QED
    BY <2>1 DEF Key
<1>2. /\ config = 97 /\ value = 0 /\ pc = 1
      /\ answer = <<>> /\ kbdQueue = <<>> /\ auxQueue = <<>>
  BY DEF Init
<1> QED
  BY <1>1, <1>2 DEF PortType, KeyboardPort

LEMMA InstallPort ==
  ASSUME PortType, KeyboardPort, Install
  PROVE  PortType' /\ KeyboardPort'
<1> USE DEF PortType
<1>1. CASE FlushPoll
  BY <1>1, Where DEF FlushPoll, Goto, devices, slowness, KeyboardPort
<1>2. CASE FlushRead
  <2>1. /\ pc \in {2, 23} /\ pc' = pc - 1
        /\ UNCHANGED <<config, expects, value, answer, kbdQueue, auxQueue, configured>>
    BY <1>2, Where DEF FlushRead, Goto, devices, slowness
  <2>2. obf' = [obf EXCEPT !.full = FALSE]
    BY <1>2 DEF FlushRead, ReadPort
  <2>3. obf' \in [full : BOOLEAN, data : Nat, aux : BOOLEAN]
    BY <2>2
  <2> QED
    BY <2>1, <2>3 DEF KeyboardPort
<1>3. CASE Command
  <2>1. pc' = pc + 1 /\ UNCHANGED <<obf, value, kbdQueue, auxQueue, configured>>
    BY <1>3 DEF Command, Goto, devices, slowness
  <2>2. CASE pc = 3 /\ arg = 168
    <3>1. config' = ClearBit(config, 5) /\ UNCHANGED answer
      BY <1>3, <2>2 DEF Command
    <3>2. config' \in Nat
      BY <3>1, AnyBits
    <3> QED
      BY <2>1, <2>2, <3>1, <3>2 DEF KeyboardPort
  <2>3. CASE pc \in {4, 24, 30} /\ arg = 32
    <3>1. answer' = Append(answer, config) /\ UNCHANGED config
      BY <1>3, <2>3 DEF Command
    <3> QED
      BY <2>1, <2>3, <3>1 DEF KeyboardPort
  <2>4. CASE pc \in {9, 28, 35} /\ arg = 96
    <3>1. UNCHANGED <<answer, config>> /\ expects' = "config"
      BY <1>3, <2>4 DEF Command
    <3> QED
      BY <2>1, <2>4, <3>1 DEF KeyboardPort
  <2>5. CASE pc \in {11, 15} /\ arg = 212
    <3>1. UNCHANGED <<answer, config>>
      BY <1>3, <2>5 DEF Command
    <3> QED
      BY <2>1, <2>5, <3>1 DEF KeyboardPort
  <2> QED
    BY <1>3, <2>2, <2>3, <2>4, <2>5, Where
<1>12. ASSUME NEW b \in Nat, WriteData(b)
       PROVE  /\ config' \in Nat /\ kbdQueue' \in Seq(Nat) /\ auxQueue' \in Seq(Nat)
              /\ pc' = pc + 1 /\ expects' = "kbd" /\ UNCHANGED <<obf, value, answer>>
              /\ expects = "config" => config' = b
              /\ expects = "kbd" => UNCHANGED config
  <2>1. <<ACK>> \in Seq(Nat) /\ <<>> \in Seq(Nat)
    BY DEF ACK
  <2>2. CASE expects = "config"
    <3>1. config' = b /\ UNCHANGED <<kbdQueue, auxQueue>>
      BY <1>12, <2>2 DEF WriteData, ToConfig, devices
    <3> QED
      BY <1>12, <2>2, <3>1 DEF WriteData, Goto
  <2>3. CASE expects # "config"
    <3>1. kbdQueue' \in {kbdQueue, <<ACK>>} /\ auxQueue' \in {auxQueue, <<ACK>>, <<>>} /\ UNCHANGED config
      BY <1>12, <2>3 DEF WriteData, ToMouse, ToKeyboard
    <3> QED
      BY <1>12, <2>1, <2>3, <3>1 DEF WriteData, Goto
  <2> QED
    BY <2>2, <2>3
<1>4. CASE Data
  <2>1. pc \in {12, 16, 37} /\ arg \in Nat /\ WriteData(arg) /\ UNCHANGED configured
    BY <1>4, Where DEF Data
  <2>2. /\ config' \in Nat /\ kbdQueue' \in Seq(Nat) /\ auxQueue' \in Seq(Nat)
        /\ pc' = pc + 1 /\ expects' = "kbd" /\ UNCHANGED <<obf, value, answer>>
        /\ expects = "kbd" => UNCHANGED config
    BY <1>12, <2>1
  <2> QED
    BY <2>1, <2>2 DEF KeyboardPort, Opened
<1>5. CASE DataValue
  <2>1. pc \in {10, 29, 36} /\ WriteData(value) /\ configured' = TRUE
    BY <1>5, Where DEF DataValue
  <2>2. /\ config' \in Nat /\ kbdQueue' \in Seq(Nat) /\ auxQueue' \in Seq(Nat)
        /\ pc' = pc + 1 /\ expects' = "kbd" /\ UNCHANGED <<obf, value, answer>>
        /\ expects = "config" => config' = value
    BY <1>12, <2>1
  <2> QED
    BY <2>1, <2>2 DEF KeyboardPort, Opened
<1>13. CASE NotReady
  <2>1. /\ UNCHANGED <<obf, config, expects, answer, kbdQueue, auxQueue>>
        /\ value' \in {0, value} /\ (arg # 32 => value' = value)
        /\ configured' = (configured /\ arg # 96)
    BY <1>13 DEF NotReady, devices
  <2>2. \/ pc = 3 /\ arg = 168 /\ pc' = pc + 1
        \/ pc \in {4, 24, 30} /\ arg = 32 /\ pc' = pc + 3
        \/ pc \in {9, 28, 35} /\ arg = 96 /\ pc' = pc + 2
        \/ pc \in {10, 29, 36} /\ arg = 96 /\ pc' = pc + 1
        \/ pc \in {11, 15} /\ arg = 212 /\ pc' = pc + 4
        \/ pc = 12 /\ arg = 246 /\ pc' = pc + 3
        \/ pc \in {16, 37} /\ arg = 244 /\ pc' = pc + 3
    BY <1>13, Where
  <2>7. pc' \in {4, 7, 27, 33, 11, 30, 37, 15, 19, 40}
    <3>1. \/ pc = 3 /\ pc' = pc + 1
          \/ pc \in {4, 24, 30} /\ pc' = pc + 3
          \/ pc \in {9, 28, 35} /\ pc' = pc + 2
          \/ pc \in {10, 29, 36} /\ pc' = pc + 1
          \/ pc \in {11, 15} /\ pc' = pc + 4
          \/ pc \in {12, 16, 37} /\ pc' = pc + 3
      BY <2>2
    <3> HIDE DEF PortType
    <3> QED
      BY <3>1
  <2>3. PortType'
    BY <2>1, <2>7
  <2>4. pc' \notin {34, 35, 36, 10, 29}
    BY <2>7
  <2>5. ASSUME pc' >= 37, configured' PROVE Opened(config) /\ expects = "kbd"
    <3>1. arg # 96 /\ configured
      BY <2>1, <2>5
    <3>2. pc = 37
      BY <2>2, <2>5, <3>1
    <3> QED
      BY <3>1, <3>2 DEF KeyboardPort
  <2>6. KeyboardPort'
    BY <2>1, <2>4, <2>5 DEF KeyboardPort, Opened
  <2> QED
    BY <2>3, <2>6
<1>6. CASE Poll
  BY <1>6, Where DEF Poll, Goto, devices, slowness, KeyboardPort
<1>7. CASE PollTimeout
  BY <1>7, Where DEF PollTimeout, Goto, devices, KeyboardPort
<1>8. CASE Read
  <2>1. /\ pc \in {6, 14, 18, 26, 32, 39} /\ pc' = pc + 1 /\ value' = obf.data
        /\ UNCHANGED <<config, expects, answer, kbdQueue, auxQueue, configured>>
    BY <1>8, Where DEF Read, Goto, devices, slowness
  <2>2. obf' = [obf EXCEPT !.full = FALSE]
    BY <1>8 DEF Read, ReadPort
  <2>3. obf' \in [full : BOOLEAN, data : Nat, aux : BOOLEAN]
    BY <2>2
  <2> QED
    BY <2>1, <2>3 DEF KeyboardPort
<1>9. CASE Compute
  <2>1. pc' = pc + 1 /\ UNCHANGED <<obf, config, expects, answer, kbdQueue, auxQueue, configured>>
    BY <1>9 DEF Compute, Goto, devices, slowness
  <2>2. /\ pc \in {7, 8, 27, 33, 34} /\ value' \in Nat
        /\ pc = 33 => value' = SetBit(value, 0)
        /\ pc = 34 => value' = ClearBit(value, 4)
    <3>1. \/ pc \in {7, 27, 33} /\ \E i \in {0, 1, 6} : value' = SetBit(value, i)
          \/ pc \in {8, 34} /\ \E i \in {4, 5} : value' = ClearBit(value, i)
      BY <1>9, Where
    <3>2. value' \in Nat
      BY <3>1, AnyBits
    <3> QED
      BY <1>9, <3>1, <3>2, Where
  <2>3. /\ pc = 33 => Bit(value', 0)
        /\ pc = 34 => ~Bit(value', 4) /\ (Bit(value, 0) => Bit(value', 0))
    BY <2>2, AnyBits
  <2> QED
    BY <2>1, <2>2, <2>3 DEF KeyboardPort, Opened
<1>10. CASE i686_IRQ_RegisterHandler
  BY <1>10, Where DEF i686_IRQ_RegisterHandler, Goto, devices, slowness, KeyboardPort
<1>11. CASE i8259_Unmask
  BY <1>11, Where DEF i8259_Unmask, Goto, devices, slowness, KeyboardPort
<1> QED
  BY <1>1, <1>2, <1>3, <1>4, <1>5, <1>6, <1>7, <1>8, <1>9, <1>10, <1>11, <1>13 DEF Install

LEMMA PortNext ==
  ASSUME PortType, KeyboardPort, [Next]_vars
  PROVE  PortType' /\ KeyboardPort'
<1> USE DEF PortType
<1>1. ASSUME NEW irq \in {1, 12}, Unhandled(irq) PROVE PortType' /\ KeyboardPort'
  BY <1>1 DEF Unhandled, controller, devices, program, slowness, KeyboardPort
<1>2. CASE keyboard_handler
  BY <1>2 DEF keyboard_handler, devices, program, slowness, KeyboardPort
<1>3. CASE mouse_handler
  BY <1>3 DEF mouse_handler, devices, program, slowness, KeyboardPort
<1>4. CASE TransferAnswer
  BY <1>4 DEF TransferAnswer, Fill, devices, program, slowness, KeyboardPort
<1>5. CASE TransferKbd
  BY <1>5 DEF TransferKbd, Fill, program, slowness, KeyboardPort
<1>6. CASE TransferAux
  BY <1>6 DEF TransferAux, Fill, program, slowness, KeyboardPort
<1>7. CASE PressKey
  BY <1>7 DEF PressKey, controller, program, slowness, KeyboardPort, Key
<1>8. CASE MoveMouse
  BY <1>8 DEF MoveMouse, controller, program, slowness, KeyboardPort, Movement
<1>9. CASE UNCHANGED vars
  BY <1>9 DEF vars, controller, devices, program, slowness, KeyboardPort
<1> QED
  BY <1>1, <1>2, <1>3, <1>4, <1>5, <1>6, <1>7, <1>8, <1>9, InstallPort
     DEF Next, TakeInterrupt, Running

LEMMA PortAlways == Spec => [](PortType /\ KeyboardPort)
BY PortInit, PortNext, PTL DEF Spec

(* Whatever is typed and moved before, between and after the two installs, *)
(* and whichever waits end in vain, the keyboard's port is open and        *)
(* interrupts when both have ended, if the last command byte went out.     *)
THEOREM KeyboardPortOpens == Spec => []KeyboardPortReady
<1>1. PortType /\ KeyboardPort => KeyboardPortReady
  BY ProgramSteps DEF PortType, KeyboardPort, Opened, KeyboardPortReady, Installed
<1> QED
  BY <1>1, PortAlways, PTL

-----------------------------------------------------------------------------
(* A line is latched only for the byte that lies in the output buffer, and *)
(* handlers are there only after their installs have put them there.       *)

Latched == irr \subseteq {Line(obf.aux)} /\ (irr # {} => obf.full)
Handled == (12 \in handlers => pc >= 20) /\ (1 \in handlers => pc >= 41)

LEMMA HeadIsNat ==
  ASSUME NEW s \in Seq(Nat), s # <<>>
  PROVE  Head(s) \in Nat
OBVIOUS

LEMMA LatchedNext ==
  ASSUME PortType, Latched, [Next]_vars
  PROVE  Latched'
<1>1. CASE UNCHANGED <<irr, obf>>
  BY <1>1 DEF Latched
<1>2. ASSUME obf' = [obf EXCEPT !.full = FALSE], irr' \subseteq irr \ {Line(obf.aux)} PROVE Latched'
  BY <1>2 DEF Latched, PortType
<1>3. ASSUME NEW byte \in Nat, NEW aux \in BOOLEAN, ~obf.full, Fill(byte, aux) PROVE Latched'
  <2>1. obf' = [full |-> TRUE, data |-> byte, aux |-> aux] /\ irr' \in {irr, irr \cup {Line(aux)}}
    BY <1>3 DEF Fill
  <2>2. obf'.full /\ obf'.aux = aux /\ irr = {}
    BY <1>3, <2>1 DEF Latched
  <2> QED
    BY <2>1, <2>2 DEF Latched
<1>4. CASE Data \/ DataValue
  <2>1. PICK b : WriteData(b)
    BY <1>4 DEF Data, DataValue
  <2>2. UNCHANGED obf
    BY <2>1 DEF WriteData
  <2>3. CASE expects = "config"
    <3>1. irr' = IF obf.full /\ Enabled(b, obf.aux) /\ ~Enabled(config, obf.aux)
                THEN irr \cup {Line(obf.aux)} ELSE irr
      BY <2>1, <2>3 DEF WriteData, ToConfig
    <3> QED
      BY <2>2, <3>1 DEF Latched
  <2>4. CASE expects # "config"
    <3>1. UNCHANGED irr
      BY <2>1, <2>4 DEF WriteData, ToMouse, ToKeyboard
    <3> QED
      BY <1>1, <2>2, <3>1
  <2> QED
    BY <2>3, <2>4
<1>5. CASE Install
  BY <1>1, <1>2, <1>4, <1>5 DEF Install, FlushPoll, FlushRead, Command, NotReady, Poll, PollTimeout, Read,
     ReadPort, Compute, i686_IRQ_RegisterHandler, i8259_Unmask, lines
<1>6. ASSUME NEW irq \in {1, 12}, Unhandled(irq) PROVE Latched'
  BY <1>6 DEF Unhandled, controller, Latched
<1>7. CASE keyboard_handler \/ mouse_handler
  BY <1>2, <1>7 DEF keyboard_handler, mouse_handler
<1>8. CASE TransferAnswer
  <2>1. ~obf.full /\ Head(answer) \in Nat /\ Fill(Head(answer), FALSE)
    BY <1>8, HeadIsNat DEF TransferAnswer, PortType
  <2> QED
    BY <1>3, <2>1
<1>9. CASE TransferKbd
  <2>1. ~obf.full /\ Head(kbdQueue) \in Nat /\ Fill(Head(kbdQueue), FALSE)
    BY <1>9, HeadIsNat DEF TransferKbd, PortType
  <2> QED
    BY <1>3, <2>1
<1>10. CASE TransferAux
  <2>1. ~obf.full /\ Head(auxQueue) \in Nat /\ Fill(Head(auxQueue), TRUE)
    BY <1>10, HeadIsNat DEF TransferAux, PortType
  <2> QED
    BY <1>3, <2>1
<1>11. CASE PressKey \/ MoveMouse \/ UNCHANGED vars
  BY <1>1, <1>11 DEF PressKey, MoveMouse, vars, controller, lines
<1> QED
  BY <1>5, <1>6, <1>7, <1>8, <1>9, <1>10, <1>11 DEF Next, TakeInterrupt, Running

LEMMA HandledNext ==
  ASSUME PortType, Handled, [Next]_vars
  PROVE  Handled'
<1>1. CASE UNCHANGED <<handlers, pc>>
  BY <1>1 DEF Handled
<1>2. CASE i686_IRQ_RegisterHandler
  BY <1>2, Where DEF i686_IRQ_RegisterHandler, Goto, Handled
<1>3. CASE FlushRead
  BY <1>3, Where DEF FlushRead, Goto, Handled
<1>4. ASSUME UNCHANGED handlers, pc' \in {pc + 1, pc + 2, pc + 3, pc + 4} PROVE Handled'
  BY <1>4 DEF Handled, PortType
<1>6. CASE NotReady
  <2>1. UNCHANGED handlers
    BY <1>6 DEF NotReady, lines
  <2> QED
    BY <1>4, <1>6, <2>1, Where
<1>5. CASE Install
  BY <1>2, <1>3, <1>4, <1>5, <1>6 DEF Install, FlushPoll, Command, Data, DataValue, WriteData, Poll, PollTimeout, Read,
     Compute, i8259_Unmask, lines, Goto
<1> QED
  BY <1>1, <1>5 DEF Next, TakeInterrupt, Unhandled, keyboard_handler, mouse_handler, TransferAnswer,
     TransferKbd, TransferAux, PressKey, MoveMouse, Running, vars, lines, program

Still == {3, 4, 7, 8, 9, 10, 11, 12, 15, 16, 19, 20, 21, 22, 24, 27, 28, 29, 30, 33, 34, 35, 36, 37,
          40, 41}

(* No byte of the user's lies anywhere before the installs have ended.     *)
Clear        == ~obf.full /\ answer = <<>> /\ kbdQueue = <<>> /\ auxQueue = <<>>
Here(b, aux) == /\ obf.full /\ obf.data = b /\ obf.aux = aux
                /\ answer = <<>> /\ kbdQueue = <<>> /\ auxQueue = <<>>
Answered(b)  == ~obf.full /\ answer = <<b>> /\ kbdQueue = <<>> /\ auxQueue = <<>>
KbdSent      == ~obf.full /\ answer = <<>> /\ kbdQueue = <<ACK>> /\ auxQueue = <<>>
AuxSent      == ~obf.full /\ answer = <<>> /\ kbdQueue = <<>> /\ auxQueue = <<ACK>>

(* Each byte on its way is the answer that the step at hand waits for ...  *)
Traffic ==
  /\ pc = 1          => Clear \/ Here(Key, FALSE)
  /\ pc = 2          => Here(Key, FALSE)
  /\ pc = 5          => Answered(config) \/ Here(config, FALSE)
  /\ pc = 6          => Here(config, FALSE)
  /\ pc \in {13, 17} => IF plugged THEN AuxSent \/ Here(ACK, TRUE) ELSE Clear
  /\ pc \in {14, 18} => Here(ACK, TRUE)
  /\ pc \in {25, 31} => Answered(67) \/ Here(67, FALSE)
  /\ pc \in {26, 32} => Here(67, FALSE)
  /\ pc = 38         => KbdSent \/ Here(ACK, FALSE)
  /\ pc = 39         => Here(ACK, FALSE)
  /\ pc \in Still    => Clear

(* ... so that the command byte goes from 0x61 to 0x43, by 0x41 if 0xA8    *)
(* was taken.  A command to the mouse that was not taken may leave the     *)
(* controller expecting a byte for the mouse until the next 0x60.          *)
Bytes ==
  /\ config \in IF pc <= 3 THEN {97} ELSE IF pc <= 10 THEN {65, 97} ELSE {67}
  /\ pc = 7 => value = config
  /\ pc = 8 => value \in {67, 99}
  /\ pc \in {9, 10, 27, 28, 29, 33, 34, 35, 36} => value = 67
  /\ pc \in {10, 29, 36} => expects = "config"
  /\ pc \in {12, 16} => expects = "aux"
  /\ pc <= 9 \/ pc \in {11, 30, 31, 32, 33, 34, 35} \/ pc >= 37 => expects = "kbd"
  /\ pc # 23

LEMMA StillTraffic ==
  ASSUME Clear', pc' \in Still \cup {1}
  PROVE  Traffic'
<1>1. pc' \notin {2, 5, 6, 13, 14, 17, 18, 25, 26, 31, 32, 38, 39}
  BY DEF Still
<1> QED
  BY <1>1 DEF Traffic

LEMMA WasClear ==
  ASSUME Traffic, pc \in Still
  PROVE  Clear
BY DEF Traffic

LEMMA InstallWaits ==
  ASSUME PortType, Traffic, Bytes, Install, prompt'
  PROVE  Traffic' /\ Bytes'
<1> USE DEF PortType
<1>1. CASE FlushPoll
  <2>1. pc \in {1, 22} /\ pc' = IF obf.full THEN pc + 1 ELSE pc + 2
    BY <1>1, Where DEF FlushPoll, Goto
  <2>2. UNCHANGED <<obf, config, expects, answer, kbdQueue, auxQueue, value>>
    BY <1>1 DEF FlushPoll, devices
  <2> QED
    BY <2>1, <2>2 DEF Traffic, Bytes, Clear, Here, Still
<1>2. CASE FlushRead
  <2>1. pc = 2 /\ pc' = 1
    BY <1>2, Where DEF FlushRead, Goto, Bytes
  <2>2. obf' = [obf EXCEPT !.full = FALSE] /\ UNCHANGED <<config, expects, answer, kbdQueue, auxQueue, value>>
    BY <1>2 DEF FlushRead, ReadPort, devices
  <2>3. ~obf'.full
    BY <2>2
  <2> QED
    BY <2>1, <2>2, <2>3 DEF Traffic, Bytes, Clear, Here, Still
<1>3. CASE Command
  <2>1. pc' = pc + 1 /\ UNCHANGED <<obf, kbdQueue, auxQueue, value>>
    BY <1>3 DEF Command, Goto, devices
  <2>2. CASE pc = 3 /\ arg = 168
    <3>1. config' = 65 /\ UNCHANGED <<answer, expects>>
      BY <1>3, <2>2, OurBits DEF Command, Bytes
    <3> QED
      BY <2>1, <2>2, <3>1 DEF Traffic, Bytes, Clear, Still
  <2>3. CASE pc \in {4, 24, 30} /\ arg = 32
    <3>0. answer' = Append(answer, config) /\ UNCHANGED <<config, expects>>
      BY <1>3, <2>3 DEF Command
    <3>2. Clear
      BY <2>3, WasClear DEF Still
    <3>1. answer' = <<config>> /\ UNCHANGED <<config, expects>>
      BY <3>0, <3>2 DEF Clear
    <3>3. Bytes'
      BY <2>1, <2>3, <3>1 DEF Bytes
    <3>4. CASE pc = 4
      <4>1. pc' = 5 /\ Answered(config)'
        BY <2>1, <3>1, <3>2, <3>4 DEF Clear, Answered, Bytes
      <4>2. pc' \notin {1, 2, 6, 13, 14, 17, 18, 25, 26, 31, 32, 38, 39} \cup Still
        BY <4>1 DEF Still
      <4> QED
        BY <3>3, <4>1, <4>2 DEF Traffic
    <3>5. CASE pc \in {24, 30}
      <4>1. pc' \in {25, 31} /\ Answered(67)'
        BY <2>1, <3>1, <3>2, <3>5 DEF Clear, Answered, Bytes
      <4>2. pc' \notin {1, 2, 5, 6, 13, 14, 17, 18, 26, 32, 38, 39} \cup Still
        BY <4>1 DEF Still
      <4> QED
        BY <3>3, <4>1, <4>2 DEF Traffic
    <3> QED
      BY <2>3, <3>4, <3>5
  <2>4. CASE pc \in {9, 28, 35} /\ arg = 96
    <3>1. expects' = "config" /\ UNCHANGED <<answer, config>>
      BY <1>3, <2>4 DEF Command
    <3>2. Clear'
      BY <2>1, <2>4, <3>1, WasClear DEF Still, Clear
    <3>3. Traffic'
      BY <2>1, <2>4, <3>2, StillTraffic DEF Still
    <3> QED
      BY <2>1, <2>4, <3>1, <3>3 DEF Bytes
  <2>5. CASE pc \in {11, 15} /\ arg = 212
    <3>1. expects' = "aux" /\ UNCHANGED <<answer, config>>
      BY <1>3, <2>5 DEF Command
    <3>2. Clear'
      BY <2>1, <2>5, <3>1, WasClear DEF Still, Clear
    <3>3. Traffic'
      BY <2>1, <2>5, <3>2, StillTraffic DEF Still
    <3> QED
      BY <2>1, <2>5, <3>1, <3>3 DEF Bytes
  <2> QED
    BY <1>3, <2>2, <2>3, <2>4, <2>5, Where
<1>4. CASE Data
  <2>1. pc \in {12, 16, 37} /\ WriteData(arg)
    BY <1>4, Where DEF Data
  <2>2. pc' = pc + 1 /\ expects' = "kbd" /\ UNCHANGED <<obf, value, answer, plugged>>
    BY <2>1 DEF WriteData, Goto, input
  <2>3. CASE pc \in {12, 16}
    <3>1. auxQueue' = (IF plugged THEN <<ACK>> ELSE <<>>) /\ UNCHANGED <<kbdQueue, config>>
      BY <2>1, <2>3 DEF WriteData, ToMouse, Bytes
    <3>2. Clear
      BY <2>3, WasClear DEF Still
    <3>3. IF plugged' THEN AuxSent' ELSE Clear'
      BY <2>2, <3>1, <3>2 DEF Clear, AuxSent
    <3>4. pc' \in {13, 17} /\ pc' \notin {1, 2, 5, 6, 14, 18, 25, 26, 31, 32, 38, 39} \cup Still
      BY <2>2, <2>3 DEF Still
    <3>5. Traffic'
      BY <3>3, <3>4 DEF Traffic
    <3>6. Bytes'
      BY <2>2, <2>3, <3>1, <3>4 DEF Bytes
    <3> QED
      BY <3>5, <3>6
  <2>4. CASE pc = 37
    <3>1. kbdQueue' = <<ACK>> /\ UNCHANGED <<auxQueue, config>>
      BY <2>1, <2>4 DEF WriteData, ToKeyboard, Bytes
    <3>2. Clear
      BY <2>4, WasClear DEF Still
    <3>3. KbdSent' /\ pc' = 38
      BY <2>2, <2>4, <3>1, <3>2 DEF Clear, KbdSent
    <3>4. Traffic'
      BY <3>3 DEF Traffic, Still
    <3>5. Bytes'
      BY <2>2, <2>4, <3>1 DEF Bytes
    <3> QED
      BY <3>4, <3>5
  <2> QED
    BY <2>1, <2>3, <2>4
<1>5. CASE DataValue
  <2>1. pc \in {10, 29, 36} /\ WriteData(value)
    BY <1>5, Where DEF DataValue
  <2>2. pc' = pc + 1 /\ expects' = "kbd" /\ UNCHANGED <<obf, answer, value>>
    BY <2>1 DEF WriteData, Goto
  <2>3. config' = value /\ UNCHANGED <<kbdQueue, auxQueue>>
    BY <2>1 DEF WriteData, ToConfig, devices, Bytes
  <2>4. Clear'
    BY <2>1, <2>2, <2>3, WasClear DEF Still, Clear
  <2>5. Traffic'
    BY <2>1, <2>2, <2>4, StillTraffic DEF Still
  <2> QED
    BY <2>1, <2>2, <2>3, <2>5 DEF Bytes
<1>11. CASE NotReady
  <2>1. /\ UNCHANGED <<obf, config, expects, answer, kbdQueue, auxQueue>>
        /\ arg \notin {32, 96}
    BY <1>11 DEF NotReady, devices
  <2>2. \/ pc = 3 /\ pc' = 4
        \/ pc \in {11, 12} /\ pc' = 15
        \/ pc \in {15, 16} /\ pc' = 19
        \/ pc = 37 /\ pc' = 40
    BY <1>11, <2>1, Where
  <2>3. pc \in Still /\ pc' \in Still
    BY <2>2 DEF Still
  <2>4. Clear'
    BY <2>1, <2>3, WasClear DEF Clear
  <2>5. Traffic'
    BY <2>3, <2>4, StillTraffic
  <2>6. UNCHANGED <<config, expects>>
    BY <2>1
  <2>7. ASSUME pc = 3, pc' = 4 PROVE Bytes'
    <3>1. config = 97 /\ expects = "kbd"
      BY <2>7 DEF Bytes
    <3> QED
      BY <2>6, <2>7, <3>1 DEF Bytes
  <2>8. ASSUME pc \in {11, 12, 15, 16}, pc' \in {15, 19} PROVE Bytes'
    <3>1. config = 67
      BY <2>8 DEF Bytes
    <3> QED
      BY <2>6, <2>8, <3>1 DEF Bytes
  <2>9. ASSUME pc = 37, pc' = 40 PROVE Bytes'
    <3>1. config = 67 /\ expects = "kbd"
      BY <2>9 DEF Bytes
    <3> QED
      BY <2>6, <2>9, <3>1 DEF Bytes
  <2> QED
    BY <2>2, <2>5, <2>7, <2>8, <2>9
<1>6. CASE Poll
  <2>1. pc \in {5, 13, 17, 25, 31, 38} /\ pc' = pc + 1 /\ obf.full
    BY <1>6, Where DEF Poll, Goto
  <2>2. UNCHANGED <<obf, config, expects, answer, kbdQueue, auxQueue, value>>
    BY <1>6 DEF Poll, devices
  <2> QED
    BY <2>1, <2>2 DEF Traffic, Bytes, Clear, Here, Answered, KbdSent, AuxSent, Still
<1>7. CASE PollTimeout
  <2>1. pc \in {5, 13, 17, 25, 31, 38} /\ pc' = pc + 2 /\ ~obf.full /\ answer = <<>>
    BY <1>7, Where DEF PollTimeout, OnItsWay, Goto
  <2>2. UNCHANGED <<obf, config, expects, answer, kbdQueue, auxQueue>>
    BY <1>7 DEF PollTimeout, devices
  <2>3. (kbdQueue = <<>> \/ Bit(config, 4)) /\ (auxQueue = <<>> \/ Bit(config, 5))
    BY <1>7 DEF PollTimeout, OnItsWay
  <2>4. <<ACK>> # <<>> /\ <<config>> # <<>> /\ <<67>> # <<>>
    OBVIOUS
  <2>5. (pc \in {5, 25, 31} => FALSE) /\ (pc = 38 => FALSE) /\ (pc \in {13, 17} => Clear)
    <3>1. pc \in {5, 25, 31} => FALSE
      BY <2>1, <2>4 DEF Traffic, Here, Answered
    <3>2. pc = 38 => FALSE
      <4>1. pc = 38 => config = 67
        BY DEF Bytes
      <4> QED
        BY <2>1, <2>3, <2>4, <4>1, OurBits DEF Traffic, Here, KbdSent
    <3>3. pc \in {13, 17} => config = 67
      BY DEF Bytes
    <3>4. pc \in {13, 17} => Clear
      BY <2>1, <2>3, <2>4, <3>3, OurBits DEF Traffic, Here, AuxSent
    <3> QED
      BY <3>1, <3>2, <3>4
  <2>6. pc \in {13, 17} /\ Clear'
    BY <2>1, <2>2, <2>5 DEF Clear
  <2>7. Traffic'
    BY <2>1, <2>6, StillTraffic DEF Still
  <2> QED
    BY <2>1, <2>2, <2>6, <2>7 DEF Bytes
<1>8. CASE Read
  <2>1. pc \in {6, 14, 18, 26, 32, 39} /\ pc' = pc + 1 /\ value' = obf.data
    BY <1>8, Where DEF Read, Goto
  <2>2. obf' = [obf EXCEPT !.full = FALSE] /\ UNCHANGED <<config, expects, answer, kbdQueue, auxQueue>>
    BY <1>8 DEF Read, ReadPort, devices
  <2>3. ~obf'.full
    BY <2>2
  <2>4. answer = <<>> /\ kbdQueue = <<>> /\ auxQueue = <<>>
    BY <2>1 DEF Traffic, Here
  <2>5. (pc = 6 => value' = config) /\ (pc \in {26, 32} => value' = 67)
    BY <2>1 DEF Traffic, Here
  <2>6. Clear'
    BY <2>2, <2>3, <2>4 DEF Clear
  <2>7. Traffic'
    BY <2>1, <2>6, StillTraffic DEF Still
  <2>8. pc' \in {7, 15, 19, 27, 33, 40} /\ (pc' = 7 <=> pc = 6) /\ (pc' \in {27, 33} <=> pc \in {26, 32})
    BY <2>1
  <2>9. /\ UNCHANGED <<config, expects>>
        /\ pc = 6 => config \in {65, 97} /\ expects = "kbd"
        /\ pc # 6 => config = 67
        /\ pc \in {32, 39} => expects = "kbd"
    <3>1. pc = 6 => config \in {65, 97} /\ expects = "kbd"
      BY DEF Bytes
    <3>2. pc \in {14, 18, 26, 32, 39} => config = 67
      BY DEF Bytes
    <3>3. pc \in {32, 39} => expects = "kbd"
      BY DEF Bytes
    <3> QED
      BY <2>1, <2>2, <3>1, <3>2, <3>3
  <2>10. Bytes'
    BY <2>1, <2>5, <2>9 DEF Bytes
  <2> QED
    BY <2>7, <2>10
<1>9. CASE Compute
  <2>1. pc \in {7, 8, 27, 33, 34} /\ pc' = pc + 1
    BY <1>9, Where DEF Compute, Goto
  <2>5. IF pc = 7 THEN value' \in {67, 99} ELSE value' = 67
    <3>1. pc = 7 => value' = SetBit(value, 1) /\ value \in {65, 97}
      BY <1>9, Where DEF Bytes
    <3>2. pc = 8 => value' = ClearBit(value, 5) /\ value \in {67, 99}
      BY <1>9, Where DEF Bytes
    <3>3. pc \in {27, 33, 34} => value = 67
      BY DEF Bytes
    <3>4. /\ pc = 27 => value' = SetBit(value, 6)
          /\ pc = 33 => value' = SetBit(value, 0)
          /\ pc = 34 => value' = ClearBit(value, 4)
      BY <1>9, Where
    <3> QED
      BY <2>1, <3>1, <3>2, <3>3, <3>4, OurBits
  <2>2. UNCHANGED <<obf, config, expects, answer, kbdQueue, auxQueue>>
    BY <1>9 DEF Compute, devices
  <2>3. Clear'
    BY <2>1, <2>2, WasClear DEF Still, Clear
  <2>4. Traffic'
    BY <2>1, <2>3, StillTraffic DEF Still
  <2> QED
    BY <2>1, <2>2, <2>4, <2>5 DEF Bytes
<1>10. CASE i686_IRQ_RegisterHandler \/ i8259_Unmask
  <2>1. pc \in {19, 20, 21, 40, 41} /\ pc' = pc + 1
    BY <1>10, Where DEF i686_IRQ_RegisterHandler, i8259_Unmask, Goto
  <2>2. UNCHANGED <<obf, config, expects, answer, kbdQueue, auxQueue, value>>
    BY <1>10 DEF i686_IRQ_RegisterHandler, i8259_Unmask, devices
  <2>3. Clear'
    BY <2>1, <2>2, WasClear DEF Still, Clear
  <2>4. Traffic'
    <3>1. CASE pc = 41
      BY <2>1, <3>1 DEF Traffic, Still
    <3>2. CASE pc # 41
      BY <2>1, <2>3, <3>2, StillTraffic DEF Still
    <3> QED
      BY <3>1, <3>2
  <2> QED
    BY <2>1, <2>2, <2>4 DEF Bytes
<1> QED
  BY <1>1, <1>2, <1>3, <1>4, <1>5, <1>6, <1>7, <1>8, <1>9, <1>10, <1>11 DEF Install

LEMMA WhereItIs ==
  ASSUME PortType, Bytes, pc <= 41
  PROVE  pc \in {1, 2, 5, 6, 13, 14, 17, 18, 25, 26, 31, 32, 38, 39} \cup Still
BY DEF PortType, Bytes, Still

(* No handler runs before the installs have ended.                         *)
LEMMA HandlersRun ==
  ASSUME PortType, Latched, Handled, Traffic, Bytes, keyboard_handler \/ mouse_handler
  PROVE  pc = 42
<1>1. CASE keyboard_handler
  <2>1. 1 \in handlers /\ 1 \in irr
    BY <1>1 DEF keyboard_handler, Deliverable
  <2>2. pc \in {41, 42} /\ obf.full
    BY <2>1 DEF Handled, Latched, PortType
  <2> QED
    BY <2>2 DEF Traffic, Still, Clear
<1>2. CASE mouse_handler
  <2>1. 12 \in handlers /\ 12 \in irr
    BY <1>2 DEF mouse_handler, Deliverable
  <2>2. pc \in 20..42 /\ obf.full /\ obf.aux
    BY <2>1 DEF Handled, Latched, PortType, Line
  <2>3. pc \notin Still
    BY <2>2, WasClear DEF Clear
  <2>4. pc \notin {25, 26, 31, 32, 38, 39}
    BY <2>2 DEF Traffic, Here, Answered, KbdSent
  <2>5. pc > 18
    BY <2>2
  <2> QED
    BY <2>2, <2>3, <2>4, <2>5, WhereItIs DEF PortType
<1> QED
  BY <1>1, <1>2

(* The controller and the devices send only what is waited for.            *)
LEMMA OthersWait ==
  ASSUME PortType, Latched, Handled, Traffic, Bytes, pc <= 41, [Next]_vars, ~Install, ~PressKey, ~MoveMouse
  PROVE  Traffic' /\ Bytes'
<1> USE DEF PortType
<1>1. ASSUME UNCHANGED <<obf, config, expects, answer, kbdQueue, auxQueue, value, pc, plugged>>
      PROVE  Traffic' /\ Bytes'
  BY <1>1 DEF Traffic, Bytes, Clear, Here, Answered, KbdSent, AuxSent
<1>2. ASSUME NEW irq \in {1, 12}, Unhandled(irq) PROVE Traffic' /\ Bytes'
  BY <1>1, <1>2 DEF Unhandled, controller, devices, program, input
<1>3. ~keyboard_handler /\ ~mouse_handler
  BY HandlersRun
<1>4. CASE TransferAnswer
  <2>1. /\ ~obf.full /\ answer # <<>> /\ answer' = Tail(answer)
        /\ obf' = [full |-> TRUE, data |-> Head(answer), aux |-> FALSE]
        /\ UNCHANGED <<config, expects, kbdQueue, auxQueue, value, pc, plugged>>
    BY <1>4 DEF TransferAnswer, Fill, devices, program, input
  <2>2. (pc = 5 /\ Answered(config)) \/ (pc \in {25, 31} /\ Answered(67))
    <3>1. pc \notin Still
      BY <2>1, WasClear DEF Clear
    <3>2. pc \notin {1, 2, 6, 13, 14, 17, 18, 26, 32, 38, 39}
      BY <2>1 DEF Traffic, Clear, Here, KbdSent, AuxSent
    <3>3. pc \in {5, 25, 31}
      BY <3>1, <3>2, WhereItIs
    <3> QED
      BY <2>1, <3>3 DEF Traffic, Here
  <2>3. ASSUME NEW b, Answered(b) PROVE Here(b, FALSE)'
    <3>1. Head(answer) = b /\ Tail(answer) = <<>> /\ kbdQueue = <<>> /\ auxQueue = <<>>
      BY <2>3 DEF Answered
    <3> QED
      BY <2>1, <2>3, <3>1 DEF Here
  <2>4. CASE pc = 5
    <3>0. Answered(config) /\ config' = config
      BY <2>1, <2>2, <2>4
    <3>1. pc' = 5 /\ Here(config, FALSE)'
      BY <2>1, <2>3, <2>4, <3>0
    <3>2. pc' \notin {1, 2, 6, 13, 14, 17, 18, 25, 26, 31, 32, 38, 39} \cup Still
      BY <3>1 DEF Still
    <3>3. Traffic'
      BY <3>1, <3>2 DEF Traffic
    <3> QED
      BY <2>1, <3>3 DEF Bytes
  <2>5. CASE pc \in {25, 31}
    <3>0. Answered(67)
      BY <2>2, <2>5
    <3>1. pc' \in {25, 31} /\ Here(67, FALSE)'
      BY <2>1, <2>3, <2>5, <3>0
    <3>2. pc' \notin {1, 2, 5, 6, 13, 14, 17, 18, 26, 32, 38, 39} \cup Still
      BY <3>1 DEF Still
    <3>3. Traffic'
      BY <3>1, <3>2 DEF Traffic
    <3> QED
      BY <2>1, <3>3 DEF Bytes
  <2> QED
    BY <2>2, <2>4, <2>5
<1>5. CASE TransferKbd
  <2>1. /\ ~obf.full /\ kbdQueue # <<>> /\ kbdQueue' = Tail(kbdQueue)
        /\ obf' = [full |-> TRUE, data |-> Head(kbdQueue), aux |-> FALSE]
        /\ UNCHANGED <<config, expects, answer, auxQueue, value, pc, plugged>>
    BY <1>5 DEF TransferKbd, Fill, program, input
  <2>2. pc = 38 /\ KbdSent
    <3>1. pc \notin Still
      BY <2>1, WasClear DEF Clear
    <3>2. pc \notin {1, 2, 5, 6, 13, 14, 17, 18, 25, 26, 31, 32, 39}
      BY <2>1 DEF Traffic, Clear, Here, Answered, AuxSent
    <3>3. pc = 38
      BY <3>1, <3>2, WhereItIs
    <3> QED
      BY <2>1, <3>3 DEF Traffic, Here
  <2>3. pc = 38 /\ Here(ACK, FALSE)'
    BY <2>1, <2>2 DEF KbdSent, Here
  <2>4. pc \notin {1, 2, 5, 6, 13, 14, 17, 18, 25, 26, 31, 32} \cup Still
    BY <2>2 DEF Still
  <2>5. Traffic'
    BY <2>1, <2>3, <2>4 DEF Traffic
  <2> QED
    BY <2>1, <2>5 DEF Bytes
<1>6. CASE TransferAux
  <2>1. /\ ~obf.full /\ auxQueue # <<>> /\ auxQueue' = Tail(auxQueue)
        /\ obf' = [full |-> TRUE, data |-> Head(auxQueue), aux |-> TRUE]
        /\ UNCHANGED <<config, expects, answer, kbdQueue, value, pc, plugged>>
    BY <1>6 DEF TransferAux, Fill, program, input
  <2>2. pc \in {13, 17} /\ plugged /\ AuxSent
    <3>1. pc \notin Still
      BY <2>1, WasClear DEF Clear
    <3>2. pc \notin {1, 2, 5, 6, 14, 18, 25, 26, 31, 32, 38, 39}
      BY <2>1 DEF Traffic, Clear, Here, Answered, KbdSent
    <3>3. pc \in {13, 17}
      BY <3>1, <3>2, WhereItIs
    <3> QED
      BY <2>1, <3>3 DEF Traffic, Clear, Here
  <2>3. Here(ACK, TRUE)'
    BY <2>1, <2>2 DEF AuxSent, Here
  <2>4. pc \notin {1, 2, 5, 6, 14, 18, 25, 26, 31, 32, 38, 39} \cup Still
    BY <2>2 DEF Still
  <2>5. Traffic'
    BY <2>1, <2>2, <2>3, <2>4 DEF Traffic
  <2> QED
    BY <2>1, <2>5 DEF Bytes
<1>7. CASE UNCHANGED vars
  BY <1>1, <1>7 DEF vars, controller, devices, program, input
<1> QED
  BY <1>2, <1>3, <1>4, <1>5, <1>6, <1>7 DEF Next, TakeInterrupt, Running

-----------------------------------------------------------------------------
(* The mouse's bytes on their way to mouse_handler: what it holds of a     *)
(* packet, the byte in the output buffer and the bytes still in the mouse  *)
(* together are whole movements, flags first.                              *)

Part(k) == Movement[(k % 3) + 1]
Ahead   == mouse_cycle + (IF obf.full /\ obf.aux THEN 1 ELSE 0)

Queued ==
  /\ obf.full /\ obf.aux => obf.data = Part(mouse_cycle)
  /\ \A k \in 1..Len(auxQueue) : auxQueue[k] = Part(Ahead + k - 1)
  /\ (Ahead + Len(auxQueue)) % 3 = 0

Collected ==
  /\ mouse_cycle \in 0..2 /\ mouse_byte \in [1..3 -> Nat]
  /\ \A j \in 1..3 : j <= mouse_cycle => mouse_byte[j] = Movement[j]
  /\ packet = Movement

Stream ==
  /\ Collected
  /\ pc <= 41 => mouse_cycle = 0
  /\ pc = 42 => answer = <<>> /\ Queued

LEMMA MovementParts ==
  /\ Movement \in Seq(Nat) /\ Len(Movement) = 3 /\ Movement \in [1..3 -> Nat]
  /\ Part(0) = Movement[1] /\ Part(1) = Movement[2] /\ Part(2) = Movement[3]
BY DEF Movement, Part

LEMMA SameParts ==
  ASSUME NEW f \in [1..3 -> Nat], NEW g \in [1..3 -> Nat], \A j \in 1..3 : f[j] = g[j]
  PROVE  f = g
OBVIOUS

LEMMA PartRepeats ==
  ASSUME NEW k \in Nat, NEW m \in Nat, k % 3 = m % 3
  PROVE  Part(k) = Part(m)
BY DEF Part

LEMMA PartsGoOn ==
  ASSUME NEW a \in Nat, NEW b \in Nat, (a + b) % 3 = 0, NEW j \in 1..3
  PROVE  Part(a + (b + j) - 1) = Part(j - 1)
<1>1. a + (b + j) - 1 \in Nat /\ j - 1 \in Nat /\ (a + (b + j) - 1) % 3 = (j - 1) % 3
  OBVIOUS
<1> QED
  BY <1>1, PartRepeats

LEMMA QueuedSame ==
  ASSUME Queued, UNCHANGED <<auxQueue, mouse_cycle>>,
         UNCHANGED obf \/ (~(obf.full /\ obf.aux) /\ ~(obf'.full /\ obf'.aux))
  PROVE  Queued'
BY DEF Queued, Ahead

(* A byte leaves the mouse.                                                *)
LEMMA TransferAuxQueued ==
  ASSUME PortType, Collected, Queued, TransferAux
  PROVE  Queued'
<1> USE DEF PortType
<1>1. /\ ~obf.full /\ auxQueue # <<>> /\ auxQueue' = Tail(auxQueue)
      /\ obf' = [full |-> TRUE, data |-> Head(auxQueue), aux |-> TRUE]
      /\ UNCHANGED mouse_cycle
  BY DEF TransferAux, Fill, received
<1>2. mouse_cycle \in Nat /\ Ahead = mouse_cycle /\ Ahead' = mouse_cycle + 1
  BY <1>1 DEF Collected, Ahead
<1>3. Len(auxQueue) \in Nat \ {0} /\ Len(auxQueue') = Len(auxQueue) - 1
  BY <1>1
<1>4. \A k \in 1..Len(auxQueue') : auxQueue'[k] = auxQueue[k + 1]
  BY <1>1
<1>5. Head(auxQueue) = auxQueue[1]
  BY <1>1
<1>6. obf'.data = Part(mouse_cycle')
  <2>1. 1 \in 1..Len(auxQueue) /\ Ahead + 1 - 1 = mouse_cycle
    BY <1>2, <1>3
  <2>2. auxQueue[1] = Part(Ahead + 1 - 1)
    BY <2>1 DEF Queued
  <2> QED
    BY <1>1, <1>5, <2>1, <2>2
<1>7. ASSUME NEW k \in 1..Len(auxQueue') PROVE auxQueue'[k] = Part(Ahead' + k - 1)
  <2>1. k + 1 \in 1..Len(auxQueue) /\ Ahead + (k + 1) - 1 = Ahead' + k - 1
    BY <1>2, <1>3
  <2>2. auxQueue[k + 1] = Part(Ahead + (k + 1) - 1)
    BY <2>1 DEF Queued
  <2> QED
    BY <1>4, <2>1, <2>2
<1>8. Ahead' + Len(auxQueue') = Ahead + Len(auxQueue)
  BY <1>2, <1>3
<1>9. (Ahead' + Len(auxQueue')) % 3 = 0
  BY <1>8 DEF Queued
<1> QED
  BY <1>6, <1>7, <1>9 DEF Queued

(* A movement joins those the mouse has yet to send.                       *)
LEMMA MoveMouseQueued ==
  ASSUME PortType, Collected, Queued, MoveMouse
  PROVE  Queued'
<1> USE DEF PortType
<1>1. auxQueue' = auxQueue \o Movement /\ UNCHANGED <<obf, mouse_cycle>>
  BY DEF MoveMouse, controller, received
<1>2. Ahead' = Ahead /\ Ahead \in Nat
  BY <1>1 DEF Ahead, Collected
<1> DEFINE L == Len(auxQueue)
<1>3. L \in Nat /\ Movement \in Seq(Nat)
  BY MovementParts
<1>4. /\ Len(auxQueue') = L + Len(Movement)
      /\ \A k \in 1..L + Len(Movement) : auxQueue'[k] = IF k <= L THEN auxQueue[k] ELSE Movement[k - L]
  <2>1. /\ Len(auxQueue \o Movement) = Len(auxQueue) + Len(Movement)
        /\ \A k \in 1..Len(auxQueue) + Len(Movement) :
             (auxQueue \o Movement)[k] = IF k <= Len(auxQueue) THEN auxQueue[k] ELSE Movement[k - Len(auxQueue)]
    BY <1>3, ConcatProperties, Zenon
  <2> QED
    BY <1>1, <2>1, Zenon
<1>5. \A k \in 1..L : auxQueue[k] = Part(Ahead + k - 1)
  BY DEF Queued
<1>6. (Ahead + L) % 3 = 0
  BY DEF Queued
<1>7. Len(Movement) = 3
  BY MovementParts
<1> HIDE DEF L
<1>8. ASSUME NEW j \in 1..3 PROVE auxQueue'[L + j] = Part(Ahead + (L + j) - 1)
  <2>2. Part(Ahead + (L + j) - 1) = Part(j - 1)
    BY <1>2, <1>3, <1>6, PartsGoOn
  <2>3. Part(j - 1) = Movement[j]
    BY MovementParts
  <2>4. L + j \in 1..L + Len(Movement) /\ ~(L + j <= L) /\ (L + j) - L = j
    BY <1>3, <1>7
  <2>5. auxQueue'[L + j] = Movement[j]
    BY <1>4, <2>4
  <2> QED
    BY <2>2, <2>3, <2>5
<1>9. ASSUME NEW k \in 1..(L + 3) PROVE auxQueue'[k] = Part(Ahead + k - 1)
  <2>1. CASE k <= L
    <3>1. k \in 1..L /\ k \in 1..L + Len(Movement)
      BY <1>3, <1>7, <2>1
    <3> QED
      BY <1>4, <1>5, <2>1, <3>1
  <2>2. CASE ~(k <= L)
    <3>1. k - L \in 1..3 /\ L + (k - L) = k
      BY <1>3, <2>2
    <3>2. auxQueue'[L + (k - L)] = Part(Ahead + (L + (k - L)) - 1)
      BY <1>8, <3>1
    <3> QED
      BY <3>1, <3>2
  <2> QED
    BY <2>1, <2>2
<1>10. (Ahead + (L + 3)) % 3 = 0
  BY <1>2, <1>3, <1>6
<1>11. Len(auxQueue') = L + 3
  BY <1>4, <1>7
<1>12. obf'.full /\ obf'.aux => obf'.data = Part(mouse_cycle')
  BY <1>1 DEF Queued
<1> QED
  BY <1>2, <1>9, <1>10, <1>11, <1>12 DEF Queued

(* mouse_handler takes the part that it is waiting for.                    *)
LEMMA mouse_handlerCollects ==
  ASSUME PortType, Latched, Collected, Queued, mouse_handler
  PROVE  Collected' /\ Queued'
<1> USE DEF PortType
<1>1. 12 \in irr
  BY DEF mouse_handler, Deliverable
<1>2. obf.full /\ obf.aux
  BY <1>1 DEF Latched, Line
<1>3. obf.data = Part(mouse_cycle) /\ Ahead = mouse_cycle + 1
  BY <1>2 DEF Queued, Ahead
<1>4. /\ mouse_byte' = [mouse_byte EXCEPT ![mouse_cycle + 1] = obf.data]
      /\ mouse_cycle' = (mouse_cycle + 1) % 3
      /\ packet' = IF mouse_cycle = 2 THEN mouse_byte' ELSE packet
      /\ obf' = [obf EXCEPT !.full = FALSE]
      /\ UNCHANGED auxQueue
  BY DEF mouse_handler, devices
<1>5. mouse_cycle \in {0, 1, 2}
  BY DEF Collected
<1>6. obf.data = Movement[mouse_cycle + 1]
  BY <1>3, <1>5, MovementParts
<1>7. mouse_byte' \in [1..3 -> Nat] /\ \A j \in 1..3 : j <= mouse_cycle + 1 => mouse_byte'[j] = Movement[j]
  <2>1. mouse_byte \in [1..3 -> Nat] /\ mouse_cycle + 1 \in 1..3 /\ obf.data \in Nat
    BY <1>5 DEF Collected
  <2>2. mouse_byte' \in [1..3 -> Nat]
    BY <1>4, <2>1
  <2>3. ASSUME NEW j \in 1..3, j <= mouse_cycle + 1 PROVE mouse_byte'[j] = Movement[j]
    <3>1. CASE j = mouse_cycle + 1
      BY <1>4, <1>6, <2>1, <3>1
    <3>2. CASE j # mouse_cycle + 1
      <4>1. j <= mouse_cycle
        BY <1>5, <2>3, <3>2
      <4> QED
        BY <1>4, <2>1, <3>2, <4>1 DEF Collected
    <3> QED
      BY <3>1, <3>2
  <2> QED
    BY <2>2, <2>3
<1>8. packet' = Movement
  <2>1. CASE mouse_cycle = 2
    <3>1. \A j \in 1..3 : mouse_byte'[j] = Movement[j]
      BY <1>7, <2>1
    <3>2. Movement \in [1..3 -> Nat]
      BY MovementParts
    <3>3. mouse_byte' = Movement
      BY <1>7, <3>1, <3>2, SameParts
    <3> QED
      BY <1>4, <2>1, <3>3
  <2>2. CASE mouse_cycle # 2
    BY <1>4, <2>2 DEF Collected
  <2> QED
    BY <2>1, <2>2
<1>9. mouse_cycle' \in 0..2 /\ mouse_cycle' <= mouse_cycle + 1
  BY <1>4, <1>5
<1>10. Collected'
  BY <1>5, <1>7, <1>8, <1>9 DEF Collected
<1>11. ~obf'.full
  BY <1>4
<1>12. Ahead' = Ahead % 3 /\ Ahead \in Nat
  <2>1. Ahead' = mouse_cycle'
    <3>1. (IF obf'.full /\ obf'.aux THEN 1 ELSE 0) = 0
      BY <1>11
    <3>2. Ahead' = mouse_cycle' + 0
      BY <3>1 DEF Ahead
    <3>3. mouse_cycle' \in {0, 1, 2}
      BY <1>9
    <3>4. mouse_cycle' + 0 = mouse_cycle'
      <4>1. \A n \in {0, 1, 2} : n + 0 = n
        OBVIOUS
      <4> QED
        BY <3>3, <4>1, Zenon
    <3> QED
      BY <3>2, <3>4, Zenon
  <2> QED
    BY <1>3, <1>4, <1>5, <2>1
<1>13. ASSUME NEW k \in 1..Len(auxQueue') PROVE auxQueue'[k] = Part(Ahead' + k - 1)
  <2>1. k \in 1..Len(auxQueue) /\ k \in Nat \ {0}
    BY <1>4
  <2>2. auxQueue[k] = Part(Ahead + k - 1)
    BY <2>1 DEF Queued
  <2>3. Ahead + k - 1 \in Nat /\ Ahead' + k - 1 \in Nat /\ (Ahead + k - 1) % 3 = (Ahead' + k - 1) % 3
    BY <1>12, <2>1
  <2>4. Part(Ahead + k - 1) = Part(Ahead' + k - 1)
    BY <2>3, PartRepeats
  <2> QED
    BY <1>4, <2>2, <2>4
<1>14. (Ahead' + Len(auxQueue')) % 3 = 0
  <2>1. (Ahead + Len(auxQueue)) % 3 = 0 /\ Len(auxQueue) \in Nat
    BY DEF Queued
  <2> QED
    BY <1>4, <1>12, <2>1
<1>15. Queued'
  BY <1>11, <1>13, <1>14 DEF Queued
<1> QED
  BY <1>10, <1>15

(* What the installs meet when it is quiet, and the drivers afterwards.    *)
Waits == Traffic /\ Bytes /\ Stream

LEMMA WaitsWhileInstalling ==
  ASSUME PortType, Latched, Handled, from \in Nat, Quiet, Quiet', Waits, pc <= 41, [Next]_vars
  PROVE  Waits'
<1> USE DEF PortType
<1>1. ~PressKey /\ ~MoveMouse
  BY ProgramSteps DEF Quiet, PressKey, MoveMouse
<1>2. CASE Install
  <2>1. Traffic' /\ Bytes'
    BY <1>2, InstallWaits DEF Waits, Quiet
  <2>2. UNCHANGED <<mouse_cycle, mouse_byte, packet>>
    BY <1>2 DEF Install, FlushPoll, FlushRead, Command, Data, DataValue, WriteData, NotReady, Poll, PollTimeout, Read, Compute,
       i686_IRQ_RegisterHandler, i8259_Unmask, received
  <2>3. Collected' /\ mouse_cycle' = 0
    BY <2>2 DEF Waits, Stream, Collected
  <2>4. ASSUME pc' = 42 PROVE answer' = <<>> /\ Queued'
    <3>1. pc \in {40, 41}
      <4>1. ~NotReady
        BY <2>4, Where
      <4>2. pc' \in {pc - 1, pc + 1, pc + 2}
        BY <1>2, <4>1 DEF Install, FlushPoll, FlushRead, Command, Data, DataValue, WriteData, Poll, PollTimeout,
           Read, Compute, i686_IRQ_RegisterHandler, i8259_Unmask, Goto
      <4> QED
        BY <2>4, <4>2
    <3>2. Clear
      BY <3>1, WasClear DEF Waits, Still
    <3>3. UNCHANGED <<obf, answer, kbdQueue, auxQueue>>
      BY <1>2, <3>1, Where DEF Install, i686_IRQ_RegisterHandler, i8259_Unmask, devices
    <3>4. Clear'
      BY <3>2, <3>3 DEF Clear
    <3>5. Queued'
      BY <2>3, <3>4 DEF Clear, Queued, Ahead
    <3> QED
      BY <3>4, <3>5 DEF Clear
  <2>5. Stream'
    BY <2>3, <2>4 DEF Stream
  <2> QED
    BY <2>1, <2>5 DEF Waits
<1>3. CASE ~Install
  <2>1. Traffic' /\ Bytes'
    BY <1>1, <1>3, OthersWait DEF Waits
  <2>2. ~keyboard_handler /\ ~mouse_handler
    BY HandlersRun DEF Waits
  <2>3. UNCHANGED <<mouse_cycle, mouse_byte, packet, pc>>
    BY <1>1, <1>3, <2>2 DEF Next, TakeInterrupt, Unhandled, TransferAnswer, TransferKbd, TransferAux,
       Running, vars, program, received
  <2>4. Stream'
    BY <2>3 DEF Waits, Stream, Collected
  <2> QED
    BY <2>1, <2>4 DEF Waits
<1> QED
  BY <1>2, <1>3

LEMMA WaitsAfterwards ==
  ASSUME PortType, Latched, Waits, pc = 42, [Next]_vars
  PROVE  Waits'
<1> USE DEF PortType
<1>1. ~Install
  BY Where DEF Install
<1>2. UNCHANGED <<pc, config, expects, value>>
  BY <1>1 DEF Next, TakeInterrupt, Unhandled, keyboard_handler, mouse_handler, TransferAnswer, TransferKbd,
     TransferAux, PressKey, MoveMouse, Running, vars, controller, program
<1>3. Traffic' /\ Bytes'
  BY <1>2 DEF Traffic, Bytes, Waits, Still
<1>4. answer = <<>> /\ Queued /\ Collected
  BY DEF Waits, Stream
<1>5. ~TransferAnswer
  BY <1>4 DEF TransferAnswer
<1>6. UNCHANGED answer
  BY <1>1, <1>5 DEF Next, TakeInterrupt, Unhandled, keyboard_handler, mouse_handler, TransferKbd,
     TransferAux, PressKey, MoveMouse, Running, vars, controller
<1>7. ASSUME mouse_handler PROVE Collected' /\ Queued'
  BY <1>4, <1>7, mouse_handlerCollects
<1>8. ASSUME ~mouse_handler PROVE Collected' /\ Queued'
  <2>1. UNCHANGED <<mouse_cycle, mouse_byte, packet>>
    BY <1>1, <1>5, <1>8 DEF Next, TakeInterrupt, Unhandled, keyboard_handler, TransferKbd, TransferAux,
       PressKey, MoveMouse, Running, vars, received
  <2>2. Collected'
    BY <1>4, <2>1 DEF Collected
  <2>3. CASE keyboard_handler
    <3>1. 1 \in irr /\ obf' = [obf EXCEPT !.full = FALSE] /\ UNCHANGED auxQueue
      BY <2>3 DEF keyboard_handler, Deliverable, devices
    <3>2. ~obf.aux /\ ~obf'.full
      BY <3>1 DEF Latched, Line
    <3> QED
      BY <1>4, <2>1, <2>2, <3>1, <3>2, QueuedSame
  <2>4. CASE TransferKbd
    <3>1. ~obf.full /\ obf' = [full |-> TRUE, data |-> Head(kbdQueue), aux |-> FALSE] /\ UNCHANGED auxQueue
      BY <2>4 DEF TransferKbd, Fill
    <3>2. ~obf'.aux
      BY <3>1
    <3> QED
      BY <1>4, <2>1, <2>2, <3>1, <3>2, QueuedSame
  <2>5. CASE TransferAux
    BY <1>4, <2>2, <2>5, TransferAuxQueued
  <2>6. CASE MoveMouse
    BY <1>4, <2>2, <2>6, MoveMouseQueued
  <2>7. ASSUME UNCHANGED <<obf, auxQueue>> PROVE Collected' /\ Queued'
    BY <1>4, <2>1, <2>2, <2>7, QueuedSame
  <2> QED
    BY <1>1, <1>5, <1>8, <2>3, <2>4, <2>5, <2>6, <2>7 DEF Next, TakeInterrupt, Unhandled, PressKey, Running,
       vars, controller, devices
<1>9. Stream'
  BY <1>2, <1>4, <1>6, <1>7, <1>8 DEF Stream
<1> QED
  BY <1>3, <1>9 DEF Waits

PatientInv ==
  /\ Latched /\ Handled
  /\ from \in Nat
  /\ Quiet => Waits

LEMMA PatientInit == Init => PatientInv
<1> SUFFICES ASSUME Init PROVE PatientInv
  OBVIOUS
<1>1. Latched /\ Handled /\ from \in Nat
  BY Ps2Assumption DEF Init, Latched, Handled
<1>2. PICK full \in BOOLEAN : obf = [full |-> full, data |-> Key, aux |-> FALSE]
  BY DEF Init
<1>3. pc = 1 /\ answer = <<>> /\ kbdQueue = <<>> /\ auxQueue = <<>>
  BY DEF Init
<1>4. Clear \/ Here(Key, FALSE)
  BY <1>2, <1>3 DEF Clear, Here
<1>5. Traffic
  <2>1. pc \notin {2, 5, 6, 13, 14, 17, 18, 25, 26, 31, 32, 38, 39} \cup Still
    BY <1>3 DEF Still
  <2> QED
    BY <1>4, <2>1 DEF Traffic
<1>6. Bytes
  BY <1>3 DEF Init, Bytes
<1>7. Collected
  <2>1. mouse_cycle = 0 /\ mouse_byte = <<0, 0, 0>> /\ packet = Movement
    BY DEF Init
  <2>2. mouse_byte \in [1..3 -> Nat]
    BY <2>1
  <2> QED
    BY <2>1, <2>2 DEF Collected
<1>8. Stream
  BY <1>3, <1>7 DEF Init, Stream
<1> QED
  BY <1>1, <1>5, <1>6, <1>8 DEF PatientInv, Waits

LEMMA PatientNext ==
  ASSUME PortType, PatientInv, [Next]_vars
  PROVE  PatientInv'
<1>1. Latched' /\ Handled'
  BY LatchedNext, HandledNext DEF PatientInv
<1>2. UNCHANGED from
  BY DEF Next, Install, FlushPoll, FlushRead, Command, Data, DataValue, WriteData, NotReady, Poll, PollTimeout, Read, Compute,
     i686_IRQ_RegisterHandler, i8259_Unmask, TakeInterrupt, Unhandled, keyboard_handler, mouse_handler,
     TransferAnswer, TransferKbd, TransferAux, PressKey, MoveMouse, Running, vars, input
<1>4. prompt' => prompt
  BY DEF Next, Install, FlushPoll, FlushRead, Command, Data, DataValue, WriteData, NotReady, Poll, PollTimeout,
     Read, Compute, i686_IRQ_RegisterHandler, i8259_Unmask, TakeInterrupt, Unhandled, keyboard_handler,
     mouse_handler, TransferAnswer, TransferKbd, TransferAux, PressKey, MoveMouse, Running, vars, slowness
<1>3. ASSUME Quiet' PROVE Waits'
  <2>1. Quiet
    BY <1>2, <1>3, <1>4 DEF Quiet
  <2>2. pc <= 41 \/ pc = 42
    BY DEF PortType
  <2> QED
    BY <1>3, <2>1, <2>2, WaitsWhileInstalling, WaitsAfterwards DEF PatientInv
<1> QED
  BY <1>1, <1>2, <1>3 DEF PatientInv

LEMMA PatientAlways == Spec => []PatientInv
<1>1. PortType /\ PatientInv /\ [Next]_vars => PatientInv'
  BY PatientNext
<1> QED
  BY <1>1, PatientInit, PortAlways, PTL DEF Spec

(* When nothing is typed or moved before the installs have ended, and the  *)
(* controller takes the accesses of its command byte and answers while it  *)
(* is waited for, both ports are open, both interrupt and scan codes are   *)
(* translated, also when commands to the devices are not taken.            *)
THEOREM ControllerIsReady == Spec => []ControllerReady
<1>1. PatientInv => ControllerReady
  BY ProgramSteps, OurBits DEF PatientInv, Waits, Bytes, ControllerReady, Installed
<1> QED
  BY <1>1, PatientAlways, PTL

(* Then every packet that mouse_handler puts together, however many the    *)
(* movements, is one movement of the mouse.                                *)
THEOREM MovementsStayAligned == Spec => []MovementsAligned
<1>1. PatientInv => MovementsAligned
  BY DEF PatientInv, Waits, Stream, Collected, MovementsAligned
<1> QED
  BY <1>1, PatientAlways, PTL
=============================================================================
