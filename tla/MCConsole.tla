----------------------------- MODULE MCConsole ------------------------------
(* Messages of both programs, shortened, and every directive alone with     *)
(* every number.  A screen of two lines of eight; numbers of 4 and 6 bits.  *)
EXTENDS Console

T(t) == Text(t)
N(bits) == Number(bits)
S(t) == String(t)
D(letter) == Directive(<<>>, letter)
LL(letter) == Directive(<<"l", "l">>, letter)

(* memdetect.c:27, fat.c:241-244 (a name off the disk may hold any          *)
(* character), irq.c:80; then main.c:117-121 and keyboard.c:98 in the log.  *)
Boot(v) ==
  << Do("clrscr"),
     Printing("stdout", <<T(<<"=">>), LL("x"), T(<<" ">>), LL("x"), T(<<"\n">>)>>, <<N(v), N(63 - v)>>),
     Printing("stdout", <<T(<<"u", "=">>), D("u"), T(<<"\n">>)>>, <<N(v % 16)>>),
     Printing("stdout", <<D("c")>>, <<S(<<"\t">>)>>),
     Printing("stdout", <<D("s"), D("c")>>, <<S(<<"a", "b", "c">>), S(<<"\t">>)>>),
     Printing("stdout", <<T(<<"h", "a", "l", "t">>)>>, <<>>),
     Do("kernel"),
     Printing("stdout", <<T(<<"F">>), D("s"), T(<<" ", "P", ".", "\n">>)>>, <<S(<<"8", "2">>)>>),
     Do("sti") >>
  \o logf(<<"M">>, LVL_DEBUG, <<T(<<"a">>), LL("x"), D("d")>>, <<N(v), N(v % 16)>>)

(* fat.c:506 and elf.c:19: the text ends at the right edge, or begins with  *)
(* a carriage return, and a tab stands at each place of a line.             *)
Edges(n) ==
  << Do("clrscr"),
     Puts("stdout", [k \in 1..n |-> "a"]),
     Printing("stdout", <<D("c"), T(<<"b", "\r", "\n">>)>>, <<S(<<"\t">>)>>),
     Puts("stdout", <<"c", "\r", "d", "\t", "e">>) >>

Lengths == {<<>>, <<"h">>, <<"h", "h">>, <<"l">>, <<"l", "l">>}
Letters == {"d", "i", "u", "x", "X", "p", "o", "%", "c", "s", "q"}
Wide(l) == IF l = <<"l", "l">> THEN 0..63 ELSE 0..15

Alone == { << Do("clrscr"), Printing("stdout", <<T(<<"<">>), Directive(l, c), D("c")>>,
                                     IF c \in Numbers THEN <<N(v), S(<<">">>)>>
                                     ELSE IF c = "c" THEN <<S(<<"z">>), S(<<">">>)>>
                                     ELSE IF c = "s" THEN <<S(<<"y", "z">>), S(<<">">>)>> ELSE <<S(<<">">>)>>) >>
           : l \in Lengths, c \in Letters, v \in {0, 1, 7, 8, 9, 10, 15} }
         \cup { << Do("clrscr"), Printing("stdout", <<Directive(l, c)>>, <<N(v)>>) >>
                : l \in {<<"l", "l">>}, c \in Numbers, v \in 0..63 }

MCScripts == {Boot(v) : v \in {0, 9, 31, 32, 63}} \cup {Edges(n) : n \in 0..16} \cup Alone

(* irq.c:49, and mouse.c:63 in the log.                                     *)
MCHandlerTexts ==
  { << Printing("stdout", <<T(<<"I">>), D("d"), T(<<"\n">>)>>, <<N(7)>>) >>,
    logf(<<"m">>, LVL_DEBUG, <<T(<<"x">>), LL("d")>>, <<N(63)>>) }

MCCharacters == {"<", ">", "=", "%", " ", "u", "a", "b", "c", "d", "e", "h", "l", "t", "F", "P", ".", "I", "-",
                 "f", "y", "z"} \cup {g_HexChars[k] : k \in 1..16}

ASSUME TextsAreWellSpelled == WellSpelled
=============================================================================
