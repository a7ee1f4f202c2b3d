------------------------------- MODULE Printf -------------------------------
(***************************************************************************)
(* vfprintf of the kernel's stdio.c, of which stage 2's printf is a copy,  *)
(* one character of the format at a time, and what a format means.  A      *)
(* frame is one call: its format still to read, its arguments, its local   *)
(* variables, and the characters it has made but not yet written.          *)
(***************************************************************************)
EXTENDS Integers, SequencesExt

CONSTANTS IntBits, LongLongBits      \* 32 and 64; a long is an int

ASSUME PrintfAssumption == /\ {IntBits, LongLongBits} \subseteq Nat \ {0}
                           /\ IntBits <= LongLongBits

(* An argument is a number, as the bits passed, or the characters of a     *)
(* string or of one %c.                                                    *)
Number(bits)  == [bits |-> bits, text |-> <<>>]
String(t) == [bits |-> 0, text |-> t]
NoArgument    == String(<<>>)

g_HexChars == <<"0", "1", "2", "3", "4", "5", "6", "7", "8", "9", "a", "b", "c", "d", "e", "f">>

Radix   == [d |-> 10, i |-> 10, u |-> 10, X |-> 16, x |-> 16, p |-> 16, o |-> 8]
Signed  == {"d", "i"}
Numbers == DOMAIN Radix

Bits(length)      == IF length = "LONG_LONG" THEN LongLongBits ELSE IntBits
AsSigned(word, w) == IF word >= 2^(w - 1) THEN word - 2^w ELSE word

(* The remainders come out last digit first and are printed backwards.     *)
fprintf_unsigned(number, radix) ==
  LET buffer[n \in 0..number] ==
        <<g_HexChars[(n % radix) + 1]>> \o (IF n >= radix THEN buffer[n \div radix] ELSE <<>>)
  IN Reverse(buffer[number])

fprintf_signed(number, radix) ==
  IF number < 0 THEN <<"-">> \o fprintf_unsigned((-number) % 2^LongLongBits, radix)
                ELSE fprintf_unsigned(number, radix)

(* What follows '%': in which state, which letter gives which length.      *)
LengthMoves ==
  [LENGTH       |-> [h |-> [length |-> "SHORT",       state |-> "LENGTH_SHORT"],
                     l |-> [length |-> "LONG",        state |-> "LENGTH_LONG"]],
   LENGTH_SHORT |-> [h |-> [length |-> "SHORT_SHORT", state |-> "SPEC"]],
   LENGTH_LONG  |-> [l |-> [length |-> "LONG_LONG",   state |-> "SPEC"]]]

Converted(c, length, arg) ==
  CASE c \in {"c", "s"} -> arg.text
    [] c = "%"          -> <<"%">>
    [] c \in Signed     -> fprintf_signed(AsSigned(arg.bits, Bits(length)), Radix[c])
    [] c \in Numbers \ Signed -> fprintf_unsigned(arg.bits, Radix[c])
    [] OTHER            -> <<>>               \* ignore invalid spec

Takes(c) == c \in {"c", "s"} \cup Numbers     \* the letters that call va_arg

Fresh(f) == [f EXCEPT !.state = "NORMAL", !.length = "DEFAULT"]

Specifier(f, c) ==
  [Fresh(f) EXCEPT !.pending = Converted(c, f.length, IF Takes(c) THEN Head(f.args) ELSE NoArgument),
                   !.args    = IF Takes(c) THEN Tail(@) ELSE @]

vfprintf(f) ==
  LET c == Head(f.fmt)
      g == [f EXCEPT !.fmt = Tail(@)]
  IN CASE f.state = "NORMAL" /\ c = "%" -> [g EXCEPT !.state = "LENGTH"]
       [] f.state = "NORMAL" /\ c # "%" -> [g EXCEPT !.pending = <<c>>]
       [] f.state \in DOMAIN LengthMoves /\ c \in DOMAIN LengthMoves[f.state] ->
            [g EXCEPT !.length = LengthMoves[f.state][c].length,
                      !.state  = LengthMoves[f.state][c].state]
       [] OTHER -> Specifier(g, c)

-----------------------------------------------------------------------------
(* What a format means, apart from how it is read: a list of texts and     *)
(* directives, each with its length and its letter.                        *)

Text(t)              == [text |-> t, length |-> <<>>, letter |-> ""]
Directive(l, letter) == [text |-> <<>>, length |-> l, letter |-> letter]

Spelling(part) == IF part.letter = "" THEN part.text
                  ELSE <<"%">> \o part.length \o <<part.letter>>

(* A number's digits by place value, without a leading zero.               *)
Positional(n, radix) ==
  LET size == CHOOSE k \in 1..LongLongBits : n < radix^k /\ (k = 1 \/ n >= radix^(k - 1))
  IN [k \in 1..size |-> g_HexChars[((n \div radix^(size - k)) % radix) + 1]]

NumberText(letter, bits, w) ==
  LET value == IF letter \in Signed /\ bits \div 2^(w - 1) = 1 THEN bits - 2^w ELSE bits
  IN IF value < 0 THEN <<"-">> \o Positional(-value, Radix[letter])
                  ELSE Positional(value, Radix[letter])

Meaning(part, arg) ==
  CASE part.letter = ""  -> part.text
    [] part.letter = "%" -> <<"%">>
    [] part.letter \in {"c", "s"} -> arg.text
    [] part.letter \in Numbers ->
         NumberText(part.letter, arg.bits, IF part.length = <<"l", "l">> THEN LongLongBits ELSE IntBits)
    [] OTHER -> <<>>

(* The arguments are taken in turn by the directives that take one.        *)
Taking(parts, k) == {i \in 1..k : Takes(parts[i].letter)}

Argument(parts, args, k) == IF Takes(parts[k].letter) THEN args[Cardinality(Taking(parts, k))] ELSE NoArgument

Message(parts, args) == FlattenSeq([k \in DOMAIN parts |-> Meaning(parts[k], Argument(parts, args, k))])
=============================================================================
