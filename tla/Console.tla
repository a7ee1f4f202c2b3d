------------------------------ MODULE Console -------------------------------
(***************************************************************************)
(* Text output from stage 2 to the kernel.  Both print with the same       *)
(* printf; stage 2 on the screen, the kernel on the screen or, for its     *)
(* log, on port 0xE9.  The kernel starts with variables of its own over    *)
(* the screen it finds, and its interrupt handlers print in the middle of  *)
(* what the main program prints.  Once its interrupts are on, the kernel's *)
(* main program only logs: the screen is the handlers'.                    *)
(***************************************************************************)
EXTENDS Printf, TextScreen

CONSTANTS Scripts,         \* what the main programs print, one of them per run
          HandlerTexts,    \* what a handler prints, one of them per interrupt
          MaxInterrupts,
          Characters       \* those that leave a mark on the screen

VARIABLES screen,          \* [rows, x, y, cursor, gone]: see TextScreen
          script,          \* what the main program has still to do
          frames,          \* the printf calls in progress, one per context
          handler,         \* what the interrupt handler has still to print
          interruptible,   \* the kernel has its interrupts on
          taken,           \* how many interrupts there were
          made,            \* history: the calls of each context
          written          \* history: what each context wrote, and where

vars == <<screen, script, frames, handler, interruptible, taken, made, written>>
control == <<interruptible, taken>>

Contexts == {"main", "handler"}

Idle == [fmt |-> <<>>, args |-> <<>>, state |-> "idle", length |-> "DEFAULT",
         file |-> "none", pending |-> <<>>]

Printing(file, parts, args) == [step |-> "printf", file |-> file, parts |-> parts, args |-> args]
Puts(file, text) == [step |-> "puts", file |-> file, parts |-> <<Text(text)>>, args |-> <<>>]
Do(step)         == [step |-> step]

LVL_DEBUG     == 0
MIN_LOG_LEVEL == LVL_DEBUG

(* A log line is five calls.                                               *)
logf(module, level, parts, args) ==
  IF level < MIN_LOG_LEVEL THEN <<>>
  ELSE << Puts("debug", <<"colour">>),
          Printing("debug", <<Text(<<"[">>), Directive(<<>>, "s"), Text(<<"]", " ">>)>>, <<String(module)>>),
          Printing("debug", parts, args),
          Puts("debug", <<"reset">>),
          Puts("debug", <<"\n">>) >>

-----------------------------------------------------------------------------
(* A handler runs to its end, with the interrupts off, before the main     *)
(* program goes on.                                                        *)
InHandler == handler # <<>> \/ frames["handler"] # Idle
Runs(ctx) == IF ctx = "handler" THEN InHandler ELSE ~InHandler
Todo(ctx) == IF ctx = "handler" THEN handler ELSE script
Drop(ctx) == IF ctx = "handler" THEN handler' = Tail(handler) /\ UNCHANGED script
                                ELSE script' = Tail(script) /\ UNCHANGED handler

Frame(call) ==
  IF call.step = "puts"
  THEN [Idle EXCEPT !.state = "NORMAL", !.file = call.file, !.pending = call.parts[1].text]
  ELSE [Idle EXCEPT !.state = "NORMAL", !.file = call.file, !.args = call.args,
                    !.fmt = FlattenSeq([k \in DOMAIN call.parts |-> Spelling(call.parts[k])])]

BeginStatic(ctx) ==              \* mutant: vfprintf's local variables are static
  /\ Runs(ctx) /\ frames[ctx] = Idle /\ Todo(ctx) # <<>>
  /\ LET call == Head(Todo(ctx))
     IN /\ call.step \in {"printf", "puts"}
        /\ frames' = [c \in Contexts |-> IF c = ctx THEN Frame(call)
                                         ELSE IF frames[c] = Idle THEN Idle ELSE Fresh(frames[c])]
        /\ made' = [made EXCEPT ![ctx] = Append(@, call)]
  /\ Drop(ctx)
  /\ UNCHANGED <<screen, control, written>>

Begin(ctx) ==
  /\ Runs(ctx) /\ frames[ctx] = Idle /\ Todo(ctx) # <<>>
  /\ LET call == Head(Todo(ctx))
     IN /\ call.step \in {"printf", "puts"}
        /\ frames' = [frames EXCEPT ![ctx] = Frame(call)]
        /\ made' = [made EXCEPT ![ctx] = Append(@, call)]
  /\ Drop(ctx)
  /\ UNCHANGED <<screen, control, written>>

Format(ctx) ==
  /\ Runs(ctx)
  /\ frames[ctx].pending = <<>> /\ frames[ctx].fmt # <<>>
  /\ frames' = [frames EXCEPT ![ctx] = vfprintf(@)]
  /\ UNCHANGED <<screen, script, handler, control, made, written>>

VGA_putc(c) == screen' = putc(screen, c)

VFS_Write(file, c) == \/ file = "stdout" /\ VGA_putc(c)
                      \/ file = "debug"  /\ UNCHANGED screen

fputc(ctx) ==
  /\ Runs(ctx)
  /\ frames[ctx].pending # <<>>
  /\ VFS_Write(frames[ctx].file, Head(frames[ctx].pending))
  /\ written' = [written EXCEPT ![ctx] = Append(@, <<frames[ctx].file, Head(frames[ctx].pending)>>)]
  /\ frames' = [frames EXCEPT ![ctx].pending = Tail(@)]
  /\ UNCHANGED <<script, handler, control, made>>

Return(ctx) ==
  /\ Runs(ctx)
  /\ frames[ctx] # Idle /\ frames[ctx].fmt = <<>> /\ frames[ctx].pending = <<>>
  /\ frames' = [frames EXCEPT ![ctx] = Idle]
  /\ UNCHANGED <<screen, script, handler, control, made, written>>

MainDoes(step) == /\ Runs("main") /\ frames["main"] = Idle
                  /\ script # <<>> /\ Head(script).step = step
                  /\ script' = Tail(script)
                  /\ UNCHANGED <<frames, handler, taken, made, written>>

ClearScreen == /\ MainDoes("clrscr")
               /\ screen' = clrscr(screen)
               /\ UNCHANGED interruptible

(* The kernel's own g_ScreenX and g_ScreenY are 0; nothing clears.         *)
EnterKernel == /\ MainDoes("kernel")
               /\ screen' = [screen EXCEPT !.x = 0, !.y = 0]
               /\ UNCHANGED interruptible

EnableInterrupts == /\ MainDoes("sti")
                    /\ interruptible' = TRUE
                    /\ UNCHANGED screen

Interrupt == /\ interruptible /\ ~InHandler /\ taken < MaxInterrupts
             /\ \E text \in HandlerTexts : handler' = text
             /\ taken' = taken + 1
             /\ UNCHANGED <<screen, script, frames, interruptible, made, written>>

-----------------------------------------------------------------------------
(* The BIOS and the boot sector left their own text and cursor.            *)
Leftover(x, y) == setcursor([rows |-> [r \in Ys |-> [c \in Xs |-> "?"]], x |-> x, y |-> y,
                             cursor |-> [low |-> 0, high |-> 0], gone |-> <<>>])

Init == /\ \E x \in Xs, y \in Ys : screen = [Leftover(x, y) EXCEPT !.x = 0, !.y = 0]
        /\ script \in Scripts
        /\ frames = [ctx \in Contexts |-> Idle]
        /\ handler = <<>>
        /\ interruptible = FALSE
        /\ taken = 0
        /\ made = [ctx \in Contexts |-> <<>>]
        /\ written = [ctx \in Contexts |-> <<>>]

Next == \/ \E ctx \in Contexts : Begin(ctx) \/ Format(ctx) \/ fputc(ctx) \/ Return(ctx)
        \/ ClearScreen \/ EnterKernel \/ EnableInterrupts \/ Interrupt

Spec == Init /\ [][Next]_vars

-----------------------------------------------------------------------------
(* Every character lands inside the screen's memory.                       *)
InsideScreen == screen.x \in Xs /\ screen.y \in Ys

(* What the proofs ask of the texts, and TLC finds of the instance's: a    *)
(* format is made of texts without '%' and of directives, enough arguments *)
(* are passed, each number is converted to the digits it means, and what   *)
(* goes to the screen is characters the sheet knows.                       *)
Steps == UNION {ToSet(text) : text \in Scripts \cup HandlerTexts}
Calls == {step \in Steps : step.step \in {"printf", "puts"}}

LengthName == [length \in {<<>>, <<"h">>, <<"h", "h">>, <<"l">>, <<"l", "l">>} |->
                 CASE length = <<>>         -> "DEFAULT"
                   [] length = <<"h">>      -> "SHORT"
                   [] length = <<"h", "h">> -> "SHORT_SHORT"
                   [] length = <<"l">>      -> "LONG"
                   [] length = <<"l", "l">> -> "LONG_LONG"]

Sound(part, arg) ==
  \/ part.letter = "" /\ "%" \notin ToSet(part.text)
  \/ /\ part.letter \notin {"", "h", "l"} /\ part.length \in DOMAIN LengthName
     /\ part.letter \in Numbers =>
          Converted(part.letter, LengthName[part.length], arg) = Meaning(part, arg)

Legible(file) == IF file = "stdout" THEN Characters \cup {"\n", "\t", "\r"} ELSE STRING

WellSpelled ==
  /\ Scripts \cup HandlerTexts \subseteq Seq(Steps)
  /\ Legible("stdout") \subseteq STRING
  /\ \A call \in Calls :
       /\ call.file \in {"stdout", "debug"}
       /\ call.parts \in Seq(ToSet(call.parts)) /\ call.args \in Seq(ToSet(call.args))
       /\ call.step = "puts" => call.parts = <<Text(call.parts[1].text)>>
       /\ Cardinality(Taking(call.parts, Len(call.parts))) <= Len(call.args)
       /\ \A k \in DOMAIN call.parts :
            LET part == call.parts[k]
                arg  == Argument(call.parts, call.args, k)
            IN /\ Meaning(part, arg) \in Seq(Legible(call.file))
               /\ Spelling(part) \in Seq(STRING)
               /\ call.step = "printf" => Sound(part, arg)

(* When a context is between two calls it has written exactly what its     *)
(* calls mean, each on its own file: printf reads every format rightly,    *)
(* and an interrupt in the middle of it, printing itself, changes nothing. *)
Spoken(calls) ==
  FlattenSeq([k \in DOMAIN calls |->
    LET said == Message(calls[k].parts, calls[k].args)
    IN [n \in DOMAIN said |-> <<calls[k].file, said[n]>>]])

EachTextWhole ==
  \A ctx \in Contexts : frames[ctx] = Idle => written[ctx] = Spoken(made[ctx])

(* The screen is the view of the last lines of an endless sheet, and after *)
(* each character the cursor is where the next one goes.                   *)
CursorAt == screen.cursor.high * ByteValues + screen.cursor.low

Sheet ==
  INSTANCE Terminal WITH
    Width <- SCREEN_WIDTH, Height <- SCREEN_HEIGHT,
    paper <- screen.gone \o [n \in 1..SCREEN_HEIGHT |-> screen.rows[n - 1]],
    row   <- Len(screen.gone) + screen.y + 1,
    col   <- screen.x,
    blink <- <<Len(screen.gone) + CursorAt \div SCREEN_WIDTH + 1, CursorAt % SCREEN_WIDTH>>

ImplementsTerminal == Sheet!Spec
=============================================================================
