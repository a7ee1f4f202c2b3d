----------------------------- MODULE SnakeProofs -----------------------------
(***************************************************************************)
(* Theorems about the snake, for every grid, length, pause and wrap of the *)
(* tick counter: its clock, its direction, its body and its food.          *)
(***************************************************************************)
EXTENDS Snake, SequenceTheorems, FiniteSetTheorems, TLAPS

(* The tick counter, that wraps. *)

LEMMA Wrapped ==
  ASSUME NEW a \in Int, a \in -TICKS..2 * TICKS - 1
  PROVE  U32(a) = IF a < 0 THEN a + TICKS ELSE IF a < TICKS THEN a ELSE a - TICKS
<1>1. TICKS \in Nat \ {0}
  BY SnakeAssumption
<1>2. CASE a < 0
  BY <1>1, <1>2, Z3 DEF U32
<1>3. CASE a >= 0 /\ a < TICKS
  BY <1>1, <1>3, Z3 DEF U32
<1>4. CASE a >= TICKS
  BY <1>1, <1>4, Z3 DEF U32
<1> QED
  BY <1>1, <1>2, <1>3, <1>4

Elapsed == U32(ticks - snake_last_move)

ClockInv ==
  /\ ticks \in 0..TICKS - 1 /\ snake_last_move \in 0..TICKS - 1
  /\ since \in Nat /\ moved \in BOOLEAN
  /\ since > 0 => Elapsed \in since - 1..PAUSE
  /\ moved /\ ~snake_game_over => Elapsed = since
  /\ snake_game_over => since = 0

(* One more tick has passed since the last move, unless that is a whole    *)
(* turn of the counter.                                                    *)
LEMMA OneTick ==
  ASSUME ClockInv, ticks' = U32(ticks + 1)
  PROVE  /\ ticks' \in 0..TICKS - 1
         /\ Elapsed \in 0..TICKS - 1
         /\ U32(ticks' - snake_last_move) = IF Elapsed = TICKS - 1 THEN 0 ELSE Elapsed + 1
<1>1. TICKS \in Nat \ {0} /\ ticks \in 0..TICKS - 1 /\ snake_last_move \in 0..TICKS - 1
  BY SnakeAssumption DEF ClockInv
<1>2. ticks' = IF ticks = TICKS - 1 THEN 0 ELSE ticks + 1
  <2>1. ticks + 1 \in Int /\ ticks + 1 \in -TICKS..2 * TICKS - 1
    BY <1>1
  <2> QED
    BY <1>1, <2>1, Wrapped
<1>3. ASSUME NEW t \in 0..TICKS - 1
      PROVE  U32(t - snake_last_move) = IF t >= snake_last_move THEN t - snake_last_move
                                        ELSE t - snake_last_move + TICKS
  <2>1. t - snake_last_move \in Int /\ t - snake_last_move \in -TICKS..2 * TICKS - 1
    BY <1>1
  <2> QED
    BY <1>1, <2>1, Wrapped
<1>4. Elapsed = IF ticks >= snake_last_move THEN ticks - snake_last_move
                ELSE ticks - snake_last_move + TICKS
  BY <1>1, <1>3 DEF Elapsed
<1>5. U32(ticks' - snake_last_move) = IF ticks' >= snake_last_move THEN ticks' - snake_last_move
                                      ELSE ticks' - snake_last_move + TICKS
  BY <1>1, <1>2, <1>3
<1> HIDE DEF Elapsed
<1> QED
  BY <1>1, <1>2, <1>4, <1>5

LEMMA ClockStarts == Init => ClockInv
<1> SUFFICES ASSUME Init PROVE ClockInv
  OBVIOUS
<1>1. moved \in BOOLEAN /\ ~moved
  BY Zenon DEF Init
<1>2. ticks \in 0..TICKS - 1 /\ snake_last_move = 0 /\ since = 0
  BY DEF Init
<1>3. snake_last_move \in 0..TICKS - 1
  BY <1>2, SnakeAssumption
<1> QED
  BY <1>1, <1>2, <1>3 DEF ClockInv

LEMMA ClockKeeps ==
  ASSUME ClockInv, [Next]_vars
  PROVE  ClockInv'
<1>1. CASE Open
  <2>1. moved' \in BOOLEAN /\ ~moved'
    BY <1>1, Zenon DEF Open, app_snake_init
  <2>2. /\ ticks' \in 0..TICKS - 1 /\ since' = 0 /\ snake_last_move' = snake_last_move
        /\ ~snake_game_over'
    BY <1>1 DEF Open, app_snake_init
  <2> QED
    BY <2>1, <2>2 DEF ClockInv
<1>2. ASSUME Update, NEW key \in Keys, Play(key), ~Due
      PROVE  ClockInv'
  <2>1. since' = since + 1 /\ snake_last_move' = snake_last_move /\ ticks' = U32(ticks + 1)
    BY <1>2 DEF Update, Play
  <2>2. Elapsed' = (IF Elapsed = TICKS - 1 THEN 0 ELSE Elapsed + 1) /\ ticks' \in 0..TICKS - 1
    BY <2>1, OneTick DEF Elapsed
  <2>3. Elapsed' <= PAUSE
    BY <1>2, <2>1, <2>2, SnakeAssumption DEF Due, Elapsed, U32, ClockInv
  <2>4. Elapsed \in 0..TICKS - 1 /\ ~snake_game_over /\ ~snake_game_over' /\ moved' = moved
    BY <1>2, <2>1, OneTick DEF Play
  <2> HIDE DEF Elapsed
  <2>5. since' \in Nat /\ Elapsed' \in since' - 1..PAUSE
    BY <2>1, <2>2, <2>3, <2>4, SnakeAssumption DEF ClockInv
  <2>6. moved => Elapsed' = since'
    BY <2>1, <2>2, <2>3, <2>4, SnakeAssumption DEF ClockInv
  <2> QED
    BY <2>1, <2>2, <2>4, <2>5, <2>6 DEF ClockInv
<1>3. ASSUME Update, NEW key \in Keys, Play(key), Due
      PROVE  ClockInv'
  <2>1. since' = 0 /\ snake_last_move' = ticks' /\ ticks' = U32(ticks + 1) /\ moved' = TRUE
    BY <1>3 DEF Update, Play, Move
  <2>2. ticks' \in 0..TICKS - 1
    BY <2>1, OneTick
  <2>3. Elapsed' = 0
    BY <2>1, <2>2, Wrapped, SnakeAssumption DEF Elapsed
  <2> QED
    BY <2>1, <2>2, <2>3 DEF ClockInv
<1>4. ASSUME Update, NEW key \in Keys, Over(key)
      PROVE  ClockInv'
  <2>1. /\ since = 0 /\ ticks' \in 0..TICKS - 1
        /\ since' = 0 /\ snake_last_move' = snake_last_move
        /\ moved' = FALSE \/ (moved' = moved /\ snake_game_over')
    BY <1>4, OneTick DEF Update, Over, app_snake_init, game, ClockInv
  <2>2. moved' \in BOOLEAN /\ (moved' => snake_game_over')
    <3>1. moved' = FALSE => moved' \in BOOLEAN /\ ~moved'
      BY Zenon
    <3>2. moved' = moved => moved' \in BOOLEAN
      BY DEF ClockInv
    <3> QED
      BY <2>1, <3>1, <3>2
  <2> QED
    BY <2>1, <2>2 DEF ClockInv
<1>5. CASE UNCHANGED vars
  BY <1>5 DEF vars, game, ClockInv, Elapsed
<1> QED
  BY <1>1, <1>2, <1>3, <1>4, <1>5 DEF Next, Update

(* The snake moves on the tick after PAUSE others. *)
LEMMA OnTime ==
  ASSUME ClockInv, Next
  PROVE  snake_body' # snake_body /\ moved /\ moved' => since = PAUSE
<1>1. CASE moved' = FALSE \/ snake_body' = snake_body
  BY <1>1
<1>2. ASSUME Update, NEW key \in Keys, Play(key), Due, moved
      PROVE  since = PAUSE
  <2>1. ticks' = U32(ticks + 1) /\ ~snake_game_over
    BY <1>2 DEF Update, Play
  <2>2. Elapsed \in 0..TICKS - 1 /\ (IF Elapsed = TICKS - 1 THEN 0 ELSE Elapsed + 1) > PAUSE
    BY <1>2, <2>1, OneTick DEF Due
  <2>3. Elapsed = since /\ since \in Nat /\ (since > 0 => Elapsed <= PAUSE)
    BY <1>2, <2>1 DEF ClockInv
  <2> HIDE DEF Elapsed
  <2> QED
    BY <2>2, <2>3, SnakeAssumption
<1>3. ASSUME Update, NEW key \in Keys, Play(key), ~Due
      PROVE  snake_body' = snake_body
  BY <1>3 DEF Play
<1> QED
  BY <1>1, <1>2, <1>3 DEF Next, Open, Update, Over, app_snake_init, game

(* A living snake moves every PAUSE + 1 ticks, neither sooner nor later,   *)
(* for every pause that is shorter than the counter's wrap, and through    *)
(* the wrap.  The first move of a game comes in PAUSE + 2 ticks at the     *)
(* latest.                                                                 *)
THEOREM SnakeMoves == Spec => MovesInTime
<1> DEFINE InTime == since <= IF moved THEN PAUSE ELSE PAUSE + 1
           OnTick == snake_body' # snake_body /\ moved /\ moved' => since = PAUSE
<1>1. Init => ClockInv
  BY ClockStarts
<1>2. ClockInv /\ [Next]_vars => ClockInv'
  BY ClockKeeps
<1>3. ClockInv => InTime
  BY SnakeAssumption DEF ClockInv
<1>4. ClockInv /\ [Next]_vars => [OnTick]_vars
  BY OnTime
<1>5. InTime' /\ OnTick =>
        /\ since' <= IF moved' THEN PAUSE ELSE PAUSE + 1
        /\ snake_body' # snake_body /\ moved /\ moved' => since = PAUSE
  OBVIOUS
<1> QED
  BY <1>1, <1>2, <1>3, <1>4, <1>5, PTL DEF Spec, MovesInTime
-----------------------------------------------------------------------------
(* The direction. *)

Ways == {Vector[d] : d \in DOMAIN Vector}
Back(dir) == <<-dir[1], -dir[2]>>

LEMMA FourWays ==
  /\ Vector["up"] = <<0, -1>> /\ Vector["down"] = <<0, 1>>
  /\ Vector["left"] = <<-1, 0>> /\ Vector["right"] = <<1, 0>>
  /\ Ways = {<<0, -1>>, <<0, 1>>, <<-1, 0>>, <<1, 0>>}
<1>1. DOMAIN Vector = {"up", "down", "left", "right"}
  BY DEF Vector
<1>2. /\ Vector["up"] = <<0, -1>> /\ Vector["down"] = <<0, 1>>
      /\ Vector["left"] = <<-1, 0>> /\ Vector["right"] = <<1, 0>>
  BY DEF Vector
<1> HIDE DEF Vector
<1> QED
  BY <1>1, <1>2 DEF Ways

(* A key turns the snake across its way or not at all. *)
LEMMA TurnsAcross ==
  ASSUME NEW dir \in Ways, NEW key \in Keys
  PROVE  Turn(dir, key) \in Ways /\ Turn(dir, key) # Back(dir)
<1>1. dir \in {<<0, -1>>, <<0, 1>>, <<-1, 0>>, <<1, 0>>}
  BY FourWays
<1>2. dir # Back(dir)
  BY <1>1 DEF Back
<1>3. CASE key \in {"up", "down"} /\ dir[2] = 0
  BY <1>1, <1>3, FourWays DEF Turn, Back
<1>4. CASE key \in {"left", "right"} /\ dir[1] = 0
  BY <1>1, <1>4, FourWays DEF Turn, Back
<1>5. CASE ~(key \in {"up", "down"} /\ dir[2] = 0) /\ ~(key \in {"left", "right"} /\ dir[1] = 0)
  BY <1>2, <1>5 DEF Turn
<1> QED
  BY <1>3, <1>4, <1>5

-----------------------------------------------------------------------------
(* The body. *)

Plane == Int \X Int

LEMMA WaysArePlane == \A dir \in Ways : dir = <<dir[1], dir[2]>> /\ dir[1] \in Int /\ dir[2] \in Int
  BY FourWays

LEMMA CellsArePlane == Cells \subseteq Plane
  BY SnakeAssumption DEF Cells, Plane

Chain(body) ==
  LET n == Len(body)
  IN  /\ \A k \in 1..n : body[k] \in Cells
      /\ \A k \in 1..n - 2 : Adjacent(body[k + 1], body[k])
      /\ \A j, k \in 1..n - 1 : body[j] = body[k] => j = k
      /\ \/ body[n] = body[n - 1]
         \/ Adjacent(body[n], body[n - 1]) /\ \A k \in 1..n - 1 : body[k] # body[n]

BodyInv ==
  /\ snake_body \in Seq(Plane) /\ Len(snake_body) \in 3..SNAKE_MAX_LENGTH
  /\ snake_game_over \in BOOLEAN
  /\ ~snake_game_over => Chain(snake_body)

(* A step puts the head one cell on and every other segment where the one  *)
(* before it was.                                                          *)
LEMMA MovedBody ==
  ASSUME snake_body \in Seq(Plane), Len(snake_body) \in 3..SNAKE_MAX_LENGTH, NEW dir \in Ways
  PROVE  LET body == Moved(dir)
         IN  /\ body \in Seq(Plane) /\ Len(body) = Len(snake_body)
             /\ Adjacent(body[2], body[1])
             /\ body[1] = <<snake_body[1][1] + dir[1], snake_body[1][2] + dir[2]>>
             /\ body[2] = snake_body[1]
             /\ \A k \in 2..Len(body) : body[k] = snake_body[k - 1]
<1> DEFINE n == Len(snake_body)
           body == Moved(dir)
           head == <<snake_body[1][1] + dir[1], snake_body[1][2] + dir[2]>>
<1>1. n \in Nat /\ n >= 3 /\ DOMAIN snake_body = 1..n /\ \A k \in 1..n : snake_body[k] \in Plane
  BY LenProperties, ElementOfSeq
<1>2. head \in Plane
  <2>1. snake_body[1] \in Plane
    BY <1>1
  <2> QED
    BY <2>1, WaysArePlane DEF Plane
<1>3. body = [k \in 1..n |-> IF k = 1 THEN head ELSE snake_body[k - 1]]
  BY <1>1 DEF Moved
<1> HIDE DEF body, head
<1>4. body \in [1..n -> Plane]
  BY <1>1, <1>2, <1>3
<1>5. body \in Seq(Plane)
  BY <1>1, <1>4, SeqDef
<1>6. Len(body) = n
  BY <1>1, <1>4, <1>5, LenProperties
<1>7. \A k \in 2..n : body[k] = snake_body[k - 1]
  BY <1>1, <1>3
<1>8. body[1] = head /\ body[2] = snake_body[1]
  BY <1>1, <1>3
<1>9. Adjacent(snake_body[1], head)
  <2>1. snake_body[1][1] \in Int /\ snake_body[1][2] \in Int
    BY <1>1 DEF Plane
  <2>2. <<head[1] - snake_body[1][1], head[2] - snake_body[1][2]>> = dir
    BY <2>1, WaysArePlane DEF head
  <2> QED
    BY <2>2 DEF Adjacent, Ways
<1> QED
  BY <1>1, <1>5, <1>6, <1>7, <1>8, <1>9 DEF n, body, head

LEMMA MovedChain ==
  ASSUME snake_body \in Seq(Plane), Len(snake_body) \in 3..SNAKE_MAX_LENGTH, Chain(snake_body),
         NEW dir \in Ways, ~Bites(Moved(dir))
  PROVE  /\ Chain(Moved(dir))
         /\ \A j, k \in 1..Len(snake_body) : Moved(dir)[j] = Moved(dir)[k] => j = k
<1> DEFINE n == Len(snake_body)
           body == Moved(dir)
<1>1. /\ Len(body) = n /\ n \in Nat /\ n >= 3 /\ Adjacent(body[2], body[1])
      /\ \A k \in 2..n : body[k] = snake_body[k - 1]
  BY MovedBody
<1>2. body[1] \in Cells /\ \A k \in 2..n : body[1] # body[k]
  BY <1>1 DEF Bites, TailOf
<1>3. /\ \A k \in 1..n : snake_body[k] \in Cells
      /\ \A k \in 1..n - 2 : Adjacent(snake_body[k + 1], snake_body[k])
      /\ \A j, k \in 1..n - 1 : snake_body[j] = snake_body[k] => j = k
  BY DEF Chain
<1> HIDE DEF body, n
<1>4. \A k \in 1..n : body[k] \in Cells
  BY <1>1, <1>2, <1>3
<1>5. \A k \in 1..n - 1 : Adjacent(body[k + 1], body[k])
  <2>1. TAKE k \in 1..n - 1
  <2>2. CASE k = 1
    BY <1>1, <2>2
  <2>3. CASE k > 1
    <3>1. k - 1 \in 1..n - 2 /\ (k - 1) + 1 = k
      BY <1>1, <2>3
    <3>2. Adjacent(snake_body[k], snake_body[k - 1])
      BY <1>3, <3>1
    <3>3. body[k + 1] = snake_body[k] /\ body[k] = snake_body[k - 1]
      BY <1>1, <2>3
    <3> QED
      BY <3>2, <3>3
  <2> QED
    BY <1>1, <2>2, <2>3
<1>6. \A j, k \in 1..n : body[j] = body[k] => j = k
  <2>1. TAKE j, k \in 1..n
  <2>2. CASE j = 1 \/ k = 1
    BY <1>1, <1>2, <2>2
  <2>3. CASE j > 1 /\ k > 1
    <3>1. j - 1 \in 1..n - 1 /\ k - 1 \in 1..n - 1
      BY <1>1, <2>3
    <3>2. body[j] = snake_body[j - 1] /\ body[k] = snake_body[k - 1]
      BY <1>1, <2>3
    <3> QED
      BY <1>1, <1>3, <3>1, <3>2
  <2> QED
    BY <1>1, <2>2, <2>3
<1>7. n - 1 \in 1..n - 1 /\ (n - 1) + 1 = n
  BY <1>1
<1>8. Adjacent(body[n], body[n - 1])
  BY <1>5, <1>7
<1>9. \A k \in 1..n - 2 : Adjacent(body[k + 1], body[k])
  BY <1>1, <1>5
<1>10. \A j, k \in 1..n - 1 : body[j] = body[k] => j = k
  BY <1>1, <1>6
<1>11. \A k \in 1..n - 1 : body[k] # body[n]
  BY <1>1, <1>6
<1> QED
  BY <1>1, <1>4, <1>6, <1>8, <1>9, <1>10, <1>11 DEF Chain, n, body

(* To grow, a chain has its last segment twice. *)
LEMMA GrownChain ==
  ASSUME NEW body \in Seq(Plane), Len(body) \in 3..SNAKE_MAX_LENGTH
  PROVE  /\ Grow(body) \in Seq(Plane)
         /\ Len(Grow(body)) \in Len(body)..SNAKE_MAX_LENGTH
         /\ \A k \in 1..Len(body) : Grow(body)[k] = body[k]
         /\ Chain(body) /\ (\A j, k \in 1..Len(body) : body[j] = body[k] => j = k) => Chain(Grow(body))
<1> DEFINE n == Len(body)
           g == Append(body, body[n])
<1>1. n \in Nat /\ n >= 3 /\ n <= SNAKE_MAX_LENGTH /\ body[n] \in Plane /\ SNAKE_MAX_LENGTH \in Nat
  BY SnakeAssumption
<1>2. CASE n < SNAKE_MAX_LENGTH
  <2>1. Grow(body) = g
    BY <1>2 DEF Grow
  <2>2. /\ g \in Seq(Plane) /\ Len(g) = n + 1 /\ g[n + 1] = body[n]
        /\ \A k \in 1..n : g[k] = body[k]
    BY <1>1
  <2> HIDE DEF g
  <2>3. ASSUME Chain(body), \A j, k \in 1..n : body[j] = body[k] => j = k PROVE Chain(g)
    <3>1. \A k \in 1..n + 1 : g[k] \in Cells
      BY <1>1, <2>2, <2>3 DEF Chain
    <3>2. \A k \in 1..n - 2 : Adjacent(g[k + 1], g[k])
      BY <1>1, <2>2, <2>3 DEF Chain
    <3>3. Adjacent(g[n], g[n - 1])
      <4>1. body[n] # body[n - 1]
        BY <1>1, <2>3
      <4>2. g[n] = body[n] /\ g[n - 1] = body[n - 1]
        BY <1>1, <2>2
      <4> QED
        BY <2>3, <4>1, <4>2 DEF Chain
    <3>4. \A k \in 1..n - 1 : Adjacent(g[k + 1], g[k])
      <4>1. \A k \in 1..n - 1 : k \in 1..n - 2 \/ (k = n - 1 /\ k + 1 = n)
        BY <1>1
      <4> QED
        BY <3>2, <3>3, <4>1
    <3>5. \A j, k \in 1..n : g[j] = g[k] => j = k
      BY <2>2, <2>3
    <3>6. g[n + 1] = g[n] /\ (n + 1) - 1 = n /\ (n + 1) - 2 = n - 1
      BY <1>1, <2>2
    <3> QED
      BY <2>2, <3>1, <3>4, <3>5, <3>6 DEF Chain
  <2> QED
    BY <1>1, <1>2, <2>1, <2>2, <2>3
<1>3. CASE n = SNAKE_MAX_LENGTH
  BY <1>1, <1>3 DEF Grow
<1> QED
  BY <1>1, <1>2, <1>3

LEMMA StartBody ==
  /\ START \in Seq(Plane) /\ Len(START) = 3 /\ 3 <= SNAKE_MAX_LENGTH /\ SNAKE_MAX_LENGTH \in Nat
  /\ Chain(START) /\ FOOD \notin Segments(START)
<1>1. START = <<START[1], START[2], START[3]>> /\ \A k \in 1..3 : START[k] \in Cells
  BY StartAssumption
<1>2. Len(START) = 3 /\ DOMAIN START = 1..3
  BY <1>1
<1>3. START \in Seq(Plane)
  <2>1. START \in [1..3 -> Plane]
    BY <1>1, CellsArePlane
  <2> QED
    BY <2>1, SeqDef
<1>4. ASSUME NEW k \in 1..2
      PROVE  Adjacent(START[k + 1], START[k]) /\ START[k][1] = START[k + 1][1] + 1
  <2> DEFINE a == START[k + 1]
             b == START[k]
  <2>1. a \in Plane /\ b \in Plane
    BY <1>1, CellsArePlane
  <2>2. b = <<a[1] + 1, a[2]>>
    BY StartAssumption
  <2> HIDE DEF a, b
  <2>3. a[1] \in Int /\ a[2] \in Int /\ b[1] = a[1] + 1 /\ b[2] = a[2]
    BY <2>1, <2>2 DEF Plane
  <2>4. <<b[1] - a[1], b[2] - a[2]>> = <<1, 0>>
    BY <2>3
  <2>5. Adjacent(a, b)
    BY <2>4, FourWays DEF Adjacent, Ways
  <2> QED
    BY <2>3, <2>5 DEF a, b
<1>5. Adjacent(START[2], START[1]) /\ Adjacent(START[3], START[2])
  BY <1>4
<1>6. START[1] # START[2]
  <2>1. START[1][1] = START[2][1] + 1 /\ START[2] \in Plane
    BY <1>1, <1>4, CellsArePlane
  <2> QED
    BY <2>1 DEF Plane
<1>7. FOOD \notin Segments(START)
  BY <1>2, StartAssumption DEF Segments
<1>8. (\A j, k \in 1..2 : START[j] = START[k] => j = k) /\ \A k \in 1..2 : START[k] # START[3]
  <2>1. START[1][1] = START[2][1] + 1 /\ START[2][1] = START[3][1] + 1 /\ START[3][1] \in Int
    BY <1>1, <1>4, CellsArePlane DEF Plane
  <2> QED
    BY <1>6, <2>1
<1>9. Chain(START)
  BY <1>1, <1>2, <1>5, <1>8 DEF Chain
<1> QED
  BY <1>2, <1>3, <1>7, <1>9, SnakeAssumption

(* Where the last move went is where the head lies from the neck. *)
Heading == <<snake_body[1][1] - snake_body[2][1], snake_body[1][2] - snake_body[2][2]>>

TurnInv ==
  /\ snake_dir \in Ways /\ Heading \in Ways
  /\ turns \in 0..2
  /\ turns = 0 => snake_dir = Heading
  /\ turns = 1 => snake_dir # Back(Heading)

LEMMA StartTurn ==
  ASSUME snake_body = START, snake_dir = Vector["right"], turns = 0
  PROVE  TurnInv
<1>1. START[1] = <<START[2][1] + 1, START[2][2]>> /\ START[2] \in Plane
  BY StartAssumption, CellsArePlane
<1>2. START[2][1] \in Int /\ START[2][2] \in Int
  BY <1>1 DEF Plane
<1>3. Heading = <<1, 0>>
  BY <1>1, <1>2 DEF Heading
<1> QED
  BY <1>3, FourWays DEF TurnInv

LEMMA StartsTurn ==
  ASSUME snake_body' = START, snake_dir' = Vector["right"], turns' = 0
  PROVE  TurnInv'
<1>1. START[1] = <<START[2][1] + 1, START[2][2]>> /\ START[2] \in Plane
  BY StartAssumption, CellsArePlane
<1>2. START[2][1] \in Int /\ START[2][2] \in Int
  BY <1>1 DEF Plane
<1>3. Heading' = <<1, 0>>
  BY <1>1, <1>2 DEF Heading
<1> QED
  BY <1>3, FourWays DEF TurnInv

LEMMA TurnKeeps ==
  ASSUME BodyInv, TurnInv, [Next]_vars
  PROVE  TurnInv'
<1>1. CASE snake_body' = START /\ snake_dir' = Vector["right"] /\ turns' = 0
  BY <1>1, StartsTurn
<1>2. ASSUME NEW key \in Keys, Play(key)
      PROVE  TurnInv'
  <2> DEFINE dir == Turn(snake_dir, key)
             body == Moved(dir)
  <2>1. dir \in Ways /\ dir # Back(snake_dir)
    BY TurnsAcross DEF TurnInv
  <2>2. snake_dir' = dir
    BY <1>2 DEF Play
  <2>3. CASE Move(dir)
    <3>1. /\ snake_body \in Seq(Plane) /\ Len(snake_body) \in 3..SNAKE_MAX_LENGTH
          /\ snake_body[1] \in Plane
      BY ElementOfSeq DEF BodyInv
    <3>2. /\ body \in Seq(Plane) /\ Len(body) \in 3..SNAKE_MAX_LENGTH
          /\ body[2] = snake_body[1]
          /\ body[1] = <<snake_body[1][1] + dir[1], snake_body[1][2] + dir[2]>>
      BY <2>1, <3>1, MovedBody
    <3>3. snake_body' \in {body, Grow(body)} /\ turns' = 0
      BY <2>3 DEF Move
    <3> HIDE DEF body, dir
    <3>4. snake_body'[1] = body[1] /\ snake_body'[2] = body[2]
      <4>1. 1 \in 1..Len(body) /\ 2 \in 1..Len(body)
        BY <3>2, SnakeAssumption
      <4>2. Grow(body)[1] = body[1] /\ Grow(body)[2] = body[2]
        BY <3>2, <4>1, GrownChain
      <4> QED
        BY <3>3, <4>2
    <3>5. /\ snake_body[1][1] \in Int /\ snake_body[1][2] \in Int
          /\ dir[1] \in Int /\ dir[2] \in Int /\ dir = <<dir[1], dir[2]>>
      BY <2>1, <3>1, WaysArePlane DEF Plane
    <3>6. Heading' = dir
      BY <3>2, <3>4, <3>5 DEF Heading
    <3> QED
      BY <2>1, <2>2, <3>3, <3>6 DEF TurnInv
  <2>4. CASE /\ snake_body' = snake_body
             /\ turns' = IF dir # snake_dir /\ turns < 2 THEN turns + 1 ELSE turns
    <3>1. Heading' = Heading
      BY <2>4 DEF Heading
    <3> HIDE DEF dir, Heading
    <3> QED
      BY <2>1, <2>2, <2>4, <3>1 DEF TurnInv
  <2> QED
    BY <1>2, <2>3, <2>4 DEF Play, dir
<1>3. CASE UNCHANGED game
  BY <1>3 DEF game, TurnInv, Heading
<1> QED
  BY <1>1, <1>2, <1>3 DEF Next, Open, Update, Over, app_snake_init, vars

LEMMA BodyKeeps ==
  ASSUME BodyInv, TurnInv, [Next]_vars
  PROVE  BodyInv'
<1>1. CASE snake_body' = START /\ snake_game_over' = FALSE
  <2>1. Len(START) \in 3..SNAKE_MAX_LENGTH
    BY StartBody
  <2> QED
    BY <1>1, <2>1, StartBody DEF BodyInv
<1>2. ASSUME NEW key \in Keys, Play(key)
      PROVE  BodyInv'
  <2> DEFINE dir == Turn(snake_dir, key)
             body == Moved(dir)
  <2>1. dir \in Ways
    BY TurnsAcross DEF TurnInv
  <2>2. CASE UNCHANGED <<snake_body, snake_game_over>>
    BY <2>2 DEF BodyInv
  <2>3. CASE Move(dir)
    <3>1. /\ snake_body \in Seq(Plane) /\ Len(snake_body) \in 3..SNAKE_MAX_LENGTH
          /\ Chain(snake_body)
      BY <1>2 DEF BodyInv, Play
    <3>2. snake_body' \in {body, Grow(body)} /\ snake_game_over' = Bites(body)
      BY <2>3 DEF Move
    <3>3. body \in Seq(Plane) /\ Len(body) = Len(snake_body)
      BY <2>1, <3>1, MovedBody
    <3>4. ~Bites(body) => Chain(body) /\ \A j, k \in 1..Len(body) : body[j] = body[k] => j = k
      BY <2>1, <3>1, <3>3, MovedChain
    <3>5. Bites(body) \in BOOLEAN
      BY DEF Bites
    <3> HIDE DEF body
    <3>6. /\ Grow(body) \in Seq(Plane) /\ Len(Grow(body)) \in 3..SNAKE_MAX_LENGTH
          /\ ~Bites(body) => Chain(Grow(body))
      BY <3>1, <3>3, <3>4, GrownChain
    <3> QED
      BY <3>1, <3>2, <3>3, <3>4, <3>5, <3>6 DEF BodyInv
  <2> QED
    BY <1>2, <2>2, <2>3 DEF Play
<1>3. CASE UNCHANGED game
  BY <1>3 DEF game, BodyInv
<1> QED
  BY <1>1, <1>2, <1>3 DEF Next, Open, Update, Over, app_snake_init, vars

LEMMA BodyStart ==
  ASSUME Init
  PROVE  BodyInv
<1>1. Len(START) \in 3..SNAKE_MAX_LENGTH
  BY StartBody
<1> QED
  BY <1>1, StartBody DEF Init, BodyInv

(* A living snake is one chain on the grid with no cell in it twice but,   *)
(* after it has eaten, its last, on every grid and of every length.        *)
THEOREM SnakeStaysWhole == Spec => []SnakeIsWhole
<1>1. Init => BodyInv /\ TurnInv
  BY BodyStart, StartTurn DEF Init
<1>2. BodyInv /\ TurnInv /\ [Next]_vars => BodyInv' /\ TurnInv'
  BY BodyKeeps, TurnKeeps
<1>3. BodyInv => SnakeIsWhole
  <2> SUFFICES ASSUME BodyInv, ~snake_game_over
               PROVE  SnakeIsWhole
    BY DEF SnakeIsWhole
  <2>1. snake_body \in Seq(Plane) /\ Len(snake_body) \in 3..SNAKE_MAX_LENGTH /\ Chain(snake_body)
    BY DEF BodyInv
  <2>2. DOMAIN snake_body = 1..Len(snake_body)
    BY <2>1, LenProperties
  <2>3. Segments(snake_body) \subseteq Cells
    BY <2>1, <2>2 DEF Segments, Chain
  <2> QED
    BY <2>1, <2>3 DEF Chain, SnakeIsWhole
<1> QED
  BY <1>1, <1>2, <1>3, PTL DEF Spec

(* The snake is headed for its own neck only after two turns since its     *)
(* last move, whatever the keys and the ticks.                             *)
THEOREM OneTurnIsSafe == Spec => []ReversalTakesTwoTurns
<1>1. Init => BodyInv /\ TurnInv
  BY BodyStart, StartTurn DEF Init
<1>2. BodyInv /\ TurnInv /\ [Next]_vars => BodyInv' /\ TurnInv'
  BY BodyKeeps, TurnKeeps
<1>3. BodyInv /\ TurnInv => ReversalTakesTwoTurns
  <2> SUFFICES ASSUME BodyInv, TurnInv, IntoNeck PROVE turns >= 2
    BY DEF ReversalTakesTwoTurns
  <2>1. snake_body[1] \in Plane /\ snake_body[2] \in Plane
    <3>1. snake_body \in Seq(Plane) /\ 1 \in 1..Len(snake_body) /\ 2 \in 1..Len(snake_body)
      BY SnakeAssumption DEF BodyInv
    <3> QED
      BY <3>1, ElementOfSeq
  <2>2. /\ snake_body[1][1] \in Int /\ snake_body[1][2] \in Int
        /\ snake_body[2][1] \in Int /\ snake_body[2][2] \in Int
    BY <2>1 DEF Plane
  <2>3. snake_dir = <<snake_dir[1], snake_dir[2]>> /\ snake_dir[1] \in Int /\ snake_dir[2] \in Int
    BY WaysArePlane DEF TurnInv
  <2>4. /\ snake_body[2][1] = snake_body[1][1] + snake_dir[1]
        /\ snake_body[2][2] = snake_body[1][2] + snake_dir[2]
    BY DEF IntoNeck
  <2>5. snake_dir[1] = -Heading[1] /\ snake_dir[2] = -Heading[2]
    BY <2>2, <2>3, <2>4 DEF Heading
  <2>6. snake_dir = Back(Heading)
    BY <2>3, <2>5 DEF Back
  <2> HIDE DEF Heading
  <2>7. Heading # Back(Heading)
    BY FourWays DEF TurnInv, Back
  <2> QED
    BY <2>6, <2>7 DEF TurnInv
<1> QED
  BY <1>1, <1>2, <1>3, PTL DEF Spec
-----------------------------------------------------------------------------
(* The food. *)

LEMMA NatMin ==
  ASSUME NEW S \in SUBSET Nat, S # {}
  PROVE  Min(S) \in S /\ \A y \in S : Min(S) <= y
<1>1. PICK x \in S : \A y \in S : ~(<<y, x>> \in OpToRel(<, Nat))
  <2>1. IsWellFoundedOn(OpToRel(<, Nat), Nat)
    BY NatLessThanWellFounded
  <2> QED
    BY <2>1, WFMin
<1>2. \A y \in S : x <= y
  <2>1. TAKE y \in S
  <2>2. ~(y < x)
    BY <1>1 DEF OpToRel
  <2> QED
    BY <2>2
<1> QED
  BY <1>2 DEF Min

(* The places tried are more than the snake's segments, so one is free.    *)
Tried(t, n) == {Candidate(t, n, a) : a \in 0..ATTEMPTS - 1}

LEMMA TriedFinite ==
  ASSUME NEW t, NEW n
  PROVE  IsFiniteSet(Tried(t, n)) /\ Cardinality(Tried(t, n)) \in Nat
<1> DEFINE S == 0..ATTEMPTS - 1
           T == Tried(t, n)
           f == [a \in S |-> Candidate(t, n, a)]
<1>1. f \in [S -> T] /\ \A c \in T : \E a \in S : f[a] = c
  <2> HIDE DEF Candidate
  <2> QED
    BY DEF Tried
<1>2. IsFiniteSet(S)
  BY SnakeAssumption, FS_Interval
<1> HIDE DEF f, S, T
<1>3. f \in Surjection(S, T)
  BY <1>1 DEF Surjection
<1>4. IsFiniteSet(T)
  BY <1>2, <1>3, FS_Surjection
<1> QED
  BY <1>4, FS_CardinalityType DEF T

LEMMA ManyPlaces ==
  ASSUME NEW t \in 0..TICKS - 1, NEW n \in 3..SNAKE_MAX_LENGTH
  PROVE  Places \in Nat /\ Places <= Cardinality(Tried(t, n))
<1> DEFINE S == {Cardinality(Tried(u, m)) : u \in 0..TICKS - 1, m \in 3..SNAKE_MAX_LENGTH}
<1>1. Places = Min(S)
  BY DEF Places, Tried
<1>2. S \subseteq Nat /\ Cardinality(Tried(t, n)) \in S
  <2> HIDE DEF Tried
  <2> QED
    BY TriedFinite
<1> HIDE DEF S
<1> QED
  BY <1>1, <1>2, NatMin

LEMMA SegmentsBound ==
  ASSUME NEW body \in Seq(Plane)
  PROVE  /\ IsFiniteSet(Segments(body)) /\ Cardinality(Segments(body)) \in Nat
         /\ Cardinality(Segments(body)) <= Len(body)
<1>1. Len(body) \in Nat /\ body \in [1..Len(body) -> Plane] /\ DOMAIN body = 1..Len(body)
  BY LenProperties
<1>2. body \in [1..Len(body) -> Segments(body)] /\ \A c \in Segments(body) : \E k \in 1..Len(body) : body[k] = c
  BY <1>1 DEF Segments
<1>3. body \in Surjection(1..Len(body), Segments(body))
  BY <1>2 DEF Surjection
<1>4. IsFiniteSet(1..Len(body)) /\ Cardinality(1..Len(body)) = Len(body)
  BY <1>1, FS_Interval
<1> QED
  BY <1>3, <1>4, FS_Surjection, FS_CardinalityType

LEMMA CandidateInGrid ==
  ASSUME NEW t \in Nat, NEW n \in Nat, NEW a \in Nat
  PROVE  Candidate(t, n, a) \in Cells
<1>1. WIDTH \in Nat \ {0} /\ HEIGHT \in Nat \ {0} /\ TICKS \in Nat \ {0}
  BY SnakeAssumption
<1>2. ASSUME NEW m \in Nat PROVE U32(m) \in Nat
  BY <1>1, <1>2, Z3 DEF U32
<1>3. ASSUME NEW m \in Nat, NEW w \in Nat \ {0} PROVE m % w \in 0..w - 1
  BY <1>3, Z3
<1>4. U32(t * 7 + n + a) \in Nat /\ U32(t * 13 + n * 3 + a * 5) \in Nat
  <2>1. t * 7 + n + a \in Nat /\ t * 13 + n * 3 + a * 5 \in Nat
    OBVIOUS
  <2> QED
    BY <1>2, <2>1
<1> HIDE DEF U32
<1> QED
  BY <1>1, <1>3, <1>4 DEF Candidate, Cells

(* The place found, free or not, is on the grid; it is free if any was, and *)
(* if none was, the snake covers all that were tried.                       *)
LEMMA PlaceIsFree ==
  ASSUME NEW t \in 0..TICKS - 1, NEW body \in Seq(Plane), Len(body) \in 3..SNAKE_MAX_LENGTH
  PROVE  /\ Place(t, body) \in Cells
         /\ Free(t, body) # {} => Place(t, body) \notin Segments(body)
         /\ Free(t, body) = {} => Len(body) >= Places
<1> DEFINE n == Len(body)
           free == Free(t, body)
<1>0. n \in Nat /\ t \in Nat /\ TICKS \in Nat \ {0}
  BY SnakeAssumption
<1>1. ASSUME free = {} PROVE n >= Places
  <2>1. Tried(t, n) \in SUBSET Segments(body)
    <3> HIDE DEF Candidate
    <3> QED
      BY <1>1 DEF Tried, Free
  <2>2. Cardinality(Tried(t, n)) <= Cardinality(Segments(body))
    BY <2>1, SegmentsBound, FS_Subset
  <2>3. Places \in Nat /\ Places <= Cardinality(Tried(t, n)) /\ Cardinality(Tried(t, n)) \in Nat
    BY ManyPlaces, TriedFinite
  <2>4. Cardinality(Segments(body)) \in Nat /\ Cardinality(Segments(body)) <= n
    BY SegmentsBound
  <2> QED
    BY <1>0, <2>2, <2>3, <2>4
<1>2. ASSUME free # {} PROVE Place(t, body) \in Cells /\ Place(t, body) \notin Segments(body)
  <2>1. free \in SUBSET Nat
    BY DEF Free
  <2>2. Min(free) \in free /\ Min(free) \in Nat
    <3> HIDE DEF free
    <3> QED
      BY <1>2, <2>1, NatMin
  <2>3. Place(t, body) = Candidate(t, n, Min(free))
    BY <1>2 DEF Place
  <2>4. Candidate(t, n, Min(free)) \notin Segments(body)
    <3> HIDE DEF Candidate
    <3> QED
      BY <2>2 DEF Free
  <2> HIDE DEF Candidate, free
  <2> QED
    BY <1>0, <2>2, <2>3, <2>4, CandidateInGrid
<1>3. ASSUME free = {} PROVE Place(t, body) \in Cells
  <2>1. Place(t, body) = <<U32(t * 7) % WIDTH, U32(t * 13) % HEIGHT>>
    BY <1>3 DEF Place
  <2>2. Candidate(t, 0, 0) = Place(t, body)
    <3>1. t * 7 + 0 + 0 = t * 7 /\ t * 13 + 0 * 3 + 0 * 5 = t * 13
      BY <1>0
    <3> QED
      BY <2>1, <3>1 DEF Candidate
  <2> HIDE DEF Candidate
  <2> QED
    BY <1>0, <2>2, CandidateInGrid
<1> QED
  BY <1>1, <1>2, <1>3

FoodInv == food_placed \in BOOLEAN /\ FoodIsFree

LEMMA FoodKeeps ==
  ASSUME FoodInv, ClockInv, BodyInv, TurnInv, [Next]_vars
  PROVE  FoodInv'
<1>0. FOOD \in Cells
  BY StartAssumption
<1>1. CASE snake_body' = START /\ snake_food' = FOOD /\ food_placed' = TRUE
  <2>1. snake_food' \notin Segments(snake_body)'
    BY <1>1, StartBody DEF Segments
  <2> QED
    BY <1>0, <1>1, <2>1 DEF FoodInv, FoodIsFree, Cells
<1>2. ASSUME NEW key \in Keys, Play(key), ticks' \in 0..TICKS - 1
      PROVE  FoodInv'
  <2> DEFINE dir == Turn(snake_dir, key)
             body == Moved(dir)
  <2>1. dir \in Ways
    BY TurnsAcross DEF TurnInv
  <2>2. CASE UNCHANGED <<snake_body, food_placed, snake_food>>
    BY <2>2 DEF FoodInv, FoodIsFree, Segments, Cells, Places
  <2>3. CASE Move(dir)
    <3>1. /\ snake_body \in Seq(Plane) /\ Len(snake_body) \in 3..SNAKE_MAX_LENGTH
      BY DEF BodyInv
    <3>2. /\ body \in Seq(Plane) /\ Len(body) = Len(snake_body)
          /\ \A k \in 2..Len(body) : body[k] = snake_body[k - 1]
      BY <2>1, <3>1, MovedBody
    <3>3. CASE body[1] = snake_food
      <4>1. /\ snake_body' = Grow(body) /\ snake_food' = Place(ticks', Grow(body))
            /\ food_placed' = (Free(ticks', Grow(body)) # {})
        BY <2>3, <3>3 DEF Move
      <4> HIDE DEF body
      <4>2. Grow(body) \in Seq(Plane) /\ Len(Grow(body)) \in 3..SNAKE_MAX_LENGTH
        BY <3>1, <3>2, GrownChain
      <4> DEFINE g == Grow(body)
                 p == Place(ticks', g)
                 free == Free(ticks', g)
      <4>3. /\ p \in Cells
            /\ free # {} => p \notin Segments(g)
            /\ free = {} => Len(g) >= Places
        BY <1>2, <4>2, PlaceIsFree
      <4> HIDE DEF g, p, free
      <4>4. Segments(snake_body)' = Segments(g) /\ Len(snake_body)' = Len(g)
            /\ Places' = Places /\ Cells' = Cells
        BY <4>1 DEF g, Segments
      <4>5. snake_food' = p /\ food_placed' = (free # {})
        BY <4>1 DEF g, p, free
      <4>6. snake_food' \in Cells'
        BY <4>3, <4>4, <4>5
      <4>7. food_placed' \in BOOLEAN /\ (food_placed' => snake_food' \notin Segments(snake_body)')
        BY <4>3, <4>4, <4>5
      <4>8. ~food_placed' => Len(snake_body)' >= Places'
        BY <4>3, <4>4, <4>5
      <4> QED
        BY <4>6, <4>7, <4>8 DEF FoodInv, FoodIsFree
    <3>4. CASE body[1] # snake_food
      <4>1. snake_body' = body /\ snake_food' = snake_food /\ food_placed' = food_placed
        BY <2>3, <3>4 DEF Move
      <4> HIDE DEF body
      <4>2. /\ snake_food \in Cells /\ food_placed \in BOOLEAN
            /\ food_placed => snake_food \notin Segments(snake_body)
            /\ ~food_placed => Len(snake_body) >= Places
        BY DEF FoodInv, FoodIsFree
      <4>3. snake_food \in Segments(body) => snake_food \in Segments(snake_body)
        <5>1. /\ DOMAIN body = 1..Len(body) /\ DOMAIN snake_body = 1..Len(body)
              /\ Len(body) \in Nat
          BY <3>1, <3>2, LenProperties
        <5> QED
          BY <3>2, <3>4, <5>1 DEF Segments
      <4>4. Segments(snake_body)' = Segments(body) /\ Len(snake_body)' = Len(snake_body)
            /\ Places' = Places /\ Cells' = Cells
        BY <3>2, <4>1 DEF Segments
      <4> QED
        BY <4>1, <4>2, <4>3, <4>4 DEF FoodInv, FoodIsFree
    <3> QED
      BY <3>3, <3>4
  <2> QED
    BY <1>2, <2>2, <2>3 DEF Play
<1>3. CASE UNCHANGED game
  BY <1>3 DEF game, FoodInv, FoodIsFree, Segments, Cells, Places
<1>4. ASSUME Update, NEW key \in Keys, Play(key)
      PROVE  FoodInv'
  BY <1>2, <1>4, OneTick DEF Update
<1> QED
  BY <1>1, <1>3, <1>4 DEF Next, Open, Update, Over, app_snake_init, vars

(* The food is always on the grid, and under the snake only if it was put  *)
(* there for want of a free place among those tried; that takes a snake    *)
(* with as many segments as there are such places, whatever the grid, the  *)
(* number of attempts and the wrap of the ticks.                           *)
THEOREM FoodStaysFree == Spec => []FoodIsFree
<1>1. Init => ClockInv /\ BodyInv /\ TurnInv /\ FoodInv
  <2> SUFFICES ASSUME Init PROVE ClockInv /\ BodyInv /\ TurnInv /\ FoodInv
    OBVIOUS
  <2>1. ClockInv
    BY ClockStarts
  <2>2. TurnInv
    BY StartTurn DEF Init
  <2>3. FoodInv
    BY StartBody, StartAssumption DEF Init, FoodInv, FoodIsFree
  <2> QED
    BY <2>1, <2>2, <2>3, BodyStart
<1>2. ClockInv /\ BodyInv /\ TurnInv /\ FoodInv /\ [Next]_vars
        => ClockInv' /\ BodyInv' /\ TurnInv' /\ FoodInv'
  BY ClockKeeps, BodyKeeps, TurnKeeps, FoodKeeps
<1>3. FoodInv => FoodIsFree
  BY DEF FoodInv
<1> QED
  BY <1>1, <1>2, <1>3, PTL DEF Spec
=============================================================================
