------------------------------- MODULE Snake -------------------------------
(***************************************************************************)
(* The snake game of gui.c: each gui_update counts a tick, takes at most   *)
(* one key and moves the snake when enough ticks have passed.              *)
(***************************************************************************)
EXTENDS Integers, Sequences, FiniteSets, FiniteSetsExt

CONSTANTS WIDTH, HEIGHT,          \* the grid, 28 by 15
          SNAKE_MAX_LENGTH,       \* 100
          PAUSE,                  \* 10: the ticks that must be exceeded
          ATTEMPTS,               \* 100: places tried for the food
          START, FOOD,            \* the first snake and the first food
          TICKS                   \* what the tick counter wraps at, 2^32

ASSUME SnakeAssumption ==
  /\ {WIDTH, HEIGHT, ATTEMPTS, TICKS} \subseteq Nat \ {0}
  /\ PAUSE \in 0..TICKS - 2
  /\ SNAKE_MAX_LENGTH \in Nat /\ SNAKE_MAX_LENGTH >= 3

Cells == (0..WIDTH - 1) \X (0..HEIGHT - 1)
Vector == [up |-> <<0, -1>>, down |-> <<0, 1>>, left |-> <<-1, 0>>, right |-> <<1, 0>>]
Keys == DOMAIN Vector \cup {"r", "other"}

ASSUME StartAssumption ==
  /\ START \in Cells \X Cells \X Cells /\ FOOD \in Cells
  /\ \A k \in 1..2 : START[k] = <<START[k + 1][1] + 1, START[k + 1][2]>>
  /\ \A k \in 1..3 : START[k] # FOOD

VARIABLES ticks, snake_last_move, snake_body, snake_dir, snake_food, snake_game_over,
          opened,                 \* whether the game is the application in front
          turns,                  \* history: turns since the last move
          moved, since,           \* history: whether it has moved, ticks since then or the start
          food_placed             \* history: whether a free place was found for the food

game == <<snake_last_move, snake_body, snake_dir, snake_food, snake_game_over,
          turns, moved, since, food_placed>>
vars == <<ticks, game, opened>>

U32(n) == n % TICKS
Segments(body) == {body[k] : k \in DOMAIN body}

app_snake_init ==
  /\ snake_body' = START /\ snake_dir' = Vector["right"] /\ snake_food' = FOOD
  /\ snake_game_over' = FALSE
  /\ turns' = 0 /\ moved' = FALSE /\ since' = 0 /\ food_placed' = TRUE
  /\ UNCHANGED snake_last_move

Init == /\ ticks \in 0..TICKS - 1 /\ snake_last_move = 0
        /\ snake_body = START /\ snake_dir = Vector["right"] /\ snake_food = FOOD
        /\ snake_game_over = FALSE /\ opened = FALSE
        /\ turns = 0 /\ moved = FALSE /\ since = 0 /\ food_placed = TRUE

(* Other applications let the ticks pass; gui_switch_app starts the game.  *)
Open == /\ ~opened
        /\ opened' = TRUE
        /\ ticks' \in 0..TICKS - 1
        /\ app_snake_init

TurnAnyWay(dir, key) == IF key \in DOMAIN Vector THEN Vector[key] ELSE dir   \* mutant: no guard

Turn(dir, key) ==
  IF \/ key \in {"up", "down"} /\ dir[2] = 0
     \/ key \in {"left", "right"} /\ dir[1] = 0
  THEN Vector[key] ELSE dir

DueAtPause == U32(ticks' - snake_last_move) >= PAUSE    \* mutant: one tick early

Due == U32(ticks' - snake_last_move) > PAUSE

Moved(dir) == [k \in DOMAIN snake_body |->
                 IF k = 1 THEN <<snake_body[1][1] + dir[1], snake_body[1][2] + dir[2]>>
                          ELSE snake_body[k - 1]]
TailOf(body) == {body[k] : k \in 2..Len(body)}

GrowByHead(body) ==                     \* mutant: the head is doubled
  IF Len(body) < SNAKE_MAX_LENGTH THEN <<body[1]>> \o body ELSE body

Grow(body) ==                           \* the tail doubled, until the next move
  IF Len(body) < SNAKE_MAX_LENGTH THEN Append(body, body[Len(body)]) ELSE body

Candidate(t, length, attempt) == <<U32(t * 7 + length + attempt) % WIDTH,
                                   U32(t * 13 + length * 3 + attempt * 5) % HEIGHT>>

PlaceAtOnce(t, body) == Candidate(t, Len(body), 0)      \* mutant: the body is not looked at

Free(t, body) == {a \in 0..ATTEMPTS - 1 : Candidate(t, Len(body), a) \notin Segments(body)}

Place(t, body) == IF Free(t, body) # {} THEN Candidate(t, Len(body), Min(Free(t, body)))
                                        ELSE <<U32(t * 7) % WIDTH, U32(t * 13) % HEIGHT>>

Bites(body) == body[1] \notin Cells \/ body[1] \in TailOf(body)

Move(dir) ==
  LET body == Moved(dir)
      eats == body[1] = snake_food
  IN  /\ snake_last_move' = ticks'
      /\ snake_body' = IF eats THEN Grow(body) ELSE body
      /\ snake_food' = IF eats THEN Place(ticks', Grow(body)) ELSE snake_food
      /\ food_placed' = IF eats THEN Free(ticks', Grow(body)) # {} ELSE food_placed
      /\ snake_game_over' = Bites(body)
      /\ turns' = 0 /\ moved' = TRUE /\ since' = 0

(* app_snake_update with a key, or with "other" for one that means nothing *)
(* here or for none at all.                                                *)
Play(key) ==
  /\ ~snake_game_over
  /\ LET dir == Turn(snake_dir, key)
     IN  /\ snake_dir' = dir
         /\ \/ Due /\ Move(dir)
            \/ /\ ~Due
               /\ turns' = IF dir # snake_dir /\ turns < 2 THEN turns + 1 ELSE turns
               /\ since' = since + 1
               /\ UNCHANGED <<snake_last_move, snake_body, snake_food, snake_game_over,
                              moved, food_placed>>

Over(key) == /\ snake_game_over
             /\ IF key = "r" THEN app_snake_init ELSE UNCHANGED game

Update == /\ opened
          /\ ticks' = U32(ticks + 1)
          /\ opened' \in BOOLEAN        \* the click that closes it changes nothing else
          /\ \E key \in Keys : Play(key) \/ Over(key)

Next == Open \/ Update
Spec == Init /\ [][Next]_vars

-----------------------------------------------------------------------------
Adjacent(a, b) == <<b[1] - a[1], b[2] - a[2]>> \in {Vector[d] : d \in DOMAIN Vector}

(* A living snake is one chain of cells on the grid, and no cell is in it  *)
(* twice, but that the last segment may lie on the one before it, where    *)
(* eating has put it (gui.c:516).                                          *)
SnakeIsWhole ==
  LET n == Len(snake_body)
  IN  ~snake_game_over =>
        /\ Segments(snake_body) \subseteq Cells
        /\ \A k \in 1..n - 2 : Adjacent(snake_body[k + 1], snake_body[k])
        /\ \A j, k \in 1..n - 1 : snake_body[j] = snake_body[k] => j = k
        /\ \/ snake_body[n] = snake_body[n - 1]
           \/ /\ Adjacent(snake_body[n], snake_body[n - 1])
              /\ \A k \in 1..n - 1 : snake_body[k] # snake_body[n]

(* The food lies on the grid, and not under the snake unless none of the   *)
(* places tried was free when it was put there (gui.c:534).  That takes a  *)
(* snake of as many segments as there are places to try at the least.      *)
Places == Min({Cardinality({Candidate(t, n, a) : a \in 0..ATTEMPTS - 1}) :
                 t \in 0..TICKS - 1, n \in 3..SNAKE_MAX_LENGTH})
FoodIsFree ==
  /\ snake_food \in Cells
  /\ food_placed => snake_food \notin Segments(snake_body)
  /\ ~food_placed => Len(snake_body) >= Places

(* The snake is headed for its own neck only after two turns between two   *)
(* moves: one key, whenever it comes, never does that (gui.c:473-481).     *)
IntoNeck == <<snake_body[1][1] + snake_dir[1], snake_body[1][2] + snake_dir[2]>> = snake_body[2]
ReversalTakesTwoTurns == IntoNeck => turns >= 2

(* A living snake moves every PAUSE + 1 ticks, no sooner and no later,     *)
(* over the wrap of the counter.  Only the first move of a game, which     *)
(* keeps the last game's snake_last_move, may come sooner or one tick      *)
(* later.                                                                  *)
MovesInTime ==
  [][/\ since' <= IF moved' THEN PAUSE ELSE PAUSE + 1
     /\ snake_body' # snake_body /\ moved /\ moved' => since = PAUSE]_vars
=============================================================================
