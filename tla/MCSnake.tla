------------------------------ MODULE MCSnake ------------------------------
(* A grid of 4 by 3 on which the snake reaches its greatest length, and so  *)
(* few places tried for the food that at times none is free.  The counter   *)
(* wraps at a multiple of both sizes, so that its wrap does not shift those *)
(* places; 2^32 shifts them, in one frame of years, to no fewer than 34.    *)
EXTENDS Snake

Food == <<3, 2>>
Body == <<<<2, 1>>, <<1, 1>>, <<0, 1>>>>
=============================================================================
