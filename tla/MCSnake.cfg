SPECIFICATION Spec
CONSTANTS
  WIDTH = 4
  HEIGHT = 3
  SNAKE_MAX_LENGTH = 7
  PAUSE = 2
  ATTEMPTS = 4
  START <- Body
  FOOD <- Food
  TICKS = 12
INVARIANTS SnakeIsWhole FoodIsFree ReversalTakesTwoTurns
PROPERTIES MovesInTime
