SPECIFICATION FairSpec
CONSTANTS
  InputFrom <- AnyTime
  Plugged = {TRUE, FALSE}
  MaxKeys = 2
  MaxMoves = 0
  MaxInputs = 2
  MaxTimeouts = 0
PROPERTIES KeyboardIsHeard
