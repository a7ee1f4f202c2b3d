SPECIFICATION FairSpec
CONSTANTS
  InputFrom <- AnyTime
  Plugged = {TRUE, FALSE}
  MaxKeys = 2
  MaxMoves = 2
  MaxInputs = 3
  MaxTimeouts = 1
INVARIANTS KeyboardPortReady ControllerReady MovementsAligned
PROPERTIES KeyPressesReported InputDrains
