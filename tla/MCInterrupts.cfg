SPECIFICATION FairSpec
CONSTANTS
  Program <- start
  Devices <- MCDevices
INVARIANTS TypeOK NoStrayInterrupt InServiceIsHandled MaskMatchesChips
PROPERTIES RequestsAnswered
