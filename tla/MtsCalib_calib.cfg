CONSTANTS
  Script <- CalibScript
  Bits <- Word
  Page <- Selector
  Turns = 2
  Targets = 5
  Pages = {0, 5}
  MaxFailures = 2
  MaxBinds = 2
SPECIFICATION FairSpec
CHECK_DEADLOCK FALSE
INVARIANTS
  OwnBits
  KeptBitsOnly
  PageRestored
  CalibInv
PROPERTY CalibEnds
