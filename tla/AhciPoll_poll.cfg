SPECIFICATION FairSpec
CONSTANTS
  N = 2
  Cmds = {1}
INVARIANTS
  CompletedOnce
  TouchesMapped
PROPERTY FinishedIsSeen
CHECK_DEADLOCK FALSE
