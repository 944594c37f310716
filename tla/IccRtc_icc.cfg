SPECIFICATION IccSpec
CONSTANTS
  Writers = {w1, w2}
  Commands = {1, 2}
  Width = 2
  Times = {0, 5}
  HZ = 2
  Wrap = 8
  Retries = 3
  MaxTicks = 5
  MaxOps = 3
INVARIANTS
  RtcKeepsTime
  ShownBelongs
CHECK_DEADLOCK FALSE
