\* Every actor on a CPU of its own; softirqs that have begun go on.
SPECIFICATION FairSpec
CONSTANTS
  N = 2
  s1 = s1  s2 = s2  t1 = t1
  Skbs = {s1, s2}
  Raw = {t1}
  NoFrame = NoFrame
INVARIANTS DoubleFreeNeedsTwoReaders SlotsHoldLiveSkbs OwnershipInv
PROPERTY StoppedQueueRecovers
