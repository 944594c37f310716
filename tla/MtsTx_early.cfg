\* When is a socket buffer released?
SPECIFICATION Spec
CONSTANTS
  N = 2
  s1 = s1  s2 = s2  t1 = t1
  Skbs = {s1, s2}
  Raw = {}
  NoFrame = NoFrame
INVARIANT ReclaimedAfterSent
