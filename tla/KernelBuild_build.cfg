SPECIFICATION BSpec
CONSTANTS
  Tags = {t1, t2}
  Breaking <- MCBreaking
  MaxCommit = 3
  MaxBuilds = 4
  Cleanups = {"all"}
INVARIANT ImageComplete
PROPERTIES
  WorkKept
  ImplementsRef
CHECK_DEADLOCK FALSE
