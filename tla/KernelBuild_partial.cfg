SPECIFICATION BSpec
CONSTANTS
  Tags = {t1}
  Breaking = {}
  MaxCommit = 1
  MaxBuilds = 3
  Cleanups = {"tracked", "all"}
INVARIANT ImageComplete
CHECK_DEADLOCK FALSE
