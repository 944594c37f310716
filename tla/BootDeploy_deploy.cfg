SPECIFICATION Spec
CONSTANTS
  Tags = {t1, t2}
  Versions = {1}
  MaxBuilds = 2
  MaxWrites = 1
  MaxDeploys = 3
SYMMETRY TagSymmetry
INVARIANTS
  DeployedMatches
  HistoryTrue
CHECK_DEADLOCK FALSE
