\* Every stage, force_mac_reset or not, failing probes and sysfs stores at once.
SPECIFICATION FairSpec
CONSTANTS
  Stages = {0, 1, 2, 3, 4}
  ForceResets = {FALSE, TRUE}
  Envs <- Everything
INVARIANTS LifeInv StoreInv NothingHeldWhenUnbound MasterOverRings UsersHaveMemory NullRings
PROPERTY RemoveFinishes
\* A followed NULL pointer stops the system.
CHECK_DEADLOCK FALSE
