\* Detection by polling, with everything that can disturb it.
SPECIFICATION FairSpec
CONSTANTS
  LinkVals <- DownUpUp
  Params = {"enable", "force"}
  Others = TRUE
  Window = 1
  MaxCount = 2
INVARIANTS LinkInv CarrierIsLastSeen NoFalseStorm
PROPERTY CarrierFollowsLink
