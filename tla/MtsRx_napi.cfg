\* NAPI, with a fair timer, and a sysfs store empty the ring of any controller.
SPECIFICATION FairSpec
CONSTANTS
  N = 2
  Budget = 2
  Consumers = {"napi", "sysfs"}
  Controllers <- AllControllers
  BadFrames = {2}
  MaxFrames = 7
INVARIANTS    ReceivesAsRead 
  
CONSTRAINT NotShared
