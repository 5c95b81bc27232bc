SPECIFICATION FairSpec
CONSTANTS
  Socket = {k1, k2, k3}
  None = None
  Hooks = 3
  MaxTimers = 3
  MaxSignIns = 2
  MaxDrops = 1
CHECK_DEADLOCK FALSE
PROPERTY ReconnectsAlways
