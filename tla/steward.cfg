\* Two clients of one channel; a window that never publishes again, and the
\* bounds, end it.
SPECIFICATION FairStewardSpec
CHECK_DEADLOCK FALSE
CONSTANTS
  Device = {o, a}
  Owner = o
  NoGroup = NoGroup
  Plans <- AllPlans
  MaxGeneration = 1
  MaxPackages = 2
  FreshnessCeiling = 1
  MaxUnproductive = 1
  MaxTotal = 2
INVARIANTS StewardTypeOK ForksAreSelfMade
PROPERTIES StewardCatchesUp StewardCommandsEnd
