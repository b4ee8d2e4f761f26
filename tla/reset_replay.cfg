\* A group is reset and goes on. The bounds end it.
SPECIFICATION FairStewardSpec
CHECK_DEADLOCK FALSE
CONSTANTS
  Device = {o, a}
  Owner = o
  NoGroup = NoGroup
  Plans <- RenewalPlan
  MaxGeneration = 1
  MaxPackages = 2
  FreshnessCeiling = 1
  MaxUnproductive = 1
  MaxTotal = 2
PROPERTIES ResetGroupIsFollowed
