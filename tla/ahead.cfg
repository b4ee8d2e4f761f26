\* Two clients rekey at one epoch. The bounds end it.
SPECIFICATION FairStewardSpec
CHECK_DEADLOCK FALSE
CONSTANTS
  Device = {o, a}
  Owner = o
  NoGroup = NoGroup
  Plans <- QuarrelPlan
  MaxGeneration = 1
  MaxPackages = 2
  FreshnessCeiling = 1
  MaxUnproductive = 1
  MaxTotal = 2
INVARIANTS AcceptedPostsReadable
