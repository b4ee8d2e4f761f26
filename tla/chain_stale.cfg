\* The application is killed between the acceptance and the save.
\* Every command may have succeeded: then nobody has anything to do.
SPECIFICATION FairChainSpec
CHECK_DEADLOCK FALSE
CONSTANTS
  Command = {m1}
  Joins = {}
  Unready = {}
  Refusable = {}
  Auth = Auth
  Stamp = {s1}
  NoHash = NoHash
  Faults = {"crash"}
  MaxFaults = 1
PROPERTIES StaleIsRepaired
