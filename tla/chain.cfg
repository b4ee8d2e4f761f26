\* A join, a message the server may refuse and a command that gives up, through every
\* fault; and as long as nothing goes wrong, they end.
\* Every command may have succeeded: then nobody has anything to do.
SPECIFICATION FairChainSpec
CHECK_DEADLOCK FALSE
CONSTANTS
  Command = {j1, m2, x1}
  Joins = {j1}
  Unready = {x1}
  Refusable = {m2}
  Auth = Auth
  Stamp = {s1}
  NoHash = NoHash
  Faults = {"drop", "crash", "save", "answer"}
  MaxFaults = 2
INVARIANTS ChainTypeOK SavedIsOnChain StoredOnce
PROPERTIES CommandsEndInCalm
