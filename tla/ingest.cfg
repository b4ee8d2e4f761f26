\* Posts, replies, edits, tombstones, uploads, redactions and legacy requests,
\* with sweeps, data deletion and a restart after any step.
\* A refused start, or a full log with nothing left to delete, may stop.
SPECIFICATION MCStoreSpec
CHECK_DEADLOCK FALSE
CONSTANTS
  o = o  a = a  s = s  g = g  b1 = b1  m1 = m1
  Member = {o, a}
  Owner = o
  Sealed = {s}
  Plain = {g}
  Blob = {b1}
  Legacy = {m1}
  None = None
  Gone = Gone
  Nobody = Nobody
  MaxLog = 3
  MaxAttached = 2
  MaxTorn = 1
INVARIANTS StoreTypeOK CountsOffByKills TombstonesWin LatestEditShown
PROPERTIES BootCompletesTheView 
