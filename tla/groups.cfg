\* The channel control plane in five stories: content declarations, the whole
\* fold with the owner alone, two devices of one user, resets of a group,
\* certificates that lapse, judged by claims of others.
\* Every device may end revoked or expired, or the bounds be used up: the log may stop.
SPECIFICATION GroupsSpec
CHECK_DEADLOCK FALSE
CONSTANTS
  o = o  a = a
  d1 = d1  d2 = d2  d3 = d3  c1 = c1  p1 = p1
  Identity = {o, a}
  Owner = o
  Device = {d1, d2, d3}
  Keys <- TwoOfOne
  Capability = {}
  Invite = {i1}
  NoInvite = NoInvite
  Time = {0, 1}
  NoExpiry = NoExpiry
  NoOne = NoOne
  MaxUsesBound = 3
  MaxLiveDevices = 2
  Channel = {c1, c2}
  NoChannel = NoChannel
  Message = {m1}
  Blob = {b1}
  Package = {p1, p2}
  Instance = {s1}
  NoInstance = NoInstance
  NoCommit = NoCommit
  FreshnessCeiling = 2
  CeilingGrace = 1
  CommitRateMinGap = 2
  ResetMinEvents = 2
  MaxLivePackages = 1
  MaxEpoch = 2
  MaxGeneration = 1
INVARIANTS MlsTypeOK NoLockOverPlaintext GroupRecordsAgree DriftIsDischargeable
PROPERTIES ContentIsFinal NoTwoTurnsInARow ResetReachesEveryone ObligationsEndOnlyInVoid
PROPERTIES SealedOnlyForMembers NoSilentEviction ImplementsLeafRecord
