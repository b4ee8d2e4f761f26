\* Who is in, by invites, approvals, kicks, bans and grants of three identities;
\* and certificates, expiry, revocation claimed moments and the two clocks.
\* Every device revoked or every author banned: no further event is acceptable.
CHECK_DEADLOCK FALSE
SPECIFICATION StorySpec
CONSTANTS
  o = o  a = a  b = b
  d1 = d1  d2 = d2  d3 = d3  d4 = d4
  Identity = {o, a, b}
  Owner = o
  Device = {d1, d2, d3, d4}
  Keys <- TwoOfOne
  Capability = {"kick", "ban"}
  Invite = {i1}
  NoInvite = NoInvite
  Time = {0, 1, 2}
  NoExpiry = NoExpiry
  NoOne = NoOne
  MaxUsesBound = 2
  MaxLiveDevices = 1
SYMMETRY DevicesOfOne
INVARIANTS StandingSafe EveryoneSpentASeat ClockNeedsTwoWitnesses LiveDeviceCap
PROPERTIES ImplementsMembership
