-------------------------- MODULE LogAuthz_proofs --------------------------
(***************************************************************************)
(* What holds of the authorization core for every choice of identities,    *)
(* devices, invites, capabilities and claimed times.                       *)
(***************************************************************************)
EXTENDS LogAuthz, FiniteSetTheorems, WellFoundedInduction, TLAPS

(* Every step of the fold is one event, signed by keys some installation    *)
(* holds, with a claimed time.                                             *)
LEMMA StepIsAnEvent ==
    ASSUME AuthzNext
    PROVE  \E a \in Identity, d \in Device, ts \in Time :
              <<a, d>> \in Keys /\ AuthzStep(a, d, ts)
<1>1. PICK k \in Keys, ts \in Time : AuthzStep(k[1], k[2], ts)
  BY DEF AuthzNext
<1>2. k \in Identity \X Device
  BY AuthzConstants
<1>3. k = <<k[1], k[2]>> /\ k[1] \in Identity /\ k[2] \in Device
  BY <1>2
<1> QED
  BY <1>1, <1>3

(* Every accepted event has an author and a device that exist, and claims  *)
(* a time: the envelope accounting of `apply` keeps the types.             *)
LEMMA AdvanceKeepsTypes ==
    ASSUME AuthzTypeOK, NEW a \in Identity, NEW d \in Device, NEW ts \in Time,
           Advance(a, d, ts)
    PROVE  /\ identityClock' \in [Identity -> Time \cup {0}]
           /\ last' \in [author : Identity \cup {NoOne}, device : Device \cup {NoOne}]
<1>1. identityClock[a] \in Time \cup {0}
  BY DEF AuthzTypeOK
<1>2. MaxOf(identityClock[a], ts) \in Time \cup {0}
  BY <1>1 DEF MaxOf
<1> QED
  BY <1>2 DEF Advance, AuthzTypeOK

LEMMA AuthzTypeInit == AuthzInit => AuthzTypeOK
BY AuthzConstants DEF AuthzInit, AuthzTypeOK

LEMMA AuthzTypeInductive == AuthzTypeOK /\ [AuthzNext]_authzVars => AuthzTypeOK'
<1> SUFFICES ASSUME AuthzTypeOK, [AuthzNext]_authzVars PROVE AuthzTypeOK'
  OBVIOUS
<1>1. CASE UNCHANGED authzVars
  BY <1>1 DEF AuthzTypeOK, authzVars
<1>2. CASE AuthzNext
  <2>1. PICK a \in Identity, d \in Device, ts \in Time : AuthzStep(a, d, ts)
    BY <1>2, StepIsAnEvent
  <2>2. ASSUME NEW expiry \in Time \cup {NoExpiry}, DeviceAuthorized(a, d, ts, expiry)
        PROVE  AuthzTypeOK'
    BY <2>2, AdvanceKeepsTypes DEF DeviceAuthorized, AuthzTypeOK
  <2>3. ASSUME NEW device \in Device, DeviceRevoked(a, d, ts, device)
        PROVE  AuthzTypeOK'
    BY <2>3, AdvanceKeepsTypes DEF DeviceRevoked, AuthzTypeOK
  <2>4. ASSUME NEW i \in Invite, NEW uses \in 0..MaxUsesBound, NEW expires \in Time,
               NEW approval \in BOOLEAN, InviteCreated(a, d, ts, i, uses, expires, approval)
        PROVE  AuthzTypeOK'
    <3>1. [max_uses |-> uses, expires_at |-> expires, use_count |-> 0,
           requires_approval |-> approval] \in InviteRecord
      BY DEF InviteRecord
    <3> QED
      BY <3>1, <2>4, AdvanceKeepsTypes
      DEF InviteCreated, AuthzTypeOK, standingVars, deviceVars
  <2>5. ASSUME NEW i \in Invite, MemberJoined(a, d, ts, i)
        PROVE  AuthzTypeOK'
    <3>1. invites[i] \in InviteRecord
      BY <2>5 DEF MemberJoined, InviteOpen, AuthzTypeOK
    <3>2. [invites[i] EXCEPT !.use_count = @ + 1] \in InviteRecord
      BY <3>1 DEF InviteRecord
    <3>3. invites' \in [Invite -> InviteRecord \cup {NoInvite}]
      BY <3>2, <2>5 DEF MemberJoined, AuthzTypeOK
    <3>4. members' \subseteq Identity /\ pending' \subseteq Identity
      BY <2>5 DEF MemberJoined, AuthzTypeOK
    <3> QED
      BY <3>3, <3>4, <2>5, AdvanceKeepsTypes DEF MemberJoined, AuthzTypeOK, deviceVars
  <2>6. ASSUME NEW m \in Identity, MemberApproved(a, d, ts, m)
        PROVE  AuthzTypeOK'
    BY <2>6, AdvanceKeepsTypes DEF MemberApproved, AuthzTypeOK, deviceVars
  <2>7. ASSUME NEW m \in Identity, MemberRemoved(a, d, ts, m)
        PROVE  AuthzTypeOK'
    BY <2>7, AdvanceKeepsTypes DEF MemberRemoved, Expel, AuthzTypeOK, deviceVars
  <2>8. ASSUME NEW m \in Identity, MemberBanned(a, d, ts, m)
        PROVE  AuthzTypeOK'
    BY <2>8, AdvanceKeepsTypes DEF MemberBanned, Expel, AuthzTypeOK, deviceVars
  <2>9. ASSUME NEW m \in Identity, MemberUnbanned(a, d, ts, m)
        PROVE  AuthzTypeOK'
    BY <2>9, AdvanceKeepsTypes DEF MemberUnbanned, AuthzTypeOK, deviceVars
  <2>10. ASSUME NEW m \in Identity, NEW cap \in Capability, PermissionGranted(a, d, ts, m, cap)
         PROVE  AuthzTypeOK'
    BY <2>10, AdvanceKeepsTypes DEF PermissionGranted, AuthzTypeOK, deviceVars
  <2> QED
    BY <2>1, <2>2, <2>3, <2>4, <2>5, <2>6, <2>7, <2>8, <2>9, <2>10 DEF AuthzStep
<1> QED
  BY <1>1, <1>2

(* Every part of LogState keeps its type through every payload of `apply`,  *)
(* and a floor is always a moment somebody claimed.                         *)
THEOREM AuthzTypeInvariant == AuthzSpec => []AuthzTypeOK
BY AuthzTypeInit, AuthzTypeInductive, PTL DEF AuthzSpec

-----------------------------------------------------------------------------
(* Standing.  The four invariants hold together: a grant is safe because    *)
(* its holder is a member, a ban because the three sets are disjoint.       *)

StandingInv ==
    /\ AuthzTypeOK
    /\ StandingExclusive
    /\ CapabilitiesNeedMembership
    /\ OwnerNeverBanned
    /\ InviteBudget

LEMMA StandingInductive == StandingInv /\ [AuthzNext]_authzVars => StandingInv'
<1> SUFFICES ASSUME StandingInv, [AuthzNext]_authzVars PROVE StandingInv'
  OBVIOUS
<1>t. AuthzTypeOK'
  BY AuthzTypeInductive DEF StandingInv
<1> USE DEF StandingInv, StandingExclusive, CapabilitiesNeedMembership, OwnerNeverBanned,
            InviteBudget
<1>1. CASE UNCHANGED authzVars
  BY <1>1, <1>t DEF authzVars
<1>2. CASE AuthzNext
  <2>1. PICK a \in Identity, d \in Device, ts \in Time : AuthzStep(a, d, ts)
    BY <1>2, StepIsAnEvent
  <2>2. ASSUME NEW expiry \in Time \cup {NoExpiry}, DeviceAuthorized(a, d, ts, expiry)
        PROVE  StandingInv'
    BY <2>2, <1>t DEF DeviceAuthorized
  <2>3. ASSUME NEW device \in Device, DeviceRevoked(a, d, ts, device)
        PROVE  StandingInv'
    BY <2>3, <1>t DEF DeviceRevoked
  <2>4. ASSUME NEW i \in Invite, NEW uses \in 0..MaxUsesBound, NEW expires \in Time,
               NEW approval \in BOOLEAN, InviteCreated(a, d, ts, i, uses, expires, approval)
        PROVE  StandingInv'
    <3>1. InviteBudget'
      BY <2>4 DEF InviteCreated, AuthzTypeOK
    <3> QED
      BY <2>4, <3>1, <1>t DEF InviteCreated, standingVars
  <2>5. ASSUME NEW i \in Invite, MemberJoined(a, d, ts, i)
        PROVE  StandingInv'
    <3>1. StandingExclusive' /\ OwnerNeverBanned'
      BY <2>5 DEF MemberJoined, Accepted, MayAct
    <3>2. CapabilitiesNeedMembership'
      BY <2>5 DEF MemberJoined
    <3>3. InviteBudget'
      <4>1. invites[i] \in InviteRecord /\ invites[i].use_count < invites[i].max_uses
        BY <2>5 DEF MemberJoined, InviteOpen, AuthzTypeOK
      <4>2. invites' = [invites EXCEPT ![i].use_count = @ + 1]
        BY <2>5 DEF MemberJoined
      <4> QED
        BY <4>1, <4>2 DEF AuthzTypeOK, InviteRecord
    <3> QED
      BY <3>1, <3>2, <3>3, <1>t
  <2>6. ASSUME NEW m \in Identity, MemberApproved(a, d, ts, m)
        PROVE  StandingInv'
    BY <2>6, <1>t DEF MemberApproved, MayApprove
  <2>7. ASSUME NEW m \in Identity, MemberRemoved(a, d, ts, m)
        PROVE  StandingInv'
    BY <2>7, <1>t DEF MemberRemoved, Expel, AuthzTypeOK
  <2>8. ASSUME NEW m \in Identity, MemberBanned(a, d, ts, m)
        PROVE  StandingInv'
    BY <2>8, <1>t DEF MemberBanned, MayBan, IsOwner, Expel, AuthzTypeOK
  <2>9. ASSUME NEW m \in Identity, MemberUnbanned(a, d, ts, m)
        PROVE  StandingInv'
    BY <2>9, <1>t DEF MemberUnbanned
  <2>10. ASSUME NEW m \in Identity, NEW cap \in Capability, PermissionGranted(a, d, ts, m, cap)
         PROVE  StandingInv'
    BY <2>10, <1>t DEF PermissionGranted, AuthzTypeOK
  <2> QED
    BY <2>1, <2>2, <2>3, <2>4, <2>5, <2>6, <2>7, <2>8, <2>9, <2>10 DEF AuthzStep
<1> QED
  BY <1>1, <1>2

(* The four standing rules with the types, in which they are inductive.     *)
THEOREM StandingInvariant == AuthzSpec => []StandingInv
<1>1. AuthzInit => StandingInv
  <2>1. AuthzInit => AuthzTypeOK
    BY AuthzTypeInit
  <2> QED
    BY <2>1 DEF AuthzInit, StandingInv, StandingExclusive, CapabilitiesNeedMembership,
                OwnerNeverBanned, InviteBudget
<1> QED
  BY <1>1, StandingInductive, PTL DEF AuthzSpec

(* What StandingInv says of the server: the three standings exclude one     *)
(* another, only members hold grants, the owner is never behind the ban     *)
(* gate, and no invite admits more than it says (check_payload_authz and    *)
(* apply_payload_effect, the membership payloads).                          *)
THEOREM StandingIsSafe == AuthzSpec => []StandingSafe
<1>1. StandingInv => StandingSafe
  BY DEF StandingInv, StandingSafe
<1> QED
  BY <1>1, StandingInvariant, PTL

-----------------------------------------------------------------------------
(* Refinement: every accepted event moves at most one identity, along an    *)
(* edge that Membership allows.                                             *)

LEMMA StandingByCase ==
    ASSUME NEW m \in Identity
    PROVE  /\ m \in members => Standing(m) = "member"
           /\ m \in pending /\ m \notin members => Standing(m) = "pending"
           /\ m \in banned /\ m \notin members \cup pending => Standing(m) = "banned"
           /\ m \notin members \cup pending \cup banned => Standing(m) = "stranger"
BY DEF Standing

(* Two memberships that differ only in m's standing differ by one Move. *)
LEMMA OneMove ==
    ASSUME NEW m \in Identity,
           Standing(m)' # Standing(m),
           Standing(m)' \in Standings!Moves[Standing(m)],
           Standing(m)' = "banned" => m # Owner,
           \A n \in Identity \ {m} : Standing(n)' = Standing(n)
    PROVE  Standings!Next
<1>1. Standing(m)' \in {"stranger", "pending", "member", "banned"}
  BY DEF Standing
<1>2. standing' = [standing EXCEPT ![m] = Standing(m)']
  BY DEF standing, Standing
<1>3. Standings!Move(m, Standing(m)')
  BY <1>2 DEF Standings!Move, standing
<1> QED
  BY <1>1, <1>3 DEF Standings!Next, Standings!Standings

LEMMA SameStanding ==
    ASSUME UNCHANGED <<members, pending, banned>>
    PROVE  UNCHANGED standing
BY DEF Standing, standing

LEMMA StepMovesOne ==
    ASSUME StandingInv, AuthzNext
    PROVE  Standings!Next \/ UNCHANGED standing
<1>1. PICK a \in Identity, d \in Device, ts \in Time : AuthzStep(a, d, ts)
  BY StepIsAnEvent
<1> USE DEF StandingInv, StandingExclusive, OwnerNeverBanned
<1>2. ASSUME NEW expiry \in Time \cup {NoExpiry}, DeviceAuthorized(a, d, ts, expiry)
      PROVE  UNCHANGED standing
  BY <1>2, SameStanding DEF DeviceAuthorized
<1>3. ASSUME NEW device \in Device, DeviceRevoked(a, d, ts, device)
      PROVE  UNCHANGED standing
  BY <1>3, SameStanding DEF DeviceRevoked
<1>4. ASSUME NEW i \in Invite, NEW uses \in 0..MaxUsesBound, NEW expires \in Time,
             NEW approval \in BOOLEAN, InviteCreated(a, d, ts, i, uses, expires, approval)
      PROVE  UNCHANGED standing
  BY <1>4, SameStanding DEF InviteCreated, standingVars
<1>5. ASSUME NEW i \in Invite, MemberJoined(a, d, ts, i)
      PROVE  Standings!Next
  <2>1. Standing(a) = "stranger"
    BY <1>5, StandingByCase DEF MemberJoined, Accepted, MayAct
  <2>2. Standing(a)' \in {"pending", "member"}
    BY <1>5 DEF MemberJoined, Standing
  <2>3. \A n \in Identity \ {a} : Standing(n)' = Standing(n)
    BY <1>5 DEF MemberJoined, Standing
  <2> QED
    BY <2>1, <2>2, <2>3, OneMove DEF Standings!Moves
<1>6. ASSUME NEW m \in Identity, MemberApproved(a, d, ts, m)
      PROVE  Standings!Next
  <2>1. Standing(m) = "pending"
    BY <1>6, StandingByCase DEF MemberApproved, MayApprove
  <2>2. Standing(m)' = "member"
    BY <1>6 DEF MemberApproved, Standing
  <2>3. \A n \in Identity \ {m} : Standing(n)' = Standing(n)
    BY <1>6 DEF MemberApproved, Standing
  <2> QED
    BY <2>1, <2>2, <2>3, OneMove DEF Standings!Moves
<1>7. ASSUME NEW m \in Identity, MemberRemoved(a, d, ts, m)
      PROVE  Standings!Next
  <2>1. Standing(m) \in {"pending", "member"}
    BY <1>7, StandingByCase DEF MemberRemoved
  <2>2. Standing(m)' = "stranger"
    BY <1>7 DEF MemberRemoved, Expel, Standing
  <2>3. \A n \in Identity \ {m} : Standing(n)' = Standing(n)
    BY <1>7 DEF MemberRemoved, Expel, Standing
  <2> QED
    BY <2>1, <2>2, <2>3, OneMove DEF Standings!Moves
<1>8. ASSUME NEW m \in Identity, MemberBanned(a, d, ts, m)
      PROVE  Standings!Next \/ UNCHANGED standing
  <2>1. Standing(m) \in {"stranger", "pending", "member", "banned"}
    BY DEF Standing
  <2>2. Standing(m)' = "banned" /\ m # Owner
    BY <1>8 DEF MemberBanned, MayBan, IsOwner, Expel, Standing
  <2>3. \A n \in Identity \ {m} : Standing(n)' = Standing(n)
    BY <1>8 DEF MemberBanned, Expel, Standing
  <2>4. CASE Standing(m) = "banned"
    BY <2>2, <2>3, <2>4 DEF standing
  <2>5. CASE Standing(m) # "banned"
    BY <2>1, <2>2, <2>3, <2>5, OneMove DEF Standings!Moves
  <2> QED
    BY <2>4, <2>5
<1>9. ASSUME NEW m \in Identity, MemberUnbanned(a, d, ts, m)
      PROVE  Standings!Next \/ UNCHANGED standing
  <2>1. \A n \in Identity \ {m} : Standing(n)' = Standing(n)
    BY <1>9 DEF MemberUnbanned, Standing
  <2>2. CASE m \in banned
    <3>1. Standing(m) = "banned" /\ Standing(m)' = "stranger"
      BY <1>9, <2>2 DEF MemberUnbanned, Standing
    <3> QED
      BY <2>1, <3>1, OneMove DEF Standings!Moves
  <2>3. CASE m \notin banned
    BY <1>9, <2>3, SameStanding DEF MemberUnbanned
  <2> QED
    BY <2>2, <2>3
<1>10. ASSUME NEW m \in Identity, NEW cap \in Capability, PermissionGranted(a, d, ts, m, cap)
       PROVE  UNCHANGED standing
  BY <1>10, SameStanding DEF PermissionGranted
<1> QED
  BY <1>1, <1>2, <1>3, <1>4, <1>5, <1>6, <1>7, <1>8, <1>9, <1>10 DEF AuthzStep

LEMMA StandingInitially == AuthzInit => Standings!Init
BY DEF AuthzInit, Standings!Init, Standing, standing

(* The authorization fold implements Membership: an event moves at most one *)
(* identity, and only along Membership's moves.                             *)
THEOREM AuthzImplementsMembership == AuthzSpec => ImplementsMembership
<1>1. StandingInv /\ [AuthzNext]_authzVars => [Standings!Next]_standing
  <2>1. UNCHANGED authzVars => UNCHANGED standing
    BY SameStanding DEF authzVars
  <2> QED
    BY <2>1, StepMovesOne
<1> QED
  BY <1>1, StandingInitially, StandingInvariant, PTL
     DEF AuthzSpec, ImplementsMembership, Standings!Spec

-----------------------------------------------------------------------------
(* Devices. *)

(* Claimed times are only ever clamped upwards. *)
LEMMA ClockIsJudgment ==
    ASSUME AuthzTypeOK, NEW a \in Identity, NEW d \in Device, NEW ts \in Time,
           Advance(a, d, ts)
    PROVE  /\ identityClock'[a] = SelfLivenessTs(a, ts)
           /\ identityClock[a] \in Nat
           /\ identityClock'[a] \in Nat
           /\ identityClock[a] <= identityClock'[a]
           /\ \A m \in Identity \ {a} : identityClock'[m] = identityClock[m]
<1>1. identityClock[a] \in Nat /\ ts \in Nat
  <2>1. identityClock[a] \in Time \cup {0}
    BY DEF AuthzTypeOK
  <2>2. Time \subseteq Nat
    BY AuthzConstants
  <2>3. ts \in Nat
    BY <2>2, Zenon
  <2>4. Time \cup {0} \subseteq Nat
    BY <2>2
  <2> QED
    BY <2>1, <2>3, <2>4, Zenon
<1>2. identityClock' = [identityClock EXCEPT ![a] = MaxOf(identityClock[a], ts)]
  BY DEF Advance
<1>3. identityClock'[a] = MaxOf(identityClock[a], ts)
  BY <1>2 DEF AuthzTypeOK
<1>4. MaxOf(ts, identityClock[a]) = MaxOf(identityClock[a], ts)
  BY <1>1 DEF MaxOf
<1>5. MaxOf(identityClock[a], ts) \in Nat /\ MaxOf(identityClock[a], ts) >= identityClock[a]
  BY <1>1 DEF MaxOf
<1>6. \A m \in Identity \ {a} : identityClock'[m] = identityClock[m]
  BY <1>2 DEF AuthzTypeOK
<1> QED
  BY <1>1, <1>3, <1>4, <1>5, <1>6 DEF SelfLivenessTs

(* The newest event's device is neither revoked nor expired at the latest   *)
(* moment its identity has claimed.                                         *)
NewestIsAlive == /\ last'.device \notin revokedDevices
                 /\ Unexpired(deviceExpiry'[last'.device], identityClock'[last'.author])

LEMMA MayActIsAlive ==
    ASSUME AuthzTypeOK, NEW a \in Identity, NEW d \in Device, NEW ts \in Time,
           Advance(a, d, ts), MayAct(a, d, ts, deviceExpiry'[d])
    PROVE  NewestIsAlive
<1>1. last'.author = a /\ last'.device = d
  BY DEF Advance
<1>2. identityClock'[a] = SelfLivenessTs(a, ts)
  BY ClockIsJudgment
<1> QED
  BY <1>1, <1>2 DEF MayAct, NewestIsAlive

LEMMA AcceptedIsAlive ==
    ASSUME AuthzTypeOK, NEW a \in Identity, NEW d \in Device, NEW ts \in Time,
           Advance(a, d, ts), Accepted(a, d, ts), UNCHANGED deviceExpiry
    PROVE  NewestIsAlive
BY MayActIsAlive DEF Accepted

LEMMA StepsAreAlive ==
    ASSUME AuthzTypeOK, AuthzNext
    PROVE  NewestIsAlive
<1>1. PICK a \in Identity, d \in Device, ts \in Time : AuthzStep(a, d, ts)
  BY StepIsAnEvent
<1>2. ASSUME NEW expiry \in Time \cup {NoExpiry}, DeviceAuthorized(a, d, ts, expiry)
      PROVE  NewestIsAlive
  <2>1. deviceExpiry'[d] = expiry
    BY <1>2 DEF DeviceAuthorized, AuthzTypeOK
  <2> QED
    BY <1>2, <2>1, MayActIsAlive DEF DeviceAuthorized
<1>3. ASSUME NEW device \in Device, DeviceRevoked(a, d, ts, device) PROVE NewestIsAlive
  BY <1>3, AcceptedIsAlive DEF DeviceRevoked
<1>4. ASSUME NEW i \in Invite, NEW uses \in 0..MaxUsesBound, NEW expires \in Time,
             NEW approval \in BOOLEAN, InviteCreated(a, d, ts, i, uses, expires, approval)
      PROVE  NewestIsAlive
  BY <1>4, AcceptedIsAlive DEF InviteCreated, deviceVars
<1>5. ASSUME NEW i \in Invite, MemberJoined(a, d, ts, i) PROVE NewestIsAlive
  BY <1>5, AcceptedIsAlive DEF MemberJoined, deviceVars
<1>6. ASSUME NEW m \in Identity, MemberApproved(a, d, ts, m) PROVE NewestIsAlive
  BY <1>6, AcceptedIsAlive DEF MemberApproved, deviceVars
<1>7. ASSUME NEW m \in Identity, MemberRemoved(a, d, ts, m) PROVE NewestIsAlive
  BY <1>7, AcceptedIsAlive DEF MemberRemoved, deviceVars
<1>8. ASSUME NEW m \in Identity, MemberBanned(a, d, ts, m) PROVE NewestIsAlive
  BY <1>8, AcceptedIsAlive DEF MemberBanned, deviceVars
<1>9. ASSUME NEW m \in Identity, MemberUnbanned(a, d, ts, m) PROVE NewestIsAlive
  BY <1>9, AcceptedIsAlive DEF MemberUnbanned, deviceVars
<1>10. ASSUME NEW m \in Identity, NEW cap \in Capability, PermissionGranted(a, d, ts, m, cap)
       PROVE  NewestIsAlive
  BY <1>10, AcceptedIsAlive DEF PermissionGranted, deviceVars
<1> QED
  BY <1>1, <1>2, <1>3, <1>4, <1>5, <1>6, <1>7, <1>8, <1>9, <1>10 DEF AuthzStep

(* No event is ever accepted from a device that is revoked or expired at    *)
(* the latest moment its identity has claimed (apply's envelope).           *)
THEOREM DeadDevicesStaySilent == AuthzSpec => DeadDevicesAreSilent
<1>1. AuthzTypeOK /\ [AuthzNext]_authzVars => [NewestIsAlive]_authzVars
  BY StepsAreAlive
<1>2. AuthzTypeOK /\ [AuthzNext]_authzVars =>
        [/\ last'.device \notin revokedDevices
         /\ Unexpired(deviceExpiry'[last'.device], identityClock'[last'.author])]_authzVars
  BY <1>1 DEF NewestIsAlive
<1> QED
  BY <1>2, AuthzTypeInvariant, PTL DEF AuthzSpec, DeadDevicesAreSilent

-----------------------------------------------------------------------------
(* The live-device cap.  The inductive invariant judges every identity at    *)
(* its own floor, the earliest moment at which anything it claims can be    *)
(* judged.  A key that passes to another identity is one speaker less for   *)
(* the first, and was counted for the second when it was registered.        *)

SpeakersCounted ==
    \A m \in Identity, d \in Device : deviceIdentity[d] = m => d \in devicesByIdentity[m]

CapAtFloor == \A m \in Identity :
    /\ IsFiniteSet(devicesByIdentity[m])
    /\ Cardinality(SpeakersAt(m, identityClock[m])) <= MaxLiveDevices

CapInv == AuthzTypeOK /\ SpeakersCounted /\ CapAtFloor

LEMMA SpeakersAreLive ==
    ASSUME NEW m \in Identity, NEW at, SpeakersCounted, IsFiniteSet(devicesByIdentity[m])
    PROVE  /\ SpeakersAt(m, at) \subseteq LiveDevicesAt(m, at)
           /\ IsFiniteSet(SpeakersAt(m, at))
           /\ Cardinality(SpeakersAt(m, at)) \in Nat
<1>1. SpeakersAt(m, at) \subseteq LiveDevicesAt(m, at)
  BY DEF SpeakersAt, LiveDevicesAt, SpeakersCounted
<1>2. LiveDevicesAt(m, at) \subseteq devicesByIdentity[m]
  BY DEF LiveDevicesAt
<1>3. SpeakersAt(m, at) \subseteq devicesByIdentity[m]
  BY <1>1, <1>2
<1>4. IsFiniteSet(SpeakersAt(m, at))
  BY <1>3, FS_Subset
<1> QED
  BY <1>1, <1>4, FS_CardinalityType

(* The later the judgment, the fewer devices speak. *)
LEMMA SpeakersShrink ==
    ASSUME NEW m \in Identity, NEW at1 \in Nat, NEW at2 \in Nat, at1 <= at2, AuthzTypeOK
    PROVE  SpeakersAt(m, at2) \subseteq SpeakersAt(m, at1)
<1>1. ASSUME NEW x \in Device, Unexpired(deviceExpiry[x], at2)
      PROVE  Unexpired(deviceExpiry[x], at1)
  <2>1. deviceExpiry[x] \in Time \cup {NoExpiry} /\ Time \subseteq Nat
    BY AuthzConstants DEF AuthzTypeOK
  <2>2. deviceExpiry[x] # NoExpiry => deviceExpiry[x] \in Nat
    BY <2>1, Zenon
  <2> QED
    BY <1>1, <2>2 DEF Unexpired
<1> QED
  BY <1>1 DEF SpeakersAt

(* Every event but a certificate only takes speakers away. *)
LEMMA CapKeptWithoutCertificates ==
    ASSUME CapInv, NEW a \in Identity, NEW d \in Device, NEW ts \in Time, Advance(a, d, ts),
           UNCHANGED <<deviceIdentity, deviceExpiry, devicesByIdentity>>,
           revokedDevices \subseteq revokedDevices'
    PROVE  SpeakersCounted' /\ CapAtFloor'
<1>1. SpeakersCounted'
  BY DEF CapInv, SpeakersCounted
<1>2. ASSUME NEW m \in Identity
      PROVE  /\ IsFiniteSet(devicesByIdentity'[m])
             /\ Cardinality(SpeakersAt(m, identityClock[m])') <= MaxLiveDevices
  <2>1. /\ identityClock[m] \in Nat
        /\ identityClock'[m] \in Nat
        /\ identityClock[m] <= identityClock'[m]
    <3>1. identityClock[m] \in Time \cup {0}
      BY DEF CapInv, AuthzTypeOK
    <3>2. Time \cup {0} \subseteq Nat
      BY AuthzConstants
    <3>3. identityClock[m] \in Nat
      BY <3>1, <3>2, Zenon
    <3> QED
      BY <3>3, ClockIsJudgment DEF CapInv
  <2>2. IsFiniteSet(devicesByIdentity[m])
    BY DEF CapInv, CapAtFloor
  <2>3. SpeakersAt(m, identityClock[m])' \subseteq SpeakersAt(m, identityClock'[m])
    BY DEF SpeakersAt
  <2>4. SpeakersAt(m, identityClock'[m]) \subseteq SpeakersAt(m, identityClock[m])
    BY <2>1, SpeakersShrink DEF CapInv
  <2>5. IsFiniteSet(SpeakersAt(m, identityClock[m]))
    BY <2>2, SpeakersAreLive DEF CapInv
  <2>6. /\ IsFiniteSet(SpeakersAt(m, identityClock[m])')
        /\ Cardinality(SpeakersAt(m, identityClock[m])')
             <= Cardinality(SpeakersAt(m, identityClock[m]))
    BY <2>3, <2>4, <2>5, FS_Subset
  <2>7. Cardinality(SpeakersAt(m, identityClock[m])) <= MaxLiveDevices
    BY DEF CapInv, CapAtFloor
  <2>8. /\ Cardinality(SpeakersAt(m, identityClock[m])) \in Nat
        /\ Cardinality(SpeakersAt(m, identityClock[m])') \in Nat
        /\ MaxLiveDevices \in Nat
    BY <2>5, <2>6, FS_CardinalityType, AuthzConstants
  <2> QED
    BY <2>2, <2>6, <2>7, <2>8
<1> QED
  BY <1>1, <1>2 DEF CapAtFloor

(* A certificate adds one device to the live ones at the very moment the    *)
(* cap is judged, which the new floor is not before; nobody else gains one. *)
LEMMA CapKeptByCertificate ==
    ASSUME CapInv, NEW a \in Identity, NEW d \in Device, NEW ts \in Time,
           NEW expiry \in Time \cup {NoExpiry}, DeviceAuthorized(a, d, ts, expiry)
    PROVE  SpeakersCounted' /\ CapAtFloor'
<1>1. /\ deviceIdentity' = [deviceIdentity EXCEPT ![d] = a]
      /\ deviceExpiry' = [deviceExpiry EXCEPT ![d] = expiry]
      /\ devicesByIdentity' = [devicesByIdentity EXCEPT ![a] = @ \cup {d}]
      /\ revokedDevices' = revokedDevices
      /\ Cardinality(LiveDevices(a, ts)) < MaxLiveDevices
      /\ Advance(a, d, ts)
  BY DEF DeviceAuthorized
<1>2. SpeakersCounted'
  BY <1>1 DEF CapInv, SpeakersCounted, AuthzTypeOK
<1>3. ASSUME NEW m \in Identity \ {a}
      PROVE  /\ IsFiniteSet(devicesByIdentity'[m])
             /\ Cardinality(SpeakersAt(m, identityClock[m])') <= MaxLiveDevices
  <2>1. devicesByIdentity'[m] = devicesByIdentity[m]
    BY <1>1 DEF CapInv, AuthzTypeOK
  <2>2. \A x \in Device : deviceIdentity'[x] = m =>
            x # d /\ deviceIdentity[x] = m /\ deviceExpiry'[x] = deviceExpiry[x]
    BY <1>1 DEF CapInv, AuthzTypeOK
  <2>3. identityClock'[m] = identityClock[m]
    BY <1>1, ClockIsJudgment DEF CapInv
  <2>4. SpeakersAt(m, identityClock[m])' \subseteq SpeakersAt(m, identityClock[m])
    BY <1>1, <2>2, <2>3 DEF SpeakersAt
  <2>5. IsFiniteSet(devicesByIdentity[m])
    BY DEF CapInv, CapAtFloor
  <2>6. /\ IsFiniteSet(SpeakersAt(m, identityClock[m]))
        /\ Cardinality(SpeakersAt(m, identityClock[m])) \in Nat
    BY <2>5, SpeakersAreLive DEF CapInv
  <2>7. /\ Cardinality(SpeakersAt(m, identityClock[m])')
             <= Cardinality(SpeakersAt(m, identityClock[m]))
        /\ Cardinality(SpeakersAt(m, identityClock[m])') \in Nat
    BY <2>4, <2>6, FS_Subset, FS_CardinalityType
  <2>8. Cardinality(SpeakersAt(m, identityClock[m])) <= MaxLiveDevices /\ MaxLiveDevices \in Nat
    BY AuthzConstants DEF CapInv, CapAtFloor
  <2> QED
    BY <2>1, <2>5, <2>6, <2>7, <2>8
<1>4. /\ IsFiniteSet(devicesByIdentity'[a])
      /\ Cardinality(SpeakersAt(a, identityClock[a])') <= MaxLiveDevices
  <2> DEFINE before == LiveDevices(a, ts)
             after == SpeakersAt(a, identityClock[a])'
  <2>1. devicesByIdentity'[a] = devicesByIdentity[a] \cup {d}
    BY <1>1 DEF CapInv, AuthzTypeOK
  <2>2. IsFiniteSet(devicesByIdentity[a])
    BY DEF CapInv, CapAtFloor
  <2>3. identityClock'[a] = SelfLivenessTs(a, ts)
    BY <1>1, ClockIsJudgment DEF CapInv
  <2>4. \A x \in Device \ {d} : /\ deviceExpiry'[x] = deviceExpiry[x]
                                /\ deviceIdentity'[x] = deviceIdentity[x]
    BY <1>1 DEF CapInv, AuthzTypeOK
  <2>5. \A x \in Device : deviceIdentity[x] = a => x \in devicesByIdentity[a]
    BY DEF CapInv, SpeakersCounted
  <2>6. after \subseteq before \cup {d}
    BY <1>1, <2>3, <2>4, <2>5 DEF LiveDevices, LiveDevicesAt, SpeakersAt
  <2>7. before \subseteq devicesByIdentity[a]
    BY DEF LiveDevices, LiveDevicesAt
  <2> HIDE DEF before, after
  <2>8. IsFiniteSet(before) /\ Cardinality(before) \in Nat
    BY <2>2, <2>7, FS_Subset, FS_CardinalityType
  <2>9. /\ IsFiniteSet(before \cup {d})
        /\ Cardinality(before \cup {d}) \in Nat
        /\ Cardinality(before \cup {d}) <= Cardinality(before) + 1
    <3>1. /\ IsFiniteSet(before \cup {d})
          /\ Cardinality(before \cup {d}) \in {Cardinality(before), Cardinality(before) + 1}
      BY <2>8, FS_AddElement, Zenon
    <3> QED
      BY <2>8, <3>1
  <2>10. /\ Cardinality(after) \in Nat
         /\ Cardinality(after) <= Cardinality(before \cup {d})
    BY <2>6, <2>9, FS_Subset, FS_CardinalityType
  <2>11. Cardinality(before) < MaxLiveDevices /\ MaxLiveDevices \in Nat
    BY <1>1, AuthzConstants DEF before
  <2>12. Cardinality(after) <= MaxLiveDevices
    BY <2>8, <2>9, <2>10, <2>11
  <2>13. IsFiniteSet(devicesByIdentity'[a])
    BY <2>1, <2>2, FS_AddElement
  <2> QED
    BY <2>12, <2>13 DEF after
<1> QED
  BY <1>2, <1>3, <1>4 DEF CapAtFloor

LEMMA CapInductive == CapInv /\ [AuthzNext]_authzVars => CapInv'
<1> SUFFICES ASSUME CapInv, [AuthzNext]_authzVars PROVE CapInv'
  OBVIOUS
<1>1. AuthzTypeOK'
  BY AuthzTypeInductive DEF CapInv
<1>2. CASE UNCHANGED authzVars
  <2>1. SpeakersCounted'
    BY <1>2 DEF CapInv, SpeakersCounted, authzVars
  <2>2. \A m \in Identity :
          SpeakersAt(m, identityClock[m])' = SpeakersAt(m, identityClock[m])
    BY <1>2 DEF SpeakersAt, authzVars
  <2>3. UNCHANGED devicesByIdentity
    BY <1>2 DEF authzVars
  <2> QED
    BY <1>1, <2>1, <2>2, <2>3 DEF CapInv, CapAtFloor
<1>3. CASE AuthzNext
  <2>1. PICK a \in Identity, d \in Device, ts \in Time :
          <<a, d>> \in Keys /\ AuthzStep(a, d, ts)
    BY <1>3, StepIsAnEvent
  <2>2. ASSUME NEW expiry \in Time \cup {NoExpiry}, DeviceAuthorized(a, d, ts, expiry)
        PROVE  CapInv'
    BY <1>1, <2>2, CapKeptByCertificate DEF CapInv
  <2>3. ASSUME Advance(a, d, ts), UNCHANGED <<deviceIdentity, deviceExpiry, devicesByIdentity>>,
               revokedDevices \subseteq revokedDevices'
        PROVE  CapInv'
    BY <1>1, <2>3, CapKeptWithoutCertificates DEF CapInv
  <2>4. ASSUME NEW device \in Device, DeviceRevoked(a, d, ts, device) PROVE CapInv'
    BY <2>3, <2>4 DEF DeviceRevoked
  <2>5. ASSUME NEW i \in Invite, NEW uses \in 0..MaxUsesBound, NEW expires \in Time,
               NEW approval \in BOOLEAN, InviteCreated(a, d, ts, i, uses, expires, approval)
        PROVE  CapInv'
    BY <2>3, <2>5 DEF InviteCreated, deviceVars
  <2>6. ASSUME NEW i \in Invite, MemberJoined(a, d, ts, i) PROVE CapInv'
    BY <2>3, <2>6 DEF MemberJoined, deviceVars
  <2>7. ASSUME NEW m \in Identity, MemberApproved(a, d, ts, m) PROVE CapInv'
    BY <2>3, <2>7 DEF MemberApproved, deviceVars
  <2>8. ASSUME NEW m \in Identity, MemberRemoved(a, d, ts, m) PROVE CapInv'
    BY <2>3, <2>8 DEF MemberRemoved, deviceVars
  <2>9. ASSUME NEW m \in Identity, MemberBanned(a, d, ts, m) PROVE CapInv'
    BY <2>3, <2>9 DEF MemberBanned, deviceVars
  <2>10. ASSUME NEW m \in Identity, MemberUnbanned(a, d, ts, m) PROVE CapInv'
    BY <2>3, <2>10 DEF MemberUnbanned, deviceVars
  <2>11. ASSUME NEW m \in Identity, NEW cap \in Capability, PermissionGranted(a, d, ts, m, cap)
         PROVE  CapInv'
    BY <2>3, <2>11 DEF PermissionGranted, deviceVars
  <2> QED
    BY <2>1, <2>2, <2>4, <2>5, <2>6, <2>7, <2>8, <2>9, <2>10, <2>11 DEF AuthzStep
<1> QED
  BY <1>2, <1>3

LEMMA CapGivesBound == CapInv => LiveDeviceCap
<1> SUFFICES ASSUME CapInv, NEW m \in Identity, NEW ts \in Time
             PROVE  Cardinality(SpeakersAt(m, SelfLivenessTs(m, ts))) <= MaxLiveDevices
  BY DEF LiveDeviceCap
<1>1. Time \cup {0} \subseteq Nat
  BY AuthzConstants
<1>2. identityClock[m] \in Time \cup {0}
  BY DEF CapInv, AuthzTypeOK
<1>3. identityClock[m] \in Nat /\ ts \in Nat
  BY <1>1, <1>2, Zenon
<1>4. SelfLivenessTs(m, ts) \in Nat /\ identityClock[m] <= SelfLivenessTs(m, ts)
  BY <1>3 DEF SelfLivenessTs, MaxOf
<1>5. IsFiniteSet(devicesByIdentity[m])
  BY DEF CapInv, CapAtFloor
<1>6. SpeakersAt(m, SelfLivenessTs(m, ts)) \subseteq SpeakersAt(m, identityClock[m])
  BY <1>3, <1>4, SpeakersShrink DEF CapInv
<1>7. /\ IsFiniteSet(SpeakersAt(m, identityClock[m]))
      /\ Cardinality(SpeakersAt(m, identityClock[m])) \in Nat
      /\ Cardinality(SpeakersAt(m, SelfLivenessTs(m, ts))) \in Nat
  BY <1>5, SpeakersAreLive DEF CapInv
<1>8. Cardinality(SpeakersAt(m, SelfLivenessTs(m, ts)))
          <= Cardinality(SpeakersAt(m, identityClock[m]))
  BY <1>6, <1>7, FS_Subset
<1>9. Cardinality(SpeakersAt(m, identityClock[m])) <= MaxLiveDevices /\ MaxLiveDevices \in Nat
  BY AuthzConstants DEF CapInv, CapAtFloor
<1> QED
  BY <1>7, <1>8, <1>9

LEMMA CapInit == AuthzInit => CapInv
<1> SUFFICES ASSUME AuthzInit PROVE CapInv
  OBVIOUS
<1>1. SpeakersCounted
  BY AuthzConstants DEF AuthzInit, SpeakersCounted
<1>2. \A m \in Identity : devicesByIdentity[m] = {}
  BY DEF AuthzInit
<1>3. \A m \in Identity : SpeakersAt(m, identityClock[m]) = {}
  BY <1>1, <1>2 DEF SpeakersAt, SpeakersCounted
<1>4. MaxLiveDevices >= 0
  BY AuthzConstants
<1>5. CapAtFloor
  BY <1>2, <1>3, <1>4, FS_EmptySet DEF CapAtFloor
<1> QED
  BY <1>1, <1>5, AuthzTypeInit DEF CapInv

(* "At most this many live devices per identity" (event_log_state.rs:17):   *)
(* never do more devices speak for an identity, at any moment it may still  *)
(* claim, also when device keys pass from one identity to another.          *)
THEOREM LiveDevicesCapped == AuthzSpec => []LiveDeviceCap
<1> QED
  BY CapInit, CapInductive, CapGivesBound, PTL DEF AuthzSpec

-----------------------------------------------------------------------------
(* Induction, in first-order form: a relation is well-founded when every    *)
(* nonempty set has a minimal element (WFMin).                              *)

Less == {p \in Nat \X Nat : p[1] < p[2]}

(* A nonempty set of naturals has a least element. *)
LEMMA LeastOf ==
    ASSUME NEW T \in SUBSET Nat, T # {}
    PROVE  \E n \in T : \A m \in T : n <= m
<1>1. IsWellFoundedOn(Less, Nat)
  BY NatLessThanWellFounded DEF OpToRel, Less
<1>2. PICK n \in T : \A m \in T : ~ (<<m, n>> \in Less)
  BY <1>1, WFMin
<1>3. ASSUME NEW m \in T PROVE ~ (m < n)
  BY <1>2 DEF Less
<1> QED
  BY <1>3

(* A set that holds zero and the successor of each of its elements is Nat. *)
LEMMA Induction ==
    ASSUME NEW S \in SUBSET Nat, 0 \in S, \A n \in S : n + 1 \in S
    PROVE  S = Nat
<1> SUFFICES ASSUME Nat \ S # {} PROVE FALSE
  OBVIOUS
<1>1. PICK n \in Nat \ S : \A m \in Nat \ S : n <= m
  BY LeastOf
<1>2. n # 0 /\ n - 1 \in Nat /\ (n-1) + 1 = n
  BY <1>1
<1>3. n - 1 \in S
  BY <1>1, <1>2
<1> QED
  BY <1>1, <1>2, <1>3

(* Induction over the subsets of a finite set, in first-order form: a set   *)
(* of them that holds the empty one and, with a subset less the element     *)
(* CHOOSE picks from it, the subset, holds them all.                        *)
Picked(s) == CHOOSE x \in s : TRUE

LEMMA SubsetInduction ==
    ASSUME NEW D, IsFiniteSet(D), NEW T \in SUBSET (SUBSET D), {} \in T,
           \A s \in (SUBSET D) \ {{}} : s \ {Picked(s)} \in T => s \in T
    PROVE  T = SUBSET D
<1> SUFFICES ASSUME (SUBSET D) \ T # {} PROVE FALSE
  OBVIOUS
<1>1. IsWellFoundedOn(StrictSubsetOrdering(D), SUBSET D)
  <2>1. IsWellFoundedOn(StrictSubsetOrdering(D), FiniteSubsetsOf(D))
    BY FS_StrictSubsetOrderingWellFounded, Zenon
  <2>2. FiniteSubsetsOf(D) = SUBSET D
    BY FS_FiniteSubsetsOfFinite, Zenon
  <2> QED
    BY <2>1, <2>2, Zenon
<1>2. PICK s \in (SUBSET D) \ T :
          \A r \in (SUBSET D) \ T : ~ (<<r, s>> \in StrictSubsetOrdering(D))
  <2> DEFINE U == (SUBSET D) \ T
  <2>1. U \subseteq SUBSET D /\ U # {}
    OBVIOUS
  <2> HIDE DEF U
  <2>2. \E s \in U : \A r \in U : ~ (<<r, s>> \in StrictSubsetOrdering(D))
    BY <1>1, <2>1, WFMin
  <2> QED
    BY <2>2 DEF U
<1>3. s # {} /\ Picked(s) \in s
  BY <1>2 DEF Picked
<1>4. <<s \ {Picked(s)}, s>> \in StrictSubsetOrdering(D)
  <2> DEFINE r == s \ {Picked(s)}
  <2>1. r \in SUBSET D /\ s \in SUBSET D /\ r \subseteq s /\ r # s
    BY <1>3
  <2> HIDE DEF r
  <2>2. <<r, s>> \in (SUBSET D) \X (SUBSET D) /\ <<r, s>>[1] = r /\ <<r, s>>[2] = s
    BY <2>1, Zenon
  <2>3. <<r, s>> \in StrictSubsetOrdering(D)
    BY <2>1, <2>2, Zenon DEF StrictSubsetOrdering
  <2> QED
    BY <2>3 DEF r
<1>5. s \ {Picked(s)} \in T
  BY <1>2, <1>3, <1>4
<1> QED
  BY <1>2, <1>3, <1>5

(* g is what a fold with op from base over the subsets of D computes. *)
IsFold(g, D, base, op) ==
    /\ g[{}] = base
    /\ \A s \in (SUBSET D) \ {{}} : g[s] = op[Picked(s)][g[s \ {Picked(s)}]]

(* Such a g exists when D is finite, by induction on the subsets' size. *)
LEMMA FoldExists ==
    ASSUME NEW D, IsFiniteSet(D), NEW R, NEW base \in R, NEW op \in [D -> [R -> R]]
    PROVE  \E g \in [SUBSET D -> R] : IsFold(g, D, base, op)
<1> DEFINE Def(g, s) == IF s = {} THEN base ELSE op[Picked(s)][g[s \ {Picked(s)}]]
           Below(n) == {s \in SUBSET D : Cardinality(s) <= n}
           S == {n \in Nat : \E g \in [SUBSET D -> R] : \A s \in Below(n) : g[s] = Def(g, s)}
<1>0. \A s \in SUBSET D : IsFiniteSet(s) /\ Cardinality(s) \in Nat
  BY FS_Subset, FS_CardinalityType
<1>1. \A s \in SUBSET D : s # {} => /\ Picked(s) \in s /\ s \ {Picked(s)} \in SUBSET D
                                    /\ Cardinality(s \ {Picked(s)}) = Cardinality(s) - 1
  BY <1>0, FS_RemoveElement DEF Picked
<1>2. ASSUME NEW g \in [SUBSET D -> R], NEW s \in SUBSET D PROVE Def(g, s) \in R
  <2>1. CASE s = {}
    BY <2>1
  <2>2. CASE s # {}
    <3>1. op[Picked(s)] \in [R -> R] /\ g[s \ {Picked(s)}] \in R
      BY <1>1, <2>2
    <3>2. Def(g, s) = op[Picked(s)][g[s \ {Picked(s)}]]
      BY <2>2
    <3> QED
      BY <3>1, <3>2
  <2> QED
    BY <2>1, <2>2
<1>3. 0 \in S
  <2> DEFINE g == [s \in SUBSET D |-> base]
  <2>1. \A s \in Below(0) : s = {}
    BY <1>0, FS_EmptySet
  <2>2. g \in [SUBSET D -> R] /\ \A s \in Below(0) : g[s] = Def(g, s)
    BY <2>1
  <2> HIDE DEF g
  <2> QED
    BY <2>2
<1>4. ASSUME NEW n \in S PROVE n + 1 \in S
  <2>1. PICK g \in [SUBSET D -> R] : \A s \in Below(n) : g[s] = Def(g, s)
    OBVIOUS
  <2> DEFINE h == [s \in SUBSET D |-> IF s \in Below(n) THEN g[s] ELSE Def(g, s)]
  <2>2. h \in [SUBSET D -> R]
    BY <1>2
  <2>3. ASSUME NEW s \in Below(n + 1) PROVE h[s] = Def(h, s)
    <3>1. s # {} => s \ {Picked(s)} \in Below(n)
      <4> SUFFICES ASSUME s # {} PROVE s \ {Picked(s)} \in Below(n)
        OBVIOUS
      <4>1. n \in Nat /\ s \in SUBSET D /\ Cardinality(s) \in Nat /\ Cardinality(s) <= n + 1
        BY <1>0
      <4>2. s \ {Picked(s)} \in SUBSET D
        BY <4>1, Zenon
      <4>4. Cardinality(s \ {Picked(s)}) = Cardinality(s) - 1
        BY <1>1, <4>1, Zenon
      <4>3. Cardinality(s \ {Picked(s)}) <= n
        BY <4>1, <4>4
      <4> QED
        BY <4>2, <4>3
    <3>2. Def(h, s) = Def(g, s)
      BY <3>1, <1>1
    <3> QED
      BY <2>1, <3>2
  <2> HIDE DEF h, Def, Below
  <2> QED
    BY <2>2, <2>3
<1>5. S = Nat
  <2> HIDE DEF S
  <2>1. S \in SUBSET Nat
    BY DEF S
  <2> QED
    BY <1>3, <1>4, <2>1, Induction
<1>6. Cardinality(D) \in Nat /\ \A s \in SUBSET D : Cardinality(s) <= Cardinality(D)
  BY FS_CardinalityType, FS_Subset
<1>7. PICK g \in [SUBSET D -> R] : \A s \in Below(Cardinality(D)) : g[s] = Def(g, s)
  <2> HIDE DEF Def, Below
  <2> QED
    BY <1>5, <1>6
<1>8. \A s \in SUBSET D : g[s] = Def(g, s)
  BY <1>6, <1>7
<1> QED
  BY <1>8 DEF IsFold

-----------------------------------------------------------------------------

(* The scan meets the floors one by one, in the order CHOOSE takes them. *)
LEMMA ScanUnfolded ==
    ASSUME NEW clock \in [Identity -> Nat]
    PROVE  \E g \in [SUBSET Identity -> Nat \X Nat] :
              /\ g = [s \in SUBSET Identity |->
                        IF s = {} THEN <<0, 0>>
                        ELSE ScanFloor(clock[Picked(s)], g[s \ {Picked(s)}])]
              /\ CorroboratedClock(clock) = g[Identity][2]
<1> DEFINE op == [p \in Identity |-> [top \in Nat \X Nat |-> ScanFloor(clock[p], top)]]
           Is(g) == g = [s \in SUBSET Identity |->
                           IF s = {} THEN <<0, 0>>
                           ELSE ScanFloor(clock[Picked(s)], g[s \ {Picked(s)}])]
<1>1. ASSUME NEW v \in Nat, NEW top \in Nat \X Nat PROVE ScanFloor(v, top) \in Nat \X Nat
  BY DEF ScanFloor
<1>2. op \in [Identity -> [Nat \X Nat -> Nat \X Nat]]
  BY <1>1
<1>3. \A p \in Identity, top \in Nat \X Nat : op[p][top] = ScanFloor(clock[p], top)
  OBVIOUS
<1>4. PICK g \in [SUBSET Identity -> Nat \X Nat] :
          IsFold(g, Identity, <<0, 0>>, op)
  <2> DEFINE R == Nat \X Nat
             base == <<0, 0>>
  <2>1. base \in R /\ op \in [Identity -> [R -> R]]
    BY <1>2
  <2>2. \E g \in [SUBSET Identity -> R] : IsFold(g, Identity, base, op)
    <3>1. IsFiniteSet(Identity)
      BY FiniteKeySpace
    <3> HIDE DEF op, R, base
    <3> QED
      BY <2>1, <3>1, FoldExists, Zenon
  <2> QED
    BY <2>2
<1>5. Is(g)
  <2> HIDE DEF op
  <2>1. ASSUME NEW s \in SUBSET Identity, s # {}
        PROVE  op[Picked(s)][g[s \ {Picked(s)}]] = ScanFloor(clock[Picked(s)], g[s \ {Picked(s)}])
    BY <1>3, <2>1 DEF Picked
  <2> QED
    BY <1>4, <2>1 DEF IsFold
<1>6. PICK f : f = (CHOOSE ff : Is(ff)) /\ CorroboratedClock(clock) = f[Identity][2]
  BY DEF CorroboratedClock, FoldFunction, FoldFunctionOnSet, MapThenFoldSet, Picked
<1>7. Is(f)
  BY <1>5, <1>6
<1>8. f \in [SUBSET Identity -> Nat \X Nat]
  <2> DEFINE T == {s \in SUBSET Identity : f[s] \in Nat \X Nat}
  <2>1. {} \in T
    BY <1>7
  <2>2. ASSUME NEW s \in (SUBSET Identity) \ {{}}, s \ {Picked(s)} \in T
        PROVE  s \in T
    <3>1. Picked(s) \in Identity
      BY DEF Picked
    <3>2. f[s] = ScanFloor(clock[Picked(s)], f[s \ {Picked(s)}])
      BY <1>7
    <3> QED
      BY <1>1, <2>2, <3>1, <3>2
  <2>3. T = SUBSET Identity
    <3> HIDE DEF T
    <3>1. T \in SUBSET (SUBSET Identity)
      BY DEF T
    <3> QED
      BY <2>1, <2>2, <3>1, SubsetInduction, FiniteKeySpace
  <2> QED
    BY <1>7, <2>3
<1> QED
  BY <1>6, <1>7, <1>8

(* What the scan knows of the floors it has met. *)
Witnessed(clock, s, top) ==
    /\ top \in Nat \X Nat
    /\ top[2] <= top[1]
    /\ \A t \in Nat \ {0} :
          /\ top[1] >= t <=> \E p \in s : clock[p] >= t
          /\ top[2] >= t <=> \E p, q \in s : p # q /\ clock[p] >= t /\ clock[q] >= t

(* One more floor keeps that knowledge. *)
LEMMA ScanFloorWitnesses ==
    ASSUME NEW clock, NEW s, NEW x \in s, clock[x] \in Nat, NEW top,
           Witnessed(clock, s \ {x}, top)
    PROVE  Witnessed(clock, s, ScanFloor(clock[x], top))
<1> DEFINE v == clock[x]
           new == ScanFloor(v, top)
<1>1. v \in Nat /\ top[1] \in Nat /\ top[2] \in Nat /\ top[2] <= top[1] /\ top = <<top[1], top[2]>>
  BY DEF Witnessed
<1>2. new \in Nat \X Nat /\ new[2] <= new[1]
  BY <1>1 DEF ScanFloor
<1>3. ASSUME NEW t \in Nat \ {0}
      PROVE  /\ new[1] >= t <=> \E p \in s : clock[p] >= t
             /\ new[2] >= t <=> \E p, q \in s : p # q /\ clock[p] >= t /\ clock[q] >= t
  <2>1. /\ new[1] >= t <=> v >= t \/ top[1] >= t
        /\ new[2] >= t <=> (v >= t /\ top[1] >= t) \/ top[2] >= t
    BY <1>1 DEF ScanFloor
  <2>2. /\ top[1] >= t <=> \E p \in s \ {x} : clock[p] >= t
        /\ top[2] >= t <=> \E p, q \in s \ {x} : p # q /\ clock[p] >= t /\ clock[q] >= t
    BY DEF Witnessed
  <2>3. (\E p \in s : clock[p] >= t) <=> v >= t \/ \E p \in s \ {x} : clock[p] >= t
    OBVIOUS
  <2>4. (\E p, q \in s : p # q /\ clock[p] >= t /\ clock[q] >= t)
          <=> \/ v >= t /\ \E p \in s \ {x} : clock[p] >= t
              \/ \E p, q \in s \ {x} : p # q /\ clock[p] >= t /\ clock[q] >= t
    OBVIOUS
  <2> HIDE DEF new, v
  <2> QED
    BY <2>1, <2>2, <2>3, <2>4
<1> QED
  BY <1>2, <1>3 DEF Witnessed

(* So the scan ends with the second largest of all floors. *)
LEMMA ScanWitnesses ==
    ASSUME NEW clock \in [Identity -> Nat]
    PROVE  /\ CorroboratedClock(clock) \in Nat
           /\ \A t \in Nat \ {0} :
                 CorroboratedClock(clock) >= t
                   <=> \E p, q \in Identity : p # q /\ clock[p] >= t /\ clock[q] >= t
<1>1. PICK g \in [SUBSET Identity -> Nat \X Nat] :
          /\ g = [s \in SUBSET Identity |->
                    IF s = {} THEN <<0, 0>>
                    ELSE ScanFloor(clock[Picked(s)], g[s \ {Picked(s)}])]
          /\ CorroboratedClock(clock) = g[Identity][2]
  BY ScanUnfolded
<1> DEFINE T == {s \in SUBSET Identity : Witnessed(clock, s, g[s])}
<1>2. {} \in T
  <2>1. g[{}] = <<0, 0>>
    BY <1>1
  <2> QED
    BY <2>1 DEF Witnessed
<1>3. ASSUME NEW s \in (SUBSET Identity) \ {{}}, s \ {Picked(s)} \in T
      PROVE  s \in T
  <2>1. Picked(s) \in s
    BY DEF Picked
  <2>2. g[s] = ScanFloor(clock[Picked(s)], g[s \ {Picked(s)}])
    BY <1>1
  <2>3. Witnessed(clock, s \ {Picked(s)}, g[s \ {Picked(s)}]) /\ clock[Picked(s)] \in Nat
    BY <1>3, <2>1
  <2> QED
    BY <2>1, <2>2, <2>3, ScanFloorWitnesses
<1>4. Identity \in T
  <2> HIDE DEF T
  <2>1. T \in SUBSET (SUBSET Identity)
    BY DEF T
  <2> QED
    BY <1>2, <1>3, <2>1, SubsetInduction, FiniteKeySpace
<1> QED
  BY <1>1, <1>4 DEF Witnessed

-----------------------------------------------------------------------------
InviteState == InviteRecord \cup {NoInvite}

LEMMA UsesType == ASSUME NEW inv \in InviteState PROVE Uses(inv) \in Nat
BY DEF InviteState, InviteRecord, Uses

(* The sum of the use counts, one invite at a time. *)
LEMMA UsesUnfolded ==
    ASSUME NEW invs \in [Invite -> InviteState]
    PROVE  \E g \in [SUBSET Invite -> Nat] :
              /\ g[{}] = 0
              /\ \A s \in (SUBSET Invite) \ {{}} :
                    g[s] = Uses(invs[Picked(s)]) + g[s \ {Picked(s)}]
              /\ UsesSpent(invs) = g[Invite]
<1> DEFINE op == [i \in Invite |-> [n \in Nat |-> Uses(invs[i]) + n]]
           Is(g) == g = [s \in SUBSET Invite |->
                           IF s = {} THEN 0 ELSE Uses(invs[Picked(s)]) + g[s \ {Picked(s)}]]
<1>1. \A i \in Invite : Uses(invs[i]) \in Nat
  BY UsesType
<1>2. op \in [Invite -> [Nat -> Nat]]
  BY <1>1
<1>3. PICK g \in [SUBSET Invite -> Nat] : IsFold(g, Invite, 0, op)
  <2> HIDE DEF op
  <2> QED
    BY <1>2, FoldExists, FiniteKeySpace
<1>4. Is(g)
  <2>1. ASSUME NEW s \in SUBSET Invite, s # {}
        PROVE  op[Picked(s)][g[s \ {Picked(s)}]] = Uses(invs[Picked(s)]) + g[s \ {Picked(s)}]
    <3>1. Picked(s) \in Invite /\ g[s \ {Picked(s)}] \in Nat
      BY <2>1 DEF Picked
    <3> QED
      BY <3>1
  <2> HIDE DEF op
  <2> QED
    BY <1>3, <2>1 DEF IsFold
<1>5. PICK f : f = (CHOOSE ff : Is(ff)) /\ UsesSpent(invs) = f[Invite]
  BY DEF UsesSpent, FoldFunction, FoldFunctionOnSet, MapThenFoldSet, Picked
<1>6. Is(f)
  BY <1>4, <1>5
<1>7. f \in [SUBSET Invite -> Nat]
  <2> DEFINE T == {s \in SUBSET Invite : f[s] \in Nat}
  <2>1. {} \in T
    BY <1>6
  <2>2. ASSUME NEW s \in (SUBSET Invite) \ {{}}, s \ {Picked(s)} \in T
        PROVE  s \in T
    <3>1. Uses(invs[Picked(s)]) \in Nat
      BY <1>1 DEF Picked
    <3>2. f[s] = Uses(invs[Picked(s)]) + f[s \ {Picked(s)}]
      BY <1>6
    <3> QED
      BY <2>2, <3>1, <3>2
  <2>3. T = SUBSET Invite
    <3>1. T \in SUBSET (SUBSET Invite)
      OBVIOUS
    <3> HIDE DEF T
    <3> QED
      BY <2>1, <2>2, <3>1, SubsetInduction, FiniteKeySpace
  <2> QED
    BY <1>6, <2>3
<1> QED
  BY <1>5, <1>6, <1>7

LEMMA UsesSpentType ==
    ASSUME NEW invs \in [Invite -> InviteState]
    PROVE  UsesSpent(invs) \in Nat
<1>1. PICK g \in [SUBSET Invite -> Nat] : UsesSpent(invs) = g[Invite]
  BY UsesUnfolded
<1> QED
  BY <1>1

(* Changing one invite changes the sum by what its own count changes. *)
LEMMA UsesOfOneInvite ==
    ASSUME NEW old \in [Invite -> InviteState], NEW i \in Invite, NEW inv \in InviteState
    PROVE  /\ UsesSpent(old) \in Nat
           /\ UsesSpent([old EXCEPT ![i] = inv]) = UsesSpent(old) + (Uses(inv) - Uses(old[i]))
<1> DEFINE new == [old EXCEPT ![i] = inv]
           delta(s) == IF i \in s THEN Uses(inv) - Uses(old[i]) ELSE 0
<1>0. new \in [Invite -> InviteState] /\ new[i] = inv /\ \A j \in Invite \ {i} : new[j] = old[j]
  OBVIOUS
<1>1. PICK g \in [SUBSET Invite -> Nat] :
          /\ g[{}] = 0
          /\ \A s \in (SUBSET Invite) \ {{}} : g[s] = Uses(old[Picked(s)]) + g[s \ {Picked(s)}]
          /\ UsesSpent(old) = g[Invite]
  BY UsesUnfolded
<1>2. PICK h \in [SUBSET Invite -> Nat] :
          /\ h[{}] = 0
          /\ \A s \in (SUBSET Invite) \ {{}} : h[s] = Uses(new[Picked(s)]) + h[s \ {Picked(s)}]
          /\ UsesSpent(new) = h[Invite]
  <2> HIDE DEF new
  <2> QED
    BY <1>0, UsesUnfolded
<1>3. \A j \in Invite : Uses(old[j]) \in Nat /\ Uses(new[j]) \in Nat
  BY <1>0, UsesType
<1> DEFINE T == {s \in SUBSET Invite : h[s] = g[s] + delta(s)}
<1>4. {} \in T
  BY <1>1, <1>2
<1>5. ASSUME NEW s \in (SUBSET Invite) \ {{}}, s \ {Picked(s)} \in T
      PROVE  s \in T
  <2>1. Picked(s) \in s
    BY DEF Picked
  <2> DEFINE r == s \ {Picked(s)}
  <2>2. /\ r \in SUBSET Invite /\ g[r] \in Nat /\ h[r] \in Nat /\ h[r] = g[r] + delta(r)
        /\ g[s] = Uses(old[Picked(s)]) + g[r]
        /\ h[s] = Uses(new[Picked(s)]) + h[r]
    BY <1>1, <1>2, <1>5
  <2>3. Uses(new[Picked(s)]) + delta(r) = Uses(old[Picked(s)]) + delta(s)
    <3>1. CASE Picked(s) = i
      BY <1>0, <1>3, <2>1, <3>1
    <3>2. CASE Picked(s) # i
      BY <1>0, <1>3, <2>1, <3>2
    <3> QED
      BY <3>1, <3>2
  <2>4. delta(r) \in Int /\ delta(s) \in Int /\ Uses(old[Picked(s)]) \in Nat
        /\ Uses(new[Picked(s)]) \in Nat
    BY <1>0, <1>3, <2>1
  <2>5. h[s] = g[s] + delta(s)
    <3> HIDE DEF delta, r, new
    <3> QED
      BY <2>2, <2>3, <2>4
  <2> QED
    BY <2>5
<1>6. Invite \in T
  <2>1. T \in SUBSET (SUBSET Invite)
    OBVIOUS
  <2> HIDE DEF T
  <2> QED
    BY <1>4, <1>5, <2>1, SubsetInduction, FiniteKeySpace
<1> QED
  BY <1>1, <1>2, <1>6

(* A join adds one seat and one use; no other event adds to the first or    *)
(* takes from the second.                                                   *)
LEMMA SeatsInductive ==
    AuthzTypeOK /\ EveryoneSpentASeat /\ [AuthzNext]_authzVars => EveryoneSpentASeat'
<1> SUFFICES ASSUME AuthzTypeOK, EveryoneSpentASeat, [AuthzNext]_authzVars
             PROVE  EveryoneSpentASeat'
  OBVIOUS
<1> DEFINE Inside == (members \cup pending) \ {Owner}
<1>0. invites \in [Invite -> InviteState] /\ UsesSpent(invites) \in Nat
  <2>1. invites \in [Invite -> InviteState]
    BY DEF AuthzTypeOK, InviteState
  <2> QED
    BY <2>1, UsesSpentType
<1>1. IsFiniteSet(Inside) /\ IsFiniteSet(Inside') /\ Cardinality(Inside) \in Nat
      /\ Cardinality(Inside') \in Nat
  <2>1. AuthzTypeOK'
    BY AuthzTypeInductive
  <2>2. Inside \subseteq Identity /\ Inside' \subseteq Identity
    BY <2>1 DEF AuthzTypeOK
  <2> HIDE DEF Inside
  <2> QED
    BY <2>2, FiniteKeySpace, FS_Subset, FS_CardinalityType
<1>2. Cardinality(Inside) <= UsesSpent(invites)
  BY DEF EveryoneSpentASeat
<1>3. ASSUME Inside' \subseteq Inside, UsesSpent(invites') = UsesSpent(invites)
      PROVE  EveryoneSpentASeat'
  <2>1. Cardinality(Inside') <= Cardinality(Inside)
    BY <1>1, <1>3, FS_Subset
  <2>2. Cardinality(Inside') <= UsesSpent(invites)
    BY <1>0, <1>1, <1>2, <2>1
  <2> QED
    BY <1>3, <2>2 DEF EveryoneSpentASeat
<1>4. ASSUME Inside' \subseteq Inside, UNCHANGED invites PROVE EveryoneSpentASeat'
  BY <1>3, <1>4
<1>5. CASE UNCHANGED authzVars
  BY <1>4, <1>5 DEF authzVars
<1>6. CASE AuthzNext
  <2>1. PICK a \in Identity, d \in Device, ts \in Time : AuthzStep(a, d, ts)
    BY <1>6, StepIsAnEvent
  <2>2. ASSUME NEW expiry \in Time \cup {NoExpiry}, DeviceAuthorized(a, d, ts, expiry)
        PROVE  EveryoneSpentASeat'
    BY <1>4, <2>2 DEF DeviceAuthorized
  <2>3. ASSUME NEW device \in Device, DeviceRevoked(a, d, ts, device)
        PROVE  EveryoneSpentASeat'
    BY <1>4, <2>3 DEF DeviceRevoked
  <2>4. ASSUME NEW i \in Invite, NEW uses \in 0..MaxUsesBound, NEW expires \in Time,
               NEW approval \in BOOLEAN, InviteCreated(a, d, ts, i, uses, expires, approval)
        PROVE  EveryoneSpentASeat'
    <3> DEFINE inv == [max_uses |-> uses, expires_at |-> expires, use_count |-> 0,
                       requires_approval |-> approval]
    <3>1. inv \in InviteState /\ Uses(inv) = 0 /\ Uses(invites[i]) = 0
      <4>1. inv \in InviteRecord
        BY DEF InviteRecord
      <4> QED
        BY <4>1, <2>4, NoInviteIsNoRecord DEF InviteCreated, InviteState, Uses
    <3>2. invites' = [invites EXCEPT ![i] = inv]
      BY <2>4 DEF InviteCreated
    <3> HIDE DEF inv
    <3>3. UsesSpent(invites') = UsesSpent(invites) + (Uses(inv) - Uses(invites[i]))
      BY <1>0, <3>1, <3>2, UsesOfOneInvite
    <3>4. UsesSpent(invites') = UsesSpent(invites)
      BY <1>0, <3>1, <3>3
    <3> QED
      BY <1>3, <2>4, <3>4 DEF InviteCreated, standingVars
  <2>5. ASSUME NEW i \in Invite, MemberJoined(a, d, ts, i)
        PROVE  EveryoneSpentASeat'
    <3> DEFINE inv == [invites[i] EXCEPT !.use_count = @ + 1]
    <3>1. invites[i] \in InviteRecord
      BY <2>5 DEF MemberJoined, InviteOpen, AuthzTypeOK
    <3>2. inv \in InviteState /\ Uses(inv) = Uses(invites[i]) + 1 /\ Uses(invites[i]) \in Nat
      <4>1. inv \in InviteRecord /\ inv.use_count = invites[i].use_count + 1
        BY <3>1 DEF InviteRecord
      <4>2. inv # NoInvite /\ invites[i] # NoInvite /\ invites[i].use_count \in Nat
        BY <3>1, <4>1, NoInviteIsNoRecord DEF InviteRecord
      <4> QED
        BY <4>1, <4>2 DEF InviteState, Uses
    <3>3. invites' = [invites EXCEPT ![i] = inv]
      BY <2>5 DEF MemberJoined
    <3> HIDE DEF inv
    <3>4. UsesSpent(invites') = UsesSpent(invites) + (Uses(inv) - Uses(invites[i]))
      BY <1>0, <3>2, <3>3, UsesOfOneInvite
    <3>5. UsesSpent(invites') = UsesSpent(invites) + 1
      BY <1>0, <3>2, <3>4
    <3>6. Inside' \subseteq Inside \cup {a}
      BY <2>5 DEF MemberJoined
    <3>7. /\ IsFiniteSet(Inside \cup {a})
          /\ Cardinality(Inside \cup {a}) \in Nat
          /\ Cardinality(Inside \cup {a}) <= Cardinality(Inside) + 1
      BY <1>1, FS_AddElement, FS_CardinalityType
    <3>8. Cardinality(Inside') <= Cardinality(Inside \cup {a})
      BY <3>6, <3>7, FS_Subset
    <3>9. Cardinality(Inside') <= UsesSpent(invites')
      <4> HIDE DEF Inside
      <4> QED
        BY <1>0, <1>1, <1>2, <3>5, <3>7, <3>8
    <3> QED
      BY <3>9 DEF EveryoneSpentASeat
  <2>6. ASSUME NEW m \in Identity, MemberApproved(a, d, ts, m) PROVE EveryoneSpentASeat'
    BY <1>4, <2>6 DEF MemberApproved, MayApprove
  <2>7. ASSUME NEW m \in Identity, MemberRemoved(a, d, ts, m) PROVE EveryoneSpentASeat'
    BY <1>4, <2>7 DEF MemberRemoved, Expel
  <2>8. ASSUME NEW m \in Identity, MemberBanned(a, d, ts, m) PROVE EveryoneSpentASeat'
    BY <1>4, <2>8 DEF MemberBanned, Expel
  <2>9. ASSUME NEW m \in Identity, MemberUnbanned(a, d, ts, m) PROVE EveryoneSpentASeat'
    BY <1>4, <2>9 DEF MemberUnbanned
  <2>10. ASSUME NEW m \in Identity, NEW cap \in Capability, PermissionGranted(a, d, ts, m, cap)
         PROVE  EveryoneSpentASeat'
    BY <1>4, <2>10 DEF PermissionGranted
  <2> QED
    BY <2>1, <2>2, <2>3, <2>4, <2>5, <2>6, <2>7, <2>8, <2>9, <2>10 DEF AuthzStep
<1> QED
  BY <1>5, <1>6

LEMMA SeatsInit == AuthzInit => EveryoneSpentASeat
<1> SUFFICES ASSUME AuthzInit PROVE EveryoneSpentASeat
  OBVIOUS
<1>1. (members \cup pending) \ {Owner} = {}
  BY DEF AuthzInit
<1>2. invites \in [Invite -> InviteState]
  BY AuthzTypeInit DEF AuthzTypeOK, InviteState
<1>3. UsesSpent(invites) \in Nat
  BY <1>2, UsesSpentType
<1> QED
  BY <1>1, <1>3, FS_EmptySet DEF EveryoneSpentASeat

(* Whoever is inside, or waiting at the door, spent an invite use to get    *)
(* there, for any number of identities and invites: neither approvals nor   *)
(* re-joins after a kick create a free seat (MemberJoined's arm of          *)
(* apply_payload_effect).                                                   *)
THEOREM SeatsAreSpent == AuthzSpec => []EveryoneSpentASeat
BY SeatsInit, SeatsInductive, AuthzTypeInvariant, PTL DEF AuthzSpec

LEMMA ClockByWitnesses == AuthzTypeOK => ClockNeedsTwoWitnesses
<1> SUFFICES ASSUME AuthzTypeOK, NEW t \in Time
             PROVE  CorroboratedClock(identityClock) >= t
                      <=> \/ t = 0
                          \/ \E p, q \in Identity :
                                p # q /\ identityClock[p] >= t /\ identityClock[q] >= t
  BY DEF ClockNeedsTwoWitnesses
<1>1. Time \cup {0} \subseteq Nat
  BY AuthzConstants
<1>2. identityClock \in [Identity -> Nat] /\ t \in Nat
  BY <1>1 DEF AuthzTypeOK
<1>3. CASE t = 0
  BY <1>2, <1>3, ScanWitnesses
<1>4. CASE t # 0
  BY <1>2, <1>4, ScanWitnesses
<1> QED
  BY <1>3, <1>4

(* The corroborated clock has reached a moment exactly when two distinct    *)
(* identities have claimed it or a later one, in whatever order the scan    *)
(* meets the floors (corroborated_clock).                                   *)
THEOREM ClockIsCorroborated == AuthzSpec => []ClockNeedsTwoWitnesses
BY ClockByWitnesses, AuthzTypeInvariant, PTL
=============================================================================
