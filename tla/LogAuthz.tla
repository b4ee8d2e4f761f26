------------------------------ MODULE LogAuthz ------------------------------
(***************************************************************************)
(* The authorization core of the event-log fold: LogState::from_genesis    *)
(* and LogState::apply of farder-crypto/src/event_log_state.rs, for the    *)
(* payloads that decide who may act: device certificates, invites,         *)
(* membership, bans and capabilities.                                      *)
(*                                                                         *)
(* One action per payload variant.  Each action is one accepted event: its *)
(* guard is the envelope check of `apply` together with the payload's arm  *)
(* of `check_payload_authz`, its primed variables are the payload's arm of *)
(* `apply_payload_effect` together with the envelope accounting.  An event *)
(* that fails a check leaves the state unchanged, so it is no step.        *)
(*                                                                         *)
(* Signatures are modelled by who can produce them: an event by (a, d)     *)
(* exists only if some installation holds both the identity key a and the  *)
(* device key d, that is if <<a, d>> \in Keys.  The position of an event in *)
(* its author's chain (seq, prev) is the subject of DeviceChain.tla.       *)
(***************************************************************************)
EXTENDS Naturals, FiniteSets, Functions

CONSTANTS Identity,         \* public keys of users
          Owner,            \* Genesis.owner
          Device,           \* device ids (hashes of device public keys)
          Keys,             \* <<identity, device>> pairs held by an installation
          Capability,       \* capability strings an event may name
          Invite,           \* hashes of InviteCreated events
          NoInvite,         \* an Invite hash no accepted event has
          Time,             \* timestamps an event may claim
          NoExpiry,         \* a certificate without an expiry
          NoOne,            \* a device id no certificate names
          MaxUsesBound,     \* bound on the max_uses an invite may be given
          MaxLiveDevices    \* MAX_LIVE_DEVICES_PER_IDENTITY

ASSUME AuthzConstants ==
    /\ Owner \in Identity
    /\ Keys \subseteq Identity \X Device
    /\ Time \subseteq Nat
    /\ NoExpiry \notin Nat
    /\ NoOne \notin Identity
    /\ MaxUsesBound \in Nat
    /\ MaxLiveDevices \in Nat \ {0}

InviteRecord == [max_uses : 0..MaxUsesBound, expires_at : Time,
                 use_count : Nat, requires_approval : BOOLEAN]

ASSUME NoInviteIsNoRecord == NoInvite \notin InviteRecord

(* Public keys and event hashes are arrays of 32 bytes. *)
ASSUME FiniteKeySpace == IsFiniteSet(Identity) /\ IsFiniteSet(Invite)

VARIABLES members, pending, banned,
          capabilities,       \* identity -> granted capability strings
          invites,            \* invite -> its InviteRecord, or NoInvite
          deviceIdentity,     \* device -> identity of its DeviceRecord, or NoOne
          deviceExpiry,       \* device -> expires_at of its DeviceRecord
          devicesByIdentity,  \* identity -> every device it ever authorized
          revokedDevices,
          identityClock,      \* identity -> greatest timestamp it claimed
          last                \* author and device of the newest event

standingVars == <<members, pending, banned, capabilities>>
deviceVars == <<deviceIdentity, deviceExpiry, devicesByIdentity, revokedDevices>>
authzVars == <<members, pending, banned, capabilities, invites, deviceIdentity,
               deviceExpiry, devicesByIdentity, revokedDevices, identityClock, last>>

MaxOf(x, y) == IF x >= y THEN x ELSE y
MinOf(x, y) == IF x <= y THEN x ELSE y

AuthzInit ==
    /\ members = {Owner}
    /\ pending = {}
    /\ banned = {}
    /\ capabilities = [m \in Identity |-> {}]
    /\ invites = [i \in Invite |-> NoInvite]
    /\ deviceIdentity = [d \in Device |-> NoOne]
    /\ deviceExpiry = [d \in Device |-> NoExpiry]
    /\ devicesByIdentity = [m \in Identity |-> {}]
    /\ revokedDevices = {}
    /\ identityClock = [m \in Identity |-> 0]
    /\ last = [author |-> NoOne, device |-> NoOne]

-----------------------------------------------------------------------------
(* The clocks. *)

IsOwner(m) == m = Owner
HasCapability(m, cap) == IsOwner(m) \/ cap \in capabilities[m]

SelfLivenessTsAsClaimed(m, ts) == ts

(* The identity's own claim is judged no earlier than its floor. *)
SelfLivenessTs(m, ts) == MaxOf(ts, identityClock[m])

(* One step of the scan that keeps the two largest floors, <<top1, top2>>. *)
ScanFloor(v, top) ==
    IF v > top[1] THEN <<v, top[1]>>
    ELSE IF v > top[2] THEN <<top[1], v>>
    ELSE top

LatestFloor(clock) == FoldFunction(ScanFloor, <<0, 0>>, clock)[1]

(* The second largest floor: the latest moment two identities vouch for. *)
CorroboratedClock(clock) == FoldFunction(ScanFloor, <<0, 0>>, clock)[2]

JudgedLivenessTsAsClaimed(m, ts) == MaxOf(identityClock[m], ts)

(* Where m's devices are judged when somebody else's claim asks. *)
JudgedLivenessTs(m, ts) ==
    MaxOf(identityClock[m], MinOf(ts, CorroboratedClock(identityClock)))

Unexpired(expiry, at) == expiry # NoExpiry => at <= expiry

LiveDevicesAt(m, at) ==
    {d \in devicesByIdentity[m] : d \notin revokedDevices /\ Unexpired(deviceExpiry[d], at)}

LiveDevices(m, ts) == LiveDevicesAt(m, SelfLivenessTs(m, ts))
JudgedLiveDevices(m, ts) == LiveDevicesAt(m, JudgedLivenessTs(m, ts))

-----------------------------------------------------------------------------
(* The envelope of `apply`, and what every accepted event advances. *)

MayActThoughBanned(a, d, ts, expiry) ==
    /\ d \notin revokedDevices
    /\ Unexpired(expiry, SelfLivenessTs(a, ts))

MayAct(a, d, ts, expiry) ==
    /\ d \notin revokedDevices
    /\ Unexpired(expiry, SelfLivenessTs(a, ts))
    /\ a \notin banned

Accepted(a, d, ts) ==
    /\ deviceIdentity[d] = a
    /\ MayAct(a, d, ts, deviceExpiry[d])

Advance(a, d, ts) ==
    /\ identityClock' = [identityClock EXCEPT ![a] = MaxOf(@, ts)]
    /\ last' = [author |-> a, device |-> d]

-----------------------------------------------------------------------------
(* Devices. *)

DeviceAuthorized(a, d, ts, expiry) ==
    /\ MayAct(a, d, ts, expiry)
    /\ Cardinality(LiveDevices(a, ts)) < MaxLiveDevices
    /\ deviceIdentity' = [deviceIdentity EXCEPT ![d] = a]
    /\ deviceExpiry' = [deviceExpiry EXCEPT ![d] = expiry]
    /\ devicesByIdentity' = [devicesByIdentity EXCEPT ![a] = @ \cup {d}]
    /\ Advance(a, d, ts)
    /\ UNCHANGED <<members, pending, banned, capabilities, invites, revokedDevices>>

DeviceRevoked(a, d, ts, device) ==
    /\ Accepted(a, d, ts)
    /\ deviceIdentity[device] # NoOne
    /\ device \notin revokedDevices
    /\ deviceIdentity[device] = a \/ IsOwner(a)
    /\ revokedDevices' = revokedDevices \cup {device}
    /\ Advance(a, d, ts)
    /\ UNCHANGED <<members, pending, banned, capabilities, invites, deviceIdentity,
                   deviceExpiry, devicesByIdentity>>

-----------------------------------------------------------------------------
(* Invites and membership. *)

InviteCreated(a, d, ts, i, uses, expires, approval) ==
    /\ Accepted(a, d, ts)
    /\ HasCapability(a, "invite")
    /\ invites[i] = NoInvite             \* i is the hash of this new event
    /\ invites' = [invites EXCEPT ![i] = [max_uses |-> uses, expires_at |-> expires,
                                          use_count |-> 0, requires_approval |-> approval]]
    /\ Advance(a, d, ts)
    /\ UNCHANGED <<standingVars, deviceVars>>

InviteOpen(i, ts) ==
    /\ invites[i] # NoInvite
    /\ invites[i].use_count < invites[i].max_uses
    /\ ts <= invites[i].expires_at

MemberJoined(a, d, ts, i) ==
    /\ Accepted(a, d, ts)
    /\ a \notin members
    /\ a \notin pending
    /\ InviteOpen(i, ts)
    /\ IF invites[i].requires_approval
       THEN pending' = pending \cup {a} /\ UNCHANGED members
       ELSE members' = members \cup {a} /\ UNCHANGED pending
    /\ invites' = [invites EXCEPT ![i].use_count = @ + 1]
    /\ Advance(a, d, ts)
    /\ UNCHANGED <<banned, capabilities, deviceVars>>

MayApproveAnyone(a, m) == HasCapability(a, "kick")

MayApprove(a, m) == HasCapability(a, "kick") /\ m \in pending

MemberApproved(a, d, ts, m) ==
    /\ Accepted(a, d, ts)
    /\ MayApprove(a, m)
    /\ pending' = pending \ {m}
    /\ members' = members \cup {m}
    /\ Advance(a, d, ts)
    /\ UNCHANGED <<banned, capabilities, invites, deviceVars>>

ExpelButPending(m) ==
    /\ members' = members \ {m}
    /\ UNCHANGED pending
    /\ capabilities' = [capabilities EXCEPT ![m] = {}]

(* What leaving the server takes away, by removal and by ban alike. *)
Expel(m) ==
    /\ members' = members \ {m}
    /\ pending' = pending \ {m}
    /\ capabilities' = [capabilities EXCEPT ![m] = {}]

MemberRemoved(a, d, ts, m) ==
    /\ Accepted(a, d, ts)
    /\ m \in members \cup pending
    /\ m = a \/ HasCapability(a, "kick")
    /\ Expel(m)
    /\ Advance(a, d, ts)
    /\ UNCHANGED <<banned, invites, deviceVars>>

MayBan(a, m) == HasCapability(a, "ban") /\ ~IsOwner(m)

MemberBanned(a, d, ts, m) ==
    /\ Accepted(a, d, ts)
    /\ MayBan(a, m)
    /\ banned' = banned \cup {m}
    /\ Expel(m)
    /\ Advance(a, d, ts)
    /\ UNCHANGED <<invites, deviceVars>>

MemberUnbanned(a, d, ts, m) ==
    /\ Accepted(a, d, ts)
    /\ HasCapability(a, "ban")
    /\ banned' = banned \ {m}
    /\ Advance(a, d, ts)
    /\ UNCHANGED <<members, pending, capabilities, invites, deviceVars>>

PermissionGranted(a, d, ts, m, cap) ==
    /\ Accepted(a, d, ts)
    /\ m \in members
    /\ HasCapability(a, cap)
    /\ capabilities' = [capabilities EXCEPT ![m] = @ \cup {cap}]
    /\ Advance(a, d, ts)
    /\ UNCHANGED <<members, pending, banned, invites, deviceVars>>

-----------------------------------------------------------------------------

AuthzStep(a, d, ts) ==
    \/ \E expiry \in Time \cup {NoExpiry} : DeviceAuthorized(a, d, ts, expiry)
    \/ \E device \in Device : DeviceRevoked(a, d, ts, device)
    \/ \E i \in Invite, uses \in 0..MaxUsesBound, expires \in Time, approval \in BOOLEAN :
          InviteCreated(a, d, ts, i, uses, expires, approval)
    \/ \E i \in Invite : MemberJoined(a, d, ts, i)
    \/ \E m \in Identity :
          \/ MemberApproved(a, d, ts, m)
          \/ MemberRemoved(a, d, ts, m)
          \/ MemberBanned(a, d, ts, m)
          \/ MemberUnbanned(a, d, ts, m)
          \/ \E cap \in Capability : PermissionGranted(a, d, ts, m, cap)

AuthzNext == \E k \in Keys, ts \in Time : AuthzStep(k[1], k[2], ts)

AuthzSpec == AuthzInit /\ [][AuthzNext]_authzVars

-----------------------------------------------------------------------------
(* Properties. *)

(* Every part of the fold's state has the type LogState gives it; in particular *)
(* a floor is always a moment somebody claimed.                                 *)
AuthzTypeOK ==
    /\ members \subseteq Identity
    /\ pending \subseteq Identity
    /\ banned \subseteq Identity
    /\ capabilities \in [Identity -> SUBSET Capability]
    /\ invites \in [Invite -> InviteRecord \cup {NoInvite}]
    /\ deviceIdentity \in [Device -> Identity \cup {NoOne}]
    /\ deviceExpiry \in [Device -> Time \cup {NoExpiry}]
    /\ devicesByIdentity \in [Identity -> SUBSET Device]
    /\ revokedDevices \subseteq Device
    /\ identityClock \in [Identity -> Time \cup {0}]
    /\ last \in [author : Identity \cup {NoOne}, device : Device \cup {NoOne}]

(* Nobody is in two of members, pending and banned at once: the joins,      *)
(* approvals, removals and bans of several authors, in any order, never     *)
(* leave a banned identity approvable or a member awaiting approval.        *)
StandingExclusive ==
    /\ members \cap pending = {}
    /\ members \cap banned = {}
    /\ pending \cap banned = {}

(* A granted capability is held only while its holder is a member, so a     *)
(* moderator who was kicked, or left and came back, does not come back with *)
(* the old powers: has_capability itself never looks at membership.         *)
CapabilitiesNeedMembership ==
    \A m \in Identity : capabilities[m] # {} => m \in members

(* No sequence of grants, kicks and bans locks the owner out for good: the  *)
(* root of authority cannot be put behind the ban gate of the envelope.     *)
OwnerNeverBanned == Owner \notin banned

(* An invite admits at most max_uses identities over the life of the log.   *)
InviteBudget ==
    \A i \in Invite : invites[i] # NoInvite => invites[i].use_count <= invites[i].max_uses

(* The four together: each holds only because the others do, along every    *)
(* sequence of joins, approvals, removals, bans and grants.                 *)
StandingSafe ==
    /\ StandingExclusive
    /\ CapabilitiesNeedMembership
    /\ OwnerNeverBanned
    /\ InviteBudget

Uses(inv) == IF inv = NoInvite THEN 0 ELSE inv.use_count
UsesSpent(invs) == FoldFunction(LAMBDA inv, sum : Uses(inv) + sum, 0, invs)

(* Everyone inside, or waiting at the door, spent an invite use to get      *)
(* there: approvals and re-joins after a kick create no free seat.          *)
EveryoneSpentASeat == Cardinality((members \cup pending) \ {Owner}) <= UsesSpent(invites)

(* The devices whose events the envelope accepts for m, unless m is banned. *)
SpeakersAt(m, at) ==
    {d \in Device : deviceIdentity[d] = m /\ d \notin revokedDevices /\ Unexpired(deviceExpiry[d], at)}

(* "At most this many live devices per identity" (event_log_state.rs:17),   *)
(* at every timestamp the identity may still claim: devices speak for it    *)
(* that the cap counted, though a key that a second identity registers      *)
(* passes to the second and still counts for the first (:466, :1468).       *)
LiveDeviceCap ==
    \A m \in Identity, ts \in Time :
        Cardinality(SpeakersAt(m, SelfLivenessTs(m, ts))) <= MaxLiveDevices

(* The corroborated clock has reached t exactly when two distinct           *)
(* identities have claimed t or later, however the scan meets the floors.   *)
ClockNeedsTwoWitnesses ==
    \A t \in Time :
        CorroboratedClock(identityClock) >= t
            <=> \/ t = 0
                \/ \E p, q \in Identity : p # q /\ identityClock[p] >= t /\ identityClock[q] >= t

(* No event is ever accepted from a device that is revoked, or whose        *)
(* certificate had expired at the latest moment its identity has claimed:   *)
(* back-dating the claim revives nothing.                                   *)
DeadDevicesAreSilent ==
    [][/\ last'.device \notin revokedDevices
       /\ Unexpired(deviceExpiry'[last'.device], identityClock'[last'.author])]_authzVars

(* The standing of one identity, as Membership sees it. *)
Standing(m) == CASE m \in members -> "member"
                 [] m \in pending /\ m \notin members -> "pending"
                 [] m \in banned /\ m \notin members \cup pending -> "banned"
                 [] OTHER -> "stranger"

standing == [m \in Identity |-> Standing(m)]

Standings == INSTANCE Membership WITH standing <- standing

(* The fold implements Membership: one identity changes standing per event, *)
(* and nobody goes from banned to anywhere but stranger.                    *)
ImplementsMembership == Standings!Spec
=============================================================================
