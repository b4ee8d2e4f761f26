----------------------------- MODULE MCLogMls -----------------------------
(***************************************************************************)
(* Instances of LogMls for TLC.  Most stories start from a log that        *)
(* already holds its prologue: the devices are authorized, everybody has   *)
(* joined through one invite, and the owner has declared one sealed        *)
(* channel.                                                                *)
(***************************************************************************)
EXTENDS LogMls

CONSTANTS o, a,             \* the owner and a user
          d1, d2, d3,       \* device keys
          c1,               \* the sealed channel of the prologue
          p1                \* a key package

VARIABLE story

mcVars == <<vars, story>>

OneDeviceEach == {<<o, d1>>, <<a, d2>>}
TwoOfOne == {<<o, d1>>, <<a, d2>>, <<a, d3>>}

HolderOf(d) == CHOOSE m \in Identity : <<m, d>> \in Keys

(* The state after the prologue: devices are the authorized ones, expiries  *)
(* what their certificates may say, and spare how many uses the invite      *)
(* still has.                                                               *)
Prologue(devices, expiries, spare) ==
    /\ members = Identity
    /\ pending = {}
    /\ banned = {}
    /\ capabilities = [m \in Identity |-> {}]
    /\ invites = [i \in Invite |->
          [max_uses |-> Cardinality(Identity) - 1 + spare, use_count |-> Cardinality(Identity) - 1,
           expires_at |-> 0, requires_approval |-> FALSE]]
    /\ deviceIdentity = [d \in Device |-> IF d \in devices THEN HolderOf(d) ELSE NoOne]
    /\ deviceExpiry \in [Device -> expiries]
    /\ devicesByIdentity = [m \in Identity |-> {d \in devices : HolderOf(d) = m}]
    /\ revokedDevices = {}
    /\ identityClock = [m \in Identity |-> 0]
    /\ last = [author |-> o, device |-> d1]
    /\ channels = [c \in Channel |-> IF c = c1 THEN [class |-> "e2ee", parent |-> NoChannel, creator |-> o]
                                 ELSE NoChannel]
    /\ plaintextHistory = {}
    /\ tombstones = {}
    /\ uploaders = [x \in Blob |-> NoOne]
    /\ redacted = {}
    /\ generation = ByChannel(0)
    /\ epoch = ByChannel(0)
    /\ chained = ByChannel(FALSE)
    /\ commits = ByChannel({})
    /\ leavesConfirmed = ByChannel({})
    /\ leavesPending = ByChannel({})
    /\ eventsSinceCommit = ByChannel(0)
    /\ lastCommitEpoch = ByChannel([m \in Identity |-> NoCommit])
    /\ eventsSinceReset = ByChannel(0)
    /\ resetWelcomed = ByChannel({})
    /\ welcomes = ByChannel({})
    /\ keyPackages = {}
    /\ consumed = {}
    /\ deviceInstance = [d \in Device |-> NoInstance]

(* Who is never heard of, and which channel. *)
Unborn(d) == deviceIdentity'[d] = NoOne /\ \A w \in welcomes'[c1] : w.leaf[2] # d
OneChannel == \A c \in Channel \ {c1} : channels'[c] = NoChannel /\ c \notin plaintextHistory'
OnePackage == \A k \in keyPackages' : k[2] = p1
OneUse == \A i \in Invite : invites'[i] # NoInvite => invites'[i].max_uses <= 1
NoContent == UNCHANGED <<channels, plaintextHistory, tombstones, uploaders, redacted>>

(* More than another author's name at the head of the log. *)
Matters == <<members, pending, banned, invites, deviceVars, mlsVars>>'
              # <<members, pending, banned, invites, deviceVars, mlsVars>>

(* An accepted event of that moment, and certificates and invites of it.    *)
PlainEventAt(ts) == \E k \in Keys :
    \/ AuthzStep(k[1], k[2], ts) /\ UNCHANGED <<contentVars, mlsVars>>
    \/ ContentStepWithGroups(k[1], k[2], ts)

EventAt(ts) ==
    \/ PlainEventAt(ts)
    \/ \E k \in Keys : MlsStep(k[1], k[2], ts)
    \/ \E k \in keyPackages : KeyPackageLapses(k)

OfNoon ==
    /\ \A d \in Device : deviceExpiry'[d] \in {0, NoExpiry}
    /\ \A i \in Invite : invites'[i] # NoInvite => invites'[i].expires_at = 0

(* Declarations, posts, tombstones and redactions in every order, nobody    *)
(* banned and no device revoked.                                            *)
ContentStory ==
    /\ PlainEventAt(0)
    /\ Unborn(d3) /\ OneUse /\ UNCHANGED <<banned, revokedDevices>>

(* The whole fold from the empty log, with the owner alone. *)
WholeStory ==
    /\ EventAt(0)
    /\ Unborn(d2) /\ Unborn(d3) /\ OneChannel /\ OnePackage
    /\ UNCHANGED <<members, pending, banned, invites>>

(* Nobody renews a certificate, nobody is banned: the group control plane   *)
(* under kicks, leaves, re-joins and revocations.                           *)
TreeStory(ts) == EventAt(ts) /\ UNCHANGED <<deviceExpiry, banned>> /\ NoContent

(* Of these, only what moves the leaves of one user's two devices. *)
DevicesStory ==
    /\ TreeStory(0)
    /\ UNCHANGED <<welcomes, generation>>
    /\ revokedDevices' \subseteq {d3}
    /\ \A k \in keyPackages' : k[1][1] = a

(* Everything an accepted event or the sweeper may do, one device each, and *)
(* none revoked.                                                            *)
ResetStory ==
    /\ EventAt(0) /\ NoContent
    /\ Unborn(d3) /\ OnePackage
    /\ UNCHANGED <<deviceExpiry, revokedDevices>> /\ Matters

(* Certificates that lapse, judged by claims of others, in one generation.  *)
ExpiryStory ==
    /\ \E ts \in Time : TreeStory(ts)
    /\ Unborn(d3) /\ OnePackage
    /\ UNCHANGED <<generation, revokedDevices>> /\ Matters
    /\ \A w \in welcomes'[c1] : w.generation = 0

GroupsInit ==
    \/ story \in {"content", "whole"} /\ MlsInit
    \/ story = "devices" /\ Prologue(Device, {NoExpiry}, 0)
    \/ story = "reset" /\ Prologue({d1, d2}, {NoExpiry}, 1)
    \/ story = "expiry" /\ Prologue({d1, d2}, {0, NoExpiry}, 0)

GroupsNext ==
    /\ \/ story = "content" /\ ContentStory
       \/ story = "whole" /\ WholeStory
       \/ story = "devices" /\ DevicesStory
       \/ story = "reset" /\ ResetStory
       \/ story = "expiry" /\ ExpiryStory
    /\ OfNoon
    /\ UNCHANGED story

GroupsSpec == GroupsInit /\ [][GroupsNext]_mcVars
=============================================================================
