--------------------------- MODULE LogMls_proofs ---------------------------
(***************************************************************************)
(* What holds of the whole fold, the MLS control plane included, for every *)
(* choice of identities, devices, channels, packages and limits.           *)
(*                                                                         *)
(* Three layers: the standing of identities, which content and group       *)
(* events cannot disturb; what channels declare; and the group records.    *)
(* Whatever LogAuthz promises of a log of its own events, the whole log    *)
(* keeps.                                                                  *)
(***************************************************************************)
EXTENDS LogMls, LogAuthz_proofs

-----------------------------------------------------------------------------
(* The steps of the fold. *)

(* An accepted event that leaves standing, invites and devices alone. *)
PlainEvent(a, d, ts) ==
    /\ Accepted(a, d, ts)
    /\ Advance(a, d, ts)
    /\ UNCHANGED <<standingVars, invites, deviceVars>>

LEMMA ContentIsPlain ==
    ASSUME NEW a, NEW d, NEW ts, ContentStepWithGroups(a, d, ts)
    PROVE  PlainEvent(a, d, ts)
<1>1. ASSUME NEW c \in Channel, NEW class \in Classes, NEW parent \in Channel \cup {NoChannel},
             ChannelCreated(a, d, ts, c, class, parent)
      PROVE  PlainEvent(a, d, ts)
  BY <1>1 DEF ChannelCreated, ContentEvent, PlainEvent
<1>2. ASSUME NEW c \in Channel, NEW claims \in Claims, MessagePosted(a, d, ts, c, claims)
      PROVE  PlainEvent(a, d, ts)
  BY <1>2 DEF MessagePosted, ContentEvent, PlainEvent
<1>3. ASSUME NEW b \in Blob, AttachmentRedacted(a, d, ts, b)
      PROVE  PlainEvent(a, d, ts)
  BY <1>3 DEF AttachmentRedacted, ContentEvent, PlainEvent
<1>4. ASSUME NEW c \in Channel, NEW target \in Message, NEW reason \in {"moderation", "author"},
             MessageDeleted(a, d, ts, c, target, reason)
      PROVE  PlainEvent(a, d, ts)
  BY <1>4 DEF MessageDeleted, ContentEvent, PlainEvent
<1> QED
  BY <1>1, <1>2, <1>3, <1>4 DEF ContentStepWithGroups

LEMMA GroupStepIsPlain ==
    ASSUME NEW a, NEW d, NEW ts, MlsStep(a, d, ts)
    PROVE  PlainEvent(a, d, ts) /\ UNCHANGED <<channels, plaintextHistory>>
<1> DEFINE Plain == PlainEvent(a, d, ts) /\ UNCHANGED <<channels, plaintextHistory>>
<1>0. Accepted(a, d, ts) /\ MlsEvent(a, d, ts) => Plain
  BY DEF MlsEvent, PlainEvent
<1> HIDE DEF Plain
<1>1. ASSUME NEW package \in Package, NEW inst \in Instance,
             MlsKeyPackagePublished(a, d, ts, package, inst)
      PROVE  Plain
  BY <1>0, <1>1 DEF MlsKeyPackagePublished
<1>2. ASSUME NEW c \in Channel, NEW adds \in SUBSET keyPackages, NEW removes \in SUBSET Leaves(c),
             NEW inst \in Instance, MlsCommit(a, d, ts, c, adds, removes, inst)
      PROVE  Plain
  BY <1>0, <1>2 DEF MlsCommit
<1>3. ASSUME NEW c \in Channel, MlsCommitStale(a, d, ts, c) PROVE Plain
  BY <1>0, <1>3 DEF MlsCommitStale
<1>4. ASSUME NEW c \in Channel, NEW gen \in {generation[c], generation[c] + 1}, NEW leaf \in Leaf,
             MlsWelcome(a, d, ts, c, gen, leaf)
      PROVE  Plain
  BY <1>0, <1>4 DEF MlsWelcome
<1>5. ASSUME NEW c \in Channel, NEW inst \in Instance, MlsLeafConfirmed(a, d, ts, c, inst)
      PROVE  Plain
  BY <1>0, <1>5 DEF MlsLeafConfirmed
<1>6. ASSUME NEW c \in Channel, NEW claims \in Claims, MessagePostedE2ee(a, d, ts, c, claims)
      PROVE  Plain
  BY <1>0, <1>6 DEF MessagePostedE2ee, SealedSendAllowed
<1>7. ASSUME NEW c \in Channel, NEW target \in Message, MessageEditedE2ee(a, d, ts, c, target)
      PROVE  Plain
  BY <1>0, <1>7 DEF MessageEditedE2ee, SealedSendAllowed
<1>8. ASSUME NEW c \in Channel, NEW cited \in SUBSET Staged(c),
             MlsGroupReset(a, d, ts, c, cited)
      PROVE  Plain
  BY <1>0, <1>8 DEF MlsGroupReset
<1> QED
  BY <1>1, <1>2, <1>3, <1>4, <1>5, <1>6, <1>7, <1>8 DEF MlsStep, Plain

(* What a step of the whole fold can be. *)
LEMMA StepsOfTheFold ==
    ASSUME MlsNext
    PROVE  \/ \E a \in Identity, d \in Device, ts \in Time :
                 /\ <<a, d>> \in Keys
                 /\ \/ AuthzStep(a, d, ts) /\ UNCHANGED <<contentVars, mlsVars>>
                    \/ ContentStepWithGroups(a, d, ts)
                    \/ MlsStep(a, d, ts)
           \/ \E k \in keyPackages : KeyPackageLapses(k)
<1>1. CASE \E k \in keyPackages : KeyPackageLapses(k)
  BY <1>1
<1>2. ASSUME NEW k \in Keys, NEW ts \in Time,
             \/ AuthzStep(k[1], k[2], ts) /\ UNCHANGED <<contentVars, mlsVars>>
             \/ ContentStepWithGroups(k[1], k[2], ts)
             \/ MlsStep(k[1], k[2], ts)
      PROVE  \E a \in Identity, d \in Device :
                 /\ <<a, d>> \in Keys
                 /\ \/ AuthzStep(a, d, ts) /\ UNCHANGED <<contentVars, mlsVars>>
                    \/ ContentStepWithGroups(a, d, ts)
                    \/ MlsStep(a, d, ts)
  <2>1. k \in Identity \X Device
    BY AuthzConstants
  <2>2. k = <<k[1], k[2]>> /\ k[1] \in Identity /\ k[2] \in Device
    BY <2>1
  <2> QED
    BY <1>2, <2>2
<1> QED
  BY <1>1, <1>2 DEF MlsNext

(* What it is to the authorization core: one of its own steps, an accepted  *)
(* event that only moves its author's clock, or nothing.                    *)
LEMMA FoldStepsOfTheCore ==
    ASSUME [MlsNext]_vars
    PROVE  \/ AuthzNext
           \/ \E a \in Identity, d \in Device, ts \in Time : PlainEvent(a, d, ts)
           \/ UNCHANGED authzVars
<1>1. CASE UNCHANGED vars
  BY <1>1 DEF vars, logVars
<1>2. CASE MlsNext
  <2>1. ASSUME NEW a \in Identity, NEW d \in Device, NEW ts \in Time, <<a, d>> \in Keys,
               AuthzStep(a, d, ts)
        PROVE  AuthzNext
    <3>1. <<a, d>>[1] = a /\ <<a, d>>[2] = d
      OBVIOUS
    <3> QED
      BY <2>1, <3>1 DEF AuthzNext
  <2>2. ASSUME NEW k \in keyPackages, KeyPackageLapses(k) PROVE UNCHANGED authzVars
    BY <2>2 DEF KeyPackageLapses, logVars
  <2> QED
    BY <1>2, <2>1, <2>2, StepsOfTheFold, ContentIsPlain, GroupStepIsPlain
<1> QED
  BY <1>1, <1>2
-----------------------------------------------------------------------------
(* Standing.  Only the payloads of LogAuthz touch it; every other event     *)
(* moves its author's clock, and a lapsing package nothing.                 *)

LEMMA StandingThroughPlainEvents ==
    ASSUME StandingInv, NEW a \in Identity, NEW d \in Device, NEW ts \in Time,
           PlainEvent(a, d, ts)
    PROVE  StandingInv'
<1>1. /\ identityClock' \in [Identity -> Time \cup {0}]
      /\ last' \in [author : Identity \cup {NoOne}, device : Device \cup {NoOne}]
  BY AdvanceKeepsTypes DEF PlainEvent, StandingInv
<1>2. UNCHANGED <<members, pending, banned, capabilities, invites, deviceIdentity,
                  deviceExpiry, devicesByIdentity, revokedDevices>>
  BY DEF PlainEvent, standingVars, deviceVars
<1> QED
  BY <1>1, <1>2 DEF StandingInv, AuthzTypeOK, StandingExclusive, CapabilitiesNeedMembership,
                    OwnerNeverBanned, InviteBudget

LEMMA StandingThroughTheFold == StandingInv /\ [MlsNext]_vars => StandingInv'
BY FoldStepsOfTheCore, StandingInductive, StandingThroughPlainEvents

-----------------------------------------------------------------------------
(* What channels declare. *)

ContentInv == ContentTypeOK /\ NoLockOverPlaintext

LEMMA RecordUploadersKeepsTypes ==
    ASSUME ContentTypeOK, NEW claims \in Claims, RecordUploaders(claims)
    PROVE  uploaders' \in [Blob -> Identity \cup {NoOne}]
<1>1. PICK blobs \in SUBSET Blob : claims \in [blobs -> Identity]
  BY DEF Claims
<1>2. \A b \in DOMAIN claims : claims[b] \in Identity
  BY <1>1
<1> QED
  BY <1>2 DEF RecordUploaders, ContentTypeOK

LEMMA ContentThroughContent ==
    ASSUME ContentInv, NEW a \in Identity, NEW d \in Device, NEW ts \in Time,
           ContentStepWithGroups(a, d, ts)
    PROVE  ContentInv'
<1> USE DEF ContentInv, NoLockOverPlaintext, Known
<1>1. ASSUME NEW c \in Channel, NEW class \in Classes, NEW parent \in Channel \cup {NoChannel},
             ChannelCreated(a, d, ts, c, class, parent)
      PROVE  ContentInv'
  <2>1. [class |-> class, parent |-> parent, creator |-> a] \in ChannelRecord
    BY DEF ChannelRecord
  <2> QED
    BY <1>1, <2>1 DEF ChannelCreated, Declarable, ContentTypeOK, attachmentVars
<1>2. ASSUME NEW c \in Channel, NEW claims \in Claims, MessagePosted(a, d, ts, c, claims)
      PROVE  ContentInv'
  BY <1>2, RecordUploadersKeepsTypes DEF MessagePosted, ContentTypeOK
<1>3. ASSUME NEW b \in Blob, AttachmentRedacted(a, d, ts, b)
      PROVE  ContentInv'
  BY <1>3 DEF AttachmentRedacted, ContentTypeOK
<1>4. ASSUME NEW c \in Channel, NEW target \in Message, NEW reason \in {"moderation", "author"},
             MessageDeleted(a, d, ts, c, target, reason)
      PROVE  ContentInv'
  BY <1>4 DEF MessageDeleted, ContentTypeOK, attachmentVars
<1> QED
  BY <1>1, <1>2, <1>3, <1>4 DEF ContentStepWithGroups

(* Of the group events only sealed posts touch content: their claims. *)
LEMMA GroupStepKeepsContent ==
    ASSUME NEW a, NEW d, NEW ts, MlsStep(a, d, ts)
    PROVE  /\ UNCHANGED <<tombstones, redacted>>
           /\ \/ UNCHANGED uploaders
              \/ \E claims \in Claims : RecordUploaders(claims)
<1> DEFINE Kept == /\ UNCHANGED <<tombstones, redacted>>
                   /\ \/ UNCHANGED uploaders
                      \/ \E claims \in Claims : RecordUploaders(claims)
<1>0. UNCHANGED <<tombstones, attachmentVars>> => Kept
  BY DEF attachmentVars
<1>6. ASSUME NEW c \in Channel, NEW claims \in Claims, MessagePostedE2ee(a, d, ts, c, claims)
      PROVE  Kept
  BY <1>6 DEF MessagePostedE2ee
<1> HIDE DEF Kept
<1>1. ASSUME NEW package \in Package, NEW inst \in Instance,
             MlsKeyPackagePublished(a, d, ts, package, inst)
      PROVE  Kept
  BY <1>0, <1>1 DEF MlsKeyPackagePublished
<1>2. ASSUME NEW c \in Channel, NEW adds \in SUBSET keyPackages, NEW removes \in SUBSET Leaves(c),
             NEW inst \in Instance, MlsCommit(a, d, ts, c, adds, removes, inst)
      PROVE  Kept
  BY <1>0, <1>2 DEF MlsCommit
<1>3. ASSUME NEW c \in Channel, MlsCommitStale(a, d, ts, c) PROVE Kept
  BY <1>0, <1>3 DEF MlsCommitStale
<1>4. ASSUME NEW c \in Channel, NEW gen \in {generation[c], generation[c] + 1}, NEW leaf \in Leaf,
             MlsWelcome(a, d, ts, c, gen, leaf)
      PROVE  Kept
  BY <1>0, <1>4 DEF MlsWelcome
<1>5. ASSUME NEW c \in Channel, NEW inst \in Instance, MlsLeafConfirmed(a, d, ts, c, inst)
      PROVE  Kept
  BY <1>0, <1>5 DEF MlsLeafConfirmed
<1>7. ASSUME NEW c \in Channel, NEW target \in Message, MessageEditedE2ee(a, d, ts, c, target)
      PROVE  Kept
  BY <1>0, <1>7 DEF MessageEditedE2ee
<1>8. ASSUME NEW c \in Channel, NEW cited \in SUBSET Staged(c),
             MlsGroupReset(a, d, ts, c, cited)
      PROVE  Kept
  BY <1>0, <1>8 DEF MlsGroupReset
<1> QED
  BY <1>1, <1>2, <1>3, <1>4, <1>5, <1>6, <1>7, <1>8 DEF MlsStep, Kept

LEMMA ContentThroughGroups ==
    ASSUME ContentInv, NEW a, NEW d, NEW ts, MlsStep(a, d, ts)
    PROVE  ContentInv'
<1>1. UNCHANGED <<channels, plaintextHistory, tombstones, redacted>>
  BY GroupStepIsPlain, GroupStepKeepsContent
<1>2. uploaders' \in [Blob -> Identity \cup {NoOne}]
  BY GroupStepKeepsContent, RecordUploadersKeepsTypes DEF ContentInv, ContentTypeOK
<1> QED
  BY <1>1, <1>2 DEF ContentInv, ContentTypeOK, NoLockOverPlaintext, Known

LEMMA ContentThroughTheFold == ContentInv /\ [MlsNext]_vars => ContentInv'
<1> SUFFICES ASSUME ContentInv, [MlsNext]_vars PROVE ContentInv'
  OBVIOUS
<1>1. CASE UNCHANGED contentVars
  BY <1>1 DEF contentVars, ContentInv, ContentTypeOK, NoLockOverPlaintext, Known
<1>2. CASE MlsNext
  <2>1. ASSUME NEW k \in keyPackages, KeyPackageLapses(k) PROVE UNCHANGED contentVars
    BY <2>1 DEF KeyPackageLapses, logVars
  <2> QED
    BY <1>1, <1>2, <2>1, StepsOfTheFold, ContentThroughContent, ContentThroughGroups
<1> QED
  BY <1>1, <1>2 DEF vars, logVars
-----------------------------------------------------------------------------
(* The group records.  GroupRecordsAgree is not inductive by itself: a      *)
(* package is spent once because no two leaves offer the same one, and the  *)
(* epochs of a generation have no gap because a reset starts at epoch 1.    *)
(* The last two parts serve the turn-taking rule of commits.                *)

PackagesUnique == \A k1, k2 \in keyPackages : k1[2] = k2[2] => k1 = k2

ResetStartsAtOne == \A c \in Channel : generation[c] > 0 => epoch[c] >= 1

TurnsAreChained ==
    \A c \in Channel, m \in Identity : ~chained[c] => lastCommitEpoch[c][m] = NoCommit

FinitelyConfirmed == \A c \in Channel : IsFiniteSet(leavesConfirmed[c])

GroupInv ==
    /\ GroupTypeOK
    /\ ConfirmedNotPending
    /\ OneCommitPerEpoch
    /\ PackagesSpentOnce
    /\ PackagesUnique
    /\ ResetStartsAtOne
    /\ TurnsAreChained
    /\ FinitelyConfirmed

LEMMA UnchangedGroups == GroupInv /\ UNCHANGED mlsVars => GroupInv'
BY DEF GroupInv, GroupTypeOK, ConfirmedNotPending, OneCommitPerEpoch, PackagesSpentOnce,
       PackagesUnique, ResetStartsAtOne, TurnsAreChained, FinitelyConfirmed, mlsVars, groupVars,
       packageVars, treeVars, rateVars

(* What the tree, the packages and the counters each need of a step. *)
LEMMA GroupInvByParts ==
    ASSUME GroupInv,
           GroupTypeOK',
           \/ UNCHANGED treeVars /\ UNCHANGED lastCommitEpoch
           \/ ConfirmedNotPending' /\ OneCommitPerEpoch' /\ ResetStartsAtOne'
              /\ TurnsAreChained' /\ FinitelyConfirmed',
           \/ keyPackages' \subseteq keyPackages /\ UNCHANGED consumed
           \/ PackagesSpentOnce' /\ PackagesUnique'
    PROVE  GroupInv'
BY DEF GroupInv, ConfirmedNotPending, OneCommitPerEpoch, PackagesSpentOnce, PackagesUnique,
       ResetStartsAtOne, TurnsAreChained, FinitelyConfirmed, treeVars

LEMMA LapseKeeps ==
    ASSUME GroupInv, NEW k \in keyPackages, KeyPackageLapses(k)
    PROVE  GroupInv'
<1>1. UNCHANGED <<treeVars, rateVars, welcomes, consumed, deviceInstance>>
      /\ keyPackages' \subseteq keyPackages
  BY DEF KeyPackageLapses, groupVars
<1>2. GroupTypeOK'
  BY <1>1 DEF GroupInv, GroupTypeOK, treeVars, rateVars
<1> QED
  BY <1>1, <1>2, GroupInvByParts DEF rateVars

LEMMA PublishKeeps ==
    ASSUME GroupInv, NEW a \in Identity, NEW d \in Device, NEW ts \in Time, <<a, d>> \in Keys,
           NEW package \in Package, NEW inst \in Instance,
           MlsKeyPackagePublished(a, d, ts, package, inst)
    PROVE  GroupInv'
<1>1. UNCHANGED <<treeVars, rateVars, welcomes, consumed>>
  BY DEF MlsKeyPackagePublished, groupVars
<1>2. deviceInstance' \in [Device -> Instance \cup {NoInstance}]
  BY DEF MlsKeyPackagePublished, PinInstance, GroupInv, GroupTypeOK
<1>3. keyPackages' = keyPackages \cup {<<<<a, d>>, package>>}
  BY DEF MlsKeyPackagePublished
<1>4. keyPackages' \subseteq Leaf \X Package
  <2>1. <<<<a, d>>, package>> \in Leaf \X Package
    BY DEF Leaf
  <2> QED
    BY <1>3, <2>1 DEF GroupInv, GroupTypeOK
<1>5. GroupTypeOK'
  BY <1>1, <1>2, <1>4 DEF GroupInv, GroupTypeOK, treeVars, rateVars
<1>6. PackagesSpentOnce' /\ PackagesUnique'
  BY <1>1, <1>3 DEF MlsKeyPackagePublished, GroupInv, PackagesSpentOnce, PackagesUnique
<1> QED
  BY <1>1, <1>5, <1>6, GroupInvByParts DEF rateVars

LEMMA WelcomeKeeps ==
    ASSUME GroupInv, NEW a \in Identity, NEW d \in Device, NEW ts \in Time, NEW c \in Channel,
           NEW gen \in {generation[c], generation[c] + 1}, NEW leaf \in Leaf,
           MlsWelcome(a, d, ts, c, gen, leaf)
    PROVE  GroupInv'
<1>1. UNCHANGED <<treeVars, rateVars, packageVars>>
  BY DEF MlsWelcome
<1>2. [generation |-> gen, leaf |-> leaf] \in [generation : Nat, leaf : Leaf]
  BY DEF GroupInv, GroupTypeOK
<1>3. welcomes' \in [Channel -> SUBSET [generation : Nat, leaf : Leaf]]
  BY <1>2 DEF MlsWelcome, GroupInv, GroupTypeOK
<1>4. GroupTypeOK'
  BY <1>1, <1>3 DEF GroupInv, GroupTypeOK, treeVars, rateVars, packageVars
<1> QED
  BY <1>1, <1>4, GroupInvByParts DEF rateVars, packageVars

LEMMA ConfirmKeeps ==
    ASSUME GroupInv, NEW a \in Identity, NEW d \in Device, NEW ts \in Time, NEW c \in Channel,
           NEW inst \in Instance, MlsLeafConfirmed(a, d, ts, c, inst)
    PROVE  GroupInv'
<1>1. /\ UNCHANGED <<generation, epoch, chained, commits, resetWelcomed, rateVars, welcomes,
                      keyPackages, consumed>>
      /\ leavesPending' = [leavesPending EXCEPT ![c] = leavesPending[c] \ {<<a, d>>}]
      /\ leavesConfirmed' = [leavesConfirmed EXCEPT ![c] = leavesConfirmed[c] \cup {<<a, d>>}]
      /\ <<a, d>> \in leavesPending[c]
      /\ PinInstance(d, inst)
  BY DEF MlsLeafConfirmed
<1>2. deviceInstance' \in [Device -> Instance \cup {NoInstance}]
  BY <1>1 DEF PinInstance, GroupInv, GroupTypeOK
<1>3. /\ leavesPending' \in [Channel -> SUBSET Leaf]
      /\ leavesConfirmed' \in [Channel -> SUBSET Leaf]
  BY <1>1 DEF GroupInv, GroupTypeOK
<1>4. GroupTypeOK'
  BY <1>1, <1>2, <1>3 DEF GroupInv, GroupTypeOK, rateVars
<1>5. ConfirmedNotPending'
  BY <1>1 DEF GroupInv, GroupTypeOK, ConfirmedNotPending
<1>6. OneCommitPerEpoch' /\ ResetStartsAtOne' /\ TurnsAreChained'
  BY <1>1 DEF GroupInv, OneCommitPerEpoch, ResetStartsAtOne, TurnsAreChained, rateVars
<1>7. IsFiniteSet(leavesConfirmed[c] \cup {<<a, d>>})
  BY FS_AddElement DEF GroupInv, FinitelyConfirmed
<1>8. FinitelyConfirmed'
  BY <1>1, <1>7 DEF GroupInv, GroupTypeOK, FinitelyConfirmed
<1> QED
  BY <1>1, <1>4, <1>5, <1>6, <1>8, GroupInvByParts

LEMMA CountingKeeps ==
    ASSUME GroupInv, NEW c \in Channel,
           UNCHANGED <<treeVars, lastCommitEpoch, welcomes, packageVars>>,
           \/ UNCHANGED eventsSinceCommit
           \/ /\ eventsSinceCommit[c] < FreshnessCeiling
              /\ eventsSinceCommit' = [eventsSinceCommit EXCEPT ![c] = @ + 1],
           UNCHANGED eventsSinceReset \/ BumpResetCounter(c)
    PROVE  GroupInv'
<1>1. eventsSinceCommit' \in [Channel -> 0..FreshnessCeiling]
  <2>1. eventsSinceCommit[c] \in 0..FreshnessCeiling
    BY DEF GroupInv, GroupTypeOK
  <2>2. eventsSinceCommit[c] < FreshnessCeiling => eventsSinceCommit[c] + 1 \in 0..FreshnessCeiling
    BY <2>1, MlsConstants
  <2> QED
    BY <2>2 DEF GroupInv, GroupTypeOK
<1>2. eventsSinceReset' \in [Channel -> 0..ResetMinEvents]
  <2>1. eventsSinceReset[c] \in 0..ResetMinEvents
    BY DEF GroupInv, GroupTypeOK
  <2>2. MinOf(eventsSinceReset[c] + 1, ResetMinEvents) \in 0..ResetMinEvents
    BY <2>1, MlsConstants DEF MinOf
  <2> QED
    BY <2>2 DEF BumpResetCounter, GroupInv, GroupTypeOK
<1>3. GroupTypeOK'
  BY <1>1, <1>2 DEF GroupInv, GroupTypeOK, treeVars, packageVars
<1> QED
  BY <1>3, GroupInvByParts DEF packageVars
(* What a commit does to a tree: own is its author's leaf in a bootstrap    *)
(* commit and nothing in any other.                                        *)
TreeMoves(leaf, c, adds, removes) ==
    \E own \in {{}, {leaf}}, joining \in SUBSET Leaf :
        /\ own = {leaf} <=> ~chained[c] \/ leavesConfirmed[c] = {}
        /\ joining = {add[1] : add \in adds}
        /\ joining \cap Leaves(c) = {}
        /\ leavesPending'[c] = ((leavesPending[c] \cup joining) \ removes) \ own
        /\ leavesConfirmed'[c] = (leavesConfirmed[c] \ removes) \cup own

LEMMA CommitEffect ==
    ASSUME GroupInv, NEW a \in Identity, NEW d \in Device, NEW ts \in Time, <<a, d>> \in Keys,
           NEW c \in Channel, NEW adds \in SUBSET keyPackages, NEW removes \in SUBSET Leaves(c),
           NEW inst \in Instance, MlsCommit(a, d, ts, c, adds, removes, inst)
    PROVE  TreeMoves(<<a, d>>, c, adds, removes)
<1> DEFINE joining == {add[1] : add \in adds}
<1>1. \A add \in adds : add[1] \in Leaf /\ add[1] \notin Leaves(c)
  BY DEF MlsCommit, MayAdd, GroupInv, GroupTypeOK
<1>2. joining \in SUBSET Leaf /\ joining \cap Leaves(c) = {}
  BY <1>1
<1> HIDE DEF joining
<1>3. PICK own \in {{}, {<<a, d>>}} :
             /\ own = {<<a, d>>} <=> ~chained[c] \/ leavesConfirmed[c] = {}
             /\ leavesPending' = [leavesPending EXCEPT
                                    ![c] = ((leavesPending[c] \cup joining) \ removes) \ own]
             /\ leavesConfirmed' = [leavesConfirmed EXCEPT
                                    ![c] = (leavesConfirmed[c] \ removes) \cup own]
  <2>1. CASE ~chained[c] \/ leavesConfirmed[c] = {}
    BY <2>1 DEF MlsCommit, SettlePending, joining
  <2>2. CASE ~(~chained[c] \/ leavesConfirmed[c] = {})
    BY <2>2 DEF MlsCommit, SettlePending, joining
  <2> QED
    BY <2>1, <2>2
<1>4. /\ leavesPending'[c] = ((leavesPending[c] \cup joining) \ removes) \ own
      /\ leavesConfirmed'[c] = (leavesConfirmed[c] \ removes) \cup own
  BY <1>3 DEF GroupInv, GroupTypeOK
<1> QED
  BY <1>2, <1>3, <1>4 DEF joining, TreeMoves

LEMMA CommitKeepsTree ==
    ASSUME GroupInv, NEW a \in Identity, NEW d \in Device, NEW ts \in Time, <<a, d>> \in Keys,
           NEW c \in Channel, NEW adds \in SUBSET keyPackages, NEW removes \in SUBSET Leaves(c),
           NEW inst \in Instance, MlsCommit(a, d, ts, c, adds, removes, inst)
    PROVE  /\ leavesPending' \in [Channel -> SUBSET Leaf]
           /\ leavesConfirmed' \in [Channel -> SUBSET Leaf]
           /\ ConfirmedNotPending'
           /\ FinitelyConfirmed'
<1>1. PICK own \in {{}, {<<a, d>>}}, joining \in SUBSET Leaf :
              /\ own = {<<a, d>>} <=> ~chained[c] \/ leavesConfirmed[c] = {}
              /\ joining = {add[1] : add \in adds}
              /\ joining \cap Leaves(c) = {}
              /\ leavesPending'[c] = ((leavesPending[c] \cup joining) \ removes) \ own
              /\ leavesConfirmed'[c] = (leavesConfirmed[c] \ removes) \cup own
  <2>1. TreeMoves(<<a, d>>, c, adds, removes)
    BY CommitEffect
  <2> QED
    BY <2>1 DEF TreeMoves
<1>2. own \in SUBSET Leaf /\ IsFiniteSet(own)
  <2>1. <<a, d>> \in Leaf /\ IsFiniteSet({<<a, d>>}) /\ IsFiniteSet({})
    BY FS_EmptySet, FS_Singleton DEF Leaf
  <2>2. CASE own = {}
    BY <2>1, <2>2
  <2>3. CASE own = {<<a, d>>}
    BY <2>1, <2>3
  <2> QED
    BY <2>2, <2>3
<1>3. PICK P, Q : /\ leavesPending' = [leavesPending EXCEPT ![c] = P]
                  /\ leavesConfirmed' = [leavesConfirmed EXCEPT ![c] = Q]
  BY DEF MlsCommit
<1>4. P = leavesPending'[c] /\ Q = leavesConfirmed'[c]
  BY <1>3 DEF GroupInv, GroupTypeOK
<1>5. leavesPending[c] \in SUBSET Leaf /\ leavesConfirmed[c] \in SUBSET Leaf
  BY DEF GroupInv, GroupTypeOK
<1>6. P \in SUBSET Leaf /\ Q \in SUBSET Leaf
  BY <1>1, <1>2, <1>4, <1>5
<1>7. P \cap Q = {}
  BY <1>1, <1>4 DEF GroupInv, ConfirmedNotPending, Leaves
<1>8. IsFiniteSet(Q)
  <2>1. IsFiniteSet(leavesConfirmed[c] \ removes)
    BY FS_Subset DEF GroupInv, FinitelyConfirmed
  <2>2. IsFiniteSet((leavesConfirmed[c] \ removes) \cup own)
    BY <1>2, <2>1, FS_Union
  <2>3. Q = (leavesConfirmed[c] \ removes) \cup own
    BY <1>1, <1>4
  <2> QED
    BY <2>2, <2>3
<1> QED
  BY <1>3, <1>6, <1>7, <1>8
  DEF GroupInv, GroupTypeOK, ConfirmedNotPending, FinitelyConfirmed

LEMMA CommitKeepsEpochs ==
    ASSUME GroupInv, NEW a \in Identity, NEW d \in Device, NEW ts \in Time, NEW c \in Channel,
           NEW adds \in SUBSET keyPackages, NEW removes \in SUBSET Leaves(c),
           NEW inst \in Instance, MlsCommit(a, d, ts, c, adds, removes, inst)
    PROVE  /\ epoch' \in [Channel -> Nat]
           /\ commits' \in [Channel -> SUBSET Nat]
           /\ chained' \in [Channel -> BOOLEAN]
           /\ lastCommitEpoch' \in [Channel -> [Identity -> Nat \cup {NoCommit}]]
           /\ OneCommitPerEpoch' /\ ResetStartsAtOne' /\ TurnsAreChained'
<1>1. /\ epoch' = [epoch EXCEPT ![c] = epoch[c] + 1]
      /\ commits' = [commits EXCEPT ![c] = commits[c] \cup {epoch[c] + 1}]
      /\ chained' = [chained EXCEPT ![c] = TRUE]
      /\ lastCommitEpoch' = [lastCommitEpoch EXCEPT ![c][a] = epoch[c]]
      /\ UNCHANGED generation
  BY DEF MlsCommit
<1>2. epoch[c] \in Nat /\ generation[c] \in Nat
  BY DEF GroupInv, GroupTypeOK
<1>3. /\ epoch' \in [Channel -> Nat]
      /\ commits' \in [Channel -> SUBSET Nat]
      /\ chained' \in [Channel -> BOOLEAN]
      /\ lastCommitEpoch' \in [Channel -> [Identity -> Nat \cup {NoCommit}]]
  BY <1>1, <1>2 DEF GroupInv, GroupTypeOK
<1>4. OneCommitPerEpoch'
  <2> SUFFICES ASSUME NEW e \in Channel
               PROVE  commits'[e] = {x \in 1..epoch'[e] : generation'[e] = 0 \/ x > 1}
    BY DEF OneCommitPerEpoch
  <2>1. commits[e] = {x \in 1..epoch[e] : generation[e] = 0 \/ x > 1}
    BY DEF GroupInv, OneCommitPerEpoch
  <2>2. CASE e = c
    <3>1. /\ commits'[c] = commits[c] \cup {epoch[c] + 1}
          /\ epoch'[c] = epoch[c] + 1
          /\ generation'[c] = generation[c]
      BY <1>1 DEF GroupInv, GroupTypeOK
    <3>2. generation[c] = 0 \/ epoch[c] + 1 > 1
      BY <1>2 DEF GroupInv, ResetStartsAtOne
    <3>3. 1..epoch'[c] = (1..epoch[c]) \cup {epoch[c] + 1}
      BY <1>2, <3>1
    <3> QED
      BY <2>1, <2>2, <3>1, <3>2, <3>3
  <2>3. CASE e # c
    <3>1. commits'[e] = commits[e] /\ epoch'[e] = epoch[e] /\ generation'[e] = generation[e]
      BY <1>1, <2>3 DEF GroupInv, GroupTypeOK
    <3> QED
      BY <2>1, <3>1
  <2> QED
    BY <2>2, <2>3
<1>5. ResetStartsAtOne'
  BY <1>1, <1>2 DEF GroupInv, GroupTypeOK, ResetStartsAtOne
<1>6. TurnsAreChained'
  BY <1>1 DEF GroupInv, GroupTypeOK, TurnsAreChained
<1> QED
  BY <1>3, <1>4, <1>5, <1>6

LEMMA CommitKeeps ==
    ASSUME GroupInv, NEW a \in Identity, NEW d \in Device, NEW ts \in Time, <<a, d>> \in Keys,
           NEW c \in Channel, NEW adds \in SUBSET keyPackages, NEW removes \in SUBSET Leaves(c),
           NEW inst \in Instance, MlsCommit(a, d, ts, c, adds, removes, inst)
    PROVE  GroupInv'
<1>1. /\ keyPackages' = keyPackages \ adds
      /\ consumed' = consumed \cup {add[2] : add \in adds}
      /\ resetWelcomed' = [resetWelcomed EXCEPT ![c] = RemainingObligations(c, ts, removes)]
      /\ eventsSinceCommit' = [eventsSinceCommit EXCEPT ![c] = 0]
      /\ PinInstance(d, inst)
      /\ UNCHANGED <<generation, eventsSinceReset, welcomes>>
  BY DEF MlsCommit, Consume
<1>2. PackagesSpentOnce' /\ PackagesUnique'
  BY <1>1 DEF GroupInv, PackagesSpentOnce, PackagesUnique
<1>3. consumed' \subseteq Package /\ keyPackages' \subseteq Leaf \X Package
  BY <1>1 DEF GroupInv, GroupTypeOK
<1>4. RemainingObligations(c, ts, removes) \in SUBSET Leaf
  BY DEF RemainingObligations, GroupInv, GroupTypeOK
<1>5. 0 \in 0..FreshnessCeiling
  BY MlsConstants
<1>6. /\ resetWelcomed' \in [Channel -> SUBSET Leaf]
      /\ eventsSinceCommit' \in [Channel -> 0..FreshnessCeiling]
      /\ deviceInstance' \in [Device -> Instance \cup {NoInstance}]
  BY <1>1, <1>4, <1>5 DEF PinInstance, GroupInv, GroupTypeOK
<1>7. GroupTypeOK'
  BY <1>1, <1>3, <1>6, CommitKeepsTree, CommitKeepsEpochs DEF GroupInv, GroupTypeOK
<1> QED
  BY <1>2, <1>7, CommitKeepsTree, CommitKeepsEpochs, GroupInvByParts

LEMMA ResetKeeps ==
    ASSUME GroupInv, NEW a \in Identity, NEW d \in Device, NEW ts \in Time, <<a, d>> \in Keys,
           NEW c \in Channel, NEW cited \in SUBSET Staged(c), MlsGroupReset(a, d, ts, c, cited)
    PROVE  GroupInv'
<1> DEFINE welcomed == {w.leaf : w \in cited}
           noTurns == [m \in Identity |-> NoCommit]
<1>1. generation[c] \in Nat /\ cited \subseteq [generation : Nat, leaf : Leaf]
  BY DEF GroupInv, GroupTypeOK, Staged
<1>2. welcomed \in SUBSET Leaf /\ <<a, d>> \in Leaf /\ <<a, d>> \notin welcomed
  BY <1>1 DEF Leaf, MlsGroupReset, CoversExactly
<1>3. noTurns \in [Identity -> Nat \cup {NoCommit}]
  OBVIOUS
<1>4. \A m \in Identity : noTurns[m] = NoCommit
  OBVIOUS
<1>5. /\ generation' = [generation EXCEPT ![c] = generation[c] + 1]
      /\ epoch' = [epoch EXCEPT ![c] = 1]
      /\ chained' = [chained EXCEPT ![c] = FALSE]
      /\ commits' = [commits EXCEPT ![c] = {}]
      /\ leavesConfirmed' = [leavesConfirmed EXCEPT ![c] = {<<a, d>>}]
      /\ leavesPending' = [leavesPending EXCEPT ![c] = welcomed]
      /\ resetWelcomed' = [resetWelcomed EXCEPT ![c] = welcomed]
      /\ eventsSinceCommit' = [eventsSinceCommit EXCEPT ![c] = 0]
      /\ eventsSinceReset' = [eventsSinceReset EXCEPT ![c] = 0]
      /\ lastCommitEpoch' = [lastCommitEpoch EXCEPT ![c] = noTurns]
      /\ UNCHANGED packageVars
  BY DEF MlsGroupReset, RestartTree
<1>6. welcomes' \in [Channel -> SUBSET [generation : Nat, leaf : Leaf]]
  <2>1. welcomes' = [welcomes EXCEPT
                       ![c] = {w \in welcomes[c] : w.generation >= generation[c] + 1}]
    BY DEF MlsGroupReset
  <2> QED
    BY <2>1 DEF GroupInv, GroupTypeOK
<1> HIDE DEF welcomed, noTurns
<1>7. 0 \in 0..FreshnessCeiling /\ 0 \in 0..ResetMinEvents
  BY MlsConstants
<1>8. GroupTypeOK'
  <2>1. /\ generation' \in [Channel -> Nat]
        /\ epoch' \in [Channel -> Nat]
        /\ chained' \in [Channel -> BOOLEAN]
        /\ commits' \in [Channel -> SUBSET Nat]
    BY <1>1, <1>5 DEF GroupInv, GroupTypeOK
  <2>2. /\ leavesConfirmed' \in [Channel -> SUBSET Leaf]
        /\ leavesPending' \in [Channel -> SUBSET Leaf]
        /\ resetWelcomed' \in [Channel -> SUBSET Leaf]
    BY <1>2, <1>5 DEF GroupInv, GroupTypeOK
  <2>3. /\ eventsSinceCommit' \in [Channel -> 0..FreshnessCeiling]
        /\ eventsSinceReset' \in [Channel -> 0..ResetMinEvents]
    BY <1>5, <1>7 DEF GroupInv, GroupTypeOK
  <2>4. lastCommitEpoch' \in [Channel -> [Identity -> Nat \cup {NoCommit}]]
    BY <1>3, <1>5 DEF GroupInv, GroupTypeOK
  <2> QED
    BY <1>5, <1>6, <2>1, <2>2, <2>3, <2>4 DEF GroupInv, GroupTypeOK, packageVars
<1>9. ConfirmedNotPending'
  BY <1>2, <1>5 DEF GroupInv, GroupTypeOK, ConfirmedNotPending
<1>10. OneCommitPerEpoch'
  <2> SUFFICES ASSUME NEW e \in Channel
               PROVE  commits'[e] = {x \in 1..epoch'[e] : generation'[e] = 0 \/ x > 1}
    BY DEF OneCommitPerEpoch
  <2>1. CASE e = c
    <3>1. commits'[c] = {} /\ epoch'[c] = 1 /\ generation'[c] = generation[c] + 1
      BY <1>5 DEF GroupInv, GroupTypeOK
    <3> QED
      BY <1>1, <2>1, <3>1
  <2>2. CASE e # c
    <3>1. commits'[e] = commits[e] /\ epoch'[e] = epoch[e] /\ generation'[e] = generation[e]
      BY <1>5, <2>2 DEF GroupInv, GroupTypeOK
    <3> QED
      BY <3>1 DEF GroupInv, OneCommitPerEpoch
  <2> QED
    BY <2>1, <2>2
<1>11. ResetStartsAtOne'
  BY <1>5 DEF GroupInv, GroupTypeOK, ResetStartsAtOne
<1>12. TurnsAreChained'
  BY <1>4, <1>5 DEF GroupInv, GroupTypeOK, TurnsAreChained
<1>13. FinitelyConfirmed'
  BY <1>5, FS_Singleton DEF GroupInv, GroupTypeOK, FinitelyConfirmed
<1> QED
  BY <1>5, <1>8, <1>9, <1>10, <1>11, <1>12, <1>13, GroupInvByParts DEF packageVars
LEMMA SealedPostKeeps ==
    ASSUME GroupInv, NEW a \in Identity, NEW d \in Device, NEW ts \in Time, NEW c \in Channel,
           \/ \E claims \in Claims : MessagePostedE2ee(a, d, ts, c, claims)
           \/ \E target \in Message : MessageEditedE2ee(a, d, ts, c, target)
    PROVE  GroupInv'
<1>1. /\ UNCHANGED <<treeVars, lastCommitEpoch, welcomes, packageVars>>
      /\ SealedSendAllowed(a, d, ts, c)
      /\ BumpChannelCounters(c)
  BY DEF MessagePostedE2ee, MessageEditedE2ee
<1> QED
  BY <1>1, CountingKeeps DEF SealedSendAllowed, BumpChannelCounters

LEMMA ContentStepKeepsGroups ==
    ASSUME GroupInv, NEW a \in Identity, NEW d \in Device, NEW ts \in Time,
           ContentStepWithGroups(a, d, ts)
    PROVE  GroupInv'
<1>1. ASSUME NEW c \in Channel, NEW target \in Message, NEW reason \in {"moderation", "author"},
             IF IsE2ee(c) THEN BumpResetCounter(c) ELSE UNCHANGED eventsSinceReset,
             UNCHANGED <<treeVars, eventsSinceCommit, lastCommitEpoch, welcomes, packageVars>>
      PROVE  GroupInv'
  BY <1>1, CountingKeeps
<1> QED
  BY <1>1, UnchangedGroups DEF ContentStepWithGroups

LEMMA GroupStepKeepsGroups ==
    ASSUME GroupInv, NEW a \in Identity, NEW d \in Device, NEW ts \in Time, <<a, d>> \in Keys,
           MlsStep(a, d, ts)
    PROVE  GroupInv'
<1>1. ASSUME NEW package \in Package, NEW inst \in Instance,
             MlsKeyPackagePublished(a, d, ts, package, inst)
      PROVE  GroupInv'
  BY <1>1, PublishKeeps
<1>2. ASSUME NEW c \in Channel, NEW adds \in SUBSET keyPackages, NEW removes \in SUBSET Leaves(c),
             NEW inst \in Instance, MlsCommit(a, d, ts, c, adds, removes, inst)
      PROVE  GroupInv'
  BY <1>2, CommitKeeps
<1>3. ASSUME NEW c \in Channel, MlsCommitStale(a, d, ts, c) PROVE GroupInv'
  BY <1>3, UnchangedGroups DEF MlsCommitStale
<1>4. ASSUME NEW c \in Channel, NEW gen \in {generation[c], generation[c] + 1}, NEW leaf \in Leaf,
             MlsWelcome(a, d, ts, c, gen, leaf)
      PROVE  GroupInv'
  BY <1>4, WelcomeKeeps
<1>5. ASSUME NEW c \in Channel, NEW inst \in Instance, MlsLeafConfirmed(a, d, ts, c, inst)
      PROVE  GroupInv'
  BY <1>5, ConfirmKeeps
<1>6. ASSUME NEW c \in Channel, NEW claims \in Claims, MessagePostedE2ee(a, d, ts, c, claims)
      PROVE  GroupInv'
  BY <1>6, SealedPostKeeps
<1>7. ASSUME NEW c \in Channel, NEW target \in Message, MessageEditedE2ee(a, d, ts, c, target)
      PROVE  GroupInv'
  BY <1>7, SealedPostKeeps
<1>8. ASSUME NEW c \in Channel, NEW cited \in SUBSET Staged(c),
             MlsGroupReset(a, d, ts, c, cited)
      PROVE  GroupInv'
  BY <1>8, ResetKeeps
<1> QED
  BY <1>1, <1>2, <1>3, <1>4, <1>5, <1>6, <1>7, <1>8 DEF MlsStep

LEMMA GroupsThroughTheFold == GroupInv /\ [MlsNext]_vars => GroupInv'
<1> SUFFICES ASSUME GroupInv, [MlsNext]_vars PROVE GroupInv'
  OBVIOUS
<1>1. CASE UNCHANGED mlsVars
  BY <1>1, UnchangedGroups
<1>2. CASE MlsNext
  BY <1>1, <1>2, StepsOfTheFold, LapseKeeps, ContentStepKeepsGroups, GroupStepKeepsGroups
<1> QED
  BY <1>1, <1>2 DEF vars

-----------------------------------------------------------------------------
(* The invariants of the whole fold. *)

FoldInv == StandingInv /\ ContentInv /\ GroupInv

LEMMA InitEstablishesFoldInv == MlsInit => FoldInv
<1> SUFFICES ASSUME MlsInit PROVE FoldInv
  OBVIOUS
<1>1. StandingInv
  <2>1. AuthzInit
    BY DEF MlsInit
  <2>2. AuthzTypeOK
    BY <2>1, AuthzTypeInit
  <2> QED
    BY <2>1, <2>2, AuthzConstants DEF AuthzInit, StandingInv, StandingExclusive,
       CapabilitiesNeedMembership, OwnerNeverBanned, InviteBudget
<1>2. ContentInv
  BY DEF MlsInit, ContentInit, ContentInv, ContentTypeOK, NoLockOverPlaintext
<1>3. GroupTypeOK
  BY MlsConstants DEF MlsInit, GroupTypeOK, ByChannel
<1>4. /\ \A c \in Channel : /\ epoch[c] = 0
                            /\ commits[c] = {}
                            /\ generation[c] = 0
                            /\ leavesConfirmed[c] = {}
                            /\ \A m \in Identity : lastCommitEpoch[c][m] = NoCommit
      /\ keyPackages = {}
  BY DEF MlsInit, ByChannel
<1>5. OneCommitPerEpoch
  <2>1. 1..0 = {}
    OBVIOUS
  <2> QED
    BY <1>4, <2>1 DEF OneCommitPerEpoch
<1>6. ConfirmedNotPending /\ FinitelyConfirmed
  BY <1>4, FS_EmptySet DEF ConfirmedNotPending, FinitelyConfirmed
<1>7. PackagesSpentOnce /\ PackagesUnique /\ ResetStartsAtOne /\ TurnsAreChained
  BY <1>4 DEF PackagesSpentOnce, PackagesUnique, ResetStartsAtOne, TurnsAreChained
<1>8. GroupInv
  BY <1>3, <1>5, <1>6, <1>7 DEF GroupInv
<1> QED
  BY <1>1, <1>2, <1>8 DEF FoldInv

LEMMA FoldInvariant == MlsSpec => []FoldInv
<1>1. FoldInv /\ [MlsNext]_vars => FoldInv'
  BY StandingThroughTheFold, ContentThroughTheFold, GroupsThroughTheFold DEF FoldInv
<1> QED
  BY <1>1, InitEstablishesFoldInv, PTL DEF MlsSpec

-----------------------------------------------------------------------------
(* What the authorization core promises, the whole fold keeps.              *)

(* The fold with its content and group events implements Membership: an     *)
(* accepted event of any of the payloads moves at most one identity.        *)
THEOREM FoldImplementsMembership == MlsSpec => ImplementsMembership
<1>1. MlsInit => Standings!Init
  BY StandingInitially DEF MlsInit
<1>2. FoldInv /\ [MlsNext]_vars => [Standings!Next]_standing
  <2>1. UNCHANGED authzVars => UNCHANGED standing
    BY SameStanding DEF authzVars
  <2>2. ASSUME NEW a, NEW d, NEW ts, PlainEvent(a, d, ts) PROVE UNCHANGED standing
    BY <2>2, SameStanding DEF PlainEvent, standingVars
  <2> QED
    BY <2>1, <2>2, FoldStepsOfTheCore, StepMovesOne DEF FoldInv
<1> QED
  BY <1>1, <1>2, FoldInvariant, PTL DEF MlsSpec, ImplementsMembership, Standings!Spec

(* No event of any payload is accepted from a dead device: every arm of     *)
(* `apply` stands behind the same envelope.                                 *)
THEOREM DeadDevicesSilentInTheFold == MlsSpec => DeadDevicesAreSilent
<1>1. FoldInv /\ [MlsNext]_vars => [NewestIsAlive]_authzVars
  <2>1. ASSUME AuthzTypeOK, NEW a \in Identity, NEW d \in Device, NEW ts \in Time,
               PlainEvent(a, d, ts)
        PROVE  NewestIsAlive
    BY <2>1, AcceptedIsAlive DEF PlainEvent, deviceVars
  <2> QED
    BY <2>1, FoldStepsOfTheCore, StepsAreAlive DEF FoldInv, StandingInv
<1>2. FoldInv /\ [MlsNext]_vars =>
        [/\ last'.device \notin revokedDevices
         /\ Unexpired(deviceExpiry'[last'.device], identityClock'[last'.author])]_authzVars
  BY <1>1 DEF NewestIsAlive
<1> QED
  BY <1>2, FoldInvariant, PTL DEF MlsSpec, DeadDevicesAreSilent

(* Never do more devices speak for an identity than the cap, over every     *)
(* interleaving with content and group events, which move its floor.        *)
THEOREM LiveDevicesCappedInTheFold == MlsSpec => []LiveDeviceCap
<1>1. MlsInit => CapInv
  BY CapInit DEF MlsInit
<1>2. ASSUME FoldInv, CapInv, [MlsNext]_vars PROVE CapInv'
  <2>1. AuthzTypeOK'
    BY <1>2, StandingThroughTheFold DEF FoldInv, StandingInv
  <2>2. ASSUME NEW a \in Identity, NEW d \in Device, NEW ts \in Time, PlainEvent(a, d, ts)
        PROVE  CapInv'
    BY <1>2, <2>1, <2>2, CapKeptWithoutCertificates DEF PlainEvent, deviceVars, CapInv
  <2> QED
    BY <1>2, <2>2, FoldStepsOfTheCore, CapInductive
<1>3. FoldInv /\ CapInv /\ [MlsNext]_vars => CapInv'
  BY <1>2
<1> QED
  BY <1>1, <1>3, FoldInvariant, CapGivesBound, PTL DEF MlsSpec

(* No content or group event opens a free seat.                             *)
THEOREM SeatsAreSpentInTheFold == MlsSpec => []EveryoneSpentASeat
<1>1. MlsInit => EveryoneSpentASeat
  BY SeatsInit DEF MlsInit
<1>2. FoldInv /\ EveryoneSpentASeat /\ [MlsNext]_vars => EveryoneSpentASeat'
  <2>1. ASSUME EveryoneSpentASeat, NEW a, NEW d, NEW ts, PlainEvent(a, d, ts)
        PROVE  EveryoneSpentASeat'
    BY <2>1 DEF PlainEvent, standingVars, EveryoneSpentASeat
  <2> QED
    BY <2>1, FoldStepsOfTheCore, SeatsInductive DEF FoldInv, StandingInv
<1> QED
  BY <1>1, <1>2, FoldInvariant, PTL DEF MlsSpec

(* The corroborated clock, which judges the leaves of every commit and      *)
(* reset, is two identities' word in every state of the fold.               *)
THEOREM ClockIsCorroboratedInTheFold == MlsSpec => []ClockNeedsTwoWitnesses
<1>1. FoldInv => ClockNeedsTwoWitnesses
  BY ClockByWitnesses DEF FoldInv, StandingInv
<1> QED
  BY <1>1, FoldInvariant, PTL

-----------------------------------------------------------------------------
(* Channels, group records, packages and pins keep their types, and no run  *)
(* of sealed content outlives the freshness ceiling (spec C4).              *)
THEOREM MlsTypeInvariant == MlsSpec => []MlsTypeOK
<1>1. FoldInv => MlsTypeOK
  BY DEF FoldInv, ContentInv, GroupInv, MlsTypeOK
<1> QED
  BY <1>1, FoldInvariant, PTL

(* The standing rules survive the other half of the fold: no channel, group *)
(* or content event of anybody puts an identity in two standings.           *)
THEOREM StandingSafeInTheFold == MlsSpec => []StandingSafe
<1>1. FoldInv => StandingSafe
  BY DEF FoldInv, StandingInv, StandingSafe
<1> QED
  BY <1>1, FoldInvariant, PTL

(* A declared channel never had plaintext posts before (the arms of         *)
(* ChannelCreated and MessagePosted).                                       *)
THEOREM LocksAreHonest == MlsSpec => []NoLockOverPlaintext
<1>1. FoldInv => NoLockOverPlaintext
  BY DEF FoldInv, ContentInv
<1> QED
  BY <1>1, FoldInvariant, PTL

(* One copy of a leaf, one commit per epoch, one use per key package, over  *)
(* every interleaving of commits, confirmations, resets and lapses.         *)
THEOREM RecordsAgree == MlsSpec => []GroupRecordsAgree
<1>1. FoldInv => GroupRecordsAgree
  BY DEF FoldInv, GroupInv, GroupRecordsAgree
<1> QED
  BY <1>1, FoldInvariant, PTL

(* Whatever the send gate holds against a channel, a commit may discharge   *)
(* (pending_removals and pending_adds against the arm of MlsCommit).        *)
THEOREM DriftCanBeDischarged == MlsSpec => []DriftIsDischargeable
<1>1. FoldInv => DriftIsDischargeable
  <2> SUFFICES ASSUME FoldInv, NEW c \in Channel, NEW a \in Identity, NEW ts \in Time
               PROVE  /\ \A l \in PendingRemovals(c, ts) : MayRemove(c, a, ts, l)
                      /\ \A k \in keyPackages :
                            k[1] \in PendingAdds(c, ts) /\ k[1][1] \notin CommittingIdentities(c)
                            => MayAdd(c, a, ts, k[1], k[2])
    BY DEF DriftIsDischargeable
  <2>1. ASSUME NEW l \in PendingRemovals(c, ts) PROVE MayRemove(c, a, ts, l)
    <3>1. l \in Leaves(c) /\ l \notin MemberLeaves(ts)
      BY DEF PendingRemovals
    <3>2. l \in Identity \X Device
      BY <3>1, AuthzConstants DEF FoldInv, GroupInv, GroupTypeOK, Leaves, Leaf
    <3>3. ~InGoodStanding(l, ts)
      BY <3>1, <3>2 DEF MemberLeaves, InGoodStanding
    <3> QED
      BY <3>1, <3>3 DEF MayRemove
  <2>2. ASSUME NEW k \in keyPackages, k[1] \in PendingAdds(c, ts),
               k[1][1] \notin CommittingIdentities(c)
        PROVE  MayAdd(c, a, ts, k[1], k[2])
    <3>1. k[1] \in MemberLeaves(ts) /\ k[1] \notin Leaves(c)
      BY <2>2 DEF PendingAdds
    <3>2. InGoodStanding(k[1], ts) /\ k[1][1] \notin pending
      BY <3>1 DEF MemberLeaves, InGoodStanding, FoldInv, StandingInv, StandingExclusive
    <3>3. k[2] \notin consumed
      BY DEF FoldInv, GroupInv, PackagesSpentOnce
    <3>4. <<k[1], k[2]>> = k
      BY DEF FoldInv, GroupInv, GroupTypeOK
    <3> QED
      BY <2>2, <3>1, <3>2, <3>3, <3>4 DEF MayAdd
  <2> QED
    BY <2>1, <2>2
<1> QED
  BY <1>1, FoldInvariant, PTL
-----------------------------------------------------------------------------
(* What a step may never do. *)

(* Nothing content-wise is taken back: a channel keeps its declaration, a   *)
(* tombstone and a redaction are final, a blob keeps its first uploader.    *)
THEOREM ContentStaysFinal == MlsSpec => ContentIsFinal
<1> DEFINE Final == /\ \A c \in Channel : Known(c) => channels'[c] = channels[c]
                    /\ tombstones \subseteq tombstones'
                    /\ redacted \subseteq redacted'
                    /\ \A b \in Blob : uploaders[b] # NoOne => uploaders'[b] = uploaders[b]
<1>0. ASSUME ContentInv, UNCHANGED <<channels, tombstones, redacted>>,
             \/ UNCHANGED uploaders
             \/ \E claims \in Claims : RecordUploaders(claims)
      PROVE  Final
  BY <1>0 DEF RecordUploaders
<1>1. ASSUME FoldInv, NEW a \in Identity, NEW d \in Device, NEW ts \in Time,
             ContentStepWithGroups(a, d, ts)
      PROVE  Final
  <2>1. ASSUME NEW c \in Channel, NEW class \in Classes, NEW parent \in Channel \cup {NoChannel},
               ChannelCreated(a, d, ts, c, class, parent)
        PROVE  Final
    BY <1>1, <2>1 DEF ChannelCreated, Declarable, Known, attachmentVars, FoldInv, ContentInv,
                      ContentTypeOK
  <2>2. ASSUME NEW c \in Channel, NEW claims \in Claims, MessagePosted(a, d, ts, c, claims)
        PROVE  Final
    BY <1>0, <1>1, <2>2 DEF MessagePosted, FoldInv
  <2>3. ASSUME NEW b \in Blob, AttachmentRedacted(a, d, ts, b)
        PROVE  Final
    BY <2>3 DEF AttachmentRedacted
  <2>4. ASSUME NEW c \in Channel, NEW target \in Message, NEW reason \in {"moderation", "author"},
               MessageDeleted(a, d, ts, c, target, reason)
        PROVE  Final
    BY <2>4 DEF MessageDeleted, attachmentVars
  <2> QED
    BY <1>1, <2>1, <2>2, <2>3, <2>4 DEF ContentStepWithGroups
<1>2. ASSUME FoldInv, NEW a \in Identity, NEW d \in Device, NEW ts \in Time,
             MlsStep(a, d, ts)
      PROVE  Final
  BY <1>0, <1>2, GroupStepIsPlain, GroupStepKeepsContent DEF FoldInv
<1>3. ASSUME UNCHANGED contentVars PROVE Final
  BY <1>3 DEF contentVars
<1>4. ASSUME NEW k \in keyPackages, KeyPackageLapses(k) PROVE Final
  BY <1>4 DEF KeyPackageLapses, logVars, contentVars
<1> HIDE DEF Final
<1>5. FoldInv /\ [MlsNext]_vars => [Final]_logVars
  <2> SUFFICES ASSUME FoldInv, MlsNext PROVE Final
    BY DEF vars
  <2> QED
    BY <1>1, <1>2, <1>3, <1>4, StepsOfTheFold
<1>6. FoldInv /\ [MlsNext]_vars => [/\ \A c \in Channel : Known(c) => channels'[c] = channels[c]
                                    /\ tombstones \subseteq tombstones'
                                    /\ redacted \subseteq redacted'
                                    /\ \A b \in Blob : uploaders[b] # NoOne
                                           => uploaders'[b] = uploaders[b]]_logVars
  BY <1>5 DEF Final
<1> QED
  BY <1>6, FoldInvariant, PTL DEF MlsSpec, ContentIsFinal
-----------------------------------------------------------------------------
(* Steps that touch a tree, its counters or its turns. *)

TreeStep(a, d, ts, c) ==
    \/ \E adds \in SUBSET keyPackages, removes \in SUBSET Leaves(c), inst \in Instance :
          MlsCommit(a, d, ts, c, adds, removes, inst)
    \/ \E inst \in Instance : MlsLeafConfirmed(a, d, ts, c, inst)
    \/ \E claims \in Claims : MessagePostedE2ee(a, d, ts, c, claims)
    \/ \E target \in Message : MessageEditedE2ee(a, d, ts, c, target)
    \/ \E cited \in SUBSET Staged(c) : MlsGroupReset(a, d, ts, c, cited)

LEMMA StepsOnATree ==
    ASSUME MlsNext
    PROVE  \/ UNCHANGED <<treeVars, eventsSinceCommit, lastCommitEpoch>>
           \/ \E a \in Identity, d \in Device, ts \in Time, c \in Channel :
                 <<a, d>> \in Keys /\ TreeStep(a, d, ts, c)
<1> DEFINE Quiet == UNCHANGED <<treeVars, eventsSinceCommit, lastCommitEpoch>>
<1>0. (UNCHANGED mlsVars \/ UNCHANGED <<treeVars, rateVars>>) => Quiet
  BY DEF mlsVars, groupVars, rateVars
<1> HIDE DEF Quiet
<1>1. ASSUME NEW k \in keyPackages, KeyPackageLapses(k) PROVE Quiet
  BY <1>0, <1>1 DEF KeyPackageLapses, groupVars
<1>2. ASSUME NEW a, NEW d, NEW ts, ContentStepWithGroups(a, d, ts) PROVE Quiet
  <2>1. ASSUME UNCHANGED <<treeVars, eventsSinceCommit, lastCommitEpoch, welcomes, packageVars>>
        PROVE  Quiet
    BY <2>1 DEF Quiet
  <2> QED
    BY <1>0, <1>2, <2>1 DEF ContentStepWithGroups
<1>3. ASSUME NEW a \in Identity, NEW d \in Device, NEW ts \in Time, MlsStep(a, d, ts)
      PROVE  Quiet \/ \E c \in Channel : TreeStep(a, d, ts, c)
  <2>1. ASSUME NEW package \in Package, NEW inst \in Instance,
               MlsKeyPackagePublished(a, d, ts, package, inst)
        PROVE  Quiet
    BY <1>0, <2>1 DEF MlsKeyPackagePublished, groupVars
  <2>2. ASSUME NEW c \in Channel, MlsCommitStale(a, d, ts, c) PROVE Quiet
    BY <1>0, <2>2 DEF MlsCommitStale
  <2>3. ASSUME NEW c \in Channel, NEW gen \in {generation[c], generation[c] + 1},
               NEW leaf \in Leaf, MlsWelcome(a, d, ts, c, gen, leaf)
        PROVE  Quiet
    BY <1>0, <2>3 DEF MlsWelcome
  <2> QED
    BY <1>3, <2>1, <2>2, <2>3 DEF MlsStep, TreeStep
<1> QED
  BY <1>0, <1>1, <1>2, <1>3, StepsOfTheFold DEF Quiet

(* Only the channel of the event is touched. *)
LEMMA OtherTreesRest ==
    ASSUME GroupInv, NEW a, NEW d, NEW ts, NEW c \in Channel, TreeStep(a, d, ts, c),
           NEW e \in Channel, e # c
    PROVE  /\ generation'[e] = generation[e]
           /\ leavesConfirmed'[e] = leavesConfirmed[e]
           /\ resetWelcomed'[e] = resetWelcomed[e]
           /\ eventsSinceCommit'[e] = eventsSinceCommit[e]
           /\ lastCommitEpoch'[e] = lastCommitEpoch[e]
<1> DEFINE Rest == /\ generation'[e] = generation[e]
                   /\ leavesConfirmed'[e] = leavesConfirmed[e]
                   /\ resetWelcomed'[e] = resetWelcomed[e]
                   /\ eventsSinceCommit'[e] = eventsSinceCommit[e]
                   /\ lastCommitEpoch'[e] = lastCommitEpoch[e]
<1> USE DEF GroupInv, GroupTypeOK
<1>1. ASSUME NEW adds \in SUBSET keyPackages, NEW removes \in SUBSET Leaves(c),
             NEW inst \in Instance, MlsCommit(a, d, ts, c, adds, removes, inst)
      PROVE  Rest
  BY <1>1 DEF MlsCommit
<1>2. ASSUME NEW inst \in Instance, MlsLeafConfirmed(a, d, ts, c, inst) PROVE Rest
  BY <1>2 DEF MlsLeafConfirmed, rateVars
<1>3. ASSUME UNCHANGED <<treeVars, lastCommitEpoch>>, BumpChannelCounters(c) PROVE Rest
  BY <1>3 DEF BumpChannelCounters, treeVars
<1>4. ASSUME NEW cited \in SUBSET Staged(c), MlsGroupReset(a, d, ts, c, cited) PROVE Rest
  BY <1>4 DEF MlsGroupReset, RestartTree
<1>5. ASSUME NEW claims \in Claims, MessagePostedE2ee(a, d, ts, c, claims) PROVE Rest
  BY <1>3, <1>5 DEF MessagePostedE2ee
<1>6. ASSUME NEW target \in Message, MessageEditedE2ee(a, d, ts, c, target) PROVE Rest
  BY <1>3, <1>6 DEF MessageEditedE2ee
<1> HIDE DEF Rest
<1>7. Rest
  BY <1>1, <1>2, <1>4, <1>5, <1>6 DEF TreeStep
<1> QED
  BY <1>7 DEF Rest

(* The gate of sealed content: drift, obligations and nothing else of the   *)
(* tree counts, and a sealed event moves none of it.                        *)
THEOREM SealedContentIsForMembers == MlsSpec => SealedOnlyForMembers
<1> DEFINE Sealed(c) == eventsSinceCommit'[c] > eventsSinceCommit[c] =>
             /\ \A l \in Leaves(c) : l[1] \in members /\ l[2] \notin revokedDevices
             /\ \A l \in resetWelcomed[c] : OwedALeaf(l) => l \in leavesConfirmed[c]
<1>1. ASSUME FoldInv, NEW a \in Identity, NEW d \in Device, NEW ts \in Time, NEW c \in Channel,
             SealedSendAllowed(a, d, ts, c)
      PROVE  Sealed(c)
  <2>1. Leaves(c) \subseteq MemberLeaves(ts) /\ resetWelcomed[c] \subseteq leavesConfirmed[c]
    BY <1>1 DEF SealedSendAllowed, PendingRemovals, ResetIncomplete
  <2> QED
    BY <2>1 DEF MemberLeaves, JudgedLiveDevices, LiveDevicesAt
<1>2. ASSUME FoldInv, NEW c \in Channel, eventsSinceCommit'[c] \in {eventsSinceCommit[c], 0}
      PROVE  Sealed(c)
  <2>1. eventsSinceCommit[c] \in Nat
    BY <1>2, MlsConstants DEF FoldInv, GroupInv, GroupTypeOK
  <2> QED
    BY <1>2, <2>1
<1> HIDE DEF Sealed
<1>3. ASSUME FoldInv, MlsNext, NEW e \in Channel PROVE Sealed(e)
  <2>1. CASE UNCHANGED <<treeVars, eventsSinceCommit, lastCommitEpoch>>
    BY <1>2, <1>3, <2>1
  <2>2. ASSUME NEW a \in Identity, NEW d \in Device, NEW ts \in Time, NEW c \in Channel,
               TreeStep(a, d, ts, c)
        PROVE  Sealed(e)
    <3>1. CASE e # c
      BY <1>2, <1>3, <2>2, <3>1, OtherTreesRest DEF FoldInv
    <3>2. CASE e = c
      <4>1. ASSUME NEW adds \in SUBSET keyPackages, NEW removes \in SUBSET Leaves(c),
                   NEW inst \in Instance, MlsCommit(a, d, ts, c, adds, removes, inst)
            PROVE  Sealed(c)
        <5>1. eventsSinceCommit'[c] = 0
          BY <1>3, <4>1 DEF MlsCommit, FoldInv, GroupInv, GroupTypeOK
        <5> QED
          BY <1>2, <1>3, <5>1
      <4>2. ASSUME NEW cited \in SUBSET Staged(c), MlsGroupReset(a, d, ts, c, cited)
            PROVE  Sealed(c)
        <5>1. eventsSinceCommit'[c] = 0
          BY <1>3, <4>2 DEF MlsGroupReset, FoldInv, GroupInv, GroupTypeOK
        <5> QED
          BY <1>2, <1>3, <5>1
      <4>3. ASSUME NEW inst \in Instance, MlsLeafConfirmed(a, d, ts, c, inst) PROVE Sealed(c)
        <5>1. UNCHANGED eventsSinceCommit
          BY <4>3 DEF MlsLeafConfirmed, rateVars
        <5> QED
          BY <1>2, <1>3, <5>1
      <4> QED
        BY <1>1, <1>3, <2>2, <3>2, <4>1, <4>2, <4>3
        DEF TreeStep, MessagePostedE2ee, MessageEditedE2ee
    <3> QED
      BY <3>1, <3>2
  <2> QED
    BY <1>3, <2>1, <2>2, StepsOnATree
<1>4. FoldInv /\ [MlsNext]_vars => [\A c \in Channel : Sealed(c)]_vars
  BY <1>3
<1>5. FoldInv /\ [MlsNext]_vars =>
        [\A c \in Channel : eventsSinceCommit'[c] > eventsSinceCommit[c] =>
            /\ \A l \in Leaves(c) : l[1] \in members /\ l[2] \notin revokedDevices
            /\ \A l \in resetWelcomed[c] : OwedALeaf(l) => l \in leavesConfirmed[c]]_vars
  BY <1>4 DEF Sealed
<1> QED
  BY <1>5, FoldInvariant, PTL DEF MlsSpec, SealedOnlyForMembers
-----------------------------------------------------------------------------
(* Claims about clocks.  The fold judges a device by its owner's floor and, *)
(* beyond it, by no more than the corroborated clock.                       *)

(* Whoever is owed a leaf by every clock the log vouches for is in good     *)
(* standing at any moment an event can claim.                               *)
LEMMA OwedIsGood ==
    ASSUME FoldInv, NEW l \in Leaf, OwedALeaf(l), NEW ts \in Time
    PROVE  InGoodStanding(l, ts) /\ l \in MemberLeaves(ts)
<1> DEFINE m == l[1]
<1>1. l \in Identity \X Device /\ m \in Identity
  BY AuthzConstants DEF Leaf
<1>2. Time \cup {0} \subseteq Nat
  BY AuthzConstants
<1>3. identityClock \in [Identity -> Nat]
  BY <1>2 DEF FoldInv, StandingInv, AuthzTypeOK
<1>4. CorroboratedClock(identityClock) \in Nat /\ identityClock[m] \in Nat
  BY <1>1, <1>3, ScanWitnesses
<1>5. ts \in Nat
  BY <1>2, Zenon
<1>6. /\ JudgedLivenessTs(m, ts) \in Nat
      /\ LogNow(m) \in Nat
      /\ JudgedLivenessTs(m, ts) <= LogNow(m)
  BY <1>4, <1>5 DEF JudgedLivenessTs, LogNow, MaxOf, MinOf
<1> HIDE DEF m
<1>7. /\ m \in members
      /\ l[2] \in devicesByIdentity[m]
      /\ l[2] \notin revokedDevices
      /\ Unexpired(deviceExpiry[l[2]], LogNow(m))
  BY DEF OwedALeaf, LiveDevicesAt, m
<1>8. Unexpired(deviceExpiry[l[2]], JudgedLivenessTs(m, ts))
  <2>1. deviceExpiry[l[2]] \in Time \cup {NoExpiry}
    BY <1>1 DEF FoldInv, StandingInv, AuthzTypeOK
  <2>2. deviceExpiry[l[2]] # NoExpiry => deviceExpiry[l[2]] \in Nat
    BY <1>2, <2>1, Zenon
  <2> QED
    BY <1>6, <1>7, <2>2 DEF Unexpired
<1>9. l[2] \in JudgedLiveDevices(m, ts)
  BY <1>7, <1>8 DEF JudgedLiveDevices, LiveDevicesAt
<1>10. m \notin banned
  BY <1>7 DEF FoldInv, StandingInv, StandingExclusive
<1> QED
  BY <1>1, <1>7, <1>9, <1>10 DEF InGoodStanding, MemberLeaves, m

LEMMA OnlyCommitsDropLeaves ==
    ASSUME GroupInv, NEW a \in Identity, NEW d \in Device, NEW ts \in Time, NEW c \in Channel,
           TreeStep(a, d, ts, c), generation'[c] = generation[c]
    PROVE  \/ /\ leavesConfirmed[c] \subseteq leavesConfirmed'[c]
              /\ UNCHANGED resetWelcomed
           \/ \E adds \in SUBSET keyPackages, removes \in SUBSET Leaves(c), inst \in Instance :
                 MlsCommit(a, d, ts, c, adds, removes, inst)
<1> DEFINE Kept == /\ leavesConfirmed[c] \subseteq leavesConfirmed'[c]
                   /\ UNCHANGED resetWelcomed
<1>1. ASSUME NEW inst \in Instance, MlsLeafConfirmed(a, d, ts, c, inst) PROVE Kept
  BY <1>1 DEF MlsLeafConfirmed, GroupInv, GroupTypeOK
<1>2. UNCHANGED treeVars => Kept
  BY DEF treeVars
<1>3. ASSUME NEW cited \in SUBSET Staged(c), MlsGroupReset(a, d, ts, c, cited) PROVE FALSE
  <2>1. generation'[c] = generation[c] + 1 /\ generation[c] \in Nat
    BY <1>3 DEF MlsGroupReset, GroupInv, GroupTypeOK
  <2> QED
    BY <2>1
<1> HIDE DEF Kept
<1>4. Kept \/ \E adds \in SUBSET keyPackages, removes \in SUBSET Leaves(c), inst \in Instance :
                MlsCommit(a, d, ts, c, adds, removes, inst)
  BY <1>1, <1>2, <1>3 DEF TreeStep, MessagePostedE2ee, MessageEditedE2ee
<1> QED
  BY <1>4 DEF Kept

(* No silent eviction (spec C7): between resets only the holder drops the   *)
(* confirmed leaf of a member with a live device, whatever time a commit    *)
(* claims (the removal rules in the arm of MlsCommit).                      *)
THEOREM EvictionsAreLogged == MlsSpec => NoSilentEviction
<1> DEFINE Loud(c) == generation'[c] = generation[c] =>
             \A l \in leavesConfirmed[c] \ leavesConfirmed'[c] : OwedALeaf(l) => last'.author = l[1]
<1>1. ASSUME FoldInv, NEW a \in Identity, NEW d \in Device, NEW ts \in Time, <<a, d>> \in Keys,
             NEW c \in Channel, NEW adds \in SUBSET keyPackages, NEW removes \in SUBSET Leaves(c),
             NEW inst \in Instance, MlsCommit(a, d, ts, c, adds, removes, inst)
      PROVE  Loud(c)
  <2> SUFFICES ASSUME NEW l \in leavesConfirmed[c] \ leavesConfirmed'[c], OwedALeaf(l)
               PROVE  last'.author = l[1]
    OBVIOUS
  <2>1. TreeMoves(<<a, d>>, c, adds, removes)
    BY <1>1, CommitEffect DEF FoldInv
  <2>2. l \in removes
    BY <2>1 DEF TreeMoves
  <2>3. l \in Leaf
    BY <1>1 DEF FoldInv, GroupInv, GroupTypeOK
  <2>4. InGoodStanding(l, ts)
    BY <1>1, <2>3, OwedIsGood
  <2>5. l[1] = a
    BY <1>1, <2>2, <2>4 DEF MlsCommit, MayRemove
  <2>6. last'.author = a
    BY <1>1 DEF MlsCommit, MlsEvent, Advance
  <2> QED
    BY <2>5, <2>6
<1>2. ASSUME NEW c \in Channel, leavesConfirmed[c] \subseteq leavesConfirmed'[c] PROVE Loud(c)
  BY <1>2
<1> HIDE DEF Loud
<1>3. ASSUME FoldInv, MlsNext, NEW e \in Channel, generation'[e] = generation[e] PROVE Loud(e)
  <2>1. CASE UNCHANGED <<treeVars, eventsSinceCommit, lastCommitEpoch>>
    BY <1>2, <2>1 DEF treeVars
  <2>2. ASSUME NEW a \in Identity, NEW d \in Device, NEW ts \in Time, NEW c \in Channel,
               <<a, d>> \in Keys, TreeStep(a, d, ts, c)
        PROVE  Loud(e)
    <3>1. CASE e # c
      BY <1>2, <1>3, <2>2, <3>1, OtherTreesRest DEF FoldInv
    <3>2. CASE e = c
      BY <1>1, <1>2, <1>3, <2>2, <3>2, OnlyCommitsDropLeaves DEF FoldInv
    <3> QED
      BY <3>1, <3>2
  <2> QED
    BY <1>3, <2>1, <2>2, StepsOnATree
<1>4. FoldInv /\ [MlsNext]_vars =>
        [\A c \in Channel : generation'[c] = generation[c] =>
           \A l \in leavesConfirmed[c] \ leavesConfirmed'[c] :
               OwedALeaf(l) => last'.author = l[1]]_vars
  BY <1>3 DEF Loud
<1> QED
  BY <1>4, FoldInvariant, PTL DEF MlsSpec, NoSilentEviction

(* The obligation of a reset towards a staged leaf ends with its standing,  *)
(* never by a commit that merely drops the pending Add.                     *)
THEOREM ObligationsStand == MlsSpec => ObligationsEndOnlyInVoid
<1> DEFINE Owing(c) == generation'[c] = generation[c] =>
             \A l \in resetWelcomed[c] \ resetWelcomed'[c] : ~OwedALeaf(l)
<1>1. ASSUME FoldInv, NEW a \in Identity, NEW d \in Device, NEW ts \in Time, NEW c \in Channel,
             NEW adds \in SUBSET keyPackages, NEW removes \in SUBSET Leaves(c),
             NEW inst \in Instance, MlsCommit(a, d, ts, c, adds, removes, inst)
      PROVE  Owing(c)
  <2> SUFFICES ASSUME NEW l \in resetWelcomed[c] \ resetWelcomed'[c] PROVE ~OwedALeaf(l)
    OBVIOUS
  <2>1. resetWelcomed'[c] = resetWelcomed[c] \ VoidObligations(c, ts)
    BY <1>1 DEF MlsCommit, RemainingObligations, FoldInv, GroupInv, GroupTypeOK
  <2>2. l \in Leaf /\ ~InGoodStanding(l, ts)
    BY <1>1, <2>1 DEF VoidObligations, FoldInv, GroupInv, GroupTypeOK
  <2> QED
    BY <1>1, <2>2, OwedIsGood
<1>2. ASSUME NEW c \in Channel, resetWelcomed'[c] = resetWelcomed[c] PROVE Owing(c)
  BY <1>2
<1> HIDE DEF Owing
<1>3. ASSUME FoldInv, MlsNext, NEW e \in Channel, generation'[e] = generation[e] PROVE Owing(e)
  <2>1. CASE UNCHANGED <<treeVars, eventsSinceCommit, lastCommitEpoch>>
    BY <1>2, <2>1 DEF treeVars
  <2>2. ASSUME NEW a \in Identity, NEW d \in Device, NEW ts \in Time, NEW c \in Channel,
               TreeStep(a, d, ts, c)
        PROVE  Owing(e)
    <3>1. CASE e # c
      BY <1>2, <1>3, <2>2, <3>1, OtherTreesRest DEF FoldInv
    <3>2. CASE e = c
      BY <1>1, <1>2, <1>3, <2>2, <3>2, OnlyCommitsDropLeaves DEF FoldInv
    <3> QED
      BY <3>1, <3>2
  <2> QED
    BY <1>3, <2>1, <2>2, StepsOnATree
<1>4. FoldInv /\ [MlsNext]_vars =>
        [\A c \in Channel : generation'[c] = generation[c] =>
           \A l \in resetWelcomed[c] \ resetWelcomed'[c] : ~OwedALeaf(l)]_vars
  BY <1>3 DEF Owing
<1> QED
  BY <1>4, FoldInvariant, PTL DEF MlsSpec, ObligationsEndOnlyInVoid

LEMMA OnlyResetsRestart ==
    ASSUME GroupInv, NEW a, NEW d, NEW ts, NEW c \in Channel,
           TreeStep(a, d, ts, c), generation' # generation
    PROVE  \E cited \in SUBSET Staged(c) : MlsGroupReset(a, d, ts, c, cited)
<1>1. ASSUME NEW adds \in SUBSET keyPackages, NEW removes \in SUBSET Leaves(c),
             NEW inst \in Instance, MlsCommit(a, d, ts, c, adds, removes, inst)
      PROVE  UNCHANGED generation
  BY <1>1 DEF MlsCommit
<1>2. ASSUME NEW inst \in Instance, MlsLeafConfirmed(a, d, ts, c, inst)
      PROVE  UNCHANGED generation
  BY <1>2 DEF MlsLeafConfirmed
<1>3. UNCHANGED treeVars => UNCHANGED generation
  BY DEF treeVars
<1> QED
  BY <1>1, <1>2, <1>3 DEF TreeStep, MessagePostedE2ee, MessageEditedE2ee

(* A reset is never selective: who is owed a leaf when it is accepted holds *)
(* one or is staged in the new generation (the completeness check of        *)
(* MlsGroupReset against member_leaves).                                    *)
THEOREM ResetsAreComplete == MlsSpec => ResetReachesEveryone
<1> DEFINE Reached(c) == generation'[c] # generation[c] =>
             \A l \in Leaf : OwedALeaf(l) => l \in leavesConfirmed'[c] \cup resetWelcomed'[c]
<1>1. ASSUME FoldInv, NEW a \in Identity, NEW d \in Device, NEW ts \in Time, NEW c \in Channel,
             NEW cited \in SUBSET Staged(c), MlsGroupReset(a, d, ts, c, cited)
      PROVE  Reached(c)
  <2> SUFFICES ASSUME NEW l \in Leaf, OwedALeaf(l)
               PROVE  l \in leavesConfirmed'[c] \cup resetWelcomed'[c]
    OBVIOUS
  <2>1. l \in MemberLeaves(ts)
    BY <1>1, OwedIsGood
  <2>2. {w.leaf : w \in cited} = MemberLeaves(ts) \ {<<a, d>>}
    BY <1>1 DEF MlsGroupReset, CoversExactly
  <2>3. leavesConfirmed'[c] = {<<a, d>>} /\ resetWelcomed'[c] = {w.leaf : w \in cited}
    BY <1>1 DEF MlsGroupReset, RestartTree, FoldInv, GroupInv, GroupTypeOK
  <2> QED
    BY <2>1, <2>2, <2>3
<1>2. ASSUME NEW c \in Channel, generation'[c] = generation[c] PROVE Reached(c)
  BY <1>2
<1> HIDE DEF Reached
<1>3. ASSUME FoldInv, MlsNext, NEW e \in Channel PROVE Reached(e)
  <2>1. CASE UNCHANGED generation
    BY <1>2, <2>1
  <2>2. ASSUME NEW a \in Identity, NEW d \in Device, NEW ts \in Time, NEW c \in Channel,
               TreeStep(a, d, ts, c), generation' # generation
        PROVE  Reached(e)
    <3>1. CASE e # c
      BY <1>2, <1>3, <2>2, <3>1, OtherTreesRest DEF FoldInv
    <3>2. CASE e = c
      BY <1>1, <1>3, <2>2, <3>2, OnlyResetsRestart DEF FoldInv
    <3> QED
      BY <3>1, <3>2
  <2> QED
    BY <1>3, <2>1, <2>2, StepsOnATree DEF treeVars
<1>4. FoldInv /\ [MlsNext]_vars =>
        [\A c \in Channel : generation'[c] # generation[c] =>
           \A l \in Leaf : OwedALeaf(l) => l \in leavesConfirmed'[c] \cup resetWelcomed'[c]]_vars
  BY <1>3 DEF Reached
<1> QED
  BY <1>4, FoldInvariant, PTL DEF MlsSpec, ResetReachesEveryone

-----------------------------------------------------------------------------
(* Turns. *)

(* With two committing identities the gap is at least two epochs, if the    *)
(* constant of the code (4) allows as much.                                 *)
LEMMA GapOfTwo ==
    ASSUME GroupInv, NEW c \in Channel, CommitRateMinGap > 1,
           Cardinality(CommittingIdentities(c)) > 1
    PROVE  CommitRateGap(c) \in Nat /\ CommitRateGap(c) > 1
<1>1. IsFiniteSet(leavesConfirmed[c])
  BY DEF GroupInv, FinitelyConfirmed
<1>2. IsFiniteSet(CommittingIdentities(c))
  <2> DEFINE holder == [l \in leavesConfirmed[c] |-> l[1]]
  <2>1. holder \in Surjection(leavesConfirmed[c], CommittingIdentities(c))
    BY DEF Surjection, CommittingIdentities
  <2> QED
    BY <1>1, <2>1, FS_Surjection
<1>3. Cardinality(CommittingIdentities(c)) \in Nat /\ CommitRateMinGap \in Nat
  BY <1>2, FS_CardinalityType, MlsConstants
<1> QED
  BY <1>3 DEF CommitRateGap, MinOf, MaxOf

LEMMA OnlyCommitsTakeTurns ==
    ASSUME GroupInv, NEW a \in Identity, NEW d \in Device, NEW ts \in Time, NEW c \in Channel,
           TreeStep(a, d, ts, c), generation'[c] = generation[c],
           NEW m \in Identity, lastCommitEpoch'[c][m] # lastCommitEpoch[c][m]
    PROVE  /\ m = a
           /\ \E adds \in SUBSET keyPackages, removes \in SUBSET Leaves(c), inst \in Instance :
                 MlsCommit(a, d, ts, c, adds, removes, inst)
<1>1. ASSUME NEW adds \in SUBSET keyPackages, NEW removes \in SUBSET Leaves(c),
             NEW inst \in Instance, MlsCommit(a, d, ts, c, adds, removes, inst)
      PROVE  m = a
  BY <1>1 DEF MlsCommit, GroupInv, GroupTypeOK
<1>2. ASSUME NEW inst \in Instance, MlsLeafConfirmed(a, d, ts, c, inst) PROVE FALSE
  BY <1>2 DEF MlsLeafConfirmed, rateVars
<1>3. ASSUME UNCHANGED lastCommitEpoch PROVE FALSE
  BY <1>3
<1>4. ASSUME NEW cited \in SUBSET Staged(c), MlsGroupReset(a, d, ts, c, cited) PROVE FALSE
  <2>1. generation'[c] = generation[c] + 1 /\ generation[c] \in Nat
    BY <1>4 DEF MlsGroupReset, GroupInv, GroupTypeOK
  <2> QED
    BY <2>1
<1> QED
  BY <1>1, <1>2, <1>3, <1>4 DEF TreeStep, MessagePostedE2ee, MessageEditedE2ee

(* While others hold leaves and the ceiling is far, nobody commits twice in *)
(* a row unless the second commit changes who is in the tree (spec I3, the  *)
(* commit-rate rule).                                                       *)
THEOREM TurnsAreTaken ==
    ASSUME CommitRateMinGap > 1
    PROVE  MlsSpec => NoTwoTurnsInARow
<1> DEFINE Turn(c, m) ==
             (/\ lastCommitEpoch'[c][m] # lastCommitEpoch[c][m]
              /\ epoch[c] > 0
              /\ lastCommitEpoch[c][m] = epoch[c] - 1
              /\ Cardinality(CommittingIdentities(c)) > 1
              /\ ~CeilingDemandsRekey(c)
              /\ generation'[c] = generation[c])
             => leavesConfirmed'[c] \cup leavesPending'[c] # Leaves(c)
<1>1. ASSUME FoldInv, NEW a \in Identity, NEW d \in Device, NEW ts \in Time, <<a, d>> \in Keys,
             NEW c \in Channel, NEW adds \in SUBSET keyPackages, NEW removes \in SUBSET Leaves(c),
             NEW inst \in Instance, MlsCommit(a, d, ts, c, adds, removes, inst)
      PROVE  Turn(c, a)
  <2> SUFFICES ASSUME epoch[c] > 0, lastCommitEpoch[c][a] = epoch[c] - 1,
                      Cardinality(CommittingIdentities(c)) > 1, ~CeilingDemandsRekey(c)
               PROVE  leavesConfirmed'[c] \cup leavesPending'[c] # Leaves(c)
    OBVIOUS
  <2>1. epoch[c] \in Nat /\ lastCommitEpoch[c][a] \in Nat /\ lastCommitEpoch[c][a] # NoCommit
    BY <1>1, MlsConstants DEF FoldInv, GroupInv, GroupTypeOK
  <2>2. ~(epoch[c] >= lastCommitEpoch[c][a] + CommitRateGap(c))
    BY <1>1, <2>1, GapOfTwo DEF FoldInv
  <2>3. DischargesDrift(c, ts, adds, removes)
    BY <1>1, <2>1, <2>2 DEF MlsCommit, CommitRateAllows
  <2>4. chained[c]
    BY <1>1, <2>1 DEF FoldInv, GroupInv, TurnsAreChained
  <2>5. leavesConfirmed[c] # {}
    <3>1. SUFFICES ASSUME leavesConfirmed[c] = {} PROVE FALSE
      OBVIOUS
    <3>2. CommittingIdentities(c) = {}
      BY <3>1 DEF CommittingIdentities
    <3> QED
      BY <3>2, FS_EmptySet
  <2>6. TreeMoves(<<a, d>>, c, adds, removes)
    BY <1>1, CommitEffect DEF FoldInv
  <2>7. PICK joining \in SUBSET Leaf :
               /\ joining = {add[1] : add \in adds}
               /\ joining \cap Leaves(c) = {}
               /\ leavesPending'[c] = (leavesPending[c] \cup joining) \ removes
               /\ leavesConfirmed'[c] = leavesConfirmed[c] \ removes
    BY <2>4, <2>5, <2>6 DEF TreeMoves
  <2>8. CASE \E add \in adds : add[1] \in PendingAdds(c, ts)
    <3>1. PICK add \in adds : add[1] \in PendingAdds(c, ts)
      BY <2>8
    <3>2. add[1] \in joining /\ add[1] \notin Leaves(c)
      BY <2>7
    <3>3. add[1] \notin removes
      BY <1>1, <3>2
    <3> QED
      BY <2>7, <3>2, <3>3
  <2>9. CASE removes \cap PendingRemovals(c, ts) # {}
    <3>1. PICK l \in removes : l \in Leaves(c)
      BY <2>9
    <3> QED
      BY <2>7, <3>1 DEF Leaves
  <2> QED
    BY <2>3, <2>8, <2>9 DEF DischargesDrift
<1>2. ASSUME NEW c \in Channel, NEW m \in Identity,
             lastCommitEpoch'[c][m] = lastCommitEpoch[c][m] \/ generation'[c] # generation[c]
      PROVE  Turn(c, m)
  BY <1>2
<1> HIDE DEF Turn
<1>3. ASSUME FoldInv, MlsNext, NEW e \in Channel, NEW m \in Identity PROVE Turn(e, m)
  <2> SUFFICES ASSUME lastCommitEpoch'[e][m] # lastCommitEpoch[e][m],
                      generation'[e] = generation[e]
               PROVE  Turn(e, m)
    BY <1>2
  <2>1. PICK a \in Identity, d \in Device, ts \in Time, c \in Channel :
                <<a, d>> \in Keys /\ TreeStep(a, d, ts, c)
    BY <1>3, StepsOnATree
  <2>2. CASE e # c
    BY <1>3, <2>1, <2>2, OtherTreesRest DEF FoldInv
  <2>3. CASE e = c
    BY <1>1, <1>3, <2>1, <2>3, OnlyCommitsTakeTurns DEF FoldInv
  <2> QED
    BY <2>2, <2>3
<1>4. FoldInv /\ [MlsNext]_vars => [\A c \in Channel, m \in Identity : Turn(c, m)]_vars
  BY <1>3
<1>5. FoldInv /\ [MlsNext]_vars =>
        [\A c \in Channel, m \in Identity :
           (/\ lastCommitEpoch'[c][m] # lastCommitEpoch[c][m]
            /\ epoch[c] > 0
            /\ lastCommitEpoch[c][m] = epoch[c] - 1
            /\ Cardinality(CommittingIdentities(c)) > 1
            /\ ~CeilingDemandsRekey(c)
            /\ generation'[c] = generation[c])
           => leavesConfirmed'[c] \cup leavesPending'[c] # Leaves(c)]_vars
  BY <1>4, Zenon DEF Turn
<1> QED
  BY <1>5, FoldInvariant, PTL DEF MlsSpec, NoTwoTurnsInARow

-----------------------------------------------------------------------------
(* The promise to clients.  LeafRecord knows no authenticators: that a      *)
(* commit founds its generation, when nothing is chained yet, it tells by   *)
(* the epoch.                                                               *)

StartOf(c) == IF generation[c] = 0 THEN 0 ELSE 1

ChainedPastStart ==
    \A c \in Channel : epoch[c] >= StartOf(c) /\ (chained[c] <=> epoch[c] > StartOf(c))

LEMMA ChainedStays ==
    ASSUME GroupInv, ChainedPastStart, [MlsNext]_vars
    PROVE  ChainedPastStart'
<1> USE DEF GroupInv, GroupTypeOK
<1>1. ASSUME UNCHANGED <<generation, epoch, chained>> PROVE ChainedPastStart'
  BY <1>1 DEF ChainedPastStart, StartOf
<1>2. CASE UNCHANGED vars
  BY <1>1, <1>2 DEF vars, mlsVars, groupVars, treeVars
<1>3. ASSUME NEW a, NEW d, NEW ts, NEW c \in Channel, TreeStep(a, d, ts, c)
      PROVE  ChainedPastStart'
  <2>1. ASSUME NEW adds \in SUBSET keyPackages, NEW removes \in SUBSET Leaves(c),
               NEW inst \in Instance, MlsCommit(a, d, ts, c, adds, removes, inst)
        PROVE  ChainedPastStart'
    <3>1. /\ generation' = generation
          /\ epoch' = [epoch EXCEPT ![c] = epoch[c] + 1]
          /\ chained' = [chained EXCEPT ![c] = TRUE]
      BY <2>1 DEF MlsCommit
    <3>2. ASSUME NEW e \in Channel
          PROVE  epoch'[e] >= StartOf(e) /\ (chained'[e] <=> epoch'[e] > StartOf(e))
      <4>1. epoch[e] \in Nat /\ epoch[e] >= StartOf(e) /\ StartOf(e) \in Nat
        BY DEF ChainedPastStart, StartOf
      <4>2. CASE e = c
        BY <3>1, <4>1, <4>2
      <4>3. CASE e # c
        BY <3>1, <4>1, <4>3 DEF ChainedPastStart
      <4> QED
        BY <4>2, <4>3
    <3> QED
      BY <3>1, <3>2 DEF ChainedPastStart, StartOf
  <2>2. ASSUME NEW inst \in Instance, MlsLeafConfirmed(a, d, ts, c, inst)
        PROVE  ChainedPastStart'
    BY <1>1, <2>2 DEF MlsLeafConfirmed
  <2>3. ASSUME NEW claims \in Claims, MessagePostedE2ee(a, d, ts, c, claims)
        PROVE  ChainedPastStart'
    BY <1>1, <2>3 DEF MessagePostedE2ee, treeVars
  <2>4. ASSUME NEW target \in Message, MessageEditedE2ee(a, d, ts, c, target)
        PROVE  ChainedPastStart'
    BY <1>1, <2>4 DEF MessageEditedE2ee, treeVars
  <2>5. ASSUME NEW cited \in SUBSET Staged(c), MlsGroupReset(a, d, ts, c, cited)
        PROVE  ChainedPastStart'
    <3>1. /\ generation' = [generation EXCEPT ![c] = generation[c] + 1]
          /\ epoch' = [epoch EXCEPT ![c] = 1]
          /\ chained' = [chained EXCEPT ![c] = FALSE]
      BY <2>5 DEF MlsGroupReset, RestartTree
    <3>2. ASSUME NEW e \in Channel
          PROVE  /\ epoch'[e] >= IF generation'[e] = 0 THEN 0 ELSE 1
                 /\ chained'[e] <=> epoch'[e] > IF generation'[e] = 0 THEN 0 ELSE 1
      <4>1. CASE e = c
        BY <3>1, <4>1
      <4>2. CASE e # c
        BY <3>1, <4>2 DEF ChainedPastStart, StartOf
      <4> QED
        BY <4>1, <4>2
    <3> QED
      BY <3>2 DEF ChainedPastStart, StartOf
  <2> QED
    BY <1>3, <2>1, <2>2, <2>3, <2>4, <2>5 DEF TreeStep
<1>4. CASE MlsNext
  BY <1>1, <1>3, <1>4, StepsOnATree DEF treeVars
<1> QED
  BY <1>2, <1>4

(* A step that leaves the other channels' groups alone replaces one record. *)
LEMMA OneRecord ==
    ASSUME GroupInv, NEW c \in Channel, NEW r,
           r.generation = generation'[c], r.epoch = epoch'[c],
           r.confirmed = leavesConfirmed'[c], r.pending = leavesPending'[c],
           r = [generation |-> r.generation, epoch |-> r.epoch,
                confirmed |-> r.confirmed, pending |-> r.pending],
           \A e \in Channel \ {c} : /\ generation'[e] = generation[e]
                                    /\ epoch'[e] = epoch[e]
                                    /\ leavesConfirmed'[e] = leavesConfirmed[e]
                                    /\ leavesPending'[e] = leavesPending[e]
    PROVE  record' = [record EXCEPT ![c] = r]
BY DEF record

LEMMA CommitOnTheRecord ==
    ASSUME GroupInv, ChainedPastStart, NEW a \in Identity, NEW d \in Device,
           NEW ts \in Time, <<a, d>> \in Keys, NEW c \in Channel,
           NEW adds \in SUBSET keyPackages, NEW removes \in SUBSET Leaves(c),
           NEW inst \in Instance, MlsCommit(a, d, ts, c, adds, removes, inst)
    PROVE  LeafRecords!Commit(c, <<a, d>>) /\ record' # record
<1> DEFINE leaf == <<a, d>>
           own == IF LeafRecords!Founding(record[c]) THEN {leaf} ELSE {}
           joining == {add[1] : add \in adds}
           r == [generation |-> generation[c],
                 epoch |-> epoch[c] + 1,
                 confirmed |-> (leavesConfirmed[c] \ removes) \cup own,
                 pending |-> ((leavesPending[c] \cup joining) \ removes) \ own]
<1>1. /\ record[c].generation = generation[c] /\ record[c].epoch = epoch[c]
      /\ record[c].confirmed = leavesConfirmed[c] /\ record[c].pending = leavesPending[c]
  BY DEF record
<1>2. LeafRecords!Founding(record[c]) <=> ~chained[c] \/ leavesConfirmed[c] = {}
  <2>1. epoch[c] \in Nat /\ StartOf(c) \in Nat
    BY DEF GroupInv, GroupTypeOK, StartOf
  <2> QED
    BY <1>1, <2>1 DEF LeafRecords!Founding, LeafRecords!FirstEpoch, ChainedPastStart, StartOf
<1>3. /\ generation' = generation
      /\ epoch' = [epoch EXCEPT ![c] = epoch[c] + 1]
      /\ leavesPending' = [leavesPending EXCEPT
                             ![c] = ((leavesPending[c] \cup joining) \ removes) \ own]
      /\ leavesConfirmed' = [leavesConfirmed EXCEPT
                               ![c] = (leavesConfirmed[c] \ removes) \cup own]
  BY <1>2 DEF MlsCommit, SettlePending
<1>4. \A add \in adds : add[1] \in Leaf /\ add[1] \notin Leaves(c)
  BY DEF MlsCommit, MayAdd, GroupInv, GroupTypeOK
<1>5. joining \in SUBSET (Leaf \ LeafRecords!Leaves(record[c]))
      /\ removes \in SUBSET LeafRecords!Leaves(record[c])
  BY <1>1, <1>4 DEF LeafRecords!Leaves, Leaves
<1>6. record[c].confirmed # {} => leaf \in record[c].confirmed
  BY <1>1 DEF MlsCommit, SpeaksFor
<1> HIDE DEF own, joining
<1>7. record' = [record EXCEPT ![c] = r]
  BY <1>3, OneRecord DEF GroupInv, GroupTypeOK
<1>8. record'[c] = r
  BY <1>7 DEF record
<1>9. record' # record
  <2>1. epoch[c] \in Nat
    BY DEF GroupInv, GroupTypeOK
  <2>2. record'[c].epoch # record[c].epoch
    BY <1>1, <1>8, <2>1
  <2> QED
    BY <2>2
<1>10. record' = [record EXCEPT ![c] =
                    [generation |-> record[c].generation,
                     epoch |-> record[c].epoch + 1,
                     confirmed |-> (record[c].confirmed \ removes) \cup own,
                     pending |-> ((record[c].pending \cup joining) \ removes) \ own]]
  BY <1>1, <1>7
<1> QED
  BY <1>5, <1>6, <1>9, <1>10 DEF LeafRecords!Commit, own

LEMMA ConfirmationOnTheRecord ==
    ASSUME GroupInv, NEW a, NEW d, NEW ts, NEW c \in Channel, NEW inst,
           MlsLeafConfirmed(a, d, ts, c, inst)
    PROVE  LeafRecords!Confirm(c, <<a, d>>) /\ record' # record
<1> DEFINE leaf == <<a, d>>
           r == [generation |-> generation[c],
                 epoch |-> epoch[c],
                 confirmed |-> leavesConfirmed[c] \cup {leaf},
                 pending |-> leavesPending[c] \ {leaf}]
<1>1. /\ record[c].generation = generation[c] /\ record[c].epoch = epoch[c]
      /\ record[c].confirmed = leavesConfirmed[c] /\ record[c].pending = leavesPending[c]
  BY DEF record
<1>2. /\ generation' = generation /\ epoch' = epoch
      /\ leaf \in leavesPending[c]
      /\ leavesPending' = [leavesPending EXCEPT ![c] = leavesPending[c] \ {leaf}]
      /\ leavesConfirmed' = [leavesConfirmed EXCEPT ![c] = leavesConfirmed[c] \cup {leaf}]
  BY DEF MlsLeafConfirmed
<1>3. record' = [record EXCEPT ![c] = r]
  <2> HIDE DEF leaf
  <2> QED
    BY <1>2, OneRecord DEF GroupInv, GroupTypeOK
<1>4. record'[c] = r
  BY <1>3 DEF record
<1>5. leaf \in record[c].pending /\ leaf \notin record'[c].pending
  BY <1>1, <1>2, <1>4
<1>6. record' # record
  BY <1>5
<1>7. record' = [record EXCEPT ![c] =
                   [generation |-> record[c].generation,
                    epoch |-> record[c].epoch,
                    confirmed |-> record[c].confirmed \cup {leaf},
                    pending |-> record[c].pending \ {leaf}]]
  BY <1>1, <1>3
<1> QED
  BY <1>5, <1>6, <1>7 DEF LeafRecords!Confirm

LEMMA ResetOnTheRecord ==
    ASSUME GroupInv, NEW a, NEW d, NEW ts, NEW c \in Channel, NEW cited \in SUBSET Staged(c),
           MlsGroupReset(a, d, ts, c, cited)
    PROVE  LeafRecords!Reset(c, <<a, d>>) /\ record' # record
<1> DEFINE leaf == <<a, d>>
           welcomed == {w.leaf : w \in cited}
           r == [generation |-> generation[c] + 1,
                 epoch |-> 1,
                 confirmed |-> {leaf},
                 pending |-> welcomed]
<1>1. generation[c] \in Nat /\ cited \subseteq [generation : Nat, leaf : Leaf]
  BY DEF GroupInv, GroupTypeOK, Staged
<1>2. welcomed \in SUBSET (Leaf \ {leaf})
  BY <1>1 DEF MlsGroupReset, CoversExactly
<1>3. /\ generation' = [generation EXCEPT ![c] = generation[c] + 1]
      /\ epoch' = [epoch EXCEPT ![c] = 1]
      /\ leavesConfirmed' = [leavesConfirmed EXCEPT ![c] = {leaf}]
      /\ leavesPending' = [leavesPending EXCEPT ![c] = welcomed]
  BY DEF MlsGroupReset, RestartTree
<1>4. record[c].generation = generation[c]
  BY DEF record
<1> HIDE DEF leaf, welcomed
<1>5. record' = [record EXCEPT ![c] = r]
  BY <1>3, OneRecord DEF GroupInv, GroupTypeOK
<1>6. record'[c] = r
  BY <1>5 DEF record
<1>7. record' # record
  <2>1. record'[c].generation # record[c].generation
    BY <1>1, <1>4, <1>6
  <2> QED
    BY <2>1
<1>8. record' = [record EXCEPT ![c] =
                   [generation |-> record[c].generation + 1,
                    epoch |-> 1,
                    confirmed |-> {leaf},
                    pending |-> welcomed]]
  BY <1>4, <1>5
<1> QED
  BY <1>2, <1>7, <1>8 DEF LeafRecords!Reset, leaf

LEMMA TreeStepOnTheRecord ==
    ASSUME GroupInv, ChainedPastStart, NEW a \in Identity, NEW d \in Device,
           NEW ts \in Time, <<a, d>> \in Keys, NEW c \in Channel, TreeStep(a, d, ts, c)
    PROVE  LeafRecords!Next \/ UNCHANGED record
<1>1. <<a, d>> \in Leaf
  BY DEF Leaf
<1>2. ASSUME NEW adds \in SUBSET keyPackages, NEW removes \in SUBSET Leaves(c),
             NEW inst \in Instance, MlsCommit(a, d, ts, c, adds, removes, inst)
      PROVE  LeafRecords!Next
  BY <1>1, <1>2, CommitOnTheRecord DEF LeafRecords!Next
<1>3. ASSUME NEW inst \in Instance, MlsLeafConfirmed(a, d, ts, c, inst)
      PROVE  LeafRecords!Next
  BY <1>1, <1>3, ConfirmationOnTheRecord DEF LeafRecords!Next
<1>4. ASSUME NEW cited \in SUBSET Staged(c), MlsGroupReset(a, d, ts, c, cited)
      PROVE  LeafRecords!Next
  BY <1>1, <1>4, ResetOnTheRecord DEF LeafRecords!Next
<1>5. ASSUME UNCHANGED treeVars PROVE UNCHANGED record
  BY <1>5 DEF treeVars, record
<1>6. ASSUME NEW claims \in Claims, MessagePostedE2ee(a, d, ts, c, claims)
      PROVE  UNCHANGED record
  BY <1>5, <1>6 DEF MessagePostedE2ee
<1>7. ASSUME NEW target \in Message, MessageEditedE2ee(a, d, ts, c, target)
      PROVE  UNCHANGED record
  BY <1>5, <1>7 DEF MessageEditedE2ee
<1> QED
  BY <1>2, <1>3, <1>4, <1>6, <1>7 DEF TreeStep

(* The fold implements LeafRecord, for any number of identities, devices,   *)
(* channels, packages and bounds: whatever the log accepts - lost races,    *)
(* lapses, resets that overlap joins - a client may rely on epochs that go  *)
(* up by one and on leaves that count only once they spoke for themselves   *)
(* (the arms of MlsCommit, MlsLeafConfirmed and MlsGroupReset).             *)
THEOREM FoldImplementsLeafRecord == MlsSpec => ImplementsLeafRecord
<1>1. MlsInit => LeafRecords!Init /\ ChainedPastStart
  <2> SUFFICES ASSUME MlsInit PROVE LeafRecords!Init /\ ChainedPastStart
    OBVIOUS
  <2>1. \A c \in Channel : /\ generation[c] = 0 /\ epoch[c] = 0 /\ chained[c] = FALSE
                           /\ leavesConfirmed[c] = {} /\ leavesPending[c] = {}
    BY DEF MlsInit, ByChannel
  <2>2. LeafRecords!Init
    <3>1. record = [c \in Channel |-> [generation |-> 0, epoch |-> 0,
                                       confirmed |-> {}, pending |-> {}]]
      BY <2>1 DEF record
    <3> QED
      BY <3>1 DEF LeafRecords!Init
  <2>3. ChainedPastStart
    BY <2>1 DEF ChainedPastStart, StartOf
  <2> QED
    BY <2>2, <2>3
<1>2. FoldInv /\ ChainedPastStart /\ [MlsNext]_vars => ChainedPastStart'
  BY ChainedStays DEF FoldInv
<1>3. FoldInv /\ ChainedPastStart /\ [MlsNext]_vars => [LeafRecords!Next]_record
  <2>1. ASSUME UNCHANGED treeVars PROVE UNCHANGED record
    BY <2>1 DEF treeVars, record
  <2>2. UNCHANGED vars => UNCHANGED treeVars
    BY DEF vars, mlsVars, groupVars
  <2> QED
    BY <2>1, <2>2, StepsOnATree, TreeStepOnTheRecord DEF FoldInv
<1> QED
  BY <1>1, <1>2, <1>3, FoldInvariant, PTL DEF MlsSpec, ImplementsLeafRecord, LeafRecords!Spec
=============================================================================
