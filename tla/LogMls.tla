------------------------------- MODULE LogMls -------------------------------
(***************************************************************************)
(* The MLS control plane of the event-log fold: key packages, commits,     *)
(* welcomes, leaf confirmations, sealed content and group resets of        *)
(* farder-crypto/src/event_log_state.rs, on top of LogContent.  The fold   *)
(* runs no MLS: it holds what events declare.                              *)
(*                                                                         *)
(* Abstracted data.  The declared authenticators and tree hashes only ever *)
(* feed equality tests against a value the author knows, so an event that  *)
(* states the right one exists in every state; "chained" keeps whether     *)
(* there is one to chain to.  The log position drives only the lifetime of *)
(* key packages, whose publisher chooses their expiry: KeyPackageLapses    *)
(* is the log reaching that position.  channel_events_since_reset is only  *)
(* compared with RESET_MIN_CHANNEL_EVENTS and stops counting there.        *)
(***************************************************************************)
EXTENDS LogContent

CONSTANTS Package,              \* hashes of MlsKeyPackagePublished events
          Instance,             \* MLS store-instance hashes
          NoInstance,           \* a device without a pinned instance
          NoCommit,             \* an author without a commit in this generation
          FreshnessCeiling,     \* FRESHNESS_CEILING_EVENTS
          CeilingGrace,         \* COMMIT_RATE_CEILING_GRACE_EVENTS
          CommitRateMinGap,     \* COMMIT_RATE_MIN_EPOCH_GAP
          ResetMinEvents,       \* RESET_MIN_CHANNEL_EVENTS
          MaxLivePackages,      \* MAX_LIVE_KEY_PACKAGES_PER_DEVICE
          MaxEpoch,             \* bound on the epochs of a generation
          MaxGeneration         \* bound on the generations of a channel

ASSUME MlsConstants ==
    /\ NoInstance \notin Instance
    /\ NoCommit \notin Nat
    /\ FreshnessCeiling \in Nat \ {0}
    /\ CeilingGrace \in Nat
    /\ CommitRateMinGap \in Nat \ {0}
    /\ ResetMinEvents \in Nat
    /\ MaxLivePackages \in Nat \ {0}
    /\ MaxEpoch \in Nat
    /\ MaxGeneration \in Nat

Leaf == Keys        \* a leaf is an <<identity, device>> pair

VARIABLES generation, epoch,    \* channel -> where its group is
          chained,              \* channel -> epoch_authenticator.is_some()
          commits,              \* channel -> epochs of commits_by_epoch
          leavesConfirmed, leavesPending,   \* channel -> set of leaves
          eventsSinceCommit,    \* channel -> events_since_last_commit
          lastCommitEpoch,      \* channel -> author -> epoch, or NoCommit
          eventsSinceReset,     \* channel -> channel_events_since_reset
          resetWelcomed,        \* channel -> leaves the last reset staged
          welcomes,             \* channel -> recorded [generation, leaf] welcomes
          keyPackages,          \* live <<leaf, package>> pairs
          consumed,             \* packages an Add consumed
          deviceInstance        \* device -> its pinned instance, or NoInstance

rateVars == <<eventsSinceCommit, lastCommitEpoch, eventsSinceReset>>
treeVars == <<generation, epoch, chained, commits, leavesConfirmed, leavesPending,
              resetWelcomed>>
groupVars == <<treeVars, rateVars, welcomes>>
packageVars == <<keyPackages, consumed, deviceInstance>>
mlsVars == <<groupVars, packageVars>>
vars == <<logVars, mlsVars>>

ByChannel(v) == [c \in Channel |-> v]

MlsInit ==
    /\ AuthzInit
    /\ ContentInit
    /\ generation = ByChannel(0)
    /\ epoch = ByChannel(0)
    /\ chained = ByChannel(FALSE)
    /\ commits = ByChannel({})
    /\ leavesConfirmed = ByChannel({})
    /\ leavesPending = ByChannel({})
    /\ eventsSinceCommit = ByChannel(0)
    /\ lastCommitEpoch = ByChannel([m \in Identity |-> NoCommit])
    /\ eventsSinceReset = ByChannel(0)
    /\ resetWelcomed = ByChannel({})
    /\ welcomes = ByChannel({})
    /\ keyPackages = {}
    /\ consumed = {}
    /\ deviceInstance = [d \in Device |-> NoInstance]

-----------------------------------------------------------------------------
(* What the fold derives from its state. *)

FullMember(m) == m \in members /\ m \notin pending

MemberLeaves(ts) == {l \in Identity \X Device :
                       l[1] \in members /\ l[2] \in JudgedLiveDevices(l[1], ts)}

Leaves(c) == leavesConfirmed[c] \cup leavesPending[c]

PendingRemovals(c, ts) == Leaves(c) \ MemberLeaves(ts)
PendingAdds(c, ts) == MemberLeaves(ts) \ Leaves(c)

InGoodStandingByBanOnly(leaf, ts) == leaf[1] \notin banned

InGoodStanding(leaf, ts) ==
    /\ leaf[1] \in members
    /\ leaf[1] \notin banned
    /\ leaf[2] \in JudgedLiveDevices(leaf[1], ts)

(* The staged leaves that still owe a confirmation keep the channel shut. *)
ResetIncompleteByPending(c) == resetWelcomed[c] \cap leavesPending[c] # {}

ResetIncomplete(c) == ~(resetWelcomed[c] \subseteq leavesConfirmed[c])

CommittingIdentities(c) == {l[1] : l \in leavesConfirmed[c]}

CommitRateGapOneShort(c) ==
    MinOf(CommitRateMinGap, MaxOf(Cardinality(CommittingIdentities(c)), 2) - 1)

CommitRateGap(c) == MinOf(CommitRateMinGap, MaxOf(Cardinality(CommittingIdentities(c)), 1))

CeilingDemandsRekey(c) == eventsSinceCommit[c] + CeilingGrace >= FreshnessCeiling

(* What a commit declares: <<leaf, package>> adds and leaf removes. *)
DischargesDrift(c, ts, adds, removes) ==
    \/ \E add \in adds : add[1] \in PendingAdds(c, ts)
    \/ removes \cap PendingRemovals(c, ts) # {}

InstanceMatches(d, inst) == deviceInstance[d] \in {NoInstance, inst}
PinInstance(d, inst) == deviceInstance' = [deviceInstance EXCEPT ![d] = inst]

MlsEvent(a, d, ts) ==
    /\ Advance(a, d, ts)
    /\ UNCHANGED <<standingVars, invites, deviceVars, channels, plaintextHistory>>

-----------------------------------------------------------------------------
(* Key packages. *)

MlsKeyPackagePublished(a, d, ts, package, inst) ==
    /\ Accepted(a, d, ts)
    /\ FullMember(a)
    /\ InstanceMatches(d, inst)
    /\ package \notin consumed                          \* it is the hash of
    /\ \A k \in keyPackages : k[2] # package            \* a new event
    /\ Cardinality({k \in keyPackages : k[1] = <<a, d>>}) < MaxLivePackages
    /\ PinInstance(d, inst)
    /\ keyPackages' = keyPackages \cup {<<<<a, d>>, package>>}
    /\ MlsEvent(a, d, ts)
    /\ UNCHANGED <<consumed, groupVars, tombstones, attachmentVars>>

(* The log reaches the position at which a live package expires. *)
KeyPackageLapses(k) ==
    /\ keyPackages' = keyPackages \ {k}
    /\ UNCHANGED <<logVars, groupVars, consumed, deviceInstance>>

-----------------------------------------------------------------------------
(* Commits. *)

(* Who may commit: before anybody holds a leaf only the channel's creator. *)
SpeaksFor(c, leaf) ==
    IF leavesConfirmed[c] = {} THEN channels[c].creator = leaf[1]
    ELSE leaf \in leavesConfirmed[c]

MayAdd(c, a, ts, leaf, package) ==
    /\ InGoodStanding(leaf, ts)
    /\ leaf[1] \notin pending
    /\ package \notin consumed
    /\ <<leaf, package>> \in keyPackages
    /\ leaf \notin Leaves(c)
    /\ leaf[1] \in CommittingIdentities(c) => leaf[1] = a

(* A confirmed leaf in good standing leaves only by its own identity. *)
MayRemove(c, a, ts, leaf) ==
    /\ leaf \in Leaves(c)
    /\ leaf \in leavesConfirmed[c] /\ InGoodStanding(leaf, ts) => leaf[1] = a

CommitRateAllows(c, a, ts, adds, removes) ==
    \/ DischargesDrift(c, ts, adds, removes)
    \/ CeilingDemandsRekey(c)
    \/ lastCommitEpoch[c][a] # NoCommit =>
          epoch[c] >= lastCommitEpoch[c][a] + CommitRateGap(c)

VoidObligations(c, ts) == {l \in resetWelcomed[c] : ~InGoodStanding(l, ts)}

RemainingObligationsPending(c, ts, removes) ==
    (resetWelcomed[c] \ VoidObligations(c, ts)) \ removes

RemainingObligations(c, ts, removes) == resetWelcomed[c] \ VoidObligations(c, ts)

(* Live packages the adds cite become consumed ones. *)
ConsumeButKeep(adds) ==
    /\ consumed' = consumed \cup {add[2] : add \in adds}
    /\ UNCHANGED keyPackages

Consume(adds) ==
    /\ keyPackages' = keyPackages \ adds
    /\ consumed' = consumed \cup {add[2] : add \in adds}

(* The author of a bootstrap commit is the tree by construction. *)
SettlePending(c, joining, removes, own) ==
    ((leavesPending[c] \cup joining) \ removes) \ own

MlsCommit(a, d, ts, c, adds, removes, inst) ==
    LET leaf == <<a, d>>
        bootstrap == ~chained[c] \/ leavesConfirmed[c] = {}
        joining == {add[1] : add \in adds}
        own == IF bootstrap THEN {leaf} ELSE {}
    IN
    /\ Accepted(a, d, ts)
    /\ IsE2ee(c)
    /\ epoch[c] < MaxEpoch
    /\ InstanceMatches(d, inst)
    /\ FullMember(a)
    /\ SpeaksFor(c, leaf)
    /\ \A add \in adds : MayAdd(c, a, ts, add[1], add[2])
    /\ \A l \in removes : MayRemove(c, a, ts, l)
    /\ CommitRateAllows(c, a, ts, adds, removes)
    /\ PinInstance(d, inst)
    /\ Consume(adds)
    /\ epoch' = [epoch EXCEPT ![c] = @ + 1]
    /\ chained' = [chained EXCEPT ![c] = TRUE]
    /\ commits' = [commits EXCEPT ![c] = @ \cup {epoch[c] + 1}]
    /\ leavesPending' = [leavesPending EXCEPT ![c] = SettlePending(c, joining, removes, own)]
    /\ leavesConfirmed' = [leavesConfirmed EXCEPT ![c] = (@ \ removes) \cup own]
    /\ resetWelcomed' = [resetWelcomed EXCEPT ![c] = RemainingObligations(c, ts, removes)]
    /\ eventsSinceCommit' = [eventsSinceCommit EXCEPT ![c] = 0]
    /\ lastCommitEpoch' = [lastCommitEpoch EXCEPT ![c][a] = epoch[c]]
    /\ MlsEvent(a, d, ts)
    /\ UNCHANGED <<generation, eventsSinceReset, welcomes, tombstones, attachmentVars>>

(* A commit that lost the race for its epoch: accepted, and a no-op. *)
MlsCommitStale(a, d, ts, c) ==
    /\ Accepted(a, d, ts)
    /\ IsE2ee(c)
    /\ MlsEvent(a, d, ts)
    /\ UNCHANGED <<mlsVars, tombstones, attachmentVars>>

-----------------------------------------------------------------------------
(* Welcomes and confirmations. *)

MlsWelcome(a, d, ts, c, gen, leaf) ==
    /\ Accepted(a, d, ts)
    /\ IsE2ee(c)
    /\ FullMember(a)
    /\ \/ /\ gen = generation[c]
          /\ <<a, d>> \in leavesConfirmed[c]
          /\ leaf \in leavesPending[c]
          /\ commits[c] # {}                            \* the commit it cites
       \/ gen = generation[c] + 1 /\ IsOwner(a)         \* staging for a reset
    /\ welcomes' = [welcomes EXCEPT ![c] = @ \cup {[generation |-> gen, leaf |-> leaf]}]
    /\ MlsEvent(a, d, ts)
    /\ UNCHANGED <<treeVars, rateVars, packageVars, tombstones, attachmentVars>>

(* The epoch a confirmation cites has a commit, or its leaf was staged. *)
Anchored(c, leaf) ==
    \/ commits[c] # {}
    \/ generation[c] > 0 /\ leaf \in resetWelcomed[c]

MlsLeafConfirmed(a, d, ts, c, inst) ==
    /\ Accepted(a, d, ts)
    /\ IsE2ee(c)
    /\ FullMember(a)
    /\ <<a, d>> \in leavesPending[c]
    /\ InstanceMatches(d, inst)
    /\ Anchored(c, <<a, d>>)
    /\ PinInstance(d, inst)
    /\ leavesPending' = [leavesPending EXCEPT ![c] = @ \ {<<a, d>>}]
    /\ leavesConfirmed' = [leavesConfirmed EXCEPT ![c] = @ \cup {<<a, d>>}]
    /\ MlsEvent(a, d, ts)
    /\ UNCHANGED <<generation, epoch, chained, commits, resetWelcomed, rateVars, welcomes,
                   keyPackages, consumed, tombstones, attachmentVars>>

-----------------------------------------------------------------------------
(* Sealed content and the counters it spends. *)

SealedSendBeyondCeiling(a, d, ts, c) ==
    /\ Accepted(a, d, ts)
    /\ IsE2ee(c)
    /\ FullMember(a)
    /\ <<a, d>> \in leavesConfirmed[c]
    /\ PendingRemovals(c, ts) = {}
    /\ ~ResetIncomplete(c)

SealedSendAllowed(a, d, ts, c) ==
    /\ Accepted(a, d, ts)
    /\ IsE2ee(c)
    /\ FullMember(a)
    /\ <<a, d>> \in leavesConfirmed[c]
    /\ PendingRemovals(c, ts) = {}
    /\ eventsSinceCommit[c] < FreshnessCeiling
    /\ ~ResetIncomplete(c)

BumpResetCounter(c) ==
    eventsSinceReset' = [eventsSinceReset EXCEPT ![c] = MinOf(@ + 1, ResetMinEvents)]

BumpChannelCounters(c) ==
    /\ eventsSinceCommit' = [eventsSinceCommit EXCEPT ![c] = @ + 1]
    /\ BumpResetCounter(c)

MessagePostedE2ee(a, d, ts, c, claims) ==
    /\ SealedSendAllowed(a, d, ts, c)
    /\ RecordUploaders(claims)
    /\ BumpChannelCounters(c)
    /\ MlsEvent(a, d, ts)
    /\ UNCHANGED <<treeVars, lastCommitEpoch, welcomes, packageVars, tombstones, redacted>>

MessageEditedE2ee(a, d, ts, c, target) ==
    /\ SealedSendAllowed(a, d, ts, c)
    /\ target \notin tombstones
    /\ BumpChannelCounters(c)
    /\ MlsEvent(a, d, ts)
    /\ UNCHANGED <<treeVars, lastCommitEpoch, welcomes, packageVars, tombstones,
                   attachmentVars>>

-----------------------------------------------------------------------------
(* Reset. *)

Staged(c) == {w \in welcomes[c] : w.generation = generation[c] + 1}

ResetDue(c) ==
    \/ generation[c] = 0
    \/ ResetIncomplete(c)
    \/ eventsSinceReset[c] >= ResetMinEvents

(* The welcomes a reset cites name exactly the leaves the fold owes. *)
CoversSelectively(cited, ts, leaf) ==
    {w.leaf : w \in cited} \subseteq MemberLeaves(ts) \ {leaf}

CoversExactly(cited, ts, leaf) ==
    {w.leaf : w \in cited} = MemberLeaves(ts) \ {leaf}

RestartTreeWithOldLeaves(c, leaf, welcomed) ==
    /\ epoch' = [epoch EXCEPT ![c] = 1]
    /\ chained' = [chained EXCEPT ![c] = FALSE]
    /\ commits' = [commits EXCEPT ![c] = {}]
    /\ leavesConfirmed' = [leavesConfirmed EXCEPT ![c] = @ \cup {leaf}]
    /\ leavesPending' = [leavesPending EXCEPT ![c] = welcomed \ leavesConfirmed[c]]

RestartTree(c, leaf, welcomed) ==
    /\ epoch' = [epoch EXCEPT ![c] = 1]
    /\ chained' = [chained EXCEPT ![c] = FALSE]
    /\ commits' = [commits EXCEPT ![c] = {}]
    /\ leavesConfirmed' = [leavesConfirmed EXCEPT ![c] = {leaf}]
    /\ leavesPending' = [leavesPending EXCEPT ![c] = welcomed]

MlsGroupReset(a, d, ts, c, cited) ==
    LET welcomed == {w.leaf : w \in cited}
        next == generation[c] + 1
    IN
    /\ Accepted(a, d, ts)
    /\ IsOwner(a)
    /\ IsE2ee(c)
    /\ next <= MaxGeneration
    /\ ResetDue(c)
    /\ CoversExactly(cited, ts, <<a, d>>)
    /\ generation' = [generation EXCEPT ![c] = next]
    /\ RestartTree(c, <<a, d>>, welcomed)
    /\ resetWelcomed' = [resetWelcomed EXCEPT ![c] = welcomed]
    /\ eventsSinceCommit' = [eventsSinceCommit EXCEPT ![c] = 0]
    /\ eventsSinceReset' = [eventsSinceReset EXCEPT ![c] = 0]
    /\ lastCommitEpoch' = [lastCommitEpoch EXCEPT ![c] = [m \in Identity |-> NoCommit]]
    /\ welcomes' = [welcomes EXCEPT ![c] = {w \in @ : w.generation >= next}]
    /\ MlsEvent(a, d, ts)
    /\ UNCHANGED <<packageVars, tombstones, attachmentVars>>

-----------------------------------------------------------------------------
(* The whole fold.  A tombstone is a channel event for the reset clock only. *)

ContentStepWithGroups(a, d, ts) ==
    \/ /\ \/ \E c \in Channel, class \in Classes, parent \in Channel \cup {NoChannel} :
                ChannelCreated(a, d, ts, c, class, parent)
          \/ \E c \in Channel, claims \in Claims : MessagePosted(a, d, ts, c, claims)
          \/ \E b \in Blob : AttachmentRedacted(a, d, ts, b)
       /\ UNCHANGED mlsVars
    \/ \E c \in Channel, target \in Message, reason \in {"moderation", "author"} :
          /\ MessageDeleted(a, d, ts, c, target, reason)
          /\ IF IsE2ee(c) THEN BumpResetCounter(c) ELSE UNCHANGED eventsSinceReset
          /\ UNCHANGED <<treeVars, eventsSinceCommit, lastCommitEpoch, welcomes, packageVars>>

MlsStep(a, d, ts) ==
    \/ \E package \in Package, inst \in Instance :
          MlsKeyPackagePublished(a, d, ts, package, inst)
    \/ \E c \in Channel :
          \/ \E adds \in SUBSET keyPackages, removes \in SUBSET Leaves(c), inst \in Instance :
                MlsCommit(a, d, ts, c, adds, removes, inst)
          \/ MlsCommitStale(a, d, ts, c)
          \/ \E gen \in {generation[c], generation[c] + 1}, leaf \in Leaf :
                MlsWelcome(a, d, ts, c, gen, leaf)
          \/ \E inst \in Instance : MlsLeafConfirmed(a, d, ts, c, inst)
          \/ \E claims \in Claims : MessagePostedE2ee(a, d, ts, c, claims)
          \/ \E target \in Message : MessageEditedE2ee(a, d, ts, c, target)
          \/ \E cited \in SUBSET Staged(c) : MlsGroupReset(a, d, ts, c, cited)

MlsNext ==
    \/ \E k \in Keys, ts \in Time :
          \/ AuthzStep(k[1], k[2], ts) /\ UNCHANGED <<contentVars, mlsVars>>
          \/ ContentStepWithGroups(k[1], k[2], ts)
          \/ MlsStep(k[1], k[2], ts)
    \/ \E k \in keyPackages : KeyPackageLapses(k)

MlsSpec == MlsInit /\ [][MlsNext]_vars

-----------------------------------------------------------------------------
(* Properties. *)

GroupTypeOK ==
    /\ generation \in [Channel -> Nat]
    /\ epoch \in [Channel -> Nat]
    /\ chained \in [Channel -> BOOLEAN]
    /\ commits \in [Channel -> SUBSET Nat]
    /\ leavesConfirmed \in [Channel -> SUBSET Leaf]
    /\ leavesPending \in [Channel -> SUBSET Leaf]
    /\ eventsSinceCommit \in [Channel -> 0..FreshnessCeiling]
    /\ lastCommitEpoch \in [Channel -> [Identity -> Nat \cup {NoCommit}]]
    /\ eventsSinceReset \in [Channel -> 0..ResetMinEvents]
    /\ resetWelcomed \in [Channel -> SUBSET Leaf]
    /\ welcomes \in [Channel -> SUBSET [generation : Nat, leaf : Leaf]]
    /\ keyPackages \subseteq Leaf \X Package
    /\ consumed \subseteq Package
    /\ deviceInstance \in [Device -> Instance \cup {NoInstance}]

(* Content, group records, key packages and pins have their fields' types;  *)
(* no run of sealed content outlives the freshness ceiling (spec C4), which *)
(* every path that spends the budget has to respect.                        *)
MlsTypeOK == ContentTypeOK /\ GroupTypeOK

(* A leaf is confirmed or pending, never both: a confirmation, a bootstrap  *)
(* and a reset racing an Add of the same device leave one copy of it.       *)
ConfirmedNotPending == \A c \in Channel : leavesConfirmed[c] \cap leavesPending[c] = {}

(* A generation records exactly one commit for every epoch it has been      *)
(* through, counting from 0, or from the reset's own unlogged epoch 1: two  *)
(* commits racing for one epoch leave no gap and no double.                 *)
OneCommitPerEpoch ==
    \A c \in Channel : commits[c] = {e \in 1..epoch[c] : generation[c] = 0 \/ e > 1}

(* A consumed package is never live again, so no commit can add two leaves  *)
(* with one package, or the same package twice after its leaf was removed.  *)
PackagesSpentOnce == \A k \in keyPackages : k[2] \notin consumed

(* The three together, through adds, removals, confirmations, resets and    *)
(* packages that lapse.                                                     *)
GroupRecordsAgree == ConfirmedNotPending /\ OneCommitPerEpoch /\ PackagesSpentOnce

(* What the send gate calls drift, a commit may discharge: whoever rekeys   *)
(* may remove every leaf listed by pending_removals, and may add every leaf *)
(* listed by pending_adds that has a live package and is the first of its   *)
(* identity.  The gate and the rules of a commit judge standing with        *)
(* separate definitions; were they to drift apart, a channel would be shut  *)
(* by a leaf that nobody is allowed to remove.                              *)
DriftIsDischargeable ==
    \A c \in Channel, a \in Identity, ts \in Time :
        /\ \A l \in PendingRemovals(c, ts) : MayRemove(c, a, ts, l)
        /\ \A k \in keyPackages :
              k[1] \in PendingAdds(c, ts) /\ k[1][1] \notin CommittingIdentities(c)
              => MayAdd(c, a, ts, k[1], k[2])

(* The latest moment anybody else may judge m's devices at. *)
LogNow(m) == MaxOf(identityClock[m], CorroboratedClock(identityClock))

OwedALeaf(l) ==
    /\ l[1] \in members
    /\ l[2] \in LiveDevicesAt(l[1], LogNow(l[1]))

(* No silent eviction (spec C7, "an unlogged eviction structurally          *)
(* impossible"): between resets a confirmed leaf whose holder is a member   *)
(* with a live device, by every clock the log vouches for, is dropped only  *)
(* by that identity itself, whatever moment the commit claims.              *)
NoSilentEviction ==
    [][\A c \in Channel : generation'[c] = generation[c] =>
         \A l \in leavesConfirmed[c] \ leavesConfirmed'[c] :
             OwedALeaf(l) => last'.author = l[1]]_vars

(* A reset is never selective: everybody who is owed a leaf at the time of  *)
(* the reset holds one, or is staged, in the generation it starts.          *)
ResetReachesEveryone ==
    [][\A c \in Channel : generation'[c] # generation[c] =>
         \A l \in Leaf : OwedALeaf(l) => l \in leavesConfirmed'[c] \cup resetWelcomed'[c]]_vars

(* The reset's promise to a staged leaf ends only with its confirmation or  *)
(* with its holder's standing: dropping the pending Add discharges nothing. *)
ObligationsEndOnlyInVoid ==
    [][\A c \in Channel : generation'[c] = generation[c] =>
         \A l \in resetWelcomed[c] \ resetWelcomed'[c] : ~OwedALeaf(l)]_vars

(* When sealed content is accepted nobody outside the membership, and no    *)
(* revoked device, holds a leaf that could read it, and whoever the last    *)
(* reset staged and is still owed a leaf can read it too: spec I1 and C7    *)
(* seen from the accepted message.                                          *)
SealedOnlyForMembers ==
    [][\A c \in Channel : eventsSinceCommit'[c] > eventsSinceCommit[c] =>
         /\ \A l \in Leaves(c) : l[1] \in members /\ l[2] \notin revokedDevices
         /\ \A l \in resetWelcomed[c] : OwedALeaf(l) => l \in leavesConfirmed[c]]_vars

(* The commit-rate rule (spec I3): while others hold leaves, and the ceiling *)
(* is far, nobody takes two turns in a row unless the second one changes who *)
(* is in the tree.                                                          *)
NoTwoTurnsInARow ==
    [][\A c \in Channel, m \in Identity :
         (/\ lastCommitEpoch'[c][m] # lastCommitEpoch[c][m]
          /\ epoch[c] > 0
          /\ lastCommitEpoch[c][m] = epoch[c] - 1
          /\ Cardinality(CommittingIdentities(c)) > 1
          /\ ~CeilingDemandsRekey(c)
          /\ generation'[c] = generation[c])
         => leavesConfirmed'[c] \cup leavesPending'[c] # Leaves(c)]_vars

(* The groups as LeafRecord sees them. *)
record == [c \in Channel |-> [generation |-> generation[c],
                              epoch      |-> epoch[c],
                              confirmed  |-> leavesConfirmed[c],
                              pending    |-> leavesPending[c]]]

LeafRecords == INSTANCE LeafRecord WITH record <- record

(* The fold implements LeafRecord: whatever races, lapses, stale commits    *)
(* and resets the log holds, epochs go up by one, a reset begins a new      *)
(* generation, and nobody counts as in who did not confirm or found it.     *)
ImplementsLeafRecord == LeafRecords!Spec
=============================================================================
