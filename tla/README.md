# A verification development of Farder

Farder is a self-hosted chat system: a desktop client (Tauri and React), a
server that a member runs, a relay that makes servers behind NAT reachable, and
an end-to-end encrypted channel type built on MLS. A *mesh* server keeps a
signed, append-only event log; who is a member, who may do what, which channels
are sealed and who holds a key in them are all derived from that log by one
deterministic fold, `LogState` (`crates/farder-crypto/src/event_log_state.rs`).
Around the fold sit the parts that several actors write to at once: the tables
the server derives from the log, the client's chain position and MLS store, the
connections and their subscriptions, the sweeper of timed widgets, and the
relay. Each has a module here.

## Inventory

| Component | State | Operations | Interacts with | What makes it correct |
|---|---|---|---|---|
| Event-log fold, `farder-crypto/event_log_state.rs` | members, pending, banned, capabilities, invites, devices, clocks, chains, channels, tombstones, attachments, MLS groups, key packages | `apply`: one arm per event payload | called by ingest, by clients that replay, by startup | one standing per identity, no authority without membership, dead devices silent, one winner per MLS epoch, no silent eviction, no selective reset |
| Event types, `event_log.rs` | none | hashing, signing, verifying | fold, ingest, clients | canonical bytes never change |
| Ingest and derived tables, `farder-server/event_ingest.rs`, `attachments.rs` | event table, messages, attachments, files and their bytes | store and derive in one transaction; reconcile at startup; redact, collect | fold, database, legacy requests, retention | derived rows are a function of the log; deletions do not resurrect; only a kill sets a count apart |
| Request handlers, `handlers.rs`, `connection.rs` | sessions, locks | one arm per request | everything | an accepted event is stored, applied and announced exactly once |
| Subscriptions and broadcast, `subscriptions.rs`, `connection.rs`, `state.rs` | client slots, subscriptions, protocol versions, voice sinks | authenticate, subscribe, revalidate, disconnect | handlers | nobody hears a channel they may not see; a newer connection keeps what it registered |
| Start and background tasks, `main.rs`, `retention.rs` | none of their own | reconcile, purge expired rows, delete data, sweep | database, ingest | startup and purge do not undo each other |
| Members, invites, permissions, auth | SQL rows | join, kick, ban, grant, redeem | handlers | a view taken away is revalidated |
| Messages, channels, attachments, reactions, `db.rs` | SQL rows | create, edit, delete, list | handlers, ingest | referential integrity |
| Bots, giveaways, polls, reminders, widgets | SQL rows, the sweeper's outbox | create, enter, draw, reroll, move, cancel, nudge | handlers, clock | one draw among entrants; everybody told once and in order |
| Relay and the server's link to it, `farder-relay/router.rs`, `datagram.rs`, `farder-server/relay.rs` | registry, handle table; voice sinks and handles | register, connect, bridge, route; dial, serve, bind, clean up | clients, server | a handle leads to one member; the newest registration stays; a server comes back |
| Media streams, `media_stream.rs` | stream tables | open, forward, close | clients | no stream outlives its owner |
| E2EE client, `farder-e2ee-client`, `commands.rs` | a chain position, an MLS store per channel | commit, welcome, confirm, resync, rekey, reset, publish | server, MLS store | the local MLS state and the log agree after every crash or lost answer |
| MLS wrapper, `farder-mls` | group state in SQLite | stage, merge, process, seal, open | e2ee client | a staged commit is merged only when it won |
| Device chain, `client/src-tauri/src/device.rs`, `commands.rs` | next sequence number, last hash, flags, in a file per server | build, submit, advance, save | server | the saved position is the server's |
| Desktop client shell, history archive, voice and video | windows, sockets, buffers, local archive | many | server | outside a state model |
| Peer node, notifier, demo | small tables | | | prototypes and forwarders |

What is hard here: events of many authors meet in any order, with author-chosen
timestamps; one author signs from several devices; key packages, welcomes,
confirmations and commits of several parties race; a group reset overlaps joins,
kicks and bans; the client may crash, or lose an answer, between the server's
acceptance and its own save; the server may crash between a file operation and
its row, and re-derives its tables at startup; a connection that was overtaken
cleans up after the one that overtook it; two processes restart independently
while their routing tables name each other's numbers.

`PROJECT.json` lists every component with its status and every hazard with its
line and the properties that watch it.

## Modules

The modules describe disjoint parts of the state and are composed where the code
composes them: `LogMls` extends `LogContent` extends `LogAuthz`, which is the
fold as the code has it, one log and one clock. `Steward` and `DeviceChain` meet
the fold through the verdicts it can give (accepted, stale epoch, refused,
silence), `EventIngest` through the events it accepts.

A definition whose comment says *seeded mistake* or *mutant*, and one named like
another with a suffix (`ExpelButPending`, `UnlistedWhenClosed`), is that other
definition with a plausible bug in it. No specification uses it. Each shows that
some property would notice the bug: the pairs are in `PROJECT.json`.

**`Membership`** is what the log promises about one identity's standing: stranger,
pending, member or banned, with the moves allowed between them. It knows no
devices, invites or clocks. `LogAuthz` implements it (`ImplementsMembership`,
checked and proved) under the mapping `standing`.

**`LeafRecord`** is what the log promises about the groups of sealed channels: in
each a generation and an epoch, which go up one at a time, and leaves, which somebody
inside puts in and which count once they confirmed themselves or founded the group.
It knows no members, packages, rates or clocks. `LogMls` implements it
(`ImplementsLeafRecord`, checked and proved) under the mapping `record`, and so does
the server inside `Steward` (`ServerImplementsLeafRecord`, proved): the fold in full
and the reduced one that the clients are checked against make the same promise.

**`LogAuthz`** is `LogState` without channels: each action is one accepted event.
Its guard is the envelope check of `apply` (device recorded for this author, not
revoked, certificate alive at the author's clock, author not banned) with the
payload's arm of `check_payload_authz`; its primed variables are the payload's
arm of `apply_payload_effect` and the envelope accounting (`Advance`). A rejected
event changes nothing and is no step. `last` remembers the author and device of
the newest event for the action properties. Signatures are modelled by `Keys`, the
pairs of identity and device key that some installation holds.
`CorroboratedClock` is the code's scan for the second largest floor; it is
recomputed from `identityClock` after each event, so it is an operator and not a
variable.

**`LogContent`** adds channels and their class, plaintext posts, tombstones and
redactions. The fold keeps no messages, so a tombstone's target is any hash.

**`LogMls`** adds the group records, key packages and instance pins, and the two
counters that content events bump. Abstractions: declared authenticators and tree
hashes only feed equality tests against values the author knows, so `chained`
keeps just whether there is one to chain to; the log position serves only the
lifetime of key packages, whose expiry the publisher chooses, so
`KeyPackageLapses` may drop any live package at any time;
`channel_events_since_reset` stops counting at the only value it is compared with.
Leaves are (identity, device) pairs. A commit that lost its epoch is
`MlsCommitStale`: accepted, accounted for, and otherwise nothing.

**`DeviceChain`** is one installation and one server. A command goes from
`waiting` for the chain lock to `building` (position loaded), then through
`authorizing` if the device is not yet authorized, to `submitting`, and ends `ok`
or `failed`; a failed command may be issued again, which is the user's retry.
`position` and `readable` are the state file, `loaded` the copy a command works
from, `log` the server's events of this chain, which also gives `check_chain` its
head. A request carries `live`: whether its answer can still reach the sender. A
dropped connection leaves its requests to be processed or lost, after newer ones
too, and silences their answers. `Faults` names what may go wrong in an instance:
`drop` (the connection), `crash` (the client), `save` (the state file) and
`answer` (an error for an event whose transaction committed). What `LogAuthz`
decides in detail is here a choice (`Refusable`).

**`EventIngest`** is the content store of a server that runs the log: events in
accept order, message rows with their attachment, the files table with its
reference counts, the bytes on disk, and the jobs in between (an upload past its
dedup check, file ids handed back for collection). The database lock makes a
request or a sweep one step for everybody who lives to see it. Only `SubmitEvent`
is a transaction, though: wherever a kill between two statements leaves what no
completed step leaves, the shorter outcome is an action of its own (`SendDies`,
`StripDies`, `DeletionStops`, `ReconcileDies`, the bytes without their row). An
attachment is a triple of message, position and blob, since a legacy message may
list a file twice, and each triple is a row and a count written one after the
other. `lost` and `leaked` are history: the counts that kills swallowed on the way
up and on the way down; the server keeps no such record and repairs nothing by it.
`phase` walks the passes of a start in the order `main.rs` runs them; each pass
rebuilds what it rebuilds from the log, in log order. A row is named by the event
it came from.

**`Steward`** is the client side of one sealed channel: the commands that create,
add, rekey, discharge drift, send, follow the control plane, publish packages and
reset, each holding its device's chain lock from start to end. A group is the
sequence of commits merged into it: two devices share an epoch's keys exactly when
their sequences are equal, and the epoch is the length. The server sees the epoch
of what is sealed and never the group. A command merges its commit locally and
then submits; any answer but acceptance leaves the merge. One record in `op`
stands for the command's program counter and its locals. `plan` says what the
users of a behaviour start.

**`Sessions`** is the server's shared maps and the connections that write to them:
client slots, subscriptions, negotiated versions and voice sinks. A step is what
runs between two awaits, so a Subscribe is two (`SubscribeFilter` under the
database lock, `SubscribeWrite` under the subscription lock) and a departure four.
The permission arithmetic is one relation, `views`; every request that changes it
is an action, with the event it broadcasts and whether the code calls a
revalidation for it (`ChangesAccess`).

**`Widgets`** is giveaways, event cards and reminders, and the sweeper task. A
tick holds the database lock and commits each flip by itself; the direct messages
it owes stay in memory (`outbox`) and are sent after the lock is released, so that
a crash loses them. `channel` is the channel of the cards: soft-deleted or not, and
whether its class reads as plaintext; while it does not, every widget request takes
it for invisible and the sweeper passes its due giveaways and events over.
`skipped` are the rows a tick has passed over because a statement, the list of the
pass or the system identity failed.

**`Relay`** is one server behind a relay: the relay's registry and handle table on
one side, the server's redial loop, sessions and handle tables on the other, and
clients that come through. `link[l]` pairs a connection between the two with what
the relay's task for it does; `client[c]` and `session[c]` are the relay's task
and the server's for one client connection. `LinkBreaks` is noticed by each end
separately, `RelayRestarts` empties the relay's tables and begins the handles
again at 1, `ServerRestarts` the server's. `newest` is history. `prompt` is
explained under fairness.

The `MC*` modules hold the key sets and *stories*: a run whose instance would not
fit in one state space chooses, at the start, which part of the operations it
exercises, and each restriction is a commented formula of the `MC*` module. The `*_proofs`
modules hold the theorems; they are about the unrestricted specifications.

## Runs

| Run | Instance | Distinct states | Shows |
|---|---|---|---|
| `authz` | 3 identities; story one: one device each, an invite of up to two uses, capabilities kick and ban; story two: a user of 2 devices with a cap of one, whose keys a second user registers too, times 0..2 | 88,904 | `StandingSafe`, `EveryoneSpentASeat`, `ClockNeedsTwoWitnesses`, `LiveDeviceCap`, the refinement `ImplementsMembership` |
| `groups` | the whole fold in five stories: declarations and posts; every payload with the owner alone from the empty log; the two devices of a user; resets with kicks, bans and re-joins; certificates that lapse, times 0..1 | 145,687 | `MlsTypeOK`, `NoLockOverPlaintext`, `GroupRecordsAgree`, `DriftIsDischargeable`, `ContentIsFinal`, `NoTwoTurnsInARow`, `ResetReachesEveryone`, `ObligationsEndOnlyInVoid`, `SealedOnlyForMembers`, `NoSilentEviction`, the refinement `ImplementsLeafRecord` |
| `chain` | a join, a message the server may refuse, a command that gives up; two faults of any kind | 175,794 | `ChainTypeOK` (with the lock's exclusion), `SavedIsOnChain`, `StoredOnce`, `CommandsEndInCalm` |
| `ingest` | 2 members, a sealed and a plain channel, one blob, one legacy message that lists it up to twice, 3 events, one swallowed count; text story and file story | 559,086 | `StoreTypeOK`, `CountsOffByKills`, `TombstonesWin`, `LatestEditShown`, `BootCompletesTheView`, `ErasureIsWhole` |
| `steward` | owner and member; three plans: commits and sends against each other; lost answers and closing; expulsion and reset | 64,329 | `StewardTypeOK`, `ForksAreSelfMade`, `StewardCatchesUp`, `StewardCommandsEnd` |
| `sessions` | 3 connections of owner or member, one channel, lost answers, a deleted category | 1,352,754 | `SessionsTypeOK`, `LatestConnectionKept`, `StaleSubscriptionsExplained` |
| `widgets` | 2 members; a giveaway, an event or reminders; minutes 0..2, one move, one crash or failed pass, a channel that is deleted or not plaintext for a while | 366,314 | `WidgetsTypeOK`, `WinnerStands`, `ToldOnceAndInOrder`, `DueIsSettled` |
| `relay` | 3 links; two clients and one fault, or no client and two | 145,378 | `RelayTypeOK`, `RoutesAreTrue`, `ServerComesBack` |
| `chain_stale` | a message, one crash | | `StaleIsRepaired` **fails** |
| `ahead` | two clients rekey at one epoch | | `AcceptedPostsReadable` **fails** |
| `reset_replay` | a group is reset and goes on | | `ResetGroupIsFollowed` **fails** |
| `subs_race` | as `sessions`, nothing lost | | `SubscribersCanSee` **fails** |

Bounds. Three identities suffice for the standing rules: an actor, a target and
the owner or a bystander. Time needs an expiry, a moment before and one after.
Two packages let one be consumed and another cited later. Two epochs make a
second turn of one author possible; two generations make a reset of a used group,
with its leftovers, possible. The freshness ceiling (2), its grace (1), the turn
gap (2) and the reset distance (2) are scaled down together and keep their order,
so each side of every comparison is reached, but for the reset distance: a
generation's first reset is not held to it, and with `MaxGeneration` 1 there is no
second. `MaxEpoch` and `MaxGeneration` cap
the counters in the guards of `MlsCommit` and `MlsGroupReset`.

For the chain, three commands give two that contend and one that joins or must
authorize first; two faults let one hit the retry of a command another already hit. One
`Stamp` is the worst case: retries are then the same event bit for bit. In
`ingest` three events are a post, what refers to it and what undoes either, with a
restart after any step; `MaxTorn` bounds the counts of one file that kills swallow
and `MaxAttached` the list of a legacy message, for which the code's bound is 10.
Two devices are enough to race, to fork and to leave
somebody behind; `epochs` and `posts` of a plan stop commits and sends. With at
most three epochs a resync that gains something runs out of commits before
`MaxTotal`, so what the run says of the loop is that a resync without gain ends. Three
connections are one that is overtaken, its successor and a bystander who revokes;
the two that negotiate version 2 are interchangeable (symmetry). In `widgets` one
object of each kind is enough, because no two are written by one step; the stories
keep the giveaway apart from the event, and hold the membership still for the
event, whose steps do not read it except for who may ask; the class changes under
cards only, since the sweep of reminders does not read it. One move tells a moved
event from one that stayed; an event that is moved back, which takes two, is left to
the theorem `NobodyToldTwice`. There are fewer events than `EVENT_DUE_BATCH`
(below). In `relay` two clients
are needed for a handle to be used twice, one fault for a restart between them;
the second fault matters to the links alone, which is the story without clients.
`MaxHandle` keeps the relay's 32-bit handle counter from starting over.

Deadlock is not checked, because each of these systems may really stop: a log in
which every device is revoked accepts nothing more, every command may have
succeeded, every connection may have closed, and so may one at its bounds.

## Fairness

The fold is a reaction to events and nobody owes it one; `authz`, `groups`,
`ingest` and `sessions` assume nothing.

* `FairChainSpec`: a task that can run does (weak fairness of a command's steps and
  of the server's), the lock is handed on (strong fairness of `Acquire`:
  `tokio::sync::Mutex` is first in, first out, so a waiter is not passed over for
  ever), the user interface reconnects, and the user retries what failed. Nothing
  is assumed of requests left over from a dead connection. Even so a command may
  wait for ever once a connection is lost (below), so liveness is stated for calm:
  `CommandsEndInCalm` says nothing of a command on a dead connection.
* `FairStewardSpec`: a command runs on; a control event is processed when
  broadcast, with strong fairness because the chain lock between it and the other
  commands is that same queue.
* `FairWidgetsSpec`: weak fairness of the sweeper alone, which only ever waits for
  the database lock. Nothing is assumed of users, and a crash is followed by a
  restart because the sweeper starts with the server. Crashes and failed statements
  are finitely many (`MaxFaults`): a row whose statement fails in every tick waits
  for ever. `DueIsSettled` promises of giveaways and events only that they are
  settled if their channel is plaintext from some time on (`<>[]channel.plaintext`);
  until then they wait, as the tests at `widgets.rs:808` and `widgets.rs:869` have it.
  A reminder is sent whatever the channel is.
* `FairRelaySpec`: weak fairness of the links' steps: tasks run, each end of a
  dead connection learns of it (idle timeout, keep-alive), and the server redials.
  `ServerComesBack` moreover assumes `prompt`: the relay reads a registration
  before the server's next connection comes up. The backoff of at least half a
  second between two dials makes that the normal case and nothing guarantees it.
  Without it the property fails: a `RelayRegister` that had arrived before its
  connection died can be read after the next connection registered, takes its place
  in the registry, and is removed when its own, dead, connection is waited for -
  or stays, if the acknowledgement cannot be written.

## What is proved

TLAPS checks the following for every value of the constants (any number of
identities, devices, commands, faults, files, connections), under each module's
named assumptions on them.

**`LogAuthz_proofs`.** `AuthzTypeInvariant`; `StandingIsSafe`, whose first three
parts are not inductive alone (a grant needs its holder to be a member, and a ban
must clear the other sets and the grants) and are joined with the types in
`StandingInv`; `AuthzImplementsMembership`, the refinement: every action moves at
most one identity (`OneMove`) along an edge of `Membership`; `DeadDevicesStaySilent`,
the action property that no revoked or expired device speaks; `LiveDevicesCapped`,
the cap at every timestamp on the devices that can speak for an identity: `CapInv`
judges each identity at its own floor, the earliest moment any claim of it can be
judged at, and later judgments only lose devices. Keys may be shared: a device whose
key a second identity registers stops speaking for the first, and the second's
certificate was counted (`SpeakersCounted`).

`SeatsAreSpent` and `ClockIsCorroborated` speak of sums and scans over all invites
and identities. Keys and hashes are arrays of 32 bytes, so there are finitely many
(`FiniteKeySpace`), and what a fold over them computes is obtained from the
least-element principle of a well-founded relation (`LeastOf`, `Induction`,
`SubsetInduction`), all first-order: `FoldExists` gives the fold its defining
equation, `UsesUnfolded` and `ScanUnfolded` its value one element at a time. Then a
join adds one seat and one use, and the scan keeps the two largest floors
whatever the order it meets them in.

**`LogMls_proofs`.** `FoldInv`, the conjunction of `StandingInv`, `ContentInv` and
`GroupInv`, and from it the types, `NoLockOverPlaintext`, `GroupRecordsAgree`,
`DriftIsDischargeable` and the action properties. `GroupRecordsAgree` needs two
strengthenings: no two leaves offer the same package (`PackagesUnique`), so that
one is spent once, and a reset starts at epoch 1 (`ResetStartsAtOne`), so that the
epochs of a generation have no gap. Turn-taking needs two more: nobody has taken a
turn in an unchained group (`TurnsAreChained`), and the confirmed leaves, which the
rate rule counts, are finitely many (`FinitelyConfirmed`). `TurnsAreTaken` assumes a
commit-rate gap above one, since with a gap of one the code does let an author
commit twice. `FoldImplementsLeafRecord` is the refinement: each step of the fold
touches the record of at most one channel, as a commit, a confirmation or a reset of
`LeafRecord`. The fold tells a founding commit by the missing authenticator and the
record by the epoch; that the two are the same is one more strengthening
(`ChainedPastStart`). What `LogAuthz` promises is then carried over to the whole log, in
which content and group events come in between: to the authorization core a step of
the fold is one of its own, an accepted event that only moves its author's clock,
or nothing (`FoldStepsOfTheCore`), whence `FoldImplementsMembership`,
`DeadDevicesSilentInTheFold`, `LiveDevicesCappedInTheFold`, `SeatsAreSpentInTheFold`,
`ClockIsCorroboratedInTheFold` and `StandingSafeInTheFold`. The run `authz` checks
them on logs without content; of the whole log they are theorems only.

**`Steward_proofs`.** `ForksSelfMade`: no device leaves the group of the log but by
merging a commit of its own. It is far from inductive, because a device follows what
the log recorded, joins by Welcomes the owner staged from its own store, and works
from locals that are older than both. `StewardInv` is `Types /\ Sound`, and `Sound`
says of each of these that it is on the tree: a recorded commit continues the tree
at its base and a recorded Welcome carries a prefix of it (`SoundControl`); the owner
always has the log's group (`OwnersGroups`); after a reset everybody who has the new
group started it where the log did (`SameStart`), and a group ahead of the log is the
one the owner stages (`Staged`); a commit in flight sits on top of its base in the
store, a Welcome, a fetched page and a reset in flight are still true of the log
(`CommandsReady`). Two parts are about the corner a reset of nobody leaves behind:
the store is at epoch 0 and the log at epoch 1, and what keeps that harmless is that
no other device can ever get in (`LonelyForGood`). `Unchained` bounds the epochs at
which a commit is not held to an authenticator. Following a fetched page is a
recursion over its events; that it leads only where commits of the page lead, or
nowhere (`AfterStays`), is shown by the same first-order induction. From it come
`StewardTypesHold` and `UnreadPostsSelfMade`, which is what remains true of the
refuted `AcceptedPostsReadable`: the sealer of a post that cannot be read had gone
ahead by a commit of its own, and whoever did not posts at an epoch of the log. It
assumes `NoGroupIsNoTree`, that having no group is not having some group.
`ServerKeepsTheRecord` is the refinement for the reduced server, with `TreeBegun` in
the part of `ChainedPastStart`: a commit, a confirmation or a reset is stored as
`LeafRecord` has it, whether or not its sender hears of it.

**`DeviceChain_proofs`.** `ChainTypeInvariant`, `SavedPositionIsOnChain`,
`RetriesStoreOnce`, `PositionIsMonotone`, all from `ChainIsInvariant`. `StoredOnce`
needs most of it: a stored copy at place `i` excludes another because every request
under way was built below `i` (`StoredIsPast`), because requests are never built
ahead of the saved position (`RequestsAreOld`), and because that position is on the
chain; the last holds because what is heard is the answer to what is awaited
(`OnlyAwaitedIsHeard`, `OneOutstanding`), truthfully (`VerdictsAreTrue`), by a command
whose copy is the saved position (`HoldersAreCurrent`: the lock).

**`EventIngest_proofs`.** `StoreInv` is `RowsInv /\ CountInv`. `RowsInv` does not
depend on the files: the log is sound, rows come from posts, replies are held,
tombstones win, the pass a start has reached has done its part. What makes
`LatestEditShown` inductive is that a row whose author a data deletion erased must
not lag in any phase, because the replay of edits matches on the author. `CountInv`
says each file's count is the number of its attachments less what kills swallowed on
the way up and more what they swallowed on the way down; each operation attaches or
detaches a set of triples and, unless the process dies in it, counts every one.
`OnlyKillsMiscount` follows: completed operations, a file listed twice or a message
deleted twice among them, never set a count apart from its attachments. Theorems:
`StoreTypeInvariant`, `OnlyKillsMiscount`, `TombstonesStay`, `LastEditIsShown`,
`ServerStarts`, `StartsAreComplete`, `ErasuresAreWhole`.

**`Sessions_proofs`.** `SessionsTypeInvariant`, `LastConnectionWins`,
`StaleSubscriptionsAreExplained`: a subscription to a channel its holder may no
longer see is always owed to a revalidation to come, to a Subscribe between its two
halves, or to an event the code does not announce (`slipped`).

**`Widgets_proofs`.** `WidgetsTypeInvariant`, `WinnersStand`, `NobodyToldTwice`: the
outbox and the inboxes together hold each message of each start of an event once,
the outbox only what a flip of this tick put there. They hold for any number of
moves, faults and changes of class.

**`Relay_proofs`.** `RelayIsSound`, `RelayTypeInvariant`, `RoutesStayTrue`. The
invariant: the handles of clients whose link is up or whose task still bridges are
pairwise different and below the next (`HandlesDiffer`; those of an earlier life of
the relay are excluded because every link and task of it died with it), every sink
and binding is that of a session still to clean up (`SinksOwned`, `BindingsOwned`),
and a live session's binding is there unless a session of the same number had begun
(`LiveAreBound`).

Every safety property the passing runs check is proved, under the assumptions named
above where the code needs one. Model-checked only: the liveness properties
`CommandsEndInCalm`, `DueIsSettled`, `StewardCatchesUp`, `StewardCommandsEnd` and
`ServerComesBack`, which rest on fairness and `ENABLED` and are beyond the proof
system.

## Findings

Each of the first four is a run that ends in a counterexample.

* **A client that lost an acceptance stays behind** (`chain_stale`). The design
  document has the client resync its chain head; the code has no such path, so
  after one lost answer every event of that device is refused. `StoredOnce` says
  the retries are at least harmless.
* **A Subscribe can be written after the revocation that should have cut it**
  (`subs_race`). `subscriptions.rs` says there is no such window; the ids are
  judged under one lock and written under another after an await.
* **A refused commit forks its device** (`ahead`). `commands.rs:6315` counts on the
  next send's resync; the resync skips the winner's commit, since the local epoch is
  already past it. The device's next post is accepted by the server (the epochs
  agree) and nobody else can read it, nor it anybody else's.
* **After a reset the resync replays the abandoned group** (`reset_replay`). The
  cursor restarts at zero and the fetch returns commits of both generations with
  the same epoch numbers; the first of the old ones fails, before the new are
  reached.

Observed while modelling, without a run of its own (several are modelled as they
are, and the properties above are stated so as to say what still holds):

* A device key authorized for a second identity overwrites the first one's record
  and leaves the device counted there. No identity gets more speaking devices by it
  (`LiveDeviceCap`), but the count itself can pass the cap, when the second one's
  certificate brings an expired key back to life, and the first identity is then
  refused further devices.
* Outside `SubmitEvent` an attachment row and its count are separate statements, so a
  kill between them leaves the count off for good: no start recounts. A count too
  high keeps a file nobody uses. A count too low lets the hourly sweep remove the
  bytes of a file that is still shown; the foreign key keeps its row, and from then on
  `cleanup_all_orphans` fails at that file every time, before the ones after it
  (`attachments.rs:352`).
* Retention removes rows and no events, so the next start derives them again, and
  with them the author of a row that a data deletion had made nobody's.
* Up to `EVENT_DUE_BATCH` (200) due events are taken each tick, oldest first, and one
  in a channel that is not plaintext stays due. As many of those keep every younger
  event from starting, although `widgets.rs:65` says a single such channel must never
  starve the others. The module has one channel and fewer events than that.
* Cards of a channel that stopped reading as plaintext can be neither drawn nor
  cancelled: requests take the channel for invisible. Deleting the card is the way out.
* A command that awaits an answer when the connection dies waits for ever and holds
  the chain lock: the reader stops without draining `pending_requests`, while
  `docs/modules/tauri-bridge.md:26` promises an error (`CommandsEnd`).
* The orphan sweep removes a redacted hash's files row and with it the block on
  uploading the same bytes (`docs/modules/crypto.md:505`, `RedactedHashStaysBlocked`).
* The window publishes a key package, and thereby forgets that the device is
  confirmed, after a race with its own confirmation, although
  `useMlsSteward.ts:108` says it must never (`PublishNeverUnconfirms`).
* The Welcome after an accepted commit can be lost and is never sent again;
  a reset can stop half-staged; `add_current_members` treats refusals as skips; the
  reset's Welcome is ignored by a device that still has the old group; an owner who
  resets alone leaves the log at epoch 1 and the store at 0.
* After a completed reset whose only confirmed leaf is lost and everybody else gone,
  no commit is possible and sealed sends, which drive the reset's rate limit, are
  refused. Tombstones still advance that clock.
* `joined` in the client's state file outlives the membership
  (`commands.rs:6669`). `docs/modules/crypto.md:371` names the capability `kick` for
  `MemberBanned`; the code asks for `ban`.
* An overtaken connection's cleanup removes the voice sink and subscriptions its
  successor has registered (`connection.rs:915`); a version 1 connection inherits
  version 2 of the one before; `DeleteCategory` announces no change of access; when
  the answer cannot be written, the change is committed and neither announced nor
  revalidated; kicking a banned member deletes the ban.
* A crash of the sweeper loses every nudge it had collected, although
  `reminders.rs:7` and `widgets.rs:103` say at most one; a nudge queued before a
  cancellation may be delivered after it; giveaways and events of a deleted channel
  still start and can no longer be cancelled; former members still get the messages.
* A registration whose acknowledgement cannot be written stays in the registry
  although `router.rs:138` says it is removed when its connection closes. After a
  relay restart, sessions of the relay's earlier life remove the voice handles of the
  new one (`relay.rs:186` is not guarded), so that a member is mute until they
  reconnect; `serve_via_relay` never resets its backoff, because
  `connect_and_serve` never returns `Ok`.

`CommandsEnd`, `RedactedHashStaysBlocked` and `PublishNeverUnconfirms` state such a
claim in their modules; they are false of the code and no run checks them.
`AuthzTypeOK`, `DeadDevicesAreSilent`, `PositionNeverRetreats`,
`ServerImplementsLeafRecord` and `UnreadPostsAreSelfMade` are proved and checked by no
run.

## Not modelled, and what is left

* Byte encodings, hashes, signatures and MLS itself: events have unforgeable authors
  and a group is its sequence of commits.
* SQL, permission arithmetic, legacy invites, polls and price bots: independent
  requests on rows nobody else writes. `hard_delete_channel` (`channels.rs:472`), which
  no request calls. A relay that lives through 2^32 connections.
* The user interface, voice, video and audio, the history archive, the peer node,
  the notifier and the demo: presentation, signal processing, prototypes.
* The relay's admission limiter and its preview, embed and media proxies: one
  request, one answer.

Worth doing next: `media_stream.rs`, whose sessions outlive a disconnect; the numeric
lifetimes of key packages as a refinement of `LogMls`'s pool; the jitter buffer as a
pure algorithm.
