----------------------------- MODULE LogContent -----------------------------
(***************************************************************************)
(* The content half of the event-log fold: log channels and their class,   *)
(* plaintext posts, tombstones and attachment redaction                    *)
(* (farder-crypto/src/event_log_state.rs).  The fold keeps no messages: a  *)
(* tombstone cites an event hash, which the fold does not resolve.         *)
(*                                                                         *)
(* ContentSpec is the fold on logs without MLS payloads.  LogMls adds those *)
(* payloads, and the group counters that two actions of this module bump.  *)
(***************************************************************************)
EXTENDS LogAuthz

CONSTANTS Channel,      \* channel ids
          NoChannel,    \* a channel id without a ChannelCreated; "no parent"
          Message,      \* hashes of message events
          Blob          \* attachment content hashes

Classes == {"plaintext", "e2ee"}

ChannelRecord == [class : Classes, parent : Channel \cup {NoChannel}, creator : Identity]

ASSUME ContentConstants ==
    /\ NoChannel \notin Channel
    /\ NoChannel \notin ChannelRecord

VARIABLES channels,             \* channel -> its ChannelRecord, or NoChannel
          plaintextHistory,     \* unknown channels that carried plaintext posts
          tombstones,           \* targets of accepted MessageDeleted events
          uploaders,            \* blob -> first claimed uploader, or NoOne
          redacted              \* redacted blobs

attachmentVars == <<uploaders, redacted>>
contentVars == <<channels, plaintextHistory, tombstones, uploaders, redacted>>
logVars == <<authzVars, contentVars>>

ContentInit ==
    /\ channels = [c \in Channel |-> NoChannel]
    /\ plaintextHistory = {}
    /\ tombstones = {}
    /\ uploaders = [b \in Blob |-> NoOne]
    /\ redacted = {}

Known(c) == channels[c] # NoChannel
IsE2ee(c) == Known(c) /\ channels[c].class = "e2ee"

(* What every accepted content event leaves alone, and what it advances. *)
ContentEvent(a, d, ts) ==
    /\ Advance(a, d, ts)
    /\ UNCHANGED <<standingVars, invites, deviceVars>>

(* The attachment claims of one message: blobs, each with a named uploader. *)
Claims == UNION {[blobs -> Identity] : blobs \in SUBSET Blob}

RecordLatestUploaders(claims) ==
    uploaders' = [b \in Blob |-> IF b \in DOMAIN claims THEN claims[b] ELSE uploaders[b]]

RecordUploaders(claims) ==
    uploaders' = [b \in Blob |-> IF uploaders[b] = NoOne /\ b \in DOMAIN claims
                                 THEN claims[b] ELSE uploaders[b]]

-----------------------------------------------------------------------------

DeclarableThoughUsed(c, class, parent) ==
    /\ ~Known(c)
    /\ parent # NoChannel => Known(parent) /\ channels[parent].class = class

Declarable(c, class, parent) ==
    /\ ~Known(c)
    /\ c \notin plaintextHistory
    /\ parent # NoChannel => Known(parent) /\ channels[parent].class = class

ChannelCreated(a, d, ts, c, class, parent) ==
    /\ Accepted(a, d, ts)
    /\ IsOwner(a)
    /\ Declarable(c, class, parent)
    /\ channels' = [channels EXCEPT ![c] = [class |-> class, parent |-> parent,
                                            creator |-> a]]
    /\ ContentEvent(a, d, ts)
    /\ UNCHANGED <<plaintextHistory, tombstones, attachmentVars>>

MessagePosted(a, d, ts, c, claims) ==
    /\ Accepted(a, d, ts)
    /\ a \in members
    /\ ~IsE2ee(c)
    /\ RecordUploaders(claims)
    /\ plaintextHistory' = IF Known(c) THEN plaintextHistory ELSE plaintextHistory \cup {c}
    /\ ContentEvent(a, d, ts)
    /\ UNCHANGED <<channels, tombstones, redacted>>

MayDelete(a, reason) ==
    \/ reason = "moderation" /\ HasCapability(a, "kick")
    \/ reason = "author" /\ a \in members

MessageDeleted(a, d, ts, c, target, reason) ==
    /\ Accepted(a, d, ts)
    /\ Known(c)
    /\ target \notin tombstones
    /\ MayDelete(a, reason)
    /\ tombstones' = tombstones \cup {target}
    /\ ContentEvent(a, d, ts)
    /\ UNCHANGED <<channels, plaintextHistory, attachmentVars>>

MayRedact(a, b) ==
    /\ uploaders[b] # NoOne
    /\ b \notin redacted
    /\ uploaders[b] = a \/ HasCapability(a, "kick")

AttachmentRedacted(a, d, ts, b) ==
    /\ Accepted(a, d, ts)
    /\ MayRedact(a, b)
    /\ redacted' = redacted \cup {b}
    /\ ContentEvent(a, d, ts)
    /\ UNCHANGED <<channels, plaintextHistory, tombstones, uploaders>>

-----------------------------------------------------------------------------

ContentStep(a, d, ts) ==
    \/ \E c \in Channel, class \in Classes, parent \in Channel \cup {NoChannel} :
          ChannelCreated(a, d, ts, c, class, parent)
    \/ \E c \in Channel, claims \in Claims : MessagePosted(a, d, ts, c, claims)
    \/ \E c \in Channel, target \in Message, reason \in {"moderation", "author"} :
          MessageDeleted(a, d, ts, c, target, reason)
    \/ \E b \in Blob : AttachmentRedacted(a, d, ts, b)

ContentNext ==
    \E k \in Keys, ts \in Time :
        \/ AuthzStep(k[1], k[2], ts) /\ UNCHANGED contentVars
        \/ ContentStep(k[1], k[2], ts)

ContentSpec == AuthzInit /\ ContentInit /\ [][ContentNext]_logVars

-----------------------------------------------------------------------------
(* Properties. *)

(* The content half of LogState has the types its fields give it. *)
ContentTypeOK ==
    /\ channels \in [Channel -> ChannelRecord \cup {NoChannel}]
    /\ plaintextHistory \subseteq Channel
    /\ tombstones \subseteq Message
    /\ uploaders \in [Blob -> Identity \cup {NoOne}]
    /\ redacted \subseteq Blob

(* A channel the log declares never had plaintext posts before it was       *)
(* declared: whatever order posts and declarations arrive in, no lock icon  *)
(* is hung over messages every host already read.                           *)
NoLockOverPlaintext == \A c \in plaintextHistory : ~Known(c)

(* Nothing content-wise is ever taken back: a channel keeps its class,      *)
(* creator and parent, a tombstone and a redaction are final, and the first *)
(* uploader of a blob stays the one who may take it down, whoever re-posts  *)
(* the same bytes under another name.                                       *)
ContentIsFinal ==
    [][/\ \A c \in Channel : Known(c) => channels'[c] = channels[c]
       /\ tombstones \subseteq tombstones'
       /\ redacted \subseteq redacted'
       /\ \A b \in Blob : uploaders[b] # NoOne => uploaders'[b] = uploaders[b]]_logVars
=============================================================================
