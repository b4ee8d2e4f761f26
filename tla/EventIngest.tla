---------------------------- MODULE EventIngest ----------------------------
(***************************************************************************)
(* The content store of a server that runs the event log: the stored       *)
(* events, the `messages`, `message_attachments` and `files` tables that   *)
(* farder-server derives from them, the bytes on disk, the legacy requests *)
(* and background sweeps that write to the same tables, and the repair a   *)
(* start performs.  The database lock makes each request and each sweep    *)
(* one step.  Only SubmitEvent is a transaction: wherever else a kill      *)
(* between two statements leaves what no completed step leaves, the        *)
(* shorter outcome is an action of its own, named ...Dies.                 *)
(*                                                                         *)
(* Abstracted data.  A row is named by what it came from: the position of  *)
(* its event in the log, or a legacy message.  Row ids are AUTOINCREMENT,  *)
(* hence never used again: a reply to a removed row is Gone.  A body is    *)
(* named by the event that supplied it.  Who may post is LogContent's; a   *)
(* capability reduces to being the owner.  A client declares itself as the *)
(* uploader of what it attaches.  Event timestamps are the authors', so a  *)
(* retention window may cover any one row and not another.                 *)
(***************************************************************************)
EXTENDS Naturals, Sequences, FiniteSets

CONSTANTS Member, Owner,
          Sealed,               \* channels declared end-to-end encrypted
          Plain,                \* legacy channels, which the log never declared
          Blob,                 \* attachment hashes
          Legacy,               \* messages of legacy SendMessage requests
          None, Gone, Nobody,   \* no reply or blob; a removed row; no author
          MaxLog,               \* bound on the stored events
          MaxAttached,          \* attachments of one legacy message; the code's is 10
          MaxTorn               \* bound on the counts of one file that kills swallow

ASSUME StoreConstants ==
    /\ Owner \in Member /\ Nobody \notin Member
    /\ Sealed \cap Plain = {}
    /\ MaxLog \in Nat /\ MaxAttached \in Nat /\ MaxTorn \in Nat
    /\ {None, Gone} \cap (Nat \cup Legacy \cup Blob) = {} /\ None # Gone
    /\ IsFiniteSet(Legacy) /\ Legacy \cap Nat = {}

VARIABLES log,          \* the events table, in accept order
          rows,         \* the messages table
          attached,     \* message_attachments: <<message, position, blob>>
          files,        \* the files table, by hash
          disk,         \* hashes whose bytes are on disk
          streaming,    \* <<member, blob>> uploads past their dedup check
          orphans,      \* file ids a delete handed back for collection
          deletions,    \* members with a data-deletion request
          phase,        \* "up", "down", or the pass a start has reached
          (* History: what no code reads.  A kill swallowed these counts.  *)
          lost,         \* attachment rows that came and were not counted up
          leaked        \* attachment rows that went and were not counted down

history == <<lost, leaked>>
fileVars == <<attached, files, disk, history>>
storeVars == <<log, rows, fileVars, streaming, orphans, deletions, phase>>

Channel == Sealed \cup Plain
Absent == [uploader |-> Nobody, ref |-> 0, redacted |-> FALSE]
Stored(b) == files[b].uploader # Nobody

StoreInit ==
    /\ log = <<>>
    /\ rows = <<>>
    /\ attached = {}
    /\ files = [b \in Blob |-> Absent]
    /\ lost = [b \in Blob |-> 0] /\ leaked = lost
    /\ disk = {}
    /\ streaming = {}
    /\ orphans = {}
    /\ deletions = {}
    /\ phase = "up"

-----------------------------------------------------------------------------
(* What the stored events say. *)

Events(kind) == {i \in DOMAIN log : log[i].kind = kind}
Tombstoned(k) == \E i \in Events("delete") : log[i].target = k
Redacted(b) == \E i \in Events("redact") : log[i].blob = b
Cites(b) == {i \in Events("post") : log[i].blob = b}
FirstUploader(b) == log[CHOOSE i \in Cites(b) : \A j \in Cites(b) : i <= j].author

Event(kind, a, c, target, blob) ==
    [kind |-> kind, author |-> a, channel |-> c, target |-> target, blob |-> blob]

ChannelOf(k, events) == IF k \in Legacy THEN CHOOSE c \in Plain : TRUE ELSE events[k].channel

-----------------------------------------------------------------------------
(* The derived tables.  Each helper maps tables to tables. *)

(* The reply edge: only to a row of the same channel. *)
ResolveReply(target, c, table, events) ==
    IF target \in DOMAIN table /\ ChannelOf(target, events) = c THEN target ELSE None

DerivedRow(i, table, events) ==
    [author |-> events[i].author, body |-> i,
     reply |-> ResolveReply(events[i].target, events[i].channel, table, events)]

AddRow(table, k, row) == [j \in DOMAIN table \cup {k} |-> IF j = k THEN row ELSE table[j]]

(* The blob an event attaches, when the stored file is what it declares.   *)
ValidCap(i, events) ==
    {b \in {events[i].blob} \cap Blob : Stored(b) /\ files[b].uploader = events[i].author}

(* delete_message and delete_messages_before on the rows in gone. *)
RemoveRows(table, gone) ==
    [k \in DOMAIN table \ gone |->
        IF table[k].reply \in gone THEN [table[k] EXCEPT !.reply = Gone] ELSE table[k]]

(* Attachment rows, and the counts they make: U comes or goes; V, a part   *)
(* of U, is what a kill left uncounted.                                    *)
AttachedTo(gone) == {u \in attached : u[1] \in gone}
FilesOf(k) == {u[3] : u \in AttachedTo({k})}
Users(b) == {u \in attached : u[3] = b}
Per(b, U) == Cardinality({u \in U : u[3] = b})

CountUp(U) == [b \in Blob |-> [files[b] EXCEPT !.ref = @ + Per(b, U)]]

CountDownOnce(U) ==
    [b \in Blob |-> [files[b] EXCEPT !.ref =
        IF @ > 0 /\ Per(b, U) > 0 THEN @ - 1 ELSE @]]

CountDown(U) ==
    [b \in Blob |-> [files[b] EXCEPT !.ref = IF @ < Per(b, U) THEN 0 ELSE @ - Per(b, U)]]

Swallowed(counts, V) == [b \in Blob |-> counts[b] + Per(b, V)]

Attach(U, V) ==
    /\ attached' = attached \cup U
    /\ files' = CountUp(U \ V)
    /\ lost' = Swallowed(lost, V) /\ UNCHANGED leaked

Detach(U, V) ==
    /\ attached' = attached \ U
    /\ files' = CountDown(U \ V)
    /\ leaked' = Swallowed(leaked, V) /\ UNCHANGED lost

ZeroRefs(U, counted) == {b \in {u[3] : u \in U} : counted[b].ref = 0}

-----------------------------------------------------------------------------
(* SubmitEvent.  The fold and the tables move in one transaction.          *)

Accept(e) ==
    /\ phase = "up"
    /\ Len(log) < MaxLog
    /\ log' = Append(log, e)

Post(a, c, target, blob) ==
    LET e == Event("post", a, c, target, blob)
        i == Len(log) + 1
        caps == ValidCap(i, Append(log, e))
    IN  /\ Accept(e)
        /\ rows' = AddRow(rows, i, DerivedRow(i, rows, Append(log, e)))
        /\ Attach({<<i, 1, b>> : b \in caps}, {})
        /\ UNCHANGED <<disk, streaming, orphans, deletions, phase>>

(* The row a sealed edit may touch; a live edit is refused where a replay  *)
(* passes over it.                                                         *)
SealedEditTarget(a, t) == {k \in DOMAIN rows \cap {t} : rows[k].author = a}
SealedEditRefusedInReplay(a, t, strict) == SealedEditTarget(a, t) = {}
SealedEditRefused(a, t, strict) == strict /\ SealedEditTarget(a, t) = {}

EditSealed(a, t) ==
    /\ t \in Events("post") /\ log[t].channel \in Sealed
    /\ ~Tombstoned(t)
    /\ ~SealedEditRefused(a, t, TRUE)
    /\ Accept(Event("edit", a, log[t].channel, t, None))
    /\ rows' = [rows EXCEPT ![t].body = Len(log) + 1]
    /\ UNCHANGED <<fileVars, streaming, orphans, deletions, phase>>

Tombstone(a, t, moderating) ==
    /\ t \in Events("post") /\ log[t].channel \in Sealed
    /\ ~Tombstoned(t)
    /\ moderating => a = Owner
    /\ t \in DOMAIN rows
    /\ ~moderating => rows[t].author = a
    /\ Accept(Event("delete", a, log[t].channel, t, None))
    /\ rows' = RemoveRows(rows, {t})
    /\ Detach(AttachedTo({t}), {})
    /\ orphans' = orphans \cup ZeroRefs(AttachedTo({t}), files')
    /\ UNCHANGED <<disk, streaming, deletions, phase>>

MayRedact(a, b) == Cites(b) # {} /\ ~Redacted(b) /\ (a = Owner \/ a = FirstUploader(b))

RedactBlob(a, b) ==
    /\ MayRedact(a, b)
    /\ Accept(Event("redact", a, None, None, b))
    /\ IF Stored(b) THEN /\ files' = [files EXCEPT ![b].redacted = TRUE]
                         /\ disk' = disk \ {b}
                    ELSE UNCHANGED <<files, disk>>
    /\ UNCHANGED <<rows, attached, history, streaming, orphans, deletions, phase>>

-----------------------------------------------------------------------------
(* Legacy requests on the same tables. *)

(* The row comes before its attachments, in the order of the request and   *)
(* without a transaction.  The first that is refused or unknown ends the   *)
(* request: the list up to it is what is left, and what is modelled.       *)
MayAttach(a, b) == Stored(b) /\ (files[b].uploader = a \/ a = Owner)

Listed(l, blobs) == {<<l, i, blobs[i]>> : i \in DOMAIN blobs}

Sends(l, a, target, blobs) ==
    /\ phase = "up"
    /\ l \notin DOMAIN rows
    /\ \A i \in DOMAIN blobs : MayAttach(a, blobs[i])
    /\ rows' = AddRow(rows, l, [author |-> a, body |-> l, reply |-> target])
    /\ UNCHANGED <<log, disk, deletions>>

SendMessage(l, a, target, blobs) ==
    /\ Sends(l, a, target, blobs)
    /\ Attach(Listed(l, blobs), {})
    /\ UNCHANGED <<streaming, orphans, phase>>

DeleteMessage(a, k) ==
    /\ phase = "up"
    /\ k \in DOMAIN rows
    /\ a = Owner \/ rows[k].author = a
    /\ rows' = RemoveRows(rows, {k})
    /\ Detach(AttachedTo({k}), {})
    /\ orphans' = orphans \cup ZeroRefs(AttachedTo({k}), files')
    /\ UNCHANGED <<log, disk, streaming, deletions, phase>>

UploadStart(a, b) ==
    /\ phase = "up"
    /\ ~Stored(b)                   \* otherwise the answer is Complete
    /\ streaming' = streaming \cup {<<a, b>>}
    /\ UNCHANGED <<log, rows, fileVars, orphans, deletions, phase>>

StoreOrReuse(a, b) ==
    /\ phase = "up"
    /\ <<a, b>> \in streaming
    /\ streaming' = streaming \ {<<a, b>>}
    /\ IF Stored(b) THEN UNCHANGED <<files, disk>>
       ELSE /\ files' = [files EXCEPT ![b] = [Absent EXCEPT !.uploader = a]]
            /\ disk' = disk \cup {b}
    /\ UNCHANGED <<log, rows, attached, history, orphans, deletions, phase>>

UploadFails(u) ==
    /\ phase = "up"
    /\ streaming' = streaming \ {u}
    /\ UNCHANGED <<log, rows, fileVars, orphans, deletions, phase>>

RequestDeletion(a) ==
    /\ phase = "up"
    /\ a # Owner /\ a \notin deletions
    /\ deletions' = deletions \cup {a}
    /\ UNCHANGED <<log, rows, fileVars, streaming, orphans, phase>>

CancelDeletion(a) ==
    /\ phase = "up"
    /\ a \in deletions
    /\ deletions' = deletions \ {a}
    /\ UNCHANGED <<log, rows, fileVars, streaming, orphans, phase>>

-----------------------------------------------------------------------------
(* Collection and retention. *)

(* The bytes go first.  The foreign key of message_attachments then keeps  *)
(* the row of a file that is still attached, whatever its count says.      *)
DropFile(b) ==
    /\ disk' = disk \ {b}
    /\ IF Users(b) = {}
       THEN /\ files' = [files EXCEPT ![b] = Absent]
            /\ lost' = [lost EXCEPT ![b] = 0] /\ leaked' = [leaked EXCEPT ![b] = 0]
       ELSE UNCHANGED <<files, history>>

(* After the response and the broadcasts; a failed response skips it. *)
CleanupOrphanedFile(b) ==
    /\ phase = "up"
    /\ b \in orphans
    /\ orphans' = orphans \ {b}
    /\ IF Stored(b) /\ files[b].ref = 0 THEN DropFile(b) ELSE UNCHANGED <<files, disk, history>>
    /\ UNCHANGED <<log, rows, attached, streaming, deletions, phase>>

OrphanForgotten(b) ==
    /\ phase = "up"
    /\ b \in orphans
    /\ orphans' = orphans \ {b}
    /\ UNCHANGED <<log, rows, fileVars, streaming, deletions, phase>>

CleanupAllOrphans(b) ==
    /\ phase = "up"
    /\ Stored(b) /\ files[b].ref = 0
    /\ DropFile(b)
    /\ UNCHANGED <<log, rows, attached, streaming, orphans, deletions, phase>>

(* The expired rows of one channel: first every attachment, then the rows. *)
OneChannel(gone) == \A j, k \in gone : ChannelOf(j, log) = ChannelOf(k, log)

PurgeExpired(gone) ==
    /\ phase = "up"
    /\ gone # {} /\ OneChannel(gone)
    /\ rows' = RemoveRows(rows, gone)
    /\ Detach(AttachedTo(gone), {})
    /\ UNCHANGED <<log, disk, streaming, orphans, deletions, phase>>

(* execute_pending_deletions for one member: strip the attachments, drop   *)
(* the files that no count holds, anonymize the rows, forget the request.  *)
OwnRows(a) == {k \in DOMAIN rows : rows[k].author = a}
Anonymized(a) == [k \in DOMAIN rows |->
    IF rows[k].author # a THEN rows[k]
    ELSE [rows[k] EXCEPT !.author = Nobody,
                         !.body = IF ChannelOf(k, log) \in Sealed THEN @ ELSE Gone]]

Orphaned(a) == ZeroRefs(AttachedTo(OwnRows(a)), CountDown(AttachedTo(OwnRows(a))))

(* Of the orphaned files those in removed lose their bytes and those in   *)
(* dropped, unless still attached, their row.                              *)
RemoveAuthorFiles(a, removed, dropped) ==
    LET own == AttachedTo(OwnRows(a))
        free == {b \in dropped : Users(b) \subseteq own}
    IN  /\ attached' = attached \ own
        /\ files' = [b \in Blob |-> IF b \in free THEN Absent ELSE CountDown(own)[b]]
        /\ disk' = disk \ removed
        /\ lost' = [b \in Blob |-> IF b \in free THEN 0 ELSE lost[b]]
        /\ leaked' = [b \in Blob |-> IF b \in free THEN 0 ELSE leaked[b]]

ExecuteDeletion(a) ==
    /\ phase = "up"
    /\ a \in deletions
    /\ RemoveAuthorFiles(a, Orphaned(a), Orphaned(a))
    /\ rows' = Anonymized(a)
    /\ deletions' = deletions \ {a}
    /\ UNCHANGED <<log, streaming, orphans, phase>>

-----------------------------------------------------------------------------
(* The process dies.  The database is durable, the rest is lost. *)

Dies ==
    /\ phase' = "down"
    /\ streaming' = {}
    /\ orphans' = {}
    /\ UNCHANGED log

Crash == phase # "down" /\ Dies /\ UNCHANGED <<rows, fileVars, deletions>>

(* Between the removal of the bytes and the commit that records why. *)
RedactDies(a, b) ==
    /\ phase = "up"
    /\ MayRedact(a, b) /\ Stored(b) /\ Len(log) < MaxLog
    /\ disk' = disk \ {b}
    /\ Dies
    /\ UNCHANGED <<rows, attached, files, history, deletions>>

CleanupDies(b) ==
    /\ phase = "up"
    /\ Stored(b) /\ files[b].ref = 0
    /\ disk' = disk \ {b}
    /\ Dies
    /\ UNCHANGED <<rows, attached, files, history, deletions>>

(* Between the rename of the temporary file and the INSERT. *)
UploadDies(b) ==
    /\ phase = "up"
    /\ \E u \in streaming : u[2] = b
    /\ ~Stored(b)
    /\ disk' = disk \cup {b}
    /\ Dies
    /\ UNCHANGED <<rows, attached, files, history, deletions>>

Torn == \A b \in Blob : lost'[b] + leaked'[b] <= MaxTorn

(* Between the last attachment row and its count. *)
SendDies(l, a, target, blobs) ==
    /\ blobs # <<>>
    /\ Sends(l, a, target, blobs)
    /\ Attach(Listed(l, blobs), {<<l, Len(blobs), blobs[Len(blobs)]>>})
    /\ Torn
    /\ Dies

(* A delete, a purge or a data deletion dies while it strips attachments:  *)
(* it is done with some rows, the attachment rows of k are gone, and V of  *)
(* them still counted.  No row has been removed or anonymized yet.         *)
StripDies(done, k, V) ==
    /\ phase = "up"
    /\ k \notin done
    /\ \/ OneChannel(done \cup {k})
       \/ \E a \in deletions : done \cup {k} \subseteq OwnRows(a)
    /\ Detach(AttachedTo(done \cup {k}), V)
    /\ Torn
    /\ Dies
    /\ UNCHANGED <<rows, disk, deletions>>

(* A data deletion dies after it has stripped every row. *)
DeletionStops(a, removed, dropped, anonymized) ==
    /\ phase = "up"
    /\ a \in deletions
    /\ dropped \subseteq removed /\ Cardinality(removed \ dropped) <= 1
    /\ anonymized => dropped = Orphaned(a)
    /\ RemoveAuthorFiles(a, removed, dropped)
    /\ rows' = IF anonymized THEN Anonymized(a) ELSE rows
    /\ Dies

DeletionDiesForgotten(a, removed, dropped, anonymized) ==
    /\ DeletionStops(a, removed, dropped, anonymized)
    /\ deletions' = deletions \ {a}

DeletionDies(a, removed, dropped, anonymized) ==
    /\ DeletionStops(a, removed, dropped, anonymized)
    /\ UNCHANGED deletions

-----------------------------------------------------------------------------
(* A start repairs the tables from the log, pass by pass, and only then    *)
(* serves.                                                                 *)

BootVars == <<log, streaming, orphans, deletions>>

BuildLogState ==
    /\ phase = "down"
    /\ phase' = "derive"
    /\ UNCHANGED <<rows, fileVars, BootVars>>

MissingOfAll == Events("post") \ DOMAIN rows
Missing == {i \in Events("post") \ DOMAIN rows : ~Tombstoned(i)}

DeriveMissing ==
    /\ phase = "derive"
    /\ \E i \in Missing :
          /\ \A j \in Missing : i <= j
          /\ rows' = AddRow(rows, i, DerivedRow(i, rows, log))
    /\ UNCHANGED <<phase, fileVars, BootVars>>

(* A kill in this pass leaves nothing new: it never finds a row to sweep,  *)
(* as TombstonesWin says.                                                  *)
SweepTombstoned ==
    LET swept == {k \in DOMAIN rows : Tombstoned(k)}
    IN  /\ phase = "derive" /\ Missing = {}
        /\ phase' = "edits"
        /\ rows' = RemoveRows(rows, swept)
        /\ Detach(AttachedTo(swept), {})
        /\ UNCHANGED <<disk, BootVars>>

EditsOf(k) == {i \in Events("edit") : log[i].target = k /\ log[i].author = rows[k].author}
FirstBody(k) == IF EditsOf(k) = {} THEN rows[k].body
                ELSE CHOOSE i \in EditsOf(k) : \A j \in EditsOf(k) : i <= j
LatestBody(k) == IF EditsOf(k) = {} THEN rows[k].body
                 ELSE CHOOSE i \in EditsOf(k) : \A j \in EditsOf(k) : j <= i

ReplaySealedEdits ==
    /\ phase = "edits"
    /\ IF \E i \in Events("edit") : /\ log[i].target \in DOMAIN rows
                                    /\ SealedEditRefused(log[i].author, log[i].target, FALSE)
       THEN phase' = "refused" /\ UNCHANGED rows
       ELSE /\ phase' = "links"
            /\ rows' = [k \in DOMAIN rows |-> [rows[k] EXCEPT !.body = LatestBody(k)]]
    /\ UNCHANGED <<fileVars, BootVars>>

RepairReplyLinks ==
    /\ phase = "links"
    /\ phase' = "files"
    /\ rows' = [k \in DOMAIN rows |->
          IF k \in Legacy \/ rows[k].reply # None THEN rows[k]
          ELSE [rows[k] EXCEPT !.reply = ResolveReply(log[k].target, log[k].channel, rows, log)]]
    /\ UNCHANGED <<fileVars, BootVars>>

MissingFilesNever(k) == {}
MissingFiles(k) ==
    IF k \in Legacy \/ k \notin DOMAIN rows THEN {}
    ELSE {<<k, 1, b>> : b \in ValidCap(k, log) \ FilesOf(k)}

(* reconcile_attachments, then sweep_redacted_bytes. *)
ReconcileAttachments ==
    /\ phase = "files"
    /\ phase' = "up"
    /\ Attach(UNION {MissingFiles(k) : k \in Events("post")}, {})
    /\ disk' = {b \in disk : ~files[b].redacted}
    /\ UNCHANGED <<rows, BootVars>>

(* The log is walked in accept order, each row and each count a statement  *)
(* of its own: a kill at the post i may leave it attached and uncounted.   *)
ReconcileDies(i, V) ==
    /\ phase = "files"
    /\ MissingFiles(i) # {} /\ V \subseteq MissingFiles(i)
    /\ Attach(UNION {MissingFiles(k) : k \in 1..i \cap Events("post")}, V)
    /\ Torn
    /\ Dies
    /\ UNCHANGED <<rows, disk, deletions>>

Boot ==
    \/ BuildLogState \/ DeriveMissing \/ SweepTombstoned \/ ReplaySealedEdits
    \/ RepairReplyLinks \/ ReconcileAttachments

-----------------------------------------------------------------------------

Keys == (1..Len(log)) \cup Legacy
Lists == UNION {[1..n -> Blob] : n \in 0..MaxAttached}

Submit ==
    \E a \in Member :
        \/ \E c \in Channel, t \in DOMAIN log \cup {None}, blob \in Blob \cup {None} :
              (t # None => log[t].kind = "post") /\ Post(a, c, t, blob)
        \/ \E t \in DOMAIN log : EditSealed(a, t)
        \/ \E t \in DOMAIN log, moderating \in BOOLEAN : Tombstone(a, t, moderating)
        \/ \E b \in Blob : RedactBlob(a, b)

LegacyRequest ==
    \E a \in Member :
        \/ \E l \in Legacy, t \in DOMAIN rows \cup {None}, blobs \in Lists : SendMessage(l, a, t, blobs)
        \/ \E k \in Keys : DeleteMessage(a, k)
        \/ \E b \in Blob : UploadStart(a, b) \/ StoreOrReuse(a, b)
        \/ RequestDeletion(a) \/ CancelDeletion(a)

Background ==
    \/ \E u \in streaming : UploadFails(u)
    \/ \E b \in Blob : CleanupOrphanedFile(b) \/ OrphanForgotten(b) \/ CleanupAllOrphans(b)
    \/ \E gone \in SUBSET DOMAIN rows : PurgeExpired(gone)
    \/ \E a \in Member : ExecuteDeletion(a)

Fault ==
    \/ Crash
    \/ \E b \in Blob : CleanupDies(b) \/ UploadDies(b) \/ \E a \in Member : RedactDies(a, b)
    \/ \E a \in Member :
        \/ \E l \in Legacy, t \in DOMAIN rows \cup {None}, blobs \in Lists : SendDies(l, a, t, blobs)
        \/ \E removed \in SUBSET Orphaned(a), anonymized \in BOOLEAN :
              \E dropped \in SUBSET removed : DeletionDies(a, removed, dropped, anonymized)
    \/ \E k \in DOMAIN rows, done \in SUBSET DOMAIN rows :
           \E V \in SUBSET AttachedTo({k}) : StripDies(done, k, V)
    \/ \E i \in Events("post") : \E V \in SUBSET MissingFiles(i) : ReconcileDies(i, V)

StoreNext == Submit \/ LegacyRequest \/ Background \/ Fault \/ Boot

StoreSpec == StoreInit /\ [][StoreNext]_storeVars

-----------------------------------------------------------------------------

(* A reply edge derived from the log never leaves its channel. *)
RepliesStayInChannel ==
    \A k \in DOMAIN rows \ Legacy :
        rows[k].reply \in DOMAIN rows => ChannelOf(rows[k].reply, log) = log[k].channel

(* The author sentinel a data deletion leaves, and any other drift the     *)
(* server caused itself, never keeps it from starting.                     *)
AlwaysBoots == phase # "refused"

(* Every stored row and file has the shape of its table, an attachment     *)
(* row its message and its file, a reply and its target share their        *)
(* channel, and the server starts.                                         *)
StoreTypeOK ==
    /\ DOMAIN rows \subseteq Keys
    /\ \A u \in attached : u \in (DOMAIN rows) \X Nat \X Blob /\ Stored(u[3])
    /\ files \in [Blob -> [uploader : Member \cup {Nobody}, ref : Nat, redacted : BOOLEAN]]
    /\ lost \in [Blob -> Nat] /\ leaked \in [Blob -> Nat]
    /\ disk \subseteq Blob /\ RepliesStayInChannel
    /\ phase \in {"up", "down", "derive", "edits", "links", "files", "refused"} /\ AlwaysBoots

(* The count that decides whether a file may be collected is the number of *)
(* attachments that show it, through every delete, purge, repair and       *)
(* restart: off only by the counts a kill swallowed since the file came.   *)
(* So a file no kill fell upon is never collected while it is shown, and   *)
(* is free once it is not.                                                 *)
CountsOffByKills ==
    \A b \in Blob : /\ Cardinality(Users(b)) <= files[b].ref + lost[b]
                    /\ files[b].ref <= Cardinality(Users(b)) + leaked[b]

(* A tombstoned message has no row, not even while a start rebuilds.       *)
TombstonesWin == \A k \in DOMAIN rows : ~Tombstoned(k)

(* A served sealed row shows the last accepted edit of its message: also   *)
(* when the row was purged and derived again.                              *)
LatestEditShown ==
    phase = "up" =>
        \A k \in DOMAIN rows \ Legacy :
            log[k].channel \in Sealed =>
                \A i \in Events("edit") : log[i].target = k => rows[k].body >= i

(* When a start has finished, every message the log still holds is shown,  *)
(* with the attachment it declares whenever the stored file fits, and no   *)
(* reply edge is left open whose target is shown.                          *)
BootCompletesTheView ==
    [][phase = "files" /\ phase' = "up" =>
        \A i \in Events("post") : ~Tombstoned(i) =>
            /\ i \in DOMAIN rows'
            /\ ValidCap(i, log) \subseteq FilesOf(i)'
            /\ ResolveReply(log[i].target, log[i].channel, rows, log) # None =>
                  rows'[i].reply # None]_storeVars

(* A request for data deletion is only ever gone, other than by being      *)
(* withdrawn, when no message names its author any more and none of the    *)
(* author's messages shows a file: also when earlier attempts died.        *)
ErasureIsWhole ==
    [][\A a \in deletions \ deletions' :
          \/ CancelDeletion(a)
          \/ \A k \in DOMAIN rows' : /\ rows'[k].author # a
                                     /\ k \in OwnRows(a) => FilesOf(k)' = {}]_storeVars

(* docs/modules/crypto.md, redacted_attachments: "the hash is permanently  *)
(* blocked from re-upload".                                                *)
RedactedHashStaysBlocked == \A b \in disk : ~Redacted(b)
=============================================================================
