------------------------------ MODULE Widgets ------------------------------
(* Giveaways, event cards and personal reminders, and the one sweeper that  *)
(* draws, starts and nudges. A request runs under the database lock; so     *)
(* does a tick, which commits each flip by itself, keeps the direct messages *)
(* to send in memory and sends them one by one after the lock is released.  *)
EXTENDS Integers, Sequences

CONSTANTS Member, Giveaway, Event,
          Nobody, MaxTime, MaxMoves, MaxFaults

ASSUME WidgetsAssumption ==
    /\ Nobody \notin Member /\ Event \cap Member = {} /\ Giveaway \cap (Event \cup Member) = {}
    /\ MaxTime \in Nat /\ MaxMoves \in Nat /\ MaxFaults \in Nat

VARIABLES
    now,        \* the minute
    active,     \* the members neither gone, banned nor revoked
    channel,    \* of the cards: whether it is there, and its class reads as plaintext
    giveaway,   \* Giveaway -> its row and entries
    event,      \* Event -> its row, its RSVPs; moves counts its new starts
    reminder,   \* Member -> a reminder of theirs
    sweeper,    \* what the task does, the time its tick took, what failed in it, its outbox
    inbox,      \* Member -> the direct messages of the system, in order
    faults      \* crashes and failed statements

cards == <<giveaway, event, reminder>>
widgetVars == <<now, active, channel, cards, sweeper, inbox, faults>>

Time == 0..MaxTime
NoLead == 0
Lead == {NoLead, 1}
NoAnswer == "none"
Answer == {"going", "maybe", "no"}

WidgetsInit ==
    /\ now = 0 /\ active = Member /\ channel = [visible |-> TRUE, plaintext |-> TRUE]
    /\ giveaway = [g \in Giveaway |->
           [status |-> "none", ends |-> 0, entries |-> {}, winner |-> Nobody, draws |-> 0]]
    /\ event = [e \in Event |->
           [status |-> "none", starts |-> 0, lead |-> NoLead, reminded |-> FALSE,
            told |-> FALSE, moves |-> 0, rsvp |-> [m \in Member |-> NoAnswer]]]
    /\ reminder = [m \in Member |-> [status |-> "none", due |-> 0]]
    /\ sweeper = [at |-> "asleep", now |-> 0, skipped |-> {}, outbox |-> {}]
    /\ inbox = [m \in Member |-> <<>>]
    /\ faults = 0

(* What a handler needs: the lock, and a channel the member may see. One     *)
(* that is not certainly plaintext is invisible to every widget request.    *)
LockFree == sweeper.at # "sweeping"
Asks(m) == LockFree /\ m \in active /\ channel.visible /\ channel.plaintext
SomeoneAsks == \E m \in Member : Asks(m)

(* A duration and a lead time are at least a minute. *)
Later == {t \in Time : t > now}

OnlyGiveaways == UNCHANGED <<now, active, channel, event, reminder, sweeper, inbox, faults>>
OnlyEvents == UNCHANGED <<now, active, channel, giveaway, reminder, sweeper, inbox, faults>>
OnlyReminders == UNCHANGED <<now, active, channel, giveaway, event, sweeper, inbox, faults>>

-----------------------------------------------------------------------------
(* Giveaways. *)

CreateGiveaway(g, ends) ==
    /\ SomeoneAsks /\ giveaway[g].status = "none" /\ ends \in Later
    /\ giveaway' = [giveaway EXCEPT ![g].status = "open", ![g].ends = ends]
    /\ OnlyGiveaways

(* Past its end it counts as ended even before the draw. *)
EnterGiveaway(g, m) ==
    /\ Asks(m) /\ giveaway[g].status = "open" /\ now < giveaway[g].ends
    /\ giveaway' = [giveaway EXCEPT ![g].entries = @ \cup {m}]
    /\ OnlyGiveaways

(* The seeded mistake: leaving is refused of a cancelled one alone. *)
LeavableUnlessCancelled(g) == giveaway[g].status \in {"open", "ended"}
Leavable(g) == giveaway[g].status = "open"

LeaveGiveaway(g, m) ==
    /\ Asks(m) /\ Leavable(g)
    /\ giveaway' = [giveaway EXCEPT ![g].entries = @ \ {m}]
    /\ OnlyGiveaways

VoidGiveaway(g) ==
    /\ giveaway[g].status = "open"
    /\ giveaway' = [giveaway EXCEPT ![g].status = "cancelled"]
    /\ OnlyGiveaways

CancelGiveaway(g) == SomeoneAsks /\ VoidGiveaway(g)

(* Its author may delete the card of a channel that is gone, too. *)
DeleteGiveawayCard(g) == LockFree /\ VoidGiveaway(g)

Eligible(g) == giveaway[g].entries \cap active

RerollGiveaway(g) ==
    /\ SomeoneAsks
    /\ giveaway[g].status = "ended" /\ giveaway[g].winner # Nobody
    /\ \E w \in Eligible(g) : giveaway' = [giveaway EXCEPT ![g].winner = w]
    /\ OnlyGiveaways

-----------------------------------------------------------------------------
(* Event cards. *)

CreateEvent(e, starts, lead) ==
    /\ SomeoneAsks /\ event[e].status = "none" /\ starts \in Later
    /\ event' = [event EXCEPT ![e].status = "upcoming", ![e].starts = starts, ![e].lead = lead]
    /\ OnlyEvents

TakesAnswers(e) == event[e].status = "upcoming" /\ now < event[e].starts

RsvpEvent(e, m, answer) ==
    /\ Asks(m) /\ TakesAnswers(e)
    /\ event' = [event EXCEPT ![e].rsvp[m] = answer]
    /\ OnlyEvents

ClearRsvp(e, m) ==
    /\ Asks(m) /\ TakesAnswers(e)
    /\ event' = [event EXCEPT ![e].rsvp[m] = NoAnswer]
    /\ OnlyEvents

CallOff(e) ==
    /\ event[e].status = "upcoming"
    /\ event' = [event EXCEPT ![e].status = "cancelled"]
    /\ OnlyEvents

CancelEvent(e) == SomeoneAsks /\ CallOff(e)
DeleteEventCard(e) == LockFree /\ CallOff(e)

(* The seeded mistakes: a started event may be moved; any edit re-arms.     *)
EditableUnlessCancelled(e) == event[e].status \in {"upcoming", "started"}
Editable(e) == event[e].status = "upcoming"
ReArmsAlways(e, starts) == starts \in Time
ReArms(e, starts) == starts # event[e].starts

(* Full replace; an event that is due and not started yet may be moved.     *)
EditEvent(e, starts, lead) ==
    /\ SomeoneAsks /\ Editable(e) /\ starts \in Later
    /\ LET moves == event[e].moves + (IF starts = event[e].starts THEN 0 ELSE 1) IN
       /\ moves <= MaxMoves
       /\ event' = [event EXCEPT ![e].starts = starts, ![e].lead = lead, ![e].moves = moves,
                                 ![e].reminded = @ /\ ~ReArms(e, starts)]
    /\ OnlyEvents

-----------------------------------------------------------------------------
(* Reminders. *)

SetReminder(m, due) ==
    /\ Asks(m) /\ reminder[m].status = "none" /\ due \in Later
    /\ reminder' = [reminder EXCEPT ![m] = [status |-> "pending", due |-> due]]
    /\ OnlyReminders

CancelReminder(m) ==
    /\ LockFree /\ m \in active /\ reminder[m].status = "pending"
    /\ reminder' = [reminder EXCEPT ![m].status = "cancelled"]
    /\ OnlyReminders

-----------------------------------------------------------------------------
(* The sweeper. No pass reads what another of the same tick writes: the     *)
(* passes are taken in any order. There are no more events than             *)
(* EVENT_DUE_BATCH, nor reminders than REMINDER_DUE_BATCH: one tick sees    *)
(* all that are due.                                                        *)

Sweeping == sweeper.at = "sweeping"

(* Nothing is drawn or started in a channel that is not certainly plaintext: *)
(* the row is passed over, tick after tick.                                 *)
DrawDue(g) == giveaway[g].status = "open" /\ giveaway[g].ends <= sweeper.now
Drawable(g) == DrawDue(g) /\ channel.plaintext

Remindable(m) == reminder[m].status = "pending" /\ reminder[m].due <= sweeper.now

(* An event whose start is due as well gets no nudge before it. *)
Nudgeable(e) ==
    /\ event[e].status = "upcoming" /\ event[e].lead # NoLead /\ ~event[e].reminded
    /\ event[e].starts - event[e].lead <= sweeper.now /\ sweeper.now < event[e].starts

StartDue(e) == event[e].status = "upcoming" /\ event[e].starts <= sweeper.now
(* The seeded mistake: starts after its minute. *)
StartableLate(e) == StartDue(e) /\ channel.plaintext /\ event[e].starts < sweeper.now
Startable(e) == StartDue(e) /\ channel.plaintext

Tellable(e) == event[e].status = "cancelled" /\ ~event[e].told

Failed(x) == x \in sweeper.skipped

Wake ==
    /\ sweeper.at = "asleep"
    /\ sweeper' = [sweeper EXCEPT !.at = "sweeping", !.now = now]
    /\ UNCHANGED <<now, active, channel, cards, inbox, faults>>

CloseAndDraw(g) ==
    /\ Sweeping /\ Drawable(g) /\ ~Failed(g)
    /\ \E w \in IF Eligible(g) = {} THEN {Nobody} ELSE Eligible(g) :
        giveaway' = [giveaway EXCEPT ![g].status = "ended", ![g].winner = w, ![g].draws = @ + 1]
    /\ OnlyGiveaways

(* push_event_dms: a message each to those who answered so; a member who    *)
(* has left since is written to, too.                                       *)
Post(about, kind, era, to) ==
    sweeper' = [sweeper EXCEPT !.outbox =
        @ \cup {[to |-> m, dm |-> [about |-> about, kind |-> kind, era |-> era]] : m \in to}]

Answered(e, answers) == {m \in Member : event[e].rsvp[m] \in answers}

Remind(m) ==
    /\ Sweeping /\ Remindable(m) /\ ~Failed(m)
    /\ reminder' = [reminder EXCEPT ![m].status = "sent"]
    /\ Post(m, "reminder", 0, {m})
    /\ UNCHANGED <<now, active, channel, giveaway, event, inbox, faults>>

StepOfEvent(e) ==
    /\ Sweeping /\ ~Failed(e)
    /\ UNCHANGED <<now, active, channel, giveaway, reminder, inbox, faults>>

Nudge(e) ==
    /\ Nudgeable(e)
    /\ event' = [event EXCEPT ![e].reminded = TRUE]
    /\ Post(e, "soon", event[e].moves, Answered(e, {"going", "maybe"}))
    /\ StepOfEvent(e)

StartAndAnnounce(e) ==
    /\ Startable(e)
    /\ event' = [event EXCEPT ![e].status = "started"]
    /\ Post(e, "started", event[e].moves, Answered(e, {"going"}))
    /\ StepOfEvent(e)

TellCancelled(e) ==
    /\ Tellable(e)
    /\ event' = [event EXCEPT ![e].told = TRUE]
    /\ Post(e, "cancelled", event[e].moves, Answered(e, {"going"}))
    /\ StepOfEvent(e)

(* A statement fails for one row, or the list of a pass cannot be read, or   *)
(* no system identity can be had to start events: the rows are passed over  *)
(* in this tick.                                                            *)
PassOver(rows) ==
    /\ Sweeping /\ faults < MaxFaults
    /\ rows # {} /\ rows \cap sweeper.skipped = {}
    /\ faults' = faults + 1
    /\ sweeper' = [sweeper EXCEPT !.skipped = @ \cup rows]
    /\ UNCHANGED <<now, active, channel, cards, inbox>>

PassFails ==
    \/ \E rows \in SUBSET {g \in Giveaway : Drawable(g)} : PassOver(rows)
    \/ \E rows \in SUBSET {m \in Member : Remindable(m)} : PassOver(rows)
    \/ \E rows \in SUBSET {e \in Event : Nudgeable(e)} : PassOver(rows)
    \/ \E rows \in SUBSET {e \in Event : Startable(e)} : PassOver(rows)
    \/ \E rows \in SUBSET {e \in Event : Tellable(e)} : PassOver(rows)

Swept ==
    /\ Sweeping
    /\ \A g \in Giveaway : Drawable(g) => Failed(g)
    /\ \A m \in Member : Remindable(m) => Failed(m)
    /\ \A e \in Event : Nudgeable(e) \/ Startable(e) \/ Tellable(e) => Failed(e)
    /\ sweeper' = [sweeper EXCEPT !.at = "sending", !.skipped = {}]
    /\ UNCHANGED <<now, active, channel, cards, inbox, faults>>

(* One direct message; one that fails is dropped. *)
Deliver ==
    \E x \in sweeper.outbox :
        /\ sweeper.at = "sending"
        /\ sweeper' = [sweeper EXCEPT !.outbox = @ \ {x}]
        /\ \/ inbox' = [inbox EXCEPT ![x.to] = Append(@, x.dm)]
           \/ UNCHANGED inbox
        /\ UNCHANGED <<now, active, channel, cards, faults>>

Sleep ==
    /\ sweeper.at = "sending" /\ sweeper.outbox = {}
    /\ sweeper' = [sweeper EXCEPT !.at = "asleep"]
    /\ UNCHANGED <<now, active, channel, cards, inbox, faults>>

(* The server dies and starts again: what was in memory is lost. *)
Restart ==
    /\ sweeper.at # "asleep" /\ faults < MaxFaults
    /\ faults' = faults + 1
    /\ sweeper' = [at |-> "asleep", now |-> 0, skipped |-> {}, outbox |-> {}]
    /\ UNCHANGED <<now, active, channel, cards, inbox>>

-----------------------------------------------------------------------------
(* The world. *)

Minute ==
    /\ now < MaxTime
    /\ now' = now + 1
    /\ UNCHANGED <<active, channel, cards, sweeper, inbox, faults>>

(* Kicked or banned; let in again. *)
ComeOrGo(m) ==
    /\ LockFree
    /\ active' = IF m \in active THEN active \ {m} ELSE active \cup {m}
    /\ UNCHANGED <<now, channel, cards, sweeper, inbox, faults>>

DeleteChannel ==
    /\ LockFree /\ active # {} /\ channel.visible
    /\ channel' = [channel EXCEPT !.visible = FALSE]
    /\ UNCHANGED <<now, active, cards, sweeper, inbox, faults>>

(* The mirror of the class: repaired at a start, restored with a backup,    *)
(* edited by the operator; what does not read as plaintext is none.         *)
Reclassed ==
    /\ LockFree
    /\ channel' = [channel EXCEPT !.plaintext = ~@]
    /\ UNCHANGED <<now, active, cards, sweeper, inbox, faults>>

AboutGiveaway(g) ==
    \/ \E t \in Time : CreateGiveaway(g, t)
    \/ \E m \in Member : EnterGiveaway(g, m) \/ LeaveGiveaway(g, m)
    \/ CancelGiveaway(g) \/ DeleteGiveawayCard(g) \/ RerollGiveaway(g)

AboutEvent(e) ==
    \/ \E t \in Time, lead \in Lead : CreateEvent(e, t, lead) \/ EditEvent(e, t, lead)
    \/ \E m \in Member : ClearRsvp(e, m) \/ \E answer \in Answer : RsvpEvent(e, m, answer)
    \/ CancelEvent(e) \/ DeleteEventCard(e)

AboutReminder(m) == CancelReminder(m) \/ \E t \in Time : SetReminder(m, t)

Sweep ==
    \/ Wake \/ Swept \/ Deliver \/ Sleep
    \/ \E g \in Giveaway : CloseAndDraw(g)
    \/ \E m \in Member : Remind(m)
    \/ \E e \in Event : Nudge(e) \/ StartAndAnnounce(e) \/ TellCancelled(e)

WidgetsNext ==
    \/ \E g \in Giveaway : AboutGiveaway(g)
    \/ \E e \in Event : AboutEvent(e)
    \/ \E m \in Member : AboutReminder(m) \/ ComeOrGo(m)
    \/ Sweep \/ PassFails \/ Restart \/ Minute \/ DeleteChannel \/ Reclassed

WidgetsSpec == WidgetsInit /\ [][WidgetsNext]_widgetVars

(* The sweeper is a task of its own that only ever waits for the lock. *)
FairWidgetsSpec == WidgetsSpec /\ WF_widgetVars(Sweep)

-----------------------------------------------------------------------------
(* Properties. *)

Dm == [about : Event \cup Member, kind : {"reminder", "soon", "started", "cancelled"},
       era : 0..MaxMoves]

(* Types; and an event counts as started only from its start on, however    *)
(* often it was moved; only a cancelled one is told of as cancelled.        *)
WidgetsTypeOK ==
    /\ now \in Time /\ active \subseteq Member /\ faults \in 0..MaxFaults
    /\ \A g \in Giveaway : /\ giveaway[g].status \in {"none", "open", "ended", "cancelled"}
                           /\ giveaway[g].entries \subseteq Member
    /\ \A e \in Event : /\ event[e].rsvp \in [Member -> Answer \cup {NoAnswer}]
                        /\ event[e].status = "started" => event[e].starts <= now
                        /\ event[e].told => event[e].status = "cancelled"
    /\ sweeper.outbox \subseteq [to : Member, dm : Dm]
    /\ sweeper.at = "asleep" => sweeper.outbox = {}

(* A giveaway is drawn once, late entries and withdrawals notwithstanding:  *)
(* its winner stays one of its entrants through rerolls, bans, returns and  *)
(* faults, and one that was cancelled has none (close_and_draw, reroll).   *)
WinnerStands ==
    \A g \in Giveaway :
        /\ giveaway[g].draws = (IF giveaway[g].status = "ended" THEN 1 ELSE 0)
        /\ giveaway[g].winner # Nobody =>
            giveaway[g].status = "ended" /\ giveaway[g].winner \in giveaway[g].entries

Final(dm) == dm.kind # "soon"

(* Nobody is told the same twice, whatever is edited, moved back, cancelled *)
(* or interrupted: one nudge for each start an event was given, and "it     *)
(* starts" or "it was cancelled" once, last, and never both                 *)
(* (widgets.rs: "never re-closes, redraws or re-fires").                    *)
ToldOnceAndInOrder ==
    \A m \in Member : \A i, j \in DOMAIN inbox[m] :
        i < j /\ inbox[m][i].about = inbox[m][j].about =>
            inbox[m][i] # inbox[m][j] /\ ~Final(inbox[m][i])

(* What is due is settled in the end: drawn, started, cancelled or moved,   *)
(* also in a deleted channel and after a crash or a pass that failed. Cards *)
(* wait while their channel is not certainly plaintext, as the tests of     *)
(* widgets.rs have it, and are not forgotten; a reminder never waits.       *)
DueIsSettled ==
    /\ <>[]channel.plaintext =>
        /\ \A g \in Giveaway : (giveaway[g].status = "open" /\ giveaway[g].ends <= now)
                                   ~> giveaway[g].status # "open"
        /\ \A e \in Event : (event[e].status = "upcoming" /\ event[e].starts <= now)
                                   ~> (event[e].status # "upcoming" \/ event[e].starts > now)
    /\ \A m \in Member : (reminder[m].status = "pending" /\ reminder[m].due <= now)
                               ~> reminder[m].status # "pending"
=============================================================================
