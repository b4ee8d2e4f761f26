--------------------------- MODULE Widgets_proofs ---------------------------
(***************************************************************************)
(* Theorems about Widgets, for any members, giveaways, events, bounds, and *)
(* any order of requests, sweeps and faults.                              *)
(***************************************************************************)
EXTENDS Widgets, TLAPS

GiveawayState == [status : {"none", "open", "ended", "cancelled"}, ends : Time,
                  entries : SUBSET Member, winner : Member \cup {Nobody}, draws : {0, 1}]

EventStatus == {"none", "upcoming", "started", "cancelled"}
EventState == [status : EventStatus, starts : Time, lead : Lead, reminded : BOOLEAN,
               told : BOOLEAN, moves : 0..MaxMoves,
               rsvp : [Member -> Answer \cup {NoAnswer}]]

ReminderState == [status : {"none", "pending", "sent", "cancelled"}, due : Time]

Letter == [to : Member, dm : Dm]
Row == Giveaway \cup Event \cup Member
SweeperState == [at : {"asleep", "sweeping", "sending"}, now : Time,
                 skipped : SUBSET Row, outbox : SUBSET Letter]

GiveawaysSound == giveaway \in [Giveaway -> GiveawayState] /\ WinnerStands

ChannelState == [visible : BOOLEAN, plaintext : BOOLEAN]

ClockTypes ==
    now \in Time /\ active \subseteq Member /\ channel \in ChannelState /\ faults \in 0..MaxFaults

Types ==
    /\ event \in [Event -> EventState]
    /\ reminder \in [Member -> ReminderState]
    /\ sweeper \in SweeperState
    /\ inbox \in [Member -> Seq(Dm)]

EventsInTime ==
    \A e \in Event : /\ event[e].status = "started" => event[e].starts <= now
                     /\ event[e].told => event[e].status = "cancelled"

SweeperInTime ==
    sweeper.now <= now /\ (sweeper.at = "asleep" => sweeper.outbox = {})

(* What a message says has come to pass, and will not again. *)
Accounted(dm) ==
    /\ dm.kind = "reminder" => dm.about \in Member /\ reminder[dm.about].status = "sent"
    /\ dm.kind # "reminder" => dm.about \in Event
    /\ dm.kind = "soon" => /\ dm.era <= event[dm.about].moves
                           /\ dm.era = event[dm.about].moves => event[dm.about].reminded
    /\ dm.kind = "started" => event[dm.about].status = "started"
    /\ dm.kind = "cancelled" => event[dm.about].status = "cancelled" /\ event[dm.about].told

SentAccounted == \A m \in Member : \A i \in DOMAIN inbox[m] : Accounted(inbox[m][i])
QueuedAccounted == \A x \in sweeper.outbox : Accounted(x.dm)

(* What is queued for a member comes after all they were sent. *)
QueuedIsNew ==
    \A x \in sweeper.outbox : \A i \in DOMAIN inbox[x.to] :
        inbox[x.to][i].about = x.dm.about =>
            inbox[x.to][i] # x.dm /\ ~Final(inbox[x.to][i])

OneQueuedEach ==
    \A x, y \in sweeper.outbox : x.to = y.to /\ x.dm.about = y.dm.about => x = y

(* What a tick has queued a message about gives it no reason for another. *)
HasReason(a) ==
    \/ a \in Event /\ (Nudgeable(a) \/ StartDue(a) \/ Tellable(a))
    \/ a \in Member /\ Remindable(a)

QueuedIsDone == Sweeping => \A x \in sweeper.outbox : ~HasReason(x.dm.about)

MailSound ==
    /\ SentAccounted /\ QueuedAccounted
    /\ QueuedIsNew /\ OneQueuedEach /\ QueuedIsDone
    /\ ToldOnceAndInOrder

WidgetsInv ==
    /\ GiveawaysSound
    /\ ClockTypes
    /\ Types
    /\ EventsInTime
    /\ SweeperInTime
    /\ MailSound

-----------------------------------------------------------------------------

LEMMA InvImpliesTypes == WidgetsInv => WidgetsTypeOK
<1> SUFFICES ASSUME WidgetsInv PROVE WidgetsTypeOK
  OBVIOUS
<1> USE DEF WidgetsInv
<1>1. ASSUME NEW g \in Giveaway
      PROVE  /\ giveaway[g].status \in {"none", "open", "ended", "cancelled"}
             /\ giveaway[g].entries \subseteq Member
  BY DEF GiveawaysSound, GiveawayState
<1>2. ASSUME NEW e \in Event PROVE event[e].rsvp \in [Member -> Answer \cup {NoAnswer}]
  BY DEF Types, EventState
<1>3. sweeper.outbox \subseteq [to : Member, dm : Dm]
  BY DEF Types, SweeperState, Letter
<1> QED
  BY <1>1, <1>2, <1>3 DEF WidgetsTypeOK, ClockTypes, EventsInTime, SweeperInTime

LEMMA InitEstablishesWidgetsInv == WidgetsInit => WidgetsInv
<1> SUFFICES ASSUME WidgetsInit PROVE WidgetsInv
  OBVIOUS
<1> USE WidgetsAssumption DEF WidgetsInit
<1>1. GiveawaysSound
  BY DEF GiveawaysSound, GiveawayState, WinnerStands, Time
<1>2. ClockTypes
  BY DEF ClockTypes, ChannelState, Time
<1>3. Types
  <2>1. event \in [Event -> EventState]
    BY DEF EventState, EventStatus, Time, Lead, NoLead, NoAnswer
  <2>2. reminder \in [Member -> ReminderState]
    BY DEF ReminderState, Time
  <2>3. sweeper \in SweeperState
    BY DEF SweeperState, Time
  <2>4. inbox \in [Member -> Seq(Dm)]
    OBVIOUS
  <2> QED
    BY <2>1, <2>2, <2>3, <2>4 DEF Types
<1>4. EventsInTime /\ SweeperInTime
  BY DEF EventsInTime, SweeperInTime, Time
<1>5. MailSound
  BY DEF MailSound, SentAccounted, QueuedAccounted, QueuedIsNew, OneQueuedEach, QueuedIsDone,
         Sweeping, ToldOnceAndInOrder
<1> QED
  BY <1>1, <1>2, <1>3, <1>4, <1>5 DEF WidgetsInv

-----------------------------------------------------------------------------
(* Giveaways. *)

LEMMA GiveawayRequestsKeep ==
    ASSUME GiveawaysSound, NEW g \in Giveaway, AboutGiveaway(g)
    PROVE  GiveawaysSound'
<1>1. giveaway[g] \in GiveawayState
  BY DEF GiveawaysSound
<1> USE <1>1 DEF GiveawaysSound, GiveawayState, WinnerStands
<1>2. ASSUME NEW t \in Time, CreateGiveaway(g, t) PROVE GiveawaysSound'
  BY <1>2 DEF CreateGiveaway
<1>3. ASSUME NEW m \in Member, EnterGiveaway(g, m) PROVE GiveawaysSound'
  BY <1>3 DEF EnterGiveaway
<1>4. ASSUME NEW m \in Member, LeaveGiveaway(g, m) PROVE GiveawaysSound'
  BY <1>4 DEF LeaveGiveaway, Leavable
<1>5. CASE CancelGiveaway(g) \/ DeleteGiveawayCard(g)
  BY <1>5 DEF CancelGiveaway, DeleteGiveawayCard, VoidGiveaway
<1>6. CASE RerollGiveaway(g)
  <2>1. PICK w \in Eligible(g) : giveaway' = [giveaway EXCEPT ![g].winner = w]
    BY <1>6 DEF RerollGiveaway
  <2>2. w \in giveaway[g].entries /\ w \in Member
    BY <2>1 DEF Eligible
  <2> QED
    BY <1>6, <2>1, <2>2 DEF RerollGiveaway
<1> QED
  BY <1>2, <1>3, <1>4, <1>5, <1>6 DEF AboutGiveaway

LEMMA DrawKeeps ==
    ASSUME GiveawaysSound, NEW g \in Giveaway, CloseAndDraw(g)
    PROVE  GiveawaysSound'
<1>1. giveaway[g] \in GiveawayState /\ giveaway[g].status = "open" /\ giveaway[g].draws = 0
  BY DEF GiveawaysSound, WinnerStands, CloseAndDraw, Drawable, DrawDue
<1>2. PICK w \in IF Eligible(g) = {} THEN {Nobody} ELSE Eligible(g) :
          giveaway' = [giveaway EXCEPT ![g].status = "ended", ![g].winner = w,
                                       ![g].draws = @ + 1]
  BY DEF CloseAndDraw
<1>3. w = Nobody \/ (w \in giveaway[g].entries /\ w \in Member)
  BY <1>1, <1>2 DEF Eligible, GiveawayState
<1>4. /\ giveaway' \in [Giveaway -> GiveawayState]
      /\ giveaway'[g].status = "ended" /\ giveaway'[g].winner = w /\ giveaway'[g].draws = 1
      /\ giveaway'[g].entries = giveaway[g].entries
      /\ \A h \in Giveaway : h # g => giveaway'[h] = giveaway[h]
  BY <1>1, <1>2, <1>3 DEF GiveawaysSound, GiveawayState
<1> QED
  BY <1>3, <1>4 DEF GiveawaysSound, WinnerStands

(* Every other step leaves the giveaways alone. *)
LEMMA GiveawaysOtherwiseKept ==
    ASSUME GiveawaysSound, UNCHANGED giveaway
    PROVE  GiveawaysSound'
<1> QED
  BY DEF GiveawaysSound, WinnerStands

-----------------------------------------------------------------------------
(* Requests: none undoes what a message has said.                          *)

LEMMA SentAreDms ==
    ASSUME Types, NEW m \in Member, NEW i \in DOMAIN inbox[m]
    PROVE  inbox[m][i] \in Dm
<1> QED
  BY DEF Types

LEMMA QueuedAreLetters ==
    ASSUME Types, NEW x \in sweeper.outbox
    PROVE  x.to \in Member /\ x.dm \in Dm
<1> QED
  BY DEF Types, SweeperState, Letter

LEMMA OutsideTicksMailKept ==
    ASSUME Types, MailSound, LockFree, UNCHANGED <<sweeper, inbox>>,
           \A dm \in Dm : Accounted(dm) => Accounted(dm)'
    PROVE  MailSound'
<1>1. SentAccounted' /\ QueuedAccounted'
  BY SentAreDms, QueuedAreLetters DEF MailSound, SentAccounted, QueuedAccounted
<1>2. QueuedIsNew' /\ OneQueuedEach' /\ ToldOnceAndInOrder'
  BY DEF MailSound, QueuedIsNew, OneQueuedEach, ToldOnceAndInOrder
<1>3. QueuedIsDone'
  BY DEF QueuedIsDone, Sweeping, LockFree
<1> QED
  BY <1>1, <1>2, <1>3 DEF MailSound

EventAdvances(e) ==
    /\ event' \in [Event -> EventState]
    /\ \A f \in Event : f # e => event'[f] = event[f]
    /\ event'[e].told = event[e].told
    /\ event[e].status \in {"started", "cancelled"} => event'[e].status = event[e].status
    /\ event'[e].status = "started" => /\ event[e].status = "started"
                                       /\ event'[e].starts = event[e].starts
    /\ \/ event'[e].moves = event[e].moves /\ event'[e].reminded = event[e].reminded
       \/ event'[e].moves > event[e].moves

LEMMA AdvancingKeeps ==
    ASSUME WidgetsInv, NEW e \in Event, EventAdvances(e), LockFree, OnlyEvents
    PROVE  WidgetsInv'
<1> USE DEF WidgetsInv, OnlyEvents
<1>1. GiveawaysSound'
  BY GiveawaysOtherwiseKept
<1>2. ClockTypes' /\ Types' /\ SweeperInTime'
  BY DEF ClockTypes, Types, SweeperInTime, EventAdvances
<1>3. EventsInTime'
  BY DEF EventsInTime, EventAdvances
<1>4. ASSUME NEW dm \in Dm, Accounted(dm) PROVE Accounted(dm)'
  <2>1. dm.kind # "reminder" => dm.about \in Event
    BY <1>4 DEF Accounted
  <2>2. dm.kind = "soon" => /\ dm.era <= event'[dm.about].moves
                            /\ dm.era = event'[dm.about].moves => event'[dm.about].reminded
    <3> SUFFICES ASSUME dm.kind = "soon"
                 PROVE  /\ dm.era <= event'[dm.about].moves
                        /\ dm.era = event'[dm.about].moves => event'[dm.about].reminded
      OBVIOUS
    <3>1. dm.era \in Nat /\ event[dm.about].moves \in Nat /\ event'[dm.about].moves \in Nat
      BY <2>1, WidgetsAssumption DEF Dm, Types, EventAdvances, EventState
    <3>2. /\ dm.era <= event[dm.about].moves
          /\ dm.era = event[dm.about].moves => event[dm.about].reminded
      BY <1>4 DEF Accounted
    <3>3. CASE dm.about # e
      BY <2>1, <3>2, <3>3 DEF EventAdvances
    <3>4. CASE dm.about = e
      BY <3>1, <3>2, <3>4 DEF EventAdvances
    <3> QED
      BY <3>3, <3>4
  <2>3. /\ dm.kind = "started" => event'[dm.about].status = "started"
        /\ dm.kind = "cancelled" => /\ event'[dm.about].status = "cancelled"
                                    /\ event'[dm.about].told
    BY <1>4, <2>1 DEF Accounted, EventAdvances
  <2> QED
    BY <1>4, <2>1, <2>2, <2>3 DEF Accounted
<1>5. MailSound'
  BY <1>4, OutsideTicksMailKept
<1> QED
  BY <1>1, <1>2, <1>3, <1>5

LEMMA EventRequestsAdvance ==
    ASSUME WidgetsInv, NEW e \in Event, AboutEvent(e)
    PROVE  EventAdvances(e) /\ LockFree /\ OnlyEvents
<1>1. event \in [Event -> EventState] /\ event[e] \in EventState
  BY DEF WidgetsInv, Types
<1>2. ASSUME NEW t \in Time, NEW lead \in Lead, CreateEvent(e, t, lead)
      PROVE  EventAdvances(e) /\ LockFree /\ OnlyEvents
  BY <1>1, <1>2 DEF CreateEvent, EventAdvances, EventState, EventStatus, SomeoneAsks, Asks
<1>3. ASSUME NEW t \in Time, NEW lead \in Lead, EditEvent(e, t, lead)
      PROVE  EventAdvances(e) /\ LockFree /\ OnlyEvents
  <2>1. PICK moves, reminded :
            /\ moves = event[e].moves + (IF t = event[e].starts THEN 0 ELSE 1)
            /\ reminded = (event[e].reminded /\ ~ReArms(e, t))
            /\ moves <= MaxMoves
            /\ event' = [event EXCEPT ![e].starts = t, ![e].lead = lead, ![e].moves = moves,
                                      ![e].reminded = reminded]
    BY <1>3 DEF EditEvent
  <2>2. moves \in 0..MaxMoves /\ reminded \in BOOLEAN
    BY <1>1, <2>1, WidgetsAssumption DEF EventState
  <2>3. /\ event' \in [Event -> EventState]
        /\ \A f \in Event : f # e => event'[f] = event[f]
        /\ event'[e].told = event[e].told /\ event'[e].status = event[e].status
        /\ event'[e].moves = moves /\ event'[e].reminded = reminded
    BY <1>1, <2>1, <2>2 DEF EventState
  <2>4. event[e].status = "upcoming" /\ LockFree /\ OnlyEvents
    BY <1>3 DEF EditEvent, Editable, SomeoneAsks, Asks
  <2>5. \/ moves = event[e].moves /\ reminded = event[e].reminded
        \/ moves > event[e].moves
    BY <1>1, <2>1 DEF ReArms, EventState
  <2> QED
    BY <2>3, <2>4, <2>5 DEF EventAdvances
<1>4. ASSUME NEW m \in Member, NEW answer \in Answer, RsvpEvent(e, m, answer)
      PROVE  EventAdvances(e) /\ LockFree /\ OnlyEvents
  BY <1>1, <1>4 DEF RsvpEvent, EventAdvances, EventState, Asks
<1>5. ASSUME NEW m \in Member, ClearRsvp(e, m)
      PROVE  EventAdvances(e) /\ LockFree /\ OnlyEvents
  <2> DEFINE answers == [event[e].rsvp EXCEPT ![m] = NoAnswer]
  <2>1. event' = [event EXCEPT ![e].rsvp = answers] /\ LockFree /\ OnlyEvents
    BY <1>5 DEF ClearRsvp, Asks
  <2>2. answers \in [Member -> Answer \cup {NoAnswer}]
    BY <1>1 DEF EventState
  <2> HIDE DEF answers
  <2>3. /\ event' \in [Event -> EventState]
        /\ \A f \in Event : f # e => event'[f] = event[f]
    BY <1>1, <2>1, <2>2 DEF EventState
  <2>4. /\ event'[e].told = event[e].told /\ event'[e].status = event[e].status
        /\ event'[e].starts = event[e].starts
        /\ event'[e].moves = event[e].moves /\ event'[e].reminded = event[e].reminded
    BY <1>1, <2>1
  <2> QED
    BY <2>1, <2>3, <2>4 DEF EventAdvances
<1>6. CASE CancelEvent(e) \/ DeleteEventCard(e)
  <2>1. /\ event' = [event EXCEPT ![e].status = "cancelled"] /\ event[e].status = "upcoming"
        /\ LockFree /\ OnlyEvents
    BY <1>6 DEF CancelEvent, DeleteEventCard, CallOff, SomeoneAsks, Asks
  <2>2. /\ event' \in [Event -> EventState]
        /\ \A f \in Event : f # e => event'[f] = event[f]
        /\ event'[e].status = "cancelled"
    BY <1>1, <2>1 DEF EventState, EventStatus
  <2>3. /\ event'[e].told = event[e].told /\ event'[e].moves = event[e].moves
        /\ event'[e].reminded = event[e].reminded
    BY <1>1, <2>1 DEF EventState
  <2> QED
    BY <2>1, <2>2, <2>3 DEF EventAdvances
<1> QED
  BY <1>2, <1>3, <1>4, <1>5, <1>6 DEF AboutEvent

LEMMA ReminderRequestsKeep ==
    ASSUME WidgetsInv, NEW m \in Member, AboutReminder(m)
    PROVE  WidgetsInv'
<1>1. /\ reminder' \in [Member -> ReminderState] /\ reminder[m].status # "sent"
      /\ \A n \in Member : n # m => reminder'[n] = reminder[n]
      /\ LockFree /\ OnlyReminders
  <2>1. reminder \in [Member -> ReminderState]
    BY DEF WidgetsInv, Types
  <2>2. CASE CancelReminder(m)
    BY <2>1, <2>2 DEF CancelReminder, ReminderState
  <2>3. ASSUME NEW due \in Time, SetReminder(m, due)
        PROVE  /\ reminder' \in [Member -> ReminderState] /\ reminder[m].status # "sent"
               /\ \A n \in Member : n # m => reminder'[n] = reminder[n]
               /\ LockFree /\ OnlyReminders
    BY <2>1, <2>3 DEF SetReminder, ReminderState, Asks
  <2> QED
    BY <2>2, <2>3 DEF AboutReminder
<1> USE DEF WidgetsInv
<1>2. UNCHANGED <<now, active, channel, giveaway, event, sweeper, inbox, faults>>
  BY <1>1 DEF OnlyReminders
<1>3. \A dm \in Dm : Accounted(dm) => Accounted(dm)'
  BY <1>1, <1>2 DEF Accounted
<1>4. MailSound'
  BY <1>1, <1>2, <1>3, OutsideTicksMailKept
<1>5. ClockTypes' /\ Types' /\ EventsInTime' /\ SweeperInTime' /\ GiveawaysSound'
  BY <1>1, <1>2, GiveawaysOtherwiseKept
  DEF ClockTypes, Types, EventsInTime, SweeperInTime
<1> QED
  BY <1>4, <1>5

-----------------------------------------------------------------------------
(* The sweeper. *)

(* A message is queued for a reason that is gone with the step that queues  *)
(* it, and no message that was queued or sent has said it before.           *)
Queues(d, to) ==
    sweeper' = [sweeper EXCEPT !.outbox = @ \cup {[to |-> m, dm |-> d] : m \in to}]

LEMMA PostingKeepsMail ==
    ASSUME Types, MailSound, Sweeping, UNCHANGED inbox,
           NEW to \in SUBSET Member, NEW d \in Dm, Queues(d, to),
           \A dm \in Dm : Accounted(dm) => Accounted(dm)',
           Accounted(d)',
           \A dm \in Dm : Accounted(dm) /\ dm.about = d.about => dm # d /\ ~Final(dm),
           HasReason(d.about), ~HasReason(d.about)',
           \A a \in Event \cup Member : a # d.about /\ HasReason(a)' => HasReason(a)
    PROVE  MailSound' /\ sweeper' \in SweeperState
<1> DEFINE new == {[to |-> m, dm |-> d] : m \in to}
<1>1. /\ sweeper'.outbox = sweeper.outbox \cup new
      /\ sweeper'.at = sweeper.at /\ sweeper'.now = sweeper.now
  BY DEF Queues, Types, SweeperState
<1>2. new \subseteq Letter
  BY DEF Letter
<1>3. sweeper' \in SweeperState
  <2>1. sweeper \in SweeperState /\ sweeper' = [sweeper EXCEPT !.outbox = sweeper.outbox \cup new]
    BY DEF Queues, Types
  <2> HIDE DEF new
  <2> QED
    BY <1>2, <2>1 DEF SweeperState
<1>4. /\ \A x \in new : x.to \in Member /\ x.dm = d /\ x.dm.about = d.about
      /\ \A x, y \in new : x.to = y.to => x = y
  OBVIOUS
<1>5. \A x \in sweeper.outbox : x.dm.about # d.about
  BY DEF MailSound, QueuedIsDone
<1> HIDE DEF new
<1>6. SentAccounted' /\ QueuedAccounted'
  BY <1>1, <1>4, SentAreDms, QueuedAreLetters DEF MailSound, SentAccounted, QueuedAccounted
<1>7. QueuedIsNew'
  <2>1. ASSUME NEW x \in sweeper'.outbox, NEW i \in DOMAIN inbox[x.to],
               inbox[x.to][i].about = x.dm.about
        PROVE  inbox[x.to][i] # x.dm /\ ~Final(inbox[x.to][i])
    <3>1. CASE x \in sweeper.outbox
      BY <2>1, <3>1 DEF MailSound, QueuedIsNew
    <3>2. CASE x \in new
      <4>1. x.to \in Member /\ x.dm = d /\ x.dm.about = d.about
        BY <1>4, <3>2
      <4>2. inbox[x.to][i] \in Dm /\ Accounted(inbox[x.to][i])
        BY <4>1, SentAreDms DEF MailSound, SentAccounted
      <4> QED
        BY <2>1, <4>1, <4>2
    <3> QED
      BY <1>1, <3>1, <3>2
  <2> QED
    BY <2>1 DEF QueuedIsNew, Final
<1>8. OneQueuedEach'
  BY <1>1, <1>4, <1>5 DEF MailSound, OneQueuedEach
<1>9. QueuedIsDone'
  <2>1. \A x \in sweeper'.outbox : x.dm.about \in Event \cup Member
    BY <1>3 DEF SweeperState, Letter, Dm
  <2> QED
    BY <1>1, <1>4, <1>5, <2>1 DEF MailSound, QueuedIsDone, Sweeping
<1>10. ToldOnceAndInOrder'
  BY DEF MailSound, ToldOnceAndInOrder
<1> QED
  BY <1>1, <1>3, <1>6, <1>7, <1>8, <1>9, <1>10 DEF MailSound

LEMMA PostOnlyQueues ==
    ASSUME Types, NEW about, NEW kind, NEW era, NEW to, Post(about, kind, era, to)
    PROVE  sweeper'.at = sweeper.at /\ sweeper'.now = sweeper.now
<1> QED
  BY DEF Types, SweeperState, Post

LEMMA RemindKeeps ==
    ASSUME WidgetsInv, NEW m \in Member, Remind(m)
    PROVE  WidgetsInv'
<1> USE DEF WidgetsInv
<1> DEFINE d == [about |-> m, kind |-> "reminder", era |-> 0]
<1>1. /\ Sweeping /\ Remindable(m) /\ Post(m, "reminder", 0, {m})
      /\ reminder' = [reminder EXCEPT ![m].status = "sent"]
      /\ UNCHANGED <<now, active, channel, giveaway, event, inbox, faults>>
  BY DEF Remind
<1>2. /\ reminder' \in [Member -> ReminderState] /\ reminder'[m].status = "sent"
      /\ \A n \in Member : n # m => reminder'[n] = reminder[n]
  BY <1>1 DEF Types, ReminderState
<1>3. sweeper'.at = sweeper.at /\ sweeper'.now = sweeper.now
  BY <1>1, PostOnlyQueues
<1>4. d \in Dm /\ m \notin Event
  BY WidgetsAssumption DEF Dm
<1>5. \A dm \in Dm : Accounted(dm) => Accounted(dm)'
  BY <1>1, <1>2 DEF Accounted
<1>6. Accounted(d)'
  BY <1>2 DEF Accounted
<1>7. \A dm \in Dm : Accounted(dm) /\ dm.about = m => dm # d /\ ~Final(dm)
  BY <1>1, <1>4 DEF Accounted, Remindable
<1>8. HasReason(m) /\ ~HasReason(m)'
  BY <1>1, <1>2, <1>4 DEF HasReason, Remindable
<1>9. \A a \in Event \cup Member : a # m /\ HasReason(a)' => HasReason(a)
  BY <1>1, <1>2, <1>3 DEF HasReason, Remindable, Nudgeable, StartDue, Tellable
<1>10. MailSound' /\ sweeper' \in SweeperState
  <2> HIDE DEF d
  <2>1. d.about = m /\ {m} \in SUBSET Member
    BY DEF d
  <2>2. Queues(d, {m})
    BY <1>1 DEF Post, Queues, d
  <2> QED
    BY <2>2, <1>1, <1>4, <1>5, <1>6, <1>7, <1>8, <1>9, <2>1, PostingKeepsMail
<1>11. ClockTypes' /\ Types' /\ EventsInTime' /\ SweeperInTime' /\ GiveawaysSound'
  BY <1>1, <1>2, <1>3, <1>10, GiveawaysOtherwiseKept
  DEF ClockTypes, Types, EventsInTime, SweeperInTime, Sweeping
<1> QED
  BY <1>10, <1>11

(* What the three steps about an event have in common: from is the reason,  *)
(* d the message, and the event's row shows what was said.                  *)
LEMMA StepOfEventKeeps ==
    ASSUME WidgetsInv, NEW e \in Event, NEW kind \in {"soon", "started", "cancelled"},
           NEW to \in SUBSET Member,
           StepOfEvent(e), Post(e, kind, event[e].moves, to),
           event' \in [Event -> EventState],
           \A f \in Event : f # e => event'[f] = event[f],
           event'[e].starts = event[e].starts, event'[e].moves = event[e].moves,
           event[e].reminded => event'[e].reminded,
           event[e].status = "started" => event'[e].status = "started",
           event[e].status = "cancelled" => event'[e].status = "cancelled",
           event'[e].status = "started" => event[e].starts <= sweeper.now,
           kind = "cancelled" => event'[e].told,
           event'[e].told => event'[e].status = "cancelled",
           kind = "soon" => ~event[e].reminded /\ event'[e].reminded,
           kind = "started" => event'[e].status = "started",
           event[e].status # "started",
           ~event[e].told, kind # "cancelled" => event[e].status = "upcoming",
           HasReason(e), ~HasReason(e)'
    PROVE  WidgetsInv'
<1> USE DEF WidgetsInv
<1>1. /\ Sweeping
      /\ UNCHANGED <<now, active, channel, giveaway, reminder, inbox, faults>>
  BY DEF StepOfEvent
<1>2. sweeper'.at = sweeper.at /\ sweeper'.now = sweeper.now
  BY PostOnlyQueues
<1>3. PICK d \in Dm : d = [about |-> e, kind |-> kind, era |-> event[e].moves]
  BY DEF Dm, Types, EventState
<1>4. \A dm \in Dm : Accounted(dm) => Accounted(dm)'
  BY <1>1 DEF Accounted
<1>5. Accounted(d)'
  <2>1. event[e].moves \in Nat
    BY WidgetsAssumption DEF Types, EventState
  <2>2. kind = "cancelled" => event'[e].told /\ event'[e].status = "cancelled"
    OBVIOUS
  <2> QED
    BY <1>3, <2>1, <2>2 DEF Accounted
<1>6. \A dm \in Dm : Accounted(dm) /\ dm.about = e => dm # d /\ ~Final(dm)
  <2>1. e \notin Member
    BY WidgetsAssumption
  <2> QED
    BY <1>3, <2>1 DEF Accounted, Final, Dm
<1>7. \A a \in Event \cup Member : a # e /\ HasReason(a)' => HasReason(a)
  BY <1>1, <1>2 DEF HasReason, Remindable, Nudgeable, StartDue, Tellable
<1>8. MailSound' /\ sweeper' \in SweeperState
  <2>1. d.about = e
    BY <1>3
  <2>2. Queues(d, to)
    BY <1>3 DEF Post, Queues
  <2> QED
    BY <1>1, <1>4, <1>5, <1>6, <1>7, <2>1, <2>2, PostingKeepsMail
<1>9. EventsInTime'
  <2>1. now \in Int /\ sweeper.now \in Int /\ event[e].starts \in Int
    BY WidgetsAssumption DEF ClockTypes, Types, SweeperState, EventState, Time
  <2>2. event'[e].status = "started" => event'[e].starts <= now
    BY <2>1 DEF SweeperInTime
  <2> QED
    BY <1>1, <2>2 DEF EventsInTime
<1>10. ClockTypes' /\ Types' /\ SweeperInTime' /\ GiveawaysSound'
  BY <1>1, <1>2, <1>8, GiveawaysOtherwiseKept DEF ClockTypes, Types, SweeperInTime, Sweeping
<1> QED
  BY <1>8, <1>9, <1>10

LEMMA EventStepsKeep ==
    ASSUME WidgetsInv, NEW e \in Event,
           Nudge(e) \/ StartAndAnnounce(e) \/ TellCancelled(e)
    PROVE  WidgetsInv'
<1>1. event \in [Event -> EventState] /\ event[e] \in EventState
  BY DEF WidgetsInv, Types
<1>2. \A answers : Answered(e, answers) \in SUBSET Member
  BY DEF Answered
<1>3. event[e].told => event[e].status = "cancelled"
  BY DEF WidgetsInv, EventsInTime
<1>4. ASSUME Nudge(e) PROVE WidgetsInv'
  <2>1. /\ event' \in [Event -> EventState]
        /\ \A f \in Event : f # e => event'[f] = event[f]
        /\ event'[e].starts = event[e].starts /\ event'[e].moves = event[e].moves
        /\ event'[e].status = event[e].status /\ event'[e].reminded
        /\ event'[e].told = event[e].told
    BY <1>1, <1>4 DEF Nudge, EventState
  <2>2. /\ event[e].status = "upcoming" /\ ~event[e].reminded
        /\ sweeper.now < event[e].starts
    BY <1>4 DEF Nudge, Nudgeable
  <2>3. /\ StepOfEvent(e)
        /\ Post(e, "soon", event[e].moves, Answered(e, {"going", "maybe"}))
    BY <1>4 DEF Nudge
  <2>4. HasReason(e)
    BY <1>4 DEF Nudge, HasReason
  <2>5. sweeper'.now = sweeper.now
    BY <2>3, PostOnlyQueues DEF WidgetsInv
  <2>6. ~HasReason(e)'
    <3>1. sweeper.now \in Int /\ event[e].starts \in Int /\ e \notin Member
      BY <1>1, WidgetsAssumption DEF WidgetsInv, Types, SweeperState, EventState, Time
    <3> QED
      BY <2>1, <2>2, <2>5, <3>1 DEF HasReason, Nudgeable, StartDue, Tellable
  <2> QED
    BY <1>2, <1>3, <2>1, <2>2, <2>3, <2>4, <2>6, StepOfEventKeeps
<1>5. ASSUME StartAndAnnounce(e) PROVE WidgetsInv'
  <2>1. /\ event' \in [Event -> EventState]
        /\ \A f \in Event : f # e => event'[f] = event[f]
        /\ event'[e].starts = event[e].starts /\ event'[e].moves = event[e].moves
        /\ event'[e].status = "started" /\ event'[e].reminded = event[e].reminded
        /\ event'[e].told = event[e].told
    BY <1>1, <1>5 DEF StartAndAnnounce, EventState, EventStatus
  <2>2. event[e].status = "upcoming" /\ event[e].starts <= sweeper.now
    BY <1>5 DEF StartAndAnnounce, Startable, StartDue
  <2>3. /\ StepOfEvent(e)
        /\ Post(e, "started", event[e].moves, Answered(e, {"going"}))
    BY <1>5 DEF StartAndAnnounce
  <2>4. HasReason(e)
    BY <1>5 DEF StartAndAnnounce, Startable, HasReason
  <2>5. ~HasReason(e)'
    BY <2>1, WidgetsAssumption DEF HasReason, Nudgeable, StartDue, Tellable
  <2> QED
    BY <1>2, <1>3, <2>1, <2>2, <2>3, <2>4, <2>5, StepOfEventKeeps
<1>6. ASSUME TellCancelled(e) PROVE WidgetsInv'
  <2>1. /\ event' \in [Event -> EventState]
        /\ \A f \in Event : f # e => event'[f] = event[f]
        /\ event'[e].starts = event[e].starts /\ event'[e].moves = event[e].moves
        /\ event'[e].status = event[e].status /\ event'[e].reminded = event[e].reminded
        /\ event'[e].told
    BY <1>1, <1>6 DEF TellCancelled, EventState
  <2>2. event[e].status = "cancelled" /\ ~event[e].told
    BY <1>6 DEF TellCancelled, Tellable
  <2>3. /\ StepOfEvent(e)
        /\ Post(e, "cancelled", event[e].moves, Answered(e, {"going"}))
    BY <1>6 DEF TellCancelled
  <2>4. HasReason(e)
    BY <1>6 DEF TellCancelled, HasReason
  <2>5. ~HasReason(e)'
    BY <2>1, <2>2, WidgetsAssumption DEF HasReason, Nudgeable, StartDue, Tellable
  <2> QED
    BY <1>2, <2>1, <2>2, <2>3, <2>4, <2>5, StepOfEventKeeps
<1> QED
  BY <1>4, <1>5, <1>6

LEMMA DeliverKeeps ==
    ASSUME WidgetsInv, Deliver
    PROVE  WidgetsInv'
<1> USE DEF WidgetsInv
<1>1. PICK x \in sweeper.outbox :
          /\ sweeper.at = "sending"
          /\ sweeper' = [sweeper EXCEPT !.outbox = @ \ {x}]
          /\ \/ inbox' = [inbox EXCEPT ![x.to] = Append(@, x.dm)]
             \/ UNCHANGED inbox
          /\ UNCHANGED <<now, active, channel, cards, faults>>
  BY DEF Deliver
<1>2. /\ sweeper' \in SweeperState /\ sweeper'.outbox = sweeper.outbox \ {x}
      /\ sweeper'.at = "sending" /\ sweeper'.now = sweeper.now
  BY <1>1 DEF Types, SweeperState
<1>3. UNCHANGED <<now, active, channel, giveaway, event, reminder, faults>>
  BY <1>1 DEF cards
<1>4. x.to \in Member /\ x.dm \in Dm /\ Accounted(x.dm)
  BY QueuedAreLetters DEF MailSound, QueuedAccounted
<1>5. \A dm : Accounted(dm)' <=> Accounted(dm)
  BY <1>3 DEF Accounted
<1>6. inbox' \in [Member -> Seq(Dm)]
  <2>1. inbox[x.to] \in Seq(Dm) /\ inbox \in [Member -> Seq(Dm)]
    BY <1>4 DEF Types
  <2>2. Append(inbox[x.to], x.dm) \in Seq(Dm)
    BY <1>4, <2>1
  <2>3. \/ inbox' = [inbox EXCEPT ![x.to] = Append(inbox[x.to], x.dm)]
        \/ inbox' = inbox
    BY <1>1
  <2> QED
    BY <2>1, <2>2, <2>3
<1>7. ASSUME NEW m \in Member, NEW i \in DOMAIN inbox'[m]
      PROVE  \/ i \in DOMAIN inbox[m] /\ inbox'[m][i] = inbox[m][i]
             \/ m = x.to /\ i = Len(inbox[m]) + 1 /\ inbox'[m][i] = x.dm
  <2>1. inbox[m] \in Seq(Dm) /\ inbox \in [Member -> Seq(Dm)]
    BY DEF Types
  <2>2. CASE UNCHANGED inbox
    BY <2>2
  <2>3. CASE inbox' = [inbox EXCEPT ![x.to] = Append(@, x.dm)] /\ m # x.to
    BY <1>4, <2>1, <2>3
  <2>4. CASE inbox' = [inbox EXCEPT ![x.to] = Append(@, x.dm)] /\ m = x.to
    <3>1. inbox'[m] = Append(inbox[m], x.dm)
      BY <1>4, <2>1, <2>4
    <3> QED
      BY <1>4, <2>1, <2>4, <3>1
  <2> QED
    BY <1>1, <2>2, <2>3, <2>4
<1>8. SentAccounted' /\ QueuedAccounted'
  BY <1>2, <1>4, <1>5, <1>7 DEF MailSound, SentAccounted, QueuedAccounted
<1>9. QueuedIsNew'
  <2>1. ASSUME NEW y \in sweeper'.outbox, NEW i \in DOMAIN inbox'[y.to],
               inbox'[y.to][i].about = y.dm.about
        PROVE  inbox'[y.to][i] # y.dm /\ ~Final(inbox'[y.to][i])
    <3>1. y \in sweeper.outbox /\ y # x /\ y.to \in Member
      BY <1>2, QueuedAreLetters
    <3>2. ~(y.to = x.to /\ x.dm.about = y.dm.about)
      BY <3>1 DEF MailSound, OneQueuedEach
    <3>3. i \in DOMAIN inbox[y.to] /\ inbox'[y.to][i] = inbox[y.to][i]
      BY <1>7, <2>1, <3>1, <3>2
    <3> QED
      BY <2>1, <3>1, <3>3 DEF MailSound, QueuedIsNew
  <2> QED
    BY <2>1 DEF QueuedIsNew, Final
<1>10. OneQueuedEach' /\ QueuedIsDone'
  BY <1>2 DEF MailSound, OneQueuedEach, QueuedIsDone, Sweeping
<1>11. ToldOnceAndInOrder'
  <2>1. ASSUME NEW m \in Member, NEW i \in DOMAIN inbox'[m], NEW j \in DOMAIN inbox'[m],
               i < j, inbox'[m][i].about = inbox'[m][j].about
        PROVE  inbox'[m][i] # inbox'[m][j] /\ ~Final(inbox'[m][i])
    <3>1. inbox[m] \in Seq(Dm) /\ inbox'[m] \in Seq(Dm)
      BY <1>6 DEF Types
    <3>2. CASE j \in DOMAIN inbox[m] /\ inbox'[m][j] = inbox[m][j]
      <4>1. i \in DOMAIN inbox[m] /\ inbox'[m][i] = inbox[m][i]
        BY <1>7, <2>1, <3>1, <3>2
      <4> QED
        BY <2>1, <3>2, <4>1 DEF MailSound, ToldOnceAndInOrder
    <3>3. CASE m = x.to /\ j = Len(inbox[m]) + 1 /\ inbox'[m][j] = x.dm
      <4>1. i \in DOMAIN inbox[m] /\ inbox'[m][i] = inbox[m][i]
        BY <1>7, <2>1, <3>1, <3>3
      <4> QED
        BY <2>1, <3>3, <4>1 DEF MailSound, QueuedIsNew
    <3> QED
      BY <1>7, <3>2, <3>3
  <2> QED
    BY <2>1 DEF ToldOnceAndInOrder, Final
<1>12. ClockTypes' /\ Types' /\ EventsInTime' /\ SweeperInTime' /\ GiveawaysSound'
  BY <1>2, <1>3, <1>6, GiveawaysOtherwiseKept
  DEF ClockTypes, Types, EventsInTime, SweeperInTime
<1> QED
  BY <1>8, <1>9, <1>10, <1>11, <1>12 DEF MailSound

(* The rows a pass passes over are rows. *)
LEMMA PassFailsSkips ==
    ASSUME sweeper \in SweeperState, faults \in 0..MaxFaults, PassFails
    PROVE  /\ Sweeping /\ faults' \in 0..MaxFaults
           /\ UNCHANGED <<now, active, channel, cards, inbox>>
           /\ sweeper' \in SweeperState /\ sweeper'.now = sweeper.now
           /\ sweeper'.at = sweeper.at /\ sweeper'.outbox = sweeper.outbox
<1>1. PICK rows \in SUBSET Row : PassOver(rows)
  BY DEF PassFails, Row
<1>2. sweeper' = [sweeper EXCEPT !.skipped = sweeper.skipped \cup rows]
  BY <1>1 DEF PassOver
<1>3. sweeper.skipped \cup rows \in SUBSET Row
  BY <1>1 DEF SweeperState
<1>4. /\ sweeper' \in SweeperState /\ sweeper'.now = sweeper.now
      /\ sweeper'.at = sweeper.at /\ sweeper'.outbox = sweeper.outbox
  <2> HIDE DEF Row
  <2> QED
    BY <1>2, <1>3 DEF SweeperState
<1>5. faults' \in 0..MaxFaults
  BY <1>1, WidgetsAssumption DEF PassOver
<1> QED
  BY <1>1, <1>4, <1>5 DEF PassOver

(* A step of the task that writes no message: none is queued when it wakes  *)
(* up, goes back to sleep or dies.                                          *)
LEMMA QuietStepKeeps ==
    ASSUME WidgetsInv, Wake \/ Swept \/ Sleep \/ Restart \/ PassFails
    PROVE  WidgetsInv'
<1> USE DEF WidgetsInv
<1>1. /\ UNCHANGED <<now, active, channel, giveaway, event, reminder, inbox>>
      /\ faults' \in 0..MaxFaults
  BY PassFailsSkips, WidgetsAssumption DEF Wake, Swept, Sleep, Restart, cards, ClockTypes, Types
<1>2. /\ sweeper' \in SweeperState /\ sweeper'.now <= now
      /\ sweeper'.outbox = sweeper.outbox \/ sweeper'.outbox = {}
      /\ sweeper'.at = "asleep" => sweeper'.outbox = {}
      /\ Sweeping' => sweeper'.outbox = {} \/ (Sweeping /\ sweeper'.now = sweeper.now)
  <2>1. sweeper \in SweeperState /\ now \in Time /\ 0 \in Time /\ now <= now /\ 0 <= now
    BY WidgetsAssumption DEF Types, ClockTypes, Time
  <2>2. CASE Wake
    BY <2>1, <2>2 DEF Wake, SweeperState, SweeperInTime, Sweeping
  <2>3. CASE Swept
    BY <2>1, <2>3 DEF Swept, SweeperState, SweeperInTime, Sweeping
  <2>4. CASE Sleep
    BY <2>1, <2>4 DEF Sleep, SweeperState, SweeperInTime, Sweeping
  <2>5. CASE Restart
    BY <2>1, <2>5 DEF Restart, SweeperState, Sweeping
  <2>6. CASE PassFails
    BY <2>1, <2>6, PassFailsSkips DEF ClockTypes, SweeperInTime, Sweeping
  <2> QED
    BY <2>2, <2>3, <2>4, <2>5, <2>6
<1>3. \A dm : Accounted(dm)' <=> Accounted(dm)
  BY <1>1 DEF Accounted
<1>4. MailSound'
  <2>1. SentAccounted' /\ QueuedAccounted'
    BY <1>1, <1>2, <1>3 DEF MailSound, SentAccounted, QueuedAccounted
  <2>2. QueuedIsNew' /\ OneQueuedEach'
    BY <1>1, <1>2 DEF MailSound, QueuedIsNew, OneQueuedEach
  <2>3. QueuedIsDone'
    BY <1>1, <1>2 DEF MailSound, QueuedIsDone, HasReason, Nudgeable, StartDue, Tellable, Remindable
  <2>4. ToldOnceAndInOrder'
    BY <1>1 DEF MailSound, ToldOnceAndInOrder
  <2> QED
    BY <2>1, <2>2, <2>3, <2>4 DEF MailSound
<1>5. ClockTypes' /\ Types' /\ EventsInTime' /\ SweeperInTime' /\ GiveawaysSound'
  BY <1>1, <1>2, GiveawaysOtherwiseKept
  DEF ClockTypes, Types, EventsInTime, SweeperInTime
<1> QED
  BY <1>4, <1>5

LEMMA WorldKeeps ==
    ASSUME WidgetsInv, Minute \/ DeleteChannel \/ Reclassed \/ \E m \in Member : ComeOrGo(m)
    PROVE  WidgetsInv'
<1> USE DEF WidgetsInv
<1>1. /\ UNCHANGED <<giveaway, event, reminder, sweeper, inbox, faults>>
      /\ now' \in Time /\ now <= now' /\ active' \subseteq Member /\ channel' \in ChannelState
  <2>1. now \in Nat /\ now <= MaxTime /\ active \subseteq Member /\ channel \in ChannelState
    BY WidgetsAssumption DEF ClockTypes, Time
  <2>2. CASE Minute
    BY <2>1, <2>2, WidgetsAssumption DEF Minute, cards, Time
  <2>3. CASE DeleteChannel \/ Reclassed
    <3>1. channel' \in ChannelState
      BY <2>1, <2>3 DEF DeleteChannel, Reclassed, ChannelState
    <3>2. UNCHANGED <<giveaway, event, reminder, sweeper, inbox, faults, now, active>>
      BY <2>3 DEF DeleteChannel, Reclassed, cards
    <3> QED
      BY <2>1, <3>1, <3>2, WidgetsAssumption DEF Time
  <2>4. ASSUME NEW m \in Member, ComeOrGo(m) PROVE active' \subseteq Member
    <3>1. active' = active \ {m} \/ active' = active \cup {m}
      BY <2>4 DEF ComeOrGo
    <3> QED
      BY <2>1, <3>1
  <2>5. ASSUME NEW m \in Member, ComeOrGo(m)
        PROVE  UNCHANGED <<giveaway, event, reminder, sweeper, inbox, faults, now, channel>>
    BY <2>5 DEF ComeOrGo, cards
  <2> QED
    BY <2>1, <2>2, <2>3, <2>4, <2>5 DEF Time
<1>2. MailSound'
  BY <1>1 DEF MailSound, SentAccounted, QueuedAccounted, QueuedIsNew, OneQueuedEach,
              QueuedIsDone, ToldOnceAndInOrder, Sweeping, Accounted, HasReason, Nudgeable,
              StartDue, Tellable, Remindable
<1>3. EventsInTime' /\ SweeperInTime'
  <2>1. /\ now \in Int /\ now' \in Int /\ sweeper.now \in Int
        /\ \A e \in Event : event[e].starts \in Int
    BY <1>1, WidgetsAssumption DEF ClockTypes, Types, SweeperState, EventState, Time
  <2> QED
    BY <1>1, <2>1 DEF EventsInTime, SweeperInTime
<1>4. ClockTypes' /\ Types' /\ GiveawaysSound'
  BY <1>1, GiveawaysOtherwiseKept DEF ClockTypes, Types
<1> QED
  BY <1>2, <1>3, <1>4

-----------------------------------------------------------------------------
(* The theorems. *)

LEMMA GiveawayStepsKeep ==
    ASSUME WidgetsInv, NEW g \in Giveaway, AboutGiveaway(g) \/ CloseAndDraw(g)
    PROVE  WidgetsInv'
<1> USE DEF WidgetsInv
<1>1. GiveawaysSound'
  BY GiveawayRequestsKeep, DrawKeeps
<1>2. UNCHANGED <<now, active, channel, event, reminder, sweeper, inbox, faults>>
  BY DEF AboutGiveaway, CreateGiveaway, EnterGiveaway, LeaveGiveaway, CancelGiveaway,
         DeleteGiveawayCard, VoidGiveaway, RerollGiveaway, CloseAndDraw, OnlyGiveaways
<1>3. MailSound'
  BY <1>2 DEF MailSound, SentAccounted, QueuedAccounted, QueuedIsNew, OneQueuedEach,
              QueuedIsDone, ToldOnceAndInOrder, Sweeping, Accounted, HasReason, Nudgeable,
              StartDue, Tellable, Remindable
<1>4. ClockTypes' /\ Types' /\ EventsInTime' /\ SweeperInTime'
  BY <1>2 DEF ClockTypes, Types, EventsInTime, SweeperInTime
<1> QED
  BY <1>1, <1>3, <1>4

LEMMA NextKeepsWidgetsInv == WidgetsInv /\ [WidgetsNext]_widgetVars => WidgetsInv'
<1> SUFFICES ASSUME WidgetsInv, [WidgetsNext]_widgetVars PROVE WidgetsInv'
  OBVIOUS
<1>1. ASSUME NEW g \in Giveaway, AboutGiveaway(g) \/ CloseAndDraw(g) PROVE WidgetsInv'
  BY <1>1, GiveawayStepsKeep
<1>2. ASSUME NEW e \in Event, AboutEvent(e) PROVE WidgetsInv'
  BY <1>2, EventRequestsAdvance, AdvancingKeeps
<1>3. ASSUME NEW m \in Member, AboutReminder(m) \/ ComeOrGo(m) \/ Remind(m) PROVE WidgetsInv'
  BY <1>3, ReminderRequestsKeep, WorldKeeps, RemindKeeps
<1>4. ASSUME NEW e \in Event, Nudge(e) \/ StartAndAnnounce(e) \/ TellCancelled(e)
      PROVE  WidgetsInv'
  BY <1>4, EventStepsKeep
<1>5. CASE Wake \/ Swept \/ Sleep \/ Restart \/ PassFails \/ Deliver \/ Minute \/ DeleteChannel
            \/ Reclassed
  BY <1>5, QuietStepKeeps, DeliverKeeps, WorldKeeps
<1>6. CASE UNCHANGED widgetVars
  <2>1. UNCHANGED <<now, active, channel, giveaway, event, reminder, sweeper, inbox, faults>>
    BY <1>6 DEF widgetVars, cards
  <2>2. MailSound'
    BY <2>1 DEF WidgetsInv, MailSound, SentAccounted, QueuedAccounted, QueuedIsNew,
                OneQueuedEach, QueuedIsDone, ToldOnceAndInOrder, Sweeping, Accounted, HasReason,
                Nudgeable, StartDue, Tellable, Remindable
  <2> QED
    BY <2>1, <2>2, GiveawaysOtherwiseKept
    DEF WidgetsInv, ClockTypes, Types, EventsInTime, SweeperInTime
<1> QED
  BY <1>1, <1>2, <1>3, <1>4, <1>5, <1>6 DEF WidgetsNext, Sweep

(* Types; and an event counts as started from its start on only, however    *)
(* often it is moved (sweep_once against edit_event).                       *)
THEOREM WidgetsTypeInvariant == WidgetsSpec => []WidgetsTypeOK
<1> QED
  BY InvImpliesTypes, InitEstablishesWidgetsInv, NextKeepsWidgetsInv, PTL DEF WidgetsSpec

(* One draw, and the winner stays an entrant: for any members coming and    *)
(* going and any faults (close_and_draw, reroll_giveaway).                 *)
THEOREM WinnersStand == WidgetsSpec => []WinnerStands
<1>1. WidgetsInv => WinnerStands
  BY DEF WidgetsInv, GiveawaysSound
<1> QED
  BY <1>1, InitEstablishesWidgetsInv, NextKeepsWidgetsInv, PTL DEF WidgetsSpec

(* No member is told the same of an event or reminder twice, and nothing    *)
(* after the last word, for any edits and faults (the per-flip commits of  *)
(* sweep_once).                                                             *)
THEOREM NobodyToldTwice == WidgetsSpec => []ToldOnceAndInOrder
<1>1. WidgetsInv => ToldOnceAndInOrder
  BY DEF WidgetsInv, MailSound
<1> QED
  BY <1>1, InitEstablishesWidgetsInv, NextKeepsWidgetsInv, PTL DEF WidgetsSpec
=============================================================================
