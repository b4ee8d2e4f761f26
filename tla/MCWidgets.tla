----------------------------- MODULE MCWidgets -----------------------------
(* Two members with a giveaway, or reminders, or an event whose audience     *)
(* stays (the event's steps read nothing of who is a member but who asks).   *)
(* The class of the channel changes under cards, not under reminders (their  *)
(* sweep does not read it), and while it is not plaintext the members and    *)
(* the channel stay. One member gives every answer to an event, the other    *)
(* comes or says nothing: the messages of the two do not meet.               *)
EXTENDS Widgets, TLC

CONSTANTS a, b, g1, e1

MCMember == {a, b}
MCGiveaway == {g1}
MCEvent == {e1}

GiveawayUnused == giveaway[g1].status = "none"
EventUnused == event[e1].status = "none"
RemindersUnused == \A m \in Member : reminder[m].status = "none"

AtMostOneUsed ==
    /\ GiveawayUnused \/ EventUnused
    /\ RemindersUnused \/ (EventUnused /\ GiveawayUnused)

ClassUnused == GiveawayUnused /\ EventUnused

StoryNext ==
    /\ WidgetsNext /\ AtMostOneUsed'
    /\ (EventUnused' /\ channel.plaintext) \/ UNCHANGED active
    /\ ClassUnused => UNCHANGED channel.plaintext
    /\ channel'.visible \/ channel'.plaintext
    /\ event'[e1].rsvp[b] \in {NoAnswer, "going"}
StorySpec == WidgetsInit /\ [][StoryNext]_widgetVars /\ WF_widgetVars(Sweep)
=============================================================================
