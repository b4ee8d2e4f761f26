------------------------------ MODULE Sessions ------------------------------
(* The connections of a server and the maps they share: who is registered  *)
(* for events, who is subscribed to which channel, who negotiated which    *)
(* protocol version. A step is what runs between two awaits; the lock on   *)
(* the database is never held over one.                                    *)
EXTENDS Naturals

CONSTANTS Member, Owner, Channel, Conn, NoConn,
          Upgraded,        \* the connections whose client negotiates version 2
          Mishaps          \* \subseteq {"lostAnswer", "category"}

ASSUME SessionsAssumption ==
    /\ Owner \in Member /\ NoConn \notin Conn /\ Upgraded \subseteq Conn
    /\ Mishaps \subseteq {"lostAnswer", "category"}

VARIABLES
    row,        \* Member -> "none", "active", "banned": the members table
    views,      \* the <<member, channel>> that roles and overrides let see
    channels,   \* the channels not deleted
    clients,    \* Member -> the connection whose sender is registered
    subs,       \* the <<member, channel>> subscribed
    protocol,   \* Member -> the version negotiated, 1 when absent
    sinks,      \* Member -> the connection that gets the voice datagrams
    conn,       \* Conn -> what it is doing
    latest,     \* Member -> the connection registered last      (history)
    slipped     \* pairs left stale with no announcement to come (history)

access == <<row, views, channels>>
maps == <<clients, subs, protocol, sinks>>
sessionVars == <<access, maps, conn, latest, slipped>>

Phase == {"new", "known", "registered", "live", "subscribing", "answering",
          "unsink", "unclient", "unsubscribe", "leave", "done"}

(* A connection: whose, since when it is known; the channels a Subscribe   *)
(* has found visible; whether the answer is followed by an announcement.   *)
New == [who |-> Owner, at |-> "new", allowed |-> {}, owed |-> FALSE, spoke |-> FALSE]
Closed == [New EXCEPT !.at = "done"]

SessionsInit ==
    /\ row = [m \in Member |-> IF m = Owner THEN "active" ELSE "none"]
    /\ views = {} /\ channels = Channel
    /\ clients = [m \in Member |-> NoConn] /\ sinks = clients /\ latest = clients
    /\ protocol = [m \in Member |-> 1]
    /\ subs = {} /\ slipped = {}
    /\ conn = [c \in Conn |-> New]

Is(c, phase) == conn[c].at = phase
Goto(c, phase) == conn' = [conn EXCEPT ![c].at = phase]
Who(c) == conn[c].who

Visible(p) == row[p[1]] = "active" /\ p[2] \in channels /\ (p[1] = Owner \/ p \in views)

Of(m) == {m} \X Channel
Stale == {p \in subs : ~Visible(p)}

-----------------------------------------------------------------------------
(* Coming. *)

(* A member who is neither banned nor revoked; a stranger with an invite    *)
(* becomes one, with the roles of everyone.                                 *)
Authenticate(c, m) ==
    /\ Is(c, "new") /\ row[m] # "banned"
    /\ IF row[m] = "active" THEN UNCHANGED access
       ELSE /\ row' = [row EXCEPT ![m] = "active"]
            /\ \E seen \in SUBSET Of(m) : views' = (views \ Of(m)) \cup seen
            /\ UNCHANGED channels
    /\ conn' = [conn EXCEPT ![c].who = m, ![c].at = "known"]
    /\ UNCHANGED <<maps, latest, slipped>>

(* The connection fails while it is told that it is authenticated. *)
Unreachable(c) ==
    /\ Is(c, "known")
    /\ conn' = [conn EXCEPT ![c] = Closed]
    /\ UNCHANGED <<access, maps, latest, slipped>>

Register(c) ==
    /\ Is(c, "known")
    /\ clients' = [clients EXCEPT ![Who(c)] = c]
    /\ latest' = [latest EXCEPT ![Who(c)] = c]
    /\ Goto(c, "registered")
    /\ UNCHANGED <<access, subs, protocol, sinks, slipped>>

OpenVoice(c) ==
    /\ Is(c, "registered")
    /\ sinks' = [sinks EXCEPT ![Who(c)] = c]
    /\ Goto(c, "live")
    /\ UNCHANGED <<access, clients, subs, protocol, latest, slipped>>

NegotiateProtocol(c) ==
    /\ Is(c, "live") /\ c \in Upgraded
    /\ protocol' = [protocol EXCEPT ![Who(c)] = 2]
    /\ conn' = [conn EXCEPT ![c].spoke = TRUE]
    /\ UNCHANGED <<access, clients, subs, sinks, latest, slipped>>

-----------------------------------------------------------------------------
(* Subscribing: the filter under the database lock, then the write.         *)

SubscribeFilter(c, requested) ==
    /\ Is(c, "live")
    /\ conn' = [conn EXCEPT ![c].at = "subscribing",
                            ![c].allowed = {p \in requested : Visible(p)}]
    /\ UNCHANGED <<access, maps, latest, slipped>>

SubscribeWrite(c) ==
    /\ Is(c, "subscribing")
    /\ subs' = (subs \ Of(Who(c))) \cup conn[c].allowed
    /\ slipped' = (slipped \ Of(Who(c))) \cup {p \in conn[c].allowed : ~Visible(p)}
    /\ conn' = [conn EXCEPT ![c].at = "live", ![c].allowed = {}]
    /\ UNCHANGED <<access, clients, protocol, sinks, latest>>

-----------------------------------------------------------------------------
(* Requests that change who sees what: the handler under the database lock, *)
(* then the answer, then the events.                                        *)

(* event_changes_access, of the event each request emits. *)
ChangesAccess == {"MemberLeft", "MemberBanned", "PermissionsChanged", "ChannelDeleted"}
ChangesAccessButBans == ChangesAccess \ {"MemberBanned"}

(* The seeded mistake: a ban announces nothing that prunes. *)
AnnouncesButBans(event) == event \in ChangesAccessButBans
Announces(event) == event \in ChangesAccess

Handled(c, event) ==
    /\ Is(c, "live") /\ Who(c) = Owner
    /\ conn' = [conn EXCEPT ![c].at = "answering", ![c].owed = Announces(event)]
    /\ UNCHANGED <<maps, latest>>

KickMember(c, m) ==
    /\ m # Owner
    /\ row' = [row EXCEPT ![m] = "none"]
    /\ views' = views \ Of(m)
    /\ UNCHANGED channels
    /\ Handled(c, "MemberLeft")
    /\ UNCHANGED slipped

BanMember(c, m) ==
    /\ m # Owner /\ row[m] # "none"
    /\ row' = [row EXCEPT ![m] = "banned"]
    /\ UNCHANGED <<views, channels>>
    /\ Handled(c, "MemberBanned")
    /\ UNCHANGED slipped

UnbanMember(c, m) ==
    /\ row[m] = "banned"
    /\ row' = [row EXCEPT ![m] = "active"]
    /\ UNCHANGED <<views, channels>>
    /\ Handled(c, "MemberUnbanned")
    /\ UNCHANGED slipped

Toggled(p) == IF p \in views THEN views \ {p} ELSE views \cup {p}

(* A role given, taken, changed or deleted; an override; a move. *)
ChangePermissions(c, p) ==
    /\ p[1] # Owner /\ row[p[1]] # "none"
    /\ views' = Toggled(p)
    /\ UNCHANGED <<row, channels>>
    /\ Handled(c, "PermissionsChanged")
    /\ UNCHANGED slipped

DeleteChannel(c, ch) ==
    /\ ch \in channels
    /\ channels' = channels \ {ch}
    /\ UNCHANGED <<row, views>>
    /\ Handled(c, "ChannelDeleted")
    /\ UNCHANGED slipped

(* Its overrides go with it. *)
DeleteCategory(c, p) ==
    /\ "category" \in Mishaps
    /\ p[1] # Owner /\ row[p[1]] # "none"
    /\ views' = Toggled(p)
    /\ UNCHANGED <<row, channels>>
    /\ Handled(c, "CategoryDeleted")
    /\ slipped' = slipped \cup {q \in subs : ~Visible(q)'}

(* revalidate, for an event that changes access. *)
Revalidate ==
    /\ subs' = subs \ Stale
    /\ slipped' = {}

Answered(c) ==
    /\ Is(c, "answering")
    /\ conn' = [conn EXCEPT ![c].at = "live", ![c].owed = FALSE]
    /\ IF conn[c].owed THEN Revalidate ELSE UNCHANGED <<subs, slipped>>
    /\ UNCHANGED <<access, clients, protocol, sinks, latest>>

(* The answer cannot be sent: the events after it are not broadcast. *)
AnswerLost(c) ==
    /\ "lostAnswer" \in Mishaps
    /\ Is(c, "answering")
    /\ conn' = [conn EXCEPT ![c].at = "unsink", ![c].owed = FALSE]
    /\ slipped' = slipped \cup Stale
    /\ UNCHANGED <<access, maps, latest>>

-----------------------------------------------------------------------------
(* Going. A connection that was overtaken cleans up after itself too.       *)

Disconnect(c) ==
    /\ Is(c, "live")
    /\ Goto(c, "unsink")
    /\ UNCHANGED <<access, maps, latest, slipped>>

CloseVoice(c) ==
    /\ Is(c, "unsink")
    /\ sinks' = [sinks EXCEPT ![Who(c)] = NoConn]
    /\ Goto(c, "unclient")
    /\ UNCHANGED <<access, clients, subs, protocol, latest, slipped>>

(* The seeded mistake: whoever leaves clears the slot. *)
EvictAnybody(c) == clients[Who(c)] # NoConn

StillOurs(c) == clients[Who(c)] = c

Evict(c) ==
    /\ Is(c, "unclient")
    /\ IF StillOurs(c)
       THEN /\ clients' = [clients EXCEPT ![Who(c)] = NoConn]
            /\ protocol' = [protocol EXCEPT ![Who(c)] = 1]
       ELSE UNCHANGED <<clients, protocol>>
    /\ Goto(c, "unsubscribe")
    /\ UNCHANGED <<access, subs, sinks, latest, slipped>>

(* The seeded mistake: the subscriptions under the same guard. *)
WithoutIfRegistered(c) == IF latest[Who(c)] = c THEN subs \ Of(Who(c)) ELSE subs
WithoutMine(c) == subs \ Of(Who(c))

Unsubscribe(c) ==
    /\ Is(c, "unsubscribe")
    /\ subs' = WithoutMine(c)
    /\ slipped' = slipped \ Of(Who(c))
    /\ Goto(c, "leave")
    /\ UNCHANGED <<access, clients, protocol, sinks, latest>>

(* MemberLeft is an event that changes access, too. *)
Leave(c) ==
    /\ Is(c, "leave")
    /\ conn' = [conn EXCEPT ![c] = Closed]
    /\ latest' = [m \in Member |-> IF latest[m] = c THEN NoConn ELSE latest[m]]
    /\ Revalidate
    /\ UNCHANGED <<access, clients, protocol, sinks>>

-----------------------------------------------------------------------------

Coming(c) ==
    \/ \E m \in Member : Authenticate(c, m)
    \/ Unreachable(c) \/ Register(c) \/ OpenVoice(c) \/ NegotiateProtocol(c)

Asking(c) ==
    \/ \E requested \in SUBSET Of(Who(c)) : SubscribeFilter(c, requested)
    \/ SubscribeWrite(c)
    \/ \E m \in Member : KickMember(c, m) \/ BanMember(c, m) \/ UnbanMember(c, m)
    \/ \E p \in Member \X Channel : ChangePermissions(c, p) \/ DeleteCategory(c, p)
    \/ \E ch \in Channel : DeleteChannel(c, ch)
    \/ Answered(c) \/ AnswerLost(c)

Going(c) ==
    Disconnect(c) \/ CloseVoice(c) \/ Evict(c) \/ Unsubscribe(c) \/ Leave(c)

SessionsNext == \E c \in Conn : Coming(c) \/ Asking(c) \/ Going(c)

SessionsSpec == SessionsInit /\ [][SessionsNext]_sessionVars

-----------------------------------------------------------------------------
(* Properties. *)

Gone(c) == Is(c, "new") \/ Is(c, "done")

(* Types; and the maps speak of who is there: when the last connection of a *)
(* member is gone nothing of theirs is left in them, in whatever order the  *)
(* overtaken ones cleaned up (cleanup_session).                             *)
SessionsTypeOK ==
    /\ row \in [Member -> {"none", "active", "banned"}]
    /\ views \subseteq Member \X Channel /\ channels \subseteq Channel
    /\ \A c \in Conn : /\ conn[c].at \in Phase
                       /\ conn[c].allowed \subseteq Of(Who(c))
                       /\ conn[c].owed => Is(c, "answering")
    /\ \A m \in Member :
        /\ protocol[m] \in {1, 2}
        /\ \A c \in {clients[m], sinks[m]} : c # NoConn => Who(c) = m /\ ~Gone(c)
        /\ (\A c \in Conn : Who(c) = m => Gone(c)) => subs \cap Of(m) = {}

(* The connection a member opened last keeps its slot and the version it    *)
(* negotiated, whatever older ones do on their way out: clearing it "would  *)
(* silently downgrade it to v1" (cleanup_session).                          *)
LatestConnectionKept ==
    \A m \in Member : latest[m] # NoConn =>
        LET c == latest[m] IN
        conn[c].at \in {"registered", "live", "subscribing", "answering"} =>
            clients[m] = c /\ (conn[c].spoke => protocol[m] = 2)

(* A subscriber who may not see the channel is on the way out, or came      *)
(* past the announcements in one of three ways: by a Subscribe filtered     *)
(* before the change, by an answer that was lost before its events, or by   *)
(* a request whose event prunes nothing.                                    *)
StaleSubscriptionsExplained ==
    \A p \in Stale : p \in slipped \/ \E c \in Conn : conn[c].owed

(* subscriptions.rs:5: "the subscription set never contains a member who    *)
(* cannot see the channel", between a change of access and the event that   *)
(* announces it excepted.                                                   *)
SubscribersCanSee == Stale = {} \/ \E c \in Conn : conn[c].owed
=============================================================================
