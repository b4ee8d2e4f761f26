------------------------------- MODULE Relay -------------------------------
(* A server that hides behind a relay, the relay, and the clients that reach *)
(* it through there: one registration per server id, one routing handle per *)
(* client connection, and the tables on either side that turn a handle into *)
(* a client or a member. A step is what runs between two awaits.            *)
(* One server id; a client connection carries one primary stream. What a    *)
(* session does besides voice is Sessions'.                                 *)
EXTENDS Naturals

CONSTANTS MaxLink,          \* bound on the server's connections to the relay
          Client,           \* clients' connections to the relay
          Member, Holder,   \* who holds a client connection
          NoSink,
          MaxHandle,        \* the relay's 32-bit counter is not followed past it
          MaxFaults

ASSUME RelayAssumption ==
    /\ Holder \in [Client -> Member]
    /\ NoSink \notin Nat \X Nat
    /\ MaxLink \in Nat /\ MaxHandle \in Nat /\ MaxFaults \in Nat

VARIABLES
    servers,    \* the relay's registry: the link the server id leads to
    clients,    \* the relay's live clients, by routing handle
    next,       \* the relay's next handle
    link,       \* Link -> whether it is up, and what the relay's task does
    dial,       \* the server's loop: what it does, on which link
    client,     \* Client -> whether it is up, its relay task, target and handle
    session,    \* Client -> what the server does about its primary stream
    voice,      \* Member -> the link and handle their voice is sent to
    bound,      \* the server's routing handles, and the members they stand for
    newest,     \* the link registered last                         (history)
    prompt,     \* the relay reads a registration before the next link is up
    faults

Link == 1..MaxLink
NoLink == 0

relay == <<servers, clients, next>>
server == <<dial, session, voice, bound>>
relayVars == <<relay, server, link, client, newest, prompt, faults>>

Unused == [up |-> FALSE, at |-> "unused"]
Waiting == [up |-> TRUE, at |-> "new", dest |-> NoLink, handle |-> 0]
Dialing == [at |-> "dialing", link |-> NoLink]
NoOne == [h \in {} |-> h]

RelayInit ==
    /\ servers = NoLink /\ clients = NoOne /\ next = 1
    /\ link = [l \in Link |-> Unused]
    /\ dial = Dialing
    /\ client = [c \in Client |-> Waiting]
    /\ session = [c \in Client |-> "none"]
    /\ voice = [m \in Member |-> NoSink] /\ bound = NoOne
    /\ newest = NoLink /\ prompt \in BOOLEAN /\ faults = 0

With(f, h, x) == [k \in DOMAIN f \cup {h} |-> IF k = h THEN x ELSE f[k]]
Without(f, h) == [k \in DOMAIN f \ {h} |-> f[k]]

Handling(l, at) == link[l].at = at
Target(c) == client[c].dest
Handle(c) == client[c].handle
At(c, at) == client[c].at = at
Goto(c, at) == client' = [client EXCEPT ![c].at = at]

-----------------------------------------------------------------------------
(* The server's link: connect_and_serve on one side, handle_register on the *)
(* other. Either side learns by itself that the link is gone.               *)

Dial(l) ==
    /\ dial.at = "dialing" /\ link[l] = Unused /\ \A k \in 1..(l - 1) : link[k] # Unused
    /\ prompt => \A k \in Link : ~Handling(k, "new")
    /\ link' = [link EXCEPT ![l] = [up |-> TRUE, at |-> "new"]]
    /\ dial' = [at |-> "waiting", link |-> l]
    /\ UNCHANGED <<relay, session, voice, bound, client, newest, prompt, faults>>

(* A stream that has arrived is read from a closed connection, too. *)
Register(l) ==
    /\ Handling(l, "new")
    /\ servers' = l /\ newest' = l
    /\ link' = [link EXCEPT ![l].at = "acking"]
    /\ UNCHANGED <<clients, next, server, client, prompt, faults>>

NeverArrived(l) ==
    /\ Handling(l, "new") /\ ~link[l].up
    /\ link' = [link EXCEPT ![l].at = "gone"]
    /\ UNCHANGED <<relay, server, client, newest, prompt, faults>>

(* A write that fails ends the task, and the registration stays. It fails   *)
(* as soon as the loss of the link is known.                                *)
Acknowledge(l) ==
    /\ Handling(l, "acking")
    /\ \/ link' = [link EXCEPT ![l].at = "serving"]
       \/ ~link[l].up /\ link' = [link EXCEPT ![l].at = "gone"]
    /\ UNCHANGED <<relay, server, client, newest, prompt, faults>>

HearAck(l) ==
    /\ dial = [at |-> "waiting", link |-> l] /\ Handling(l, "serving")
    /\ dial' = [dial EXCEPT !.at = "serving"]
    /\ UNCHANGED <<relay, session, voice, bound, link, client, newest, prompt, faults>>

ServerNotices(l) ==
    /\ dial.link = l /\ ~link[l].up
    /\ dial' = Dialing
    /\ UNCHANGED <<relay, session, voice, bound, link, client, newest, prompt, faults>>

(* The seeded mistake: whoever closes clears the registration. *)
ClosesAnything(l) == servers # NoLink
StillOurs(l) == servers = l

RelayNotices(l) ==
    /\ Handling(l, "serving") /\ ~link[l].up
    /\ servers' = IF StillOurs(l) THEN NoLink ELSE servers
    /\ link' = [link EXCEPT ![l].at = "gone"]
    /\ UNCHANGED <<clients, next, server, client, newest, prompt, faults>>

-----------------------------------------------------------------------------
(* A client's connection: handle_connect and bridge_client.                 *)

Connect(c) ==
    /\ At(c, "new")
    /\ client' = [client EXCEPT ![c].at = IF servers = NoLink THEN "refused" ELSE "acking",
                                ![c].dest = servers]
    /\ UNCHANGED <<relay, server, link, newest, prompt, faults>>

(* The seeded mistake: the least handle not in use. *)
LeastFree == CHOOSE h \in 1..next :
    h \notin DOMAIN clients /\ \A k \in 1..(h - 1) : k \in DOMAIN clients
NextHandle == next

(* The acknowledgement is written, a handle taken. The counter starts over  *)
(* after 2^32 connections in one life of the relay, when handles would be   *)
(* taken twice: MaxHandle stays below that.                                 *)
Allocate(c) ==
    /\ At(c, "acking") /\ next <= MaxHandle
    /\ client' = [client EXCEPT ![c].at = "listing", ![c].handle = NextHandle]
    /\ next' = next + 1
    /\ UNCHANGED <<servers, clients, server, link, newest, prompt, faults>>

Unacknowledged(c) ==
    /\ At(c, "acking") /\ ~client[c].up
    /\ Goto(c, "gone")
    /\ UNCHANGED <<relay, server, link, newest, prompt, faults>>

(* From here on its datagrams are forwarded, until it closes. *)
List(c) ==
    /\ At(c, "listing")
    /\ clients' = With(clients, Handle(c), c)
    /\ Goto(c, "bridged")
    /\ UNCHANGED <<servers, next, server, link, newest, prompt, faults>>

OpenPrimary(c) ==
    /\ At(c, "bridged") /\ client[c].up /\ link[Target(c)].up
    /\ session[c] = "none"
    /\ session' = [session EXCEPT ![c] = "offered"]
    /\ UNCHANGED <<relay, dial, voice, bound, link, client, newest, prompt, faults>>

(* The client is gone, or a stream of it finds the server gone. *)
BridgeEnds(c) ==
    /\ At(c, "bridged") /\ (~client[c].up \/ ~link[Target(c)].up)
    /\ Goto(c, "leaving")
    /\ UNCHANGED <<relay, server, link, newest, prompt, faults>>

(* The seeded mistake: an error of the bridge returns before the cleanup. *)
UnlistedWhenClosed(c) == IF client[c].up THEN clients ELSE Without(clients, Handle(c))
Unlisted(c) == Without(clients, Handle(c))

Unlist(c) ==
    /\ At(c, "leaving")
    /\ clients' = Unlisted(c)
    /\ Goto(c, "gone")
    /\ UNCHANGED <<servers, next, server, link, newest, prompt, faults>>

ClientCloses(c) ==
    /\ client[c].up /\ ~At(c, "new")
    /\ client' = [client EXCEPT ![c].up = FALSE]
    /\ UNCHANGED <<relay, server, link, newest, prompt, faults>>

-----------------------------------------------------------------------------
(* The primary stream on the server: serve_relay_stream, run_relay_primary. *)

Become(c, from, to) ==
    /\ session[c] = from
    /\ session' = [session EXCEPT ![c] = to]
    /\ UNCHANGED <<relay, dial, link, client, newest, prompt, faults>>

Accept(c) ==
    /\ dial = [at |-> "serving", link |-> Target(c)]
    /\ Become(c, "offered", "accepted")
    /\ UNCHANGED <<voice, bound>>

Authenticate(c) == Become(c, "accepted", "known") /\ UNCHANGED <<voice, bound>>

Broken(c) == ~client[c].up \/ ~link[Target(c)].up

(* An accepted one ends without a session when authentication fails, too. *)
StreamDies(c) ==
    /\ (Become(c, "offered", "done") /\ Broken(c)) \/ Become(c, "accepted", "done")
    /\ UNCHANGED <<voice, bound>>

OpenSink(c) ==
    /\ Become(c, "known", "sunk")
    /\ voice' = [voice EXCEPT ![Holder[c]] = <<Target(c), Handle(c)>>]
    /\ UNCHANGED bound

Bind(c) ==
    /\ Become(c, "sunk", "live")
    /\ bound' = With(bound, Handle(c), Holder[c])
    /\ UNCHANGED voice

EndSession(c) == Become(c, "live", "unsink") /\ UNCHANGED <<voice, bound>>

CloseSink(c) ==
    /\ Become(c, "unsink", "unbind")
    /\ voice' = [voice EXCEPT ![Holder[c]] = NoSink]
    /\ UNCHANGED bound

Unbind(c) ==
    /\ Become(c, "unbind", "done")
    /\ bound' = Without(bound, Handle(c))
    /\ UNCHANGED voice

-----------------------------------------------------------------------------
(* Datagrams: route_server_datagrams takes one the server sends over l to   *)
(* the client listed under its handle; forward_client_datagrams stamps one  *)
(* a client sends, and the server takes it for the member it has bound.     *)

Reaches(l, h) == {clients[k] : k \in {k \in DOMAIN clients : k = h /\ link[l].up}}
TakenFor(c) == {bound[k] : k \in {k \in DOMAIN bound : k = Handle(c) /\ link[Target(c)].up}}

-----------------------------------------------------------------------------
(* What goes wrong. *)

Fault == faults < MaxFaults /\ faults' = faults + 1 /\ UNCHANGED prompt

LinkBreaks(l) ==
    /\ Fault /\ link[l].up
    /\ link' = [link EXCEPT ![l].up = FALSE]
    /\ UNCHANGED <<relay, server, client, newest>>

(* Its tables are empty, its handles start at 1 again. *)
RelayRestarts ==
    /\ Fault
    /\ servers' = NoLink /\ clients' = NoOne /\ next' = 1 /\ newest' = NoLink
    /\ link' = [l \in Link |-> IF link[l] = Unused THEN Unused
                               ELSE [up |-> FALSE, at |-> "gone"]]
    /\ client' = [c \in Client |-> IF At(c, "new") THEN client[c]
                                   ELSE [client[c] EXCEPT !.up = FALSE, !.at = "gone"]]
    /\ UNCHANGED server

ServerRestarts ==
    /\ Fault
    /\ dial' = Dialing
    /\ session' = [c \in Client |-> IF session[c] = "none" THEN "none" ELSE "done"]
    /\ voice' = [m \in Member |-> NoSink] /\ bound' = NoOne
    /\ link' = [l \in Link |-> IF dial.link = l THEN [link[l] EXCEPT !.up = FALSE]
                               ELSE link[l]]
    /\ UNCHANGED <<relay, client, newest>>

-----------------------------------------------------------------------------

LinkStep(l) ==
    \/ Dial(l) \/ Register(l) \/ NeverArrived(l) \/ Acknowledge(l)
    \/ HearAck(l) \/ ServerNotices(l) \/ RelayNotices(l)

ClientStep(c) ==
    \/ Connect(c) \/ Allocate(c) \/ Unacknowledged(c) \/ List(c)
    \/ OpenPrimary(c) \/ BridgeEnds(c) \/ Unlist(c) \/ ClientCloses(c)

SessionStep(c) ==
    \/ Accept(c) \/ Authenticate(c) \/ StreamDies(c) \/ OpenSink(c) \/ Bind(c)
    \/ EndSession(c) \/ CloseSink(c) \/ Unbind(c)

RelayNext ==
    \/ \E l \in Link : LinkStep(l) \/ LinkBreaks(l)
    \/ \E c \in Client : ClientStep(c) \/ SessionStep(c)
    \/ RelayRestarts \/ ServerRestarts

RelaySpec == RelayInit /\ [][RelayNext]_relayVars

(* Tasks that can run do, either end of a dead link learns of it, and the   *)
(* server dials again.                                                      *)
FairRelaySpec == RelaySpec /\ WF_relayVars(\E l \in Link : LinkStep(l))

-----------------------------------------------------------------------------
(* Properties. *)

ClientAt == {"new", "refused", "acking", "listing", "bridged", "leaving", "gone"}
SessionAt == {"none", "offered", "accepted", "known", "sunk", "live", "unsink",
              "unbind", "done"}

(* Types; and the relay lists a client under its own handle as long as its  *)
(* task is bridging, and nobody else.                                       *)
RelayTypeOK ==
    /\ servers \in Link \cup {NoLink} /\ next \in Nat \ {0} /\ faults \in 0..MaxFaults
    /\ link \in [Link -> [up : BOOLEAN, at : {"unused", "new", "acking", "serving", "gone"}]]
    /\ dial \in [at : {"dialing", "waiting", "serving"}, link : Link \cup {NoLink}]
    /\ client \in [Client -> [up : BOOLEAN, at : ClientAt, dest : Link \cup {NoLink},
                              handle : Nat]]
    /\ session \in [Client -> SessionAt]
    /\ \A m \in Member : voice[m] \in (Link \X Nat) \cup {NoSink}
    /\ \A h \in DOMAIN bound : bound[h] \in Member
    /\ \A h \in DOMAIN clients : /\ clients[h] \in Client /\ Handle(clients[h]) = h
                                 /\ client[clients[h]].at \in {"bridged", "leaving"}
    /\ \A c \in Client : At(c, "bridged") \/ At(c, "leaving") =>
            Handle(c) \in DOMAIN clients /\ clients[Handle(c)] = c

(* The link that registered last leads to the server as long as its task    *)
(* lives, whatever older ones do when they close.                           *)
NewestRegistrationKept ==
    newest # NoLink /\ link[newest].at \in {"acking", "serving"} => servers = newest

(* A frame the server sends to a member over a link that is up reaches a    *)
(* connection of theirs or nobody: a handle is not used twice in the life   *)
(* of a relay.                                                              *)
SentToItsMember ==
    \A m \in Member : voice[m] # NoSink =>
        \A c \in Reaches(voice[m][1], voice[m][2]) : Holder[c] = m

(* Sessions that share a handle: a relay restarted between them. *)
Twins(c) == {x \in Client \ {c} : Handle(x) = Handle(c)}
Unfinished(x) == session[x] \notin {"none", "done"}

(* A frame a client sends is taken for its holder's or dropped, and that of *)
(* a live session is not dropped. Only a session over a relay that has      *)
(* since restarted, and gave out the same handle, gets in the way.          *)
TakenForItsSender ==
    \A c \in Client : Handle(c) # 0 =>
        /\ (\A x \in Twins(c) : ~Unfinished(x)) => TakenFor(c) \subseteq {Holder[c]}
        /\ session[c] = "live" /\ link[Target(c)].up /\ (\A x \in Twins(c) : session[x] = "none") =>
               TakenFor(c) # {}

(* What the tables of both ends lead to, while links break, tasks end late  *)
(* and either end restarts: "Only remove if it is still OUR connection"     *)
(* (handle_register), "so the server can authoritatively bind the handle"   *)
(* (bridge_client).                                                         *)
RoutesAreTrue == NewestRegistrationKept /\ SentToItsMember /\ TakenForItsSender

(* After the last fault the server is registered over a link both ends      *)
(* serve, and stays so (serve_via_relay): if the relay reads a registration *)
(* before the next link comes up. Read later, the one of a dead link takes  *)
(* the place of the living and is removed with it.                          *)
Reachable == \E l \in Link : /\ servers = l /\ link[l] = [up |-> TRUE, at |-> "serving"]
                             /\ dial = [at |-> "serving", link |-> l]
ServerComesBack == prompt => <>[]Reachable
=============================================================================
