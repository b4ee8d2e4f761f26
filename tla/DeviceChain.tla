---------------------------- MODULE DeviceChain ----------------------------
(***************************************************************************)
(* One installation writing its chain of events to one mesh server.        *)
(*                                                                         *)
(* Every command that authors an event takes the client's one chain lock,  *)
(* loads the saved chain position, authorizes the device if that is still  *)
(* to be done, submits its event, and saves the advanced position once the *)
(* acceptance has arrived (client/src-tauri/src/commands.rs, device.rs).   *)
(* The server stores an event only when it extends the chain head          *)
(* (check_chain).  Between them are requests and answers that a dropped    *)
(* connection loses or leaves to be processed late, and a client that may  *)
(* be killed at any moment.  LogAuthz is the rest of what the server       *)
(* checks; here its verdict on a well-chained event is a choice.           *)
(***************************************************************************)
EXTENDS Naturals, Sequences

CONSTANTS
    Command,      \* what the user asks for, retries included
    Joins,        \* the commands that join the server (join_log_server)
    Unready,      \* the commands that never authorize the device (submit_message_deleted)
    Refusable,    \* the commands whose event the payload rules may refuse
    Auth,         \* the payload that authorizes the device
    Stamp,        \* the seconds an event can be signed in
    NoHash,       \* "no previous event"
    Faults,       \* what may go wrong in this instance
    MaxFaults     \* bound: how often something does

ASSUME ChainConstants ==
    /\ Joins \subseteq Command
    /\ Unready \subseteq Command \ Joins
    /\ Refusable \subseteq Command
    /\ Auth \notin Command
    /\ Faults \subseteq {"drop", "crash", "save", "answer"}
    /\ MaxFaults \in Nat

VARIABLES
    log,          \* server: the stored events of this chain, oldest first
    standing,     \* server: the author's standing, which others change too
    position,     \* client disk: DeviceState, as if fresh when there is no file
    readable,     \* client disk: the state file parses
    phase,        \* client memory: how far each command has come
    loaded,       \* client memory: the position each command works from
    connected,    \* the connection to the server is up
    requests,     \* submitted events the server has not looked at
    answers,      \* verdicts that have not reached the client
    faults        \* how often something went wrong

serverVars == <<log, standing>>
diskVars == <<position, readable>>
netVars == <<connected, requests, answers>>
chainVars == <<serverVars, diskVars, phase, loaded, netVars, faults>>

Payload == Command \cup {Auth}

(* A hash is what tells stored events apart: it leaves out prev, which the  *)
(* same chain gives the same value for the same seq.                        *)
Hash == Nat \X Payload \X Stamp
Event == [seq : Nat, prev : Hash \cup {NoHash}, payload : Payload, at : Stamp]
HashOf(e) == <<e.seq, e.payload, e.at>>

Position == [next_seq : Nat, last_event_hash : Hash \cup {NoHash},
             authorized : BOOLEAN, joined : BOOLEAN]

Fresh == [next_seq |-> 0, last_event_hash |-> NoHash, authorized |-> FALSE, joined |-> FALSE]

Advanced(p, e) == [p EXCEPT !.next_seq = e.seq + 1, !.last_event_hash = HashOf(e)]

Request == [by : Command, event : Event, live : BOOLEAN]
Answer == [by : Command, event : Event, verdict : {"accepted", "refused", "already_member"}]

Holding == {"building", "authorizing", "submitting"}
Ended == {"ok", "failed"}

Init ==
    /\ log = <<>>
    /\ standing \in {"none", "member"}
    /\ position = Fresh
    /\ readable = TRUE
    /\ phase = [c \in Command |-> "idle"]
    /\ loaded = [c \in Command |-> Fresh]
    /\ connected = TRUE
    /\ requests = {}
    /\ answers = {}
    /\ faults = 0

-----------------------------------------------------------------------------
(* Commands: everything up to the answer. *)

(* Something of this kind goes wrong. *)
Fault(kind) ==
    /\ kind \in Faults
    /\ faults < MaxFaults
    /\ faults' = faults + 1

LockFreeUnlessWriting == \A c \in Command : phase[c] # "building"

(* No command is between loading the position and its own end. *)
LockFree == \A c \in Command : phase[c] \notin Holding

(* The user starts a command, or repeats one that failed. *)
Issue(c) ==
    /\ phase[c] \in {"idle", "failed"}
    /\ phase' = [phase EXCEPT ![c] = "waiting"]
    /\ UNCHANGED <<serverVars, diskVars, loaded, netVars, faults>>

Acquire(c) ==
    /\ phase[c] = "waiting"
    /\ LockFree
    /\ \/ ~readable /\ phase' = [phase EXCEPT ![c] = "failed"] /\ UNCHANGED loaded
       \/ /\ readable
          /\ c \in Joins /\ position.joined
          /\ phase' = [phase EXCEPT ![c] = "ok"]
          /\ UNCHANGED loaded
       \/ /\ readable
          /\ ~(c \in Joins /\ position.joined)
          /\ phase' = [phase EXCEPT ![c] = "building"]
          /\ loaded' = [loaded EXCEPT ![c] = position]
    /\ UNCHANGED <<serverVars, diskVars, netVars, faults>>

NeedsAuth(c) == c \notin Unready /\ ~loaded[c].authorized

Built(c, payload, at) ==
    [seq |-> loaded[c].next_seq, prev |-> loaded[c].last_event_hash, payload |-> payload, at |-> at]

Send(c, payload, at) ==
    /\ connected
    /\ requests' = requests \cup {[by |-> c, event |-> Built(c, payload, at), live |-> TRUE]}
    /\ UNCHANGED <<serverVars, diskVars, loaded, connected, answers, faults>>

SubmitAuth(c, at) ==
    /\ phase[c] = "building"
    /\ NeedsAuth(c)
    /\ Send(c, Auth, at)
    /\ phase' = [phase EXCEPT ![c] = "authorizing"]

Submit(c, at) ==
    /\ phase[c] = "building"
    /\ ~NeedsAuth(c)
    /\ Send(c, c, at)
    /\ phase' = [phase EXCEPT ![c] = "submitting"]

(* No connection to send on, or no such invite (ResolveInvite). *)
GivesUp(c) ==
    /\ phase[c] = "building"
    /\ ~connected \/ (c \in Joins /\ ~NeedsAuth(c))
    /\ phase' = [phase EXCEPT ![c] = "failed"]
    /\ UNCHANGED <<serverVars, diskVars, loaded, netVars, faults>>

-----------------------------------------------------------------------------
(* The server: check, store, answer, under one lock. *)

CheckChainForGaps(e) == e.seq <= Len(log)

CheckChain(e) ==
    IF log = <<>> THEN e.seq = 0 /\ e.prev = NoHash
    ELSE e.seq = Len(log) /\ e.prev = HashOf(log[Len(log)])

DeviceKnown(e) == e.payload = Auth \/ \E i \in DOMAIN log : log[i].payload = Auth

Admissible(e) ==
    \/ e.payload = Auth
    \/ e.payload \in Joins /\ standing = "none"
    \/ e.payload \in Command \ Joins /\ standing = "member"

ReplyUnlessRefused(r, verdict) ==
    IF r.live /\ verdict # "refused"
    THEN answers \cup {[by |-> r.by, event |-> r.event, verdict |-> verdict]}
    ELSE answers

Reply(r, verdict) ==
    IF r.live THEN answers \cup {[by |-> r.by, event |-> r.event, verdict |-> verdict]} ELSE answers

(* An event is stored whether or not its sender is still there; an error    *)
(* while the announcements are put together answers a stored event with one. *)
ServerAccepts(r) ==
    /\ DeviceKnown(r.event)
    /\ CheckChain(r.event)
    /\ Admissible(r.event)
    /\ log' = Append(log, r.event)
    /\ IF r.event.payload \in Joins THEN standing' \in {"pending", "member"} ELSE UNCHANGED standing
    /\ \/ answers' = Reply(r, "accepted") /\ UNCHANGED faults
       \/ answers' = Reply(r, "refused") /\ Fault("answer")
    /\ requests' = requests \ {r}
    /\ UNCHANGED <<diskVars, phase, loaded, connected>>

AlreadyMember(e) ==
    DeviceKnown(e) /\ CheckChain(e) /\ e.payload \in Joins /\ standing = "member"

ServerRefuses(r) ==
    /\ \/ ~(DeviceKnown(r.event) /\ CheckChain(r.event) /\ Admissible(r.event))
       \/ r.event.payload \in Refusable
    /\ answers' = Reply(r, IF AlreadyMember(r.event) THEN "already_member" ELSE "refused")
    /\ requests' = requests \ {r}
    /\ UNCHANGED <<serverVars, diskVars, phase, loaded, connected, faults>>

(* Other members approve and remove; the identity's other devices join. *)
StandingMoves ==
    /\ \/ standing = "none" /\ standing' \in {"pending", "member"}
       \/ standing = "pending" /\ standing' \in {"none", "member"}
       \/ standing = "member" /\ standing' = "none"
    /\ UNCHANGED <<log, diskVars, phase, loaded, netVars, faults>>

-----------------------------------------------------------------------------
(* Commands: from the answer on. *)

Settled(c, a) ==
    IF phase[c] = "authorizing" THEN [Advanced(loaded[c], a.event) EXCEPT !.authorized = TRUE]
    ELSE [Advanced(loaded[c], a.event) EXCEPT !.joined = @ \/ c \in Joins]

Saves(c, p) ==
    /\ position' = p
    /\ loaded' = [loaded EXCEPT ![c] = p]
    /\ phase' = [phase EXCEPT ![c] = IF @ = "authorizing" THEN "building" ELSE "ok"]
    /\ UNCHANGED <<readable, faults>>

(* DeviceState::save fails, before or after it truncated the file. *)
SaveFails(c) ==
    /\ Fault("save")
    /\ readable' \in {readable, FALSE}
    /\ phase' = [phase EXCEPT ![c] = "failed"]
    /\ UNCHANGED <<position, loaded>>

AnswerAccepted(c, a) ==
    /\ a.by = c /\ a.verdict = "accepted"
    /\ phase[c] \in {"authorizing", "submitting"}
    /\ Saves(c, Settled(c, a)) \/ SaveFails(c)
    /\ answers' = answers \ {a}
    /\ UNCHANGED <<serverVars, connected, requests>>

AlreadyJoinedAdvancing(c, a) == [Advanced(loaded[c], a.event) EXCEPT !.joined = TRUE]

(* A join the log finds unnecessary succeeds, at the position it started from. *)
AlreadyJoined(c, a) == [loaded[c] EXCEPT !.joined = TRUE]

AnswerAlreadyMember(c, a) ==
    /\ a.by = c /\ a.verdict = "already_member"
    /\ phase[c] = "submitting"
    /\ Saves(c, AlreadyJoined(c, a)) \/ SaveFails(c)
    /\ answers' = answers \ {a}
    /\ UNCHANGED <<serverVars, connected, requests>>

AnswerRefused(c, a) ==
    /\ a.by = c /\ a.verdict = "refused"
    /\ phase[c] \in {"authorizing", "submitting"}
    /\ phase' = [phase EXCEPT ![c] = "failed"]
    /\ answers' = answers \ {a}
    /\ UNCHANGED <<serverVars, diskVars, loaded, connected, requests, faults>>

-----------------------------------------------------------------------------
(* What goes wrong. *)

Unheard == {[r EXCEPT !.live = FALSE] : r \in requests}

(* The event reader ends.  Nothing fails the requests it owed an answer: a  *)
(* command that awaits one keeps waiting, and keeps the lock.               *)
ConnectionDrops ==
    /\ Fault("drop")
    /\ connected
    /\ connected' = FALSE
    /\ requests' = Unheard
    /\ answers' = {}
    /\ UNCHANGED <<serverVars, diskVars, phase, loaded>>

Reconnects ==
    /\ ~connected
    /\ connected' = TRUE
    /\ UNCHANGED <<serverVars, diskVars, phase, loaded, requests, answers, faults>>

(* A request on a connection that is gone need not reach the handler, which *)
(* is also what a restart of the server does to it.                         *)
RequestLost(r) ==
    /\ ~r.live
    /\ requests' = requests \ {r}
    /\ UNCHANGED <<serverVars, diskVars, phase, loaded, connected, answers, faults>>

(* The application is killed, possibly while it rewrites the state file. *)
Crash ==
    /\ Fault("crash")
    /\ phase' = [c \in Command |-> IF phase[c] \in Holding \cup {"waiting"} THEN "failed" ELSE phase[c]]
    /\ \/ UNCHANGED readable
       \/ /\ "save" \in Faults
          /\ \E a \in answers : a.verdict # "refused"
          /\ readable' = FALSE
    /\ connected' = FALSE
    /\ requests' = Unheard
    /\ answers' = {}
    /\ UNCHANGED <<serverVars, position, loaded>>

-----------------------------------------------------------------------------
Writes(c) ==
    \/ \E at \in Stamp : SubmitAuth(c, at) \/ Submit(c, at)
    \/ GivesUp(c)

Hears(c) ==
    \E a \in answers : AnswerAccepted(c, a) \/ AnswerAlreadyMember(c, a) \/ AnswerRefused(c, a)

ServerTakes == \E r \in requests : ServerAccepts(r) \/ ServerRefuses(r)

Next ==
    \/ \E c \in Command : Issue(c) \/ Acquire(c) \/ Writes(c) \/ Hears(c)
    \/ ServerTakes
    \/ \E r \in requests : RequestLost(r)
    \/ StandingMoves
    \/ ConnectionDrops
    \/ Reconnects
    \/ Crash

(* The lock is handed on in the order it was asked for; a task that can run *)
(* does, the server takes what reached it, and the client reconnects.       *)
Fairness ==
    /\ \A c \in Command : WF_chainVars(Issue(c)) /\ SF_chainVars(Acquire(c))
    /\ \A c \in Command : WF_chainVars(Writes(c)) /\ WF_chainVars(Hears(c))
    /\ WF_chainVars(ServerTakes)
    /\ WF_chainVars(Reconnects)

ChainSpec == Init /\ [][Next]_chainVars
FairChainSpec == ChainSpec /\ Fairness

-----------------------------------------------------------------------------
(* Properties. *)

(* Each part of the state has its type; no two commands hold the lock. *)
ChainTypeOK ==
    /\ log \in Seq(Event)
    /\ standing \in {"none", "pending", "member"}
    /\ position \in Position
    /\ readable \in BOOLEAN
    /\ phase \in [Command -> {"idle", "waiting"} \cup Holding \cup Ended]
    /\ loaded \in [Command -> Position]
    /\ connected \in BOOLEAN
    /\ requests \subseteq Request
    /\ answers \subseteq Answer
    /\ faults \in 0..MaxFaults
    /\ \A c1, c2 \in Command : phase[c1] \in Holding /\ phase[c2] \in Holding => c1 = c2

OnChain(p) ==
    /\ p.next_seq \in 0..Len(log)
    /\ p.last_event_hash = IF p.next_seq = 0 THEN NoHash ELSE HashOf(log[p.next_seq])
    /\ p.authorized => \E i \in 1..p.next_seq : log[i].payload = Auth

(* The saved position is a point of the chain the server has: never past    *)
(* its head, never on another branch (the advance after acceptance only).   *)
SavedIsOnChain == OnChain(position)

Copies(c) == {i \in DOMAIN log : log[i].payload = c}

(* However often the user repeats a command whose outcome was lost, its     *)
(* event is stored at most once; and a command that reported success, other *)
(* than a join somebody made unnecessary, has stored it.                    *)
StoredOnce ==
    \A c \in Command :
        /\ \A i, j \in Copies(c) : i = j
        /\ phase[c] = "ok" /\ c \notin Joins => Copies(c) # {}

(* The saved position never moves back: the chain lock spans load and save. *)
PositionNeverRetreats == [][position'.next_seq >= position.next_seq]_chainVars

AtHead == position.next_seq = Len(log)

(* A command that was started comes to an end: the awaited answer arrives   *)
(* or its channel closes.                                                   *)
CommandsEnd == \A c \in Command : phase[c] \in {"waiting"} \cup Holding ~> phase[c] \in Ended

(* So it does as long as nothing has gone wrong. *)
CommandsEndInCalm ==
    \A c \in Command :
        phase[c] \in {"waiting"} \cup Holding ~> phase[c] \in Ended \/ faults > 0

(* A client whose position fell behind catches up with the chain head. *)
StaleIsRepaired == ~AtHead ~> AtHead
=============================================================================
