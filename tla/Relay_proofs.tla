---------------------------- MODULE Relay_proofs ----------------------------
(* The safety properties of Relay, for any number of links, clients and     *)
(* faults.                                                                  *)
EXTENDS Relay, TLAPS

LinkState == [up : BOOLEAN, at : {"unused", "new", "acking", "serving", "gone"}]
ClientState == [up : BOOLEAN, at : ClientAt, dest : Link \cup {NoLink}, handle : Nat]
Bridging == {"listing", "bridged", "leaving"}
Bound == {"live", "unsink", "unbind"}

Typed ==
    /\ servers \in Link \cup {NoLink} /\ next \in Nat \ {0} /\ faults \in 0..MaxFaults
    /\ newest \in Link \cup {NoLink}
    /\ link \in [Link -> LinkState]
    /\ dial \in [at : {"dialing", "waiting", "serving"}, link : Link \cup {NoLink}]
    /\ client \in [Client -> ClientState]
    /\ session \in [Client -> SessionAt]
    /\ voice \in [Member -> (Link \X Nat) \cup {NoSink}]

(* What is pointed to has been dialled. *)
Dialled(l) == l # NoLink => link[l].at # "unused"
Targets ==
    /\ Dialled(servers)
    /\ \A l \in Link : link[l].up => link[l].at # "unused"
    /\ \A c \in Client :
        /\ Dialled(Target(c))
        /\ client[c].at \in {"new", "refused", "acking"} => Handle(c) = 0
        /\ At(c, "acking") => Target(c) # NoLink
        /\ client[c].at \in Bridging => Handle(c) # 0
        /\ Handle(c) # 0 => Target(c) # NoLink
        /\ session[c] # "none" => Handle(c) # 0

(* Handles the relay gave out in this life of it. *)
Current(c) ==
    Handle(c) # 0 /\ (client[c].at \in Bridging \/ link[Target(c)].up)
HandlesDiffer ==
    /\ \A c \in Client : Current(c) => Handle(c) < next
    /\ \A c, x \in Client : Current(c) /\ Current(x) /\ Handle(c) = Handle(x) => c = x

Listed ==
    /\ \A h \in DOMAIN clients : /\ clients[h] \in Client /\ Handle(clients[h]) = h
                                 /\ client[clients[h]].at \in {"bridged", "leaving"}
    /\ \A c \in Client : At(c, "bridged") \/ At(c, "leaving") =>
            Handle(c) \in DOMAIN clients /\ clients[Handle(c)] = c

(* Whose a sink and a binding are. *)
SinksOwned ==
    \A m \in Member : voice[m] # NoSink =>
        \E c \in Client : /\ Holder[c] = m /\ session[c] # "none"
                          /\ voice[m] = <<Target(c), Handle(c)>>
BindingsOwned ==
    \A h \in DOMAIN bound :
        \E c \in Client : Handle(c) = h /\ session[c] \in Bound /\ bound[h] = Holder[c]
LiveAreBound ==
    \A c \in Client : session[c] = "live" /\ (\A x \in Twins(c) : session[x] = "none") =>
        Handle(c) \in DOMAIN bound

RelayInv ==
    /\ Typed /\ Targets /\ HandlesDiffer /\ Listed
    /\ NewestRegistrationKept /\ SinksOwned /\ BindingsOwned /\ LiveAreBound

LEMMA RelayInvInit == RelayInit => RelayInv
<1> SUFFICES ASSUME RelayInit PROVE RelayInv
    OBVIOUS
<1> USE RelayAssumption DEF RelayInit, Handle, Target, At
<1>1. Typed
    BY DEF Typed, Unused, Waiting, Dialing, LinkState, ClientState, ClientAt, SessionAt,
           Link, NoLink
<1>2. Targets
    BY DEF Targets, Dialled, Unused, Waiting, Bridging, NoLink
<1>3. HandlesDiffer
    BY DEF HandlesDiffer, Current, Waiting
<1>4. Listed /\ BindingsOwned
    BY DEF Listed, BindingsOwned, NoOne, Waiting
<1>5. NewestRegistrationKept /\ SinksOwned /\ LiveAreBound
    BY DEF NewestRegistrationKept, SinksOwned, LiveAreBound
<1> QED
    BY <1>1, <1>2, <1>3, <1>4, <1>5 DEF RelayInv

-----------------------------------------------------------------------------
(* The server's links.  No handle becomes current that was not: a link that *)
(* comes up was pointed to by nobody.                                       *)

LEMMA FaultsAreBounded == Typed /\ Fault => faults' \in 0..MaxFaults
    BY RelayAssumption DEF Typed, Fault

LEMMA LinksKeepClients ==
    ASSUME RelayInv, UNCHANGED <<clients, next, client, session, voice, bound>>,
           link' \in [Link -> LinkState],
           \A l \in Link : /\ link'[l].up /\ ~link[l].up => link[l].at = "unused"
                           /\ link[l].at # "unused" => link'[l].at # "unused"
                           /\ link'[l].up => link'[l].at # "unused",
           servers' \in Link \cup {NoLink}, Dialled(servers)'
    PROVE  Targets' /\ HandlesDiffer' /\ Listed' /\ SinksOwned' /\ BindingsOwned' /\ LiveAreBound'
<1> USE DEF RelayInv
<1>1. Targets'
    BY DEF Targets, Dialled, Handle, Target, At, Typed, ClientState, NoLink
<1>2. \A c \in Client : Current(c)' => Current(c)
    BY DEF Current, Handle, Target, Targets, Dialled, Typed, ClientState, NoLink
<1>3. HandlesDiffer'
    BY <1>2 DEF HandlesDiffer, Handle
<1>4. Listed' /\ BindingsOwned'
    BY DEF Listed, BindingsOwned, Handle, At
<1>5. SinksOwned' /\ LiveAreBound'
    BY DEF SinksOwned, LiveAreBound, Handle, Target, Twins
<1> QED
    BY <1>1, <1>3, <1>4, <1>5

LEMMA LinkStepKeeps ==
    ASSUME RelayInv, NEW l \in Link, LinkStep(l) \/ LinkBreaks(l)
    PROVE  RelayInv'
<1> USE DEF RelayInv, Handling, relay, server
<1>1. CASE Dial(l)
  <2> USE <1>1 DEF Dial
  <2>1. Typed'
    BY DEF Typed, LinkState
  <2>2. NewestRegistrationKept'
    BY DEF NewestRegistrationKept, Typed, LinkState, Unused
  <2> QED
    BY <2>1, <2>2, LinksKeepClients DEF Typed, LinkState, Unused, Targets, Dialled, NoLink
<1>2. CASE Register(l)
  <2> USE <1>2 DEF Register
  <2>1. Typed'
    BY DEF Typed, LinkState
  <2>2. NewestRegistrationKept'
    BY DEF NewestRegistrationKept
  <2> QED
    BY <2>1, <2>2, LinksKeepClients DEF Typed, LinkState, Targets, Dialled, NoLink
<1>3. CASE NeverArrived(l)
  <2> USE <1>3 DEF NeverArrived
  <2>1. Typed'
    BY DEF Typed, LinkState
  <2>2. NewestRegistrationKept'
    BY DEF NewestRegistrationKept, Typed, LinkState
  <2> QED
    BY <2>1, <2>2, LinksKeepClients DEF Typed, LinkState, Targets, Dialled, NoLink
<1>4. CASE Acknowledge(l)
  <2> USE <1>4 DEF Acknowledge
  <2>1. Typed'
    BY DEF Typed, LinkState
  <2>2. NewestRegistrationKept'
    BY DEF NewestRegistrationKept, Typed, LinkState
  <2> QED
    BY <2>1, <2>2, LinksKeepClients DEF Typed, LinkState, Targets, Dialled, NoLink
<1>5. CASE HearAck(l) \/ ServerNotices(l)
  <2> USE <1>5 DEF HearAck, ServerNotices
  <2>1. Typed'
    BY DEF Typed, Dialing
  <2>2. NewestRegistrationKept'
    BY DEF NewestRegistrationKept
  <2> QED
    BY <2>1, <2>2, LinksKeepClients DEF Typed, LinkState, Targets, Dialled, NoLink
<1>6. CASE RelayNotices(l)
  <2> USE <1>6 DEF RelayNotices, StillOurs
  <2>1. Typed'
    BY DEF Typed, LinkState
  <2>2. NewestRegistrationKept'
    BY DEF NewestRegistrationKept, Typed, LinkState
  <2> QED
    BY <2>1, <2>2, LinksKeepClients DEF Typed, LinkState, Targets, Dialled, NoLink
<1>7. CASE LinkBreaks(l)
  <2> USE <1>7 DEF LinkBreaks, Fault
  <2>0. faults' \in 0..MaxFaults
    BY RelayAssumption DEF Typed
  <2>1. Typed'
    BY <2>0 DEF Typed, LinkState
  <2>2. NewestRegistrationKept'
    BY DEF NewestRegistrationKept, Typed, LinkState
  <2> QED
    BY <2>1, <2>2, LinksKeepClients DEF Typed, LinkState, Targets, Dialled, NoLink
<1> QED
    BY <1>1, <1>2, <1>3, <1>4, <1>5, <1>6, <1>7 DEF LinkStep

-----------------------------------------------------------------------------
(* The clients' connections.                                                *)

(* A client's task moves on; the handle it has, and where it leads, it      *)
(* keeps.                                                                   *)
LEMMA ClientsKeepSessions ==
    ASSUME RelayInv, UNCHANGED <<session, voice, bound>>,
           \A c \in Client : Handle(c) # 0 =>
               Handle(c)' = Handle(c) /\ Target(c)' = Target(c)
    PROVE  SinksOwned' /\ BindingsOwned' /\ LiveAreBound'
<1> USE DEF RelayInv
<1>1. \A c \in Client : session[c] # "none" => Handle(c)' = Handle(c) /\ Target(c)' = Target(c)
    BY DEF Targets
<1>2. SinksOwned'
    BY <1>1 DEF SinksOwned
<1>3. BindingsOwned'
    BY <1>1 DEF BindingsOwned, Bound
<1>4. ASSUME NEW c \in Client, session'[c] = "live", \A x \in Twins(c)' : session'[x] = "none"
      PROVE  Handle(c)' \in DOMAIN bound'
  <2>1. \A x \in Twins(c) : session[x] = "none"
    BY <1>1, <1>4 DEF Twins
  <2> QED
    BY <1>1, <1>4, <2>1 DEF LiveAreBound
<1>5. LiveAreBound'
    BY <1>4 DEF LiveAreBound
<1> QED
    BY <1>2, <1>3, <1>5

LEMMA ClientStepKeeps ==
    ASSUME RelayInv, NEW c \in Client, ClientStep(c)
    PROVE  RelayInv'
<1> USE DEF RelayInv, relay, server, At, Goto
<1>1. CASE Connect(c)
  <2> USE <1>1 DEF Connect
  <2>a. client[c] \in ClientState /\ servers \in Link \cup {NoLink}
    BY DEF Typed
  <2>b. \E at \in ClientAt : client'[c] = [up |-> client[c].up, at |-> at, dest |-> servers,
                                         handle |-> client[c].handle]
    BY <2>a DEF Typed, ClientState, ClientAt
  <2>c. client'[c] \in ClientState
    BY <2>a, <2>b DEF ClientState, ClientAt
  <2>0. client' \in [Client -> ClientState]
    BY <2>c DEF Typed
  <2>1. Typed'
    BY <2>0 DEF Typed
  <2>2. Targets'
    BY DEF Typed, ClientState, Targets, Dialled, Handle, Target, Bridging
  <2>3. HandlesDiffer'
    BY DEF Typed, ClientState, Targets, HandlesDiffer, Current, Handle, Target, Bridging
  <2>4. Listed' /\ NewestRegistrationKept'
    BY DEF Typed, ClientState, Listed, NewestRegistrationKept, Handle
  <2>9. \A x \in Client : Handle(x) # 0 => Handle(x)' = Handle(x) /\ Target(x)' = Target(x)
    BY DEF Typed, ClientState, Targets, Handle, Target
  <2> QED
    BY <2>1, <2>2, <2>3, <2>4, <2>9, ClientsKeepSessions
<1>2. CASE Allocate(c)
  <2> USE <1>2 DEF Allocate, NextHandle
  <2>a. client[c] \in ClientState /\ next \in Nat
    BY DEF Typed
  <2>b. client'[c] = [up |-> client[c].up, at |-> "listing", dest |-> client[c].dest,
                      handle |-> next]
    BY <2>a DEF Typed, ClientState
  <2>c. client'[c] \in ClientState
    BY <2>a, <2>b DEF ClientState, ClientAt
  <2>0. client' \in [Client -> ClientState]
    BY <2>c DEF Typed
  <2>1. Typed'
    BY <2>0 DEF Typed
  <2>2. Targets'
    BY DEF Typed, ClientState, Targets, Dialled, Handle, Target, Bridging
  <2>3. \A x \in Client \ {c} : Handle(x)' = Handle(x) /\ (Current(x)' => Current(x))
    BY DEF Typed, ClientState, Current, Handle, Target
  <2>4. Handle(c)' = next
    BY DEF Typed, ClientState, Handle
  <2>5. HandlesDiffer'
    <3>1. \A x \in Client \ {c} : Current(x)' => Handle(x)' < next
      BY <2>3 DEF HandlesDiffer
    <3>2. \A x \in Client : Current(x)' => Handle(x)' < next'
      BY <2>4, <3>1 DEF Typed, Handle, ClientState
    <3>3. ASSUME NEW x \in Client, NEW y \in Client, Current(x)', Current(y)',
                 Handle(x)' = Handle(y)'
          PROVE  x = y
      <4>1. CASE x = c \/ y = c
        BY <2>4, <3>1, <3>3, <4>1 DEF Typed
      <4>2. CASE x # c /\ y # c
        BY <2>3, <3>3, <4>2 DEF HandlesDiffer
      <4> QED
        BY <4>1, <4>2
    <3> QED
      BY <3>2, <3>3 DEF HandlesDiffer
  <2>6. Listed' /\ NewestRegistrationKept'
    BY DEF Typed, ClientState, Listed, NewestRegistrationKept, Handle
  <2>9. \A x \in Client : Handle(x) # 0 => Handle(x)' = Handle(x) /\ Target(x)' = Target(x)
    BY DEF Typed, ClientState, Targets, Handle, Target
  <2> QED
    BY <2>1, <2>2, <2>5, <2>6, <2>9, ClientsKeepSessions
<1>3. CASE Unacknowledged(c) \/ BridgeEnds(c) \/ ClientCloses(c)
  <2> USE <1>3 DEF Unacknowledged, BridgeEnds, ClientCloses
  <2>a. client[c] \in ClientState
    BY DEF Typed
  <2>b. client'[c] = [client[c] EXCEPT !.at = "gone"] \/
        client'[c] = [client[c] EXCEPT !.at = "leaving"] \/
        client'[c] = [client[c] EXCEPT !.up = FALSE]
    BY DEF Typed
  <2>c. client'[c] \in ClientState
    BY <2>a, <2>b DEF ClientState, ClientAt
  <2>0. client' \in [Client -> ClientState]
    BY <2>c DEF Typed
  <2>1. Typed'
    BY <2>0 DEF Typed
  <2>2. Targets'
    BY DEF Typed, ClientState, Targets, Dialled, Handle, Target, Bridging
  <2>3. HandlesDiffer'
    BY DEF Typed, ClientState, HandlesDiffer, Current, Handle, Target, Bridging
  <2>4. Listed' /\ NewestRegistrationKept'
    BY DEF Typed, ClientState, Listed, NewestRegistrationKept, Handle
  <2>9. \A x \in Client : Handle(x) # 0 => Handle(x)' = Handle(x) /\ Target(x)' = Target(x)
    BY DEF Typed, ClientState, Targets, Handle, Target
  <2> QED
    BY <2>1, <2>2, <2>3, <2>4, <2>9, ClientsKeepSessions
<1>4. CASE List(c)
  <2> USE <1>4 DEF List, With
  <2>1. Typed'
    BY DEF Typed, ClientState, ClientAt
  <2>2. Targets'
    BY DEF Typed, ClientState, Targets, Dialled, Handle, Target, Bridging
  <2>3. HandlesDiffer'
    BY DEF Typed, ClientState, HandlesDiffer, Current, Handle, Target, Bridging
  <2>4. \A x \in Client \ {c} : client[x].at \in Bridging => Handle(x) # Handle(c)
    BY DEF Targets, HandlesDiffer, Current, Bridging
  <2>5. \A h \in DOMAIN clients : h # Handle(c)
    BY <2>4 DEF Listed, Bridging
  <2>6. Listed'
    BY <2>4, <2>5 DEF Typed, ClientState, Listed, Handle, Bridging
  <2>7. NewestRegistrationKept'
    BY DEF NewestRegistrationKept
  <2>9. \A x \in Client : Handle(x) # 0 => Handle(x)' = Handle(x) /\ Target(x)' = Target(x)
    BY DEF Typed, ClientState, Targets, Handle, Target
  <2> QED
    BY <2>1, <2>2, <2>3, <2>6, <2>7, <2>9, ClientsKeepSessions
<1>5. CASE OpenPrimary(c)
  <2> USE <1>5 DEF OpenPrimary
  <2>1. Typed'
    BY DEF Typed, SessionAt
  <2>2. Targets' /\ HandlesDiffer'
    BY DEF Typed, Targets, Dialled, HandlesDiffer, Current, Handle, Target, Bridging
  <2>3. Listed' /\ NewestRegistrationKept'
    BY DEF Listed, NewestRegistrationKept, Handle
  <2>4. SinksOwned'
    BY DEF Typed, SinksOwned, Handle, Target
  <2>5. BindingsOwned'
    BY DEF Typed, BindingsOwned, Handle, Bound
  <2>6. LiveAreBound'
    BY DEF Typed, LiveAreBound, Handle, Twins
  <2> QED
    BY <2>1, <2>2, <2>3, <2>4, <2>5, <2>6
<1>6. CASE Unlist(c)
  <2> USE <1>6 DEF Unlist, Unlisted, Without
  <2>1. Typed'
    BY DEF Typed, ClientState, ClientAt
  <2>2. Targets'
    BY DEF Typed, ClientState, Targets, Dialled, Handle, Target, Bridging
  <2>3. HandlesDiffer'
    BY DEF Typed, ClientState, HandlesDiffer, Current, Handle, Target, Bridging
  <2>4. \A x \in Client \ {c} : client[x].at \in Bridging => Handle(x) # Handle(c)
    BY DEF Targets, HandlesDiffer, Current, Bridging
  <2>5. Listed'
    BY <2>4 DEF Typed, ClientState, Listed, Handle, Bridging
  <2>6. NewestRegistrationKept'
    BY DEF NewestRegistrationKept
  <2>9. \A x \in Client : Handle(x) # 0 => Handle(x)' = Handle(x) /\ Target(x)' = Target(x)
    BY DEF Typed, ClientState, Targets, Handle, Target
  <2> QED
    BY <2>1, <2>2, <2>3, <2>5, <2>6, <2>9, ClientsKeepSessions
<1> QED
    BY <1>1, <1>2, <1>3, <1>4, <1>5, <1>6 DEF ClientStep

-----------------------------------------------------------------------------
(* The sessions on the server.                                              *)

(* A session that has begun moves on: what it does not touch is kept.       *)
LEMMA SessionsKeepRelay ==
    ASSUME RelayInv, NEW c \in Client, session[c] # "none",
           UNCHANGED <<relay, dial, link, client, newest, prompt, faults>>,
           NEW to \in SessionAt, session' = [session EXCEPT ![c] = to],
           voice' \in [Member -> (Link \X Nat) \cup {NoSink}]
    PROVE  Typed' /\ Targets' /\ HandlesDiffer' /\ Listed' /\ NewestRegistrationKept'
<1> USE DEF RelayInv, relay
<1>1. Typed'
    BY DEF Typed
<1>2. Targets'
    BY DEF Typed, Targets, Dialled, Handle, Target, At
<1>3. HandlesDiffer'
    BY DEF HandlesDiffer, Current, Handle, Target
<1>4. Listed' /\ NewestRegistrationKept'
    BY DEF Listed, NewestRegistrationKept, Handle, At
<1> QED
    BY <1>1, <1>2, <1>3, <1>4

LEMMA SessionStepKeeps ==
    ASSUME RelayInv, NEW c \in Client, SessionStep(c)
    PROVE  RelayInv'
<1> USE DEF RelayInv, Become
<1>0. /\ Typed' /\ Targets' /\ HandlesDiffer' /\ Listed' /\ NewestRegistrationKept'
      /\ session[c] # "none" /\ session'[c] # "none" /\ UNCHANGED client
      /\ \A x \in Client \ {c} : session'[x] = session[x]
  <2>1. PICK to \in SessionAt \ {"none"} : session' = [session EXCEPT ![c] = to]
    BY DEF SessionStep, Accept, Authenticate, StreamDies, OpenSink, Bind, EndSession,
           CloseSink, Unbind, SessionAt
  <2>2. session[c] # "none" /\ UNCHANGED <<relay, dial, link, client, newest, prompt, faults>>
    BY DEF SessionStep, Accept, Authenticate, StreamDies, OpenSink, Bind, EndSession,
           CloseSink, Unbind, relay
  <2>3. voice' \in [Member -> (Link \X Nat) \cup {NoSink}]
    <3>1. CASE OpenSink(c)
      <4>1. Handle(c) # 0 /\ Target(c) # NoLink
        BY <2>2 DEF Targets
      <4>2. <<Target(c), Handle(c)>> \in Link \X Nat
        BY <4>1 DEF Typed, ClientState, Target, Handle
      <4> QED
        BY <3>1, <4>2 DEF OpenSink, Typed
    <3>2. CASE ~OpenSink(c)
      BY <3>2 DEF Typed, SessionStep, Accept, Authenticate, StreamDies, Bind, EndSession,
                  CloseSink, Unbind
    <3> QED
      BY <3>1, <3>2
  <2> QED
    BY <2>1, <2>2, <2>3, SessionsKeepRelay DEF Typed
<1>1. CASE Accept(c) \/ Authenticate(c) \/ StreamDies(c) \/ EndSession(c)
  <2> USE <1>1 DEF Accept, Authenticate, StreamDies, EndSession
  <2>1. SinksOwned'
    BY <1>0 DEF SinksOwned, Handle, Target
  <2>2. BindingsOwned'
    BY <1>0 DEF BindingsOwned, Handle, Bound, Typed
  <2>3. LiveAreBound'
    BY <1>0 DEF LiveAreBound, Handle, Twins, Typed
  <2> QED
    BY <1>0, <2>1, <2>2, <2>3
<1>2. CASE OpenSink(c) \/ CloseSink(c)
  <2> USE <1>2 DEF OpenSink, CloseSink
  <2>1. SinksOwned'
    BY <1>0, RelayAssumption DEF SinksOwned, Handle, Target, Typed
  <2>2. BindingsOwned'
    BY <1>0 DEF BindingsOwned, Handle, Bound, Typed
  <2>3. LiveAreBound'
    BY <1>0 DEF LiveAreBound, Handle, Twins, Typed
  <2> QED
    BY <1>0, <2>1, <2>2, <2>3
<1>3. CASE Bind(c)
  <2> USE <1>3 DEF Bind, With
  <2>1. SinksOwned'
    BY <1>0 DEF SinksOwned, Handle, Target
  <2>a. session'[c] = "live" /\ Handle(c)' = Handle(c)
    BY <1>0 DEF Typed, Handle
  <2>b. ASSUME NEW h \in DOMAIN bound'
        PROVE  \E x \in Client : Handle(x)' = h /\ session'[x] \in Bound /\ bound'[h] = Holder[x]
    <3>1. CASE h = Handle(c)
      BY <2>a, <3>1 DEF Bound
    <3>2. CASE h # Handle(c)
      <4>1. h \in DOMAIN bound /\ bound'[h] = bound[h]
        BY <3>2
      <4>2. PICK x \in Client : Handle(x) = h /\ session[x] \in Bound /\ bound[h] = Holder[x]
        BY <4>1 DEF BindingsOwned
      <4> QED
        BY <1>0, <3>2, <4>1, <4>2 DEF Handle
    <3> QED
      BY <3>1, <3>2
  <2>2. BindingsOwned'
    BY <2>b DEF BindingsOwned
  <2>3. LiveAreBound'
    BY <1>0 DEF LiveAreBound, Handle, Twins, Typed
  <2> QED
    BY <1>0, <2>1, <2>2, <2>3
<1>4. CASE Unbind(c)
  <2> USE <1>4 DEF Unbind, Without
  <2>1. SinksOwned'
    BY <1>0 DEF SinksOwned, Handle, Target
  <2>b. ASSUME NEW h \in DOMAIN bound'
        PROVE  \E x \in Client : Handle(x)' = h /\ session'[x] \in Bound /\ bound'[h] = Holder[x]
    <3>1. h \in DOMAIN bound /\ h # Handle(c) /\ bound'[h] = bound[h]
      OBVIOUS
    <3>2. PICK x \in Client : Handle(x) = h /\ session[x] \in Bound /\ bound[h] = Holder[x]
      BY <3>1 DEF BindingsOwned
    <3> QED
      BY <1>0, <3>1, <3>2 DEF Handle
  <2>2. BindingsOwned'
    BY <2>b DEF BindingsOwned
  <2>3. ASSUME NEW x \in Client, session'[x] = "live", \A y \in Twins(x)' : session'[y] = "none"
        PROVE  Handle(x)' \in DOMAIN bound'
    <3>1. x # c /\ Handle(x) # Handle(c)
      BY <1>0, <2>3 DEF Twins, Handle, Typed
    <3>2. session[x] = "live" /\ \A y \in Twins(x) : session[y] = "none"
      BY <1>0, <2>3, <3>1 DEF Twins, Handle
    <3> QED
      BY <1>0, <3>1, <3>2 DEF LiveAreBound, Handle
  <2> QED
    BY <1>0, <2>1, <2>2, <2>3 DEF LiveAreBound
<1> QED
    BY <1>1, <1>2, <1>3, <1>4 DEF SessionStep

-----------------------------------------------------------------------------
(* Restarts.                                                                *)

(* Every connection is gone: no handle given out before is current.         *)
LEMMA RelayRestartKeeps == RelayInv /\ RelayRestarts => RelayInv'
<1> SUFFICES ASSUME RelayInv, RelayRestarts PROVE RelayInv'
    OBVIOUS
<1>0. faults' \in 0..MaxFaults
    BY FaultsAreBounded DEF RelayInv, RelayRestarts
<1> USE DEF RelayInv, RelayRestarts, Fault, server
<1>1. \A l \in Link : /\ link'[l] \in LinkState /\ ~link'[l].up
                      /\ link[l].at # "unused" => link'[l].at # "unused"
    BY DEF Typed, LinkState, Unused
<1>2. \A c \in Client : /\ client'[c] \in ClientState /\ client'[c].at \in {"new", "gone"}
                        /\ client'[c].handle = client[c].handle /\ client'[c].dest = client[c].dest
                        /\ client'[c].at = "new" => client[c].at = "new"
  <2> TAKE c \in Client
  <2>1. client[c] \in ClientState
    BY DEF Typed
  <2>2. CASE At(c, "new")
    BY <2>1, <2>2 DEF At, Handle, Target
  <2>3. CASE ~At(c, "new")
    <3>1. client'[c] = [up |-> FALSE, at |-> "gone", dest |-> Target(c), handle |-> Handle(c)]
      BY <2>1, <2>3 DEF At, ClientState, Handle, Target
    <3>2. client[c].dest \in Link \cup {NoLink} /\ client[c].handle \in Nat
      BY <2>1 DEF ClientState
    <3> HIDE DEF RelayRestarts, Fault, RelayInv
    <3> QED
      BY <3>1, <3>2 DEF ClientState, ClientAt, Handle, Target
  <2> QED
    BY <2>2, <2>3
<1>3. Typed'
  <2>1. client' \in [Client -> ClientState]
    BY <1>2 DEF At
  <2>2. link' \in [Link -> LinkState]
    BY <1>1
  <2>3. servers' = NoLink /\ next' = 1 /\ newest' = NoLink
    OBVIOUS
  <2>4. UNCHANGED <<dial, session, voice>>
    OBVIOUS
  <2> HIDE DEF RelayRestarts, Fault
  <2> QED
    BY <1>0, <2>1, <2>2, <2>3, <2>4 DEF Typed
<1>4. Targets'
  <2>1. Dialled(servers)' /\ \A l \in Link : ~link'[l].up
    BY <1>1 DEF Dialled
  <2>2. ASSUME NEW c \in Client
        PROVE  /\ Dialled(Target(c))'
               /\ client'[c].at \in {"new", "refused", "acking"} => Handle(c)' = 0
               /\ ~At(c, "acking")' /\ client'[c].at \notin Bridging
               /\ Handle(c)' # 0 => Target(c)' # NoLink
               /\ session'[c] # "none" => Handle(c)' # 0
    <3>1. /\ Dialled(Target(c))
          /\ client[c].at = "new" => Handle(c) = 0
          /\ Handle(c) # 0 => Target(c) # NoLink
          /\ session[c] # "none" => Handle(c) # 0
          /\ Target(c) \in Link \cup {NoLink}
      BY DEF Targets, Typed, ClientState, Target
    <3>2. session' = session
      OBVIOUS
    <3> HIDE DEF RelayRestarts, Fault, RelayInv
    <3> QED
      <4>1. Target(c)' = Target(c) /\ Handle(c)' = Handle(c)
        BY <1>2 DEF Target, Handle
      <4>2. Dialled(Target(c))'
        BY <1>1, <3>1, <4>1 DEF Dialled, NoLink
      <4>3. client'[c].at \in {"new", "gone"} /\ (client'[c].at = "new" => Handle(c) = 0)
        BY <1>2, <3>1
      <4>4. ~At(c, "acking")' /\ client'[c].at \notin Bridging
        BY <4>3 DEF At, Bridging
      <4>5. client'[c].at \in {"new", "refused", "acking"} => Handle(c)' = 0
        BY <4>1, <4>3
      <4> QED
        BY <3>1, <3>2, <4>1, <4>2, <4>4, <4>5
  <2> HIDE DEF RelayRestarts, Fault, RelayInv
  <2> QED
    BY <2>1, <2>2 DEF Targets
<1>5. \A c \in Client : ~Current(c)'
    BY <1>1, <1>2, <1>4 DEF Current, Targets, Bridging, Typed, ClientState, NoLink, Handle, Target
<1>6. HandlesDiffer' /\ NewestRegistrationKept'
    BY <1>5 DEF HandlesDiffer, NewestRegistrationKept
<1>7. Listed'
    BY <1>2 DEF Listed, NoOne, At
<1>8. /\ UNCHANGED <<session, voice, bound>>
      /\ \A c \in Client : Handle(c) # 0 => Handle(c)' = Handle(c) /\ Target(c)' = Target(c)
    BY <1>2 DEF Handle, Target
<1> HIDE DEF RelayRestarts, Fault
<1> QED
    BY <1>3, <1>4, <1>6, <1>7, <1>8, ClientsKeepSessions

LEMMA ServerRestartKeeps == RelayInv /\ ServerRestarts => RelayInv'
<1> SUFFICES ASSUME RelayInv, ServerRestarts PROVE RelayInv'
    OBVIOUS
<1>0. faults' \in 0..MaxFaults
    BY FaultsAreBounded DEF RelayInv, ServerRestarts
<1> USE DEF RelayInv, ServerRestarts, Fault, relay
<1>1. \A l \in Link : /\ link'[l] \in LinkState /\ link'[l].at = link[l].at
                      /\ link'[l].up => link[l].up
    BY DEF Typed, LinkState
<1>2. Typed'
    BY <1>0, <1>1 DEF Typed, Dialing, SessionAt, NoLink
<1>3. Targets'
    BY <1>1 DEF Typed, ClientState, Targets, Dialled, Handle, Target, At, NoLink
<1>4. \A c \in Client : Current(c)' => Current(c)
    BY <1>1 DEF Current, Targets, Typed, ClientState, NoLink, Handle, Target
<1>5. HandlesDiffer'
    BY <1>4 DEF HandlesDiffer, Handle
<1>6. Listed' /\ NewestRegistrationKept'
    BY <1>1 DEF Listed, NewestRegistrationKept, Typed, Handle, At, NoLink
<1>7. SinksOwned' /\ BindingsOwned' /\ LiveAreBound'
    BY DEF SinksOwned, BindingsOwned, LiveAreBound, NoOne
<1> QED
    BY <1>2, <1>3, <1>5, <1>6, <1>7

-----------------------------------------------------------------------------
(* The theorems.                                                            *)

LEMMA RelayInvStep == RelayInv /\ [RelayNext]_relayVars => RelayInv'
<1> SUFFICES ASSUME RelayInv, [RelayNext]_relayVars PROVE RelayInv'
    OBVIOUS
<1>1. CASE RelayNext
    BY <1>1, LinkStepKeeps, ClientStepKeeps, SessionStepKeeps, RelayRestartKeeps,
       ServerRestartKeeps DEF RelayNext
<1>2. CASE UNCHANGED relayVars
    BY <1>2 DEF relayVars, relay, server, RelayInv, Typed, Targets, Dialled, HandlesDiffer,
                Current, Listed, NewestRegistrationKept, SinksOwned, BindingsOwned,
                LiveAreBound, Twins, Handle, Target, At
<1> QED
    BY <1>1, <1>2

(* The inductive invariant holds of the relay, the server behind it and     *)
(* their clients: no two live connections share a routing handle, and every *)
(* sink and binding is that of a session which has not cleaned up yet.      *)
THEOREM RelayIsSound == RelaySpec => []RelayInv
    BY RelayInvInit, RelayInvStep, PTL DEF RelaySpec

LEMMA InvGivesTypes == RelayInv => RelayTypeOK
<1> SUFFICES ASSUME RelayInv PROVE RelayTypeOK
    OBVIOUS
<1>1. \A h \in DOMAIN bound : bound[h] \in Member
    BY RelayAssumption DEF RelayInv, BindingsOwned
<1> QED
    BY <1>1 DEF RelayInv, Typed, Listed, RelayTypeOK, LinkState, ClientState

LEMMA InvGivesRoutes == RelayInv => RoutesAreTrue
<1> SUFFICES ASSUME RelayInv PROVE RoutesAreTrue
    OBVIOUS
<1> USE DEF RelayInv
<1>1. ASSUME NEW m \in Member, voice[m] # NoSink, NEW x \in Reaches(voice[m][1], voice[m][2])
      PROVE  Holder[x] = m
  <2>1. PICK c \in Client : /\ Holder[c] = m /\ session[c] # "none"
                            /\ voice[m] = <<Target(c), Handle(c)>>
    BY <1>1 DEF SinksOwned
  <2>2. link[Target(c)].up /\ Handle(c) \in DOMAIN clients /\ x = clients[Handle(c)]
    BY <1>1, <2>1 DEF Reaches
  <2>3. Current(c)
    BY <2>1, <2>2 DEF Current, Targets
  <2>4. clients[Handle(c)] = c
    BY <2>2, <2>3 DEF Listed, HandlesDiffer, Current, Bridging
  <2> QED
    BY <2>1, <2>2, <2>4
<1>2. ASSUME NEW c \in Client, \A x \in Twins(c) : ~Unfinished(x), NEW m \in TakenFor(c)
      PROVE  m = Holder[c]
  <2>1. Handle(c) \in DOMAIN bound /\ m = bound[Handle(c)]
    BY <1>2 DEF TakenFor
  <2> QED
    BY <1>2, <2>1 DEF BindingsOwned, Bound, Twins, Unfinished
<1>3. ASSUME NEW c \in Client, session[c] = "live", link[Target(c)].up,
             \A x \in Twins(c) : session[x] = "none"
      PROVE  TakenFor(c) # {}
    BY <1>3 DEF LiveAreBound, TakenFor
<1> QED
  <2>1. SentToItsMember
    BY <1>1 DEF SentToItsMember
  <2>2. TakenForItsSender
    BY <1>2, <1>3 DEF TakenForItsSender
  <2> QED
    BY <2>1, <2>2 DEF RoutesAreTrue

(* Types, and the relay's table of clients: a task that lists itself under  *)
(* its handle takes itself off, whatever ended the bridge (handle_connect). *)
THEOREM RelayTypeInvariant == RelaySpec => []RelayTypeOK
    BY RelayIsSound, InvGivesTypes, PTL

(* The registry keeps the newest registration (handle_register), and what   *)
(* the voice sinks (run_relay_primary) and the relay's handles lead to is   *)
(* the member they stand for, for any number of links, clients and faults.  *)
THEOREM RoutesStayTrue == RelaySpec => []RoutesAreTrue
    BY RelayIsSound, InvGivesRoutes, PTL
=============================================================================
